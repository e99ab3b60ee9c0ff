-------------------------- MODULE MCChannelTimeline --------------------------
EXTENDS ChannelTimeline

(* Programmes of different lengths; the first just fills a slot of the guide. *)
MCDuration == [i \in Items |-> 2 + i]

(* A resume channel of films or of shows, with its history. *)
MCResume ==
  {[guide |-> FALSE, films |-> films, mode |-> "resume", resetAfter |-> 2,
    maxPosition |-> 4, maxAway |-> 1, history |-> TRUE,
    events |-> {"pause", "myTv", "fail", "exit"}] : films \in BOOLEAN}

(* A broadcast channel with a guide, for more than two rounds of its programmes. *)
MCGuide ==
  {[guide |-> TRUE, films |-> FALSE, mode |-> "continuous", resetAfter |-> 0,
    maxPosition |-> 11, maxAway |-> 0, history |-> FALSE,
    events |-> {"retune", "hide"}]}

(* Every interruption together, on short positions. *)
MCInterrupted ==
  {[guide |-> TRUE, films |-> FALSE, mode |-> "continuous", resetAfter |-> 0,
    maxPosition |-> 2, maxAway |-> 0, history |-> FALSE, events |-> Interruptions]}

MCSettings == MCResume \cup MCGuide \cup MCInterrupted

MCFilmsAsleep ==
  {[guide |-> FALSE, films |-> TRUE, mode |-> "resume", resetAfter |-> 0,
    maxPosition |-> 4, maxAway |-> 0, history |-> TRUE, events |-> {"exitAsleep"}]}
=============================================================================
