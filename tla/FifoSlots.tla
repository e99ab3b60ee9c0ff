------------------------------ MODULE FifoSlots ------------------------------
(* What a stage of the Studio companion promises: at most Limit tasks hold a  *)
(* slot, the others stand in one line, and only the head of the line gets a   *)
(* slot that becomes free.                                                    *)
EXTENDS Naturals, Sequences, FiniteSets

CONSTANTS Task, Limit

VARIABLES
  holders,  \* the tasks that have a slot
  line      \* the tasks that wait, first come first

slots == <<holders, line>>

InLine == {line[k] : k \in DOMAIN line}

(* The line without the task at place k. *)
Without(seq, k) == [i \in 1..(Len(seq) - 1) |-> IF i < k THEN seq[i] ELSE seq[i + 1]]

Init == holders = {} /\ line = <<>>

Take(t) ==
  /\ t \notin holders \cup InLine
  /\ line = <<>> /\ Cardinality(holders) < Limit
  /\ holders' = holders \cup {t}
  /\ UNCHANGED line

StandInLine(t) ==
  /\ t \notin holders \cup InLine
  /\ Cardinality(holders) = Limit
  /\ line' = Append(line, t)
  /\ UNCHANGED holders

GiveUp(k) == k \in DOMAIN line /\ line' = Without(line, k) /\ UNCHANGED holders

HandOver(t) ==
  /\ t \in holders
  /\ \/ line = <<>> /\ holders' = holders \ {t} /\ UNCHANGED line
     \/ /\ line # <<>>
        /\ holders' = (holders \ {t}) \cup {Head(line)}
        /\ line' = Tail(line)

\* The process that keeps the slots ends, and a new one begins.
Restart == holders' = {} /\ line' = <<>>

Next ==
  \/ \E t \in Task : Take(t) \/ StandInLine(t) \/ HandOver(t)
  \/ \E k \in DOMAIN line : GiveUp(k)
  \/ Restart

Spec == Init /\ [][Next]_slots
=============================================================================
