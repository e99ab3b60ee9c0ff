----------------------------- MODULE UpNextPage -----------------------------
(* Mabel's Up Next as the portal shows it (portal/js/playback/                *)
(* mabel-queue.js): the cards on the home page, the rows of the queue page    *)
(* with their buttons, the question before a removal, the one read that may   *)
(* be under way and the poll that asks for it, while other devices change the *)
(* queue too.  What the queue does on the Pi is MabelQueueStore's subject;    *)
(* here it is an order of entries whose first may be starting or playing, and *)
(* nothing is paused, chosen out of turn, played again or repeated.           *)
EXTENDS Naturals, Sequences, FiniteSets, Functions

CONSTANTS
  Entry,       \* entries of the queue, each used once
  MaxTaps,     \* bound on the owner's taps
  MaxUpsets    \* bound on lost requests and on what others do to the queue

ASSUME UpNextAssumption == IsFiniteSet(Entry) /\ "nothing" \notin Entry /\ MaxTaps \in Nat /\ MaxUpsets \in Nat

VARIABLES
  queue,    \* the Pi: [order, phase]
  shown,    \* mabelQueue: the queue as the page has it
  queueRead,   \* mabelQueueLoading: [step, data]
  queueChange, \* changes under way: [action, entry, step, data, question]
  view,     \* "home", "queue" or another page
  question, \* the confirmation: [open, action, entry]
  accept,   \* its button can be pressed
  used,     \* entries that were in the queue once
  taps, upsets,
  late,     \* ghost: the last answer drawn was older than the Pi's queue
  elsewhere \* ghost: what other devices added since an answer was drawn

pageVars == <<queue, shown, queueRead, queueChange, view, question, accept, used, taps, upsets, late, elsewhere>>

Nothing == "nothing"
Waiting(order) == [order |-> order, phase |-> "waiting"]
Idle == [step |-> "idle", data |-> Waiting(<<>>)]
NoQuestion == [open |-> FALSE, action |-> Nothing, entry |-> Nothing]
Active(q) == q.phase # "waiting"
-----------------------------------------------------------------------------
(* The queue's rules (repositories/mabel_queue.py): the entry that starts or  *)
(* plays stays where it is, and nothing moves over it.                        *)
AtWork(q) == IF Active(q) /\ q.order # <<>> THEN Head(q.order) ELSE Nothing
Place(q, e) == CHOOSE i \in DOMAIN q.order : q.order[i] = e
Drop(seq, k) == [i \in 1..(Len(seq) - 1) |-> IF i < k THEN seq[i] ELSE seq[i + 1]]
Exchanged(q, i, j) == [q EXCEPT !.order = [q.order EXCEPT ![i] = q.order[j], ![j] = q.order[i]]]
Beside(action, i) == IF action = "up" THEN i - 1 ELSE i + 1

Accepts(q, action, e) ==
  CASE action = "add" -> TRUE
    [] action = "clear" -> TRUE
    [] action = "start" -> q.order # <<>>
    [] action = "remove" -> e \in Range(q.order) /\ e # AtWork(q)
    [] OTHER -> /\ e \in Range(q.order) /\ e # AtWork(q)
                /\ Beside(action, Place(q, e)) \in DOMAIN q.order
                /\ q.order[Beside(action, Place(q, e))] # AtWork(q)

After(q, action, e) ==
  CASE action = "add" -> [q EXCEPT !.order = Append(q.order, e)]
    [] action = "clear" -> IF q.phase = "playing"
                           THEN [q EXCEPT !.order = SubSeq(q.order, 1, 1)] ELSE Waiting(<<>>)
    [] action = "start" -> IF q.phase = "playing" THEN q ELSE [q EXCEPT !.phase = "starting"]
    [] action = "remove" -> [q EXCEPT !.order = Drop(q.order, Place(q, e))]
    [] OTHER -> Exchanged(q, Place(q, e), Beside(action, Place(q, e)))
-----------------------------------------------------------------------------
(* The buttons of a row and of the page are drawn from what the page has.     *)

(* Plausible bug: a row does not ask what the row above it is doing.          *)
OffersMutant(q, action, e) ==
  LET i == Place(q, e)
      busy(k) == k = 1 /\ Active(q)
  IN CASE action = "up" -> i # 1 /\ ~busy(i)
       [] action = "down" -> i # Len(q.order) /\ ~busy(i)
       [] action = "remove" -> ~busy(i)

(* What is offered of a row: nothing passes, or touches, the entry at work.   *)
Offers(q, action, e) ==
  LET i == Place(q, e)
      busy(k) == k = 1 /\ Active(q)
  IN CASE action = "up" -> i # 1 /\ ~busy(i - 1) /\ ~busy(i)
       [] action = "down" -> i # Len(q.order) /\ ~busy(i)
       [] action = "remove" -> ~busy(i)

OffersStart(q) == q.order # <<>> /\ q.phase # "playing"
OffersClear(q) == q.order # <<>> \/ Active(q)
Rows == Range(shown.order)
-----------------------------------------------------------------------------
(* loadMabelQueue: one read at a time answers everybody.                      *)
Asked == IF queueRead.step = "idle" THEN [step |-> "asked", data |-> queue] ELSE queueRead

(* Every 2.5 s on the home and the queue page, unless the page knows of       *)
(* nothing that could change.                                                 *)
Polls == view = "queue" \/ (view = "home" /\ (Active(shown) \/ shown.order # <<>>))

Poll ==
  /\ Polls /\ queueRead.step = "idle"
  /\ queueRead' = Asked
  /\ UNCHANGED <<queue, shown, queueChange, view, question, accept, used, taps, upsets, late, elsewhere>>

PiReads ==
  /\ queueRead.step = "asked"
  /\ queueRead' = [step |-> "read", data |-> queue]
  /\ UNCHANGED <<queue, shown, queueChange, view, question, accept, used, taps, upsets, late, elsewhere>>

Loaded ==
  /\ queueRead.step = "read"
  /\ shown' = queueRead.data
  /\ late' = (queueRead.data # queue) /\ elsewhere' = {}
  /\ queueRead' = Idle
  /\ UNCHANGED <<queue, queueChange, view, question, accept, used, taps, upsets>>

ReadFails ==
  /\ queueRead.step # "idle" /\ upsets < MaxUpsets
  /\ queueRead' = Idle
  /\ upsets' = upsets + 1
  /\ UNCHANGED <<queue, shown, queueChange, view, question, accept, used, taps, late, elsewhere>>
-----------------------------------------------------------------------------
Tap == taps < MaxTaps /\ taps' = taps + 1
Sends(action, e, asked) ==
  queueChange' = queueChange \cup {[action |-> action, entry |-> e, step |-> "asked",
                          data |-> shown, question |-> asked]}

(* Opening a page reads the queue.                                            *)
Go(v) ==
  /\ view # v /\ ~question.open /\ Tap
  /\ view' = v
  /\ queueRead' = IF v = "away" THEN queueRead ELSE Asked
  /\ UNCHANGED <<queue, shown, queueChange, question, accept, used, upsets, late, elsewhere>>

(* From a programme's sheet.                                                  *)
AddToQueue(e) ==
  /\ view # "queue" /\ e \notin used /\ Tap
  /\ used' = used \cup {e}
  /\ Sends("add", e, FALSE)
  /\ UNCHANGED <<queue, shown, queueRead, view, question, accept, upsets, late, elsewhere>>

MoveItem(e, action) ==
  /\ view = "queue" /\ ~question.open /\ Offers(shown, action, e) /\ Tap
  /\ Sends(action, e, FALSE)
  /\ UNCHANGED <<queue, shown, queueRead, view, question, accept, used, upsets, late, elsewhere>>

Start ==
  /\ view = "queue" /\ ~question.open /\ OffersStart(shown) /\ Tap
  /\ Sends("start", Nothing, FALSE)
  /\ UNCHANGED <<queue, shown, queueRead, view, question, accept, used, upsets, late, elsewhere>>

AskRemove(e) ==
  /\ view = "queue" /\ ~question.open /\ Offers(shown, "remove", e) /\ Tap
  /\ question' = [open |-> TRUE, action |-> "remove", entry |-> e]
  /\ UNCHANGED <<queue, shown, queueRead, queueChange, view, accept, used, upsets, late, elsewhere>>

AskClear ==
  /\ view = "queue" /\ ~question.open /\ OffersClear(shown) /\ Tap
  /\ question' = [open |-> TRUE, action |-> "clear", entry |-> Nothing]
  /\ UNCHANGED <<queue, shown, queueRead, queueChange, view, accept, used, upsets, late, elsewhere>>

Accept ==
  /\ question.open /\ accept /\ Tap
  /\ accept' = FALSE
  /\ Sends(question.action, question.entry, TRUE)
  /\ UNCHANGED <<queue, shown, queueRead, view, question, used, upsets, late, elsewhere>>

Cancel ==
  /\ question.open /\ Tap
  /\ question' = NoQuestion
  /\ UNCHANGED <<queue, shown, queueRead, queueChange, view, accept, used, upsets, late, elsewhere>>

QueueChanges(c) ==
  /\ c.step = "asked"
  /\ IF Accepts(queue, c.action, c.entry)
     THEN LET after == After(queue, c.action, c.entry)
          IN /\ queue' = after
             /\ queueChange' = (queueChange \ {c}) \cup {[c EXCEPT !.step = "done", !.data = after]}
     ELSE /\ queue' = queue
          /\ queueChange' = (queueChange \ {c}) \cup {[c EXCEPT !.step = "refused"]}
  /\ UNCHANGED <<shown, queueRead, view, question, accept, used, taps, upsets, late, elsewhere>>

(* The answer is the queue; a start reads it instead, and a question's answer *)
(* closes the confirmation and frees its button.                              *)
ChangeAnswered(c) ==
  /\ c.step = "done"
  /\ queueChange' = queueChange \ {c}
  /\ IF c.action = "start" THEN queueRead' = Asked /\ UNCHANGED <<shown, late, elsewhere>>
     ELSE /\ shown' = c.data /\ queueRead' = queueRead
          /\ late' = (late \/ c.data # queue) /\ elsewhere' = {}
  /\ IF c.question THEN question' = NoQuestion /\ accept' = TRUE
     ELSE UNCHANGED <<question, accept>>
  /\ UNCHANGED <<queue, view, used, taps, upsets>>

Refused(c) ==
  /\ c.step = "refused"
  /\ queueChange' = queueChange \ {c}
  /\ accept' = (accept \/ c.question)
  /\ UNCHANGED <<queue, shown, queueRead, view, question, used, taps, upsets, late, elsewhere>>

ChangeFails(c) ==
  /\ upsets < MaxUpsets
  /\ queueChange' = queueChange \ {c}
  /\ accept' = (accept \/ c.question)
  /\ upsets' = upsets + 1 /\ late' = (late \/ c.step = "done")
  /\ UNCHANGED <<queue, shown, queueRead, view, question, used, taps, elsewhere>>
-----------------------------------------------------------------------------
(* Another phone, or another page, changes the queue.                         *)
AnotherDevice(action, e) ==
  /\ upsets < MaxUpsets /\ upsets' = upsets + 1
  /\ Accepts(queue, action, e) /\ (action = "add" => e \notin used)
  /\ queue' = After(queue, action, e)
  /\ LET added == IF action = "add" THEN {e} ELSE {}
     IN used' = used \cup added /\ elsewhere' = elsewhere \cup added
  /\ UNCHANGED <<shown, queueRead, queueChange, view, question, accept, taps, late>>

(* markMabelQueuePlaying, advanceMabelQueue, and stopMabelQueue or            *)
(* failMabelQueue: the TV plays the first entry and goes on to the next one,  *)
(* which waits if the queue was paused; or it gives the entry back.           *)
TvPlays ==
  /\ queue.phase = "starting"
  /\ queue' = [queue EXCEPT !.phase = "playing"]
  /\ UNCHANGED <<shown, queueRead, queueChange, view, question, accept, used, taps, upsets, late, elsewhere>>

TvFinishes ==
  /\ queue.phase = "playing"
  /\ \E phase \in {"starting", "waiting"} :
       queue' = IF Len(queue.order) = 1 THEN Waiting(<<>>) ELSE [order |-> Tail(queue.order), phase |-> phase]
  /\ UNCHANGED <<shown, queueRead, queueChange, view, question, accept, used, taps, upsets, late, elsewhere>>

TvStops ==
  /\ Active(queue)
  /\ queue' = [queue EXCEPT !.phase = "waiting"]
  /\ UNCHANGED <<shown, queueRead, queueChange, view, question, accept, used, taps, upsets, late, elsewhere>>

UpNextInit ==
  /\ \E n \in 0..Cardinality(Entry) :
       \E order \in {s \in [1..n -> Entry] : \A i, k \in 1..n : s[i] = s[k] => i = k} :
         queue = Waiting(order) /\ used = Range(order)
  /\ shown = queue
  /\ queueRead = Idle /\ queueChange = {} /\ view \in {"home", "queue"}
  /\ question = NoQuestion /\ accept = TRUE
  /\ taps = 0 /\ upsets = 0 /\ late = FALSE /\ elsewhere = {}

UpNextNext ==
  \/ Poll \/ PiReads \/ Loaded \/ ReadFails
  \/ \E v \in {"home", "queue", "away"} : Go(v)
  \/ \E e \in Entry : AddToQueue(e)
  \/ \E e \in Rows, a \in {"up", "down"} : MoveItem(e, a)
  \/ \E e \in Rows : AskRemove(e)
  \/ Start \/ AskClear \/ Accept \/ Cancel
  \/ \E c \in queueChange : QueueChanges(c)
  \/ \E c \in queueChange : ChangeAnswered(c)
  \/ \E c \in queueChange : Refused(c)
  \/ \E c \in queueChange : ChangeFails(c)
  \/ \E e \in Entry, a \in {"add", "remove", "up", "down", "start", "clear"} : AnotherDevice(a, e)
  \/ TvPlays \/ TvFinishes \/ TvStops

UpNextSpec == UpNextInit /\ [][UpNextNext]_pageVars
-----------------------------------------------------------------------------
(* A page that has the queue of the Pi offers exactly what the Pi accepts:    *)
(* two programs decide by rules of their own which rows are protected         *)
(* (mabelQueueRow, mabel_queue_change).                                        *)
OffersAreAccepted ==
  shown = queue =>
    \A e \in Rows, a \in {"up", "down", "remove"} : Offers(shown, a, e) <=> Accepts(queue, a, e)

(* A question is answered once, however often its button is pressed.          *)
AskedOnce == Cardinality({c \in queueChange : c.question}) <= 1

(* A home page that has stopped to poll shows the queue there is, unless its  *)
(* last answer was late, or all there is was added by other devices since     *)
(* (mabel-queue.js:368): it never misses what it added itself.                *)
StoppedPollMissesOnlyOthers ==
  view = "home" /\ ~Polls /\ queueRead.step = "idle" /\ queueChange = {} =>
    \/ late \/ queue = shown
    \/ queue.order # <<>> /\ Range(queue.order) \subseteq elsewhere

(* The page of Up Next agrees with the program that keeps the queue.          *)
UpNextPageIsTrue == OffersAreAccepted /\ AskedOnce /\ StoppedPollMissesOnlyOthers
=============================================================================
