------------------------------ MODULE StageGate ------------------------------
(* StageGate of tools/studio/lib/stage-resources.cjs: the semaphore in front  *)
(* of the downloads, the encoder and the uploads of the Studio companion.  A  *)
(* task that finds no slot leaves a callback in "waiters"; a task that ends   *)
(* passes its slot to the first of them without touching "active", and the    *)
(* continuation of that one runs later - perhaps after its signal aborted.    *)
EXTENDS Naturals, Sequences, FiniteSets

CONSTANTS Task, Limit

LimitIsPositive == Limit \in Nat \ {0}

VARIABLE gate

Phase == {"out", "waiting", "granted", "inside"}

Empty == [active |-> 0, waiters |-> <<>>, phase |-> [t \in Task |-> "out"]]

At(g, t, phase) == [g.phase EXCEPT ![t] = phase]

(* The callbacks without the one at place k. *)
Without(seq, k) == [i \in 1..(Len(seq) - 1) |-> IF i < k THEN seq[i] ELSE seq[i + 1]]

(* run() up to its first await. *)
Entered(g, t) ==
  IF g.active >= Limit
  THEN [g EXCEPT !.waiters = Append(@, t), !.phase = At(g, t, "waiting")]
  ELSE [g EXCEPT !.active = @ + 1, !.phase = At(g, t, "inside")]

(* The abort listener of a waiting task: its callback leaves the list. *)
Aborted(g, t) ==
  LET k == CHOOSE k \in DOMAIN g.waiters : g.waiters[k] = t
  IN  [g EXCEPT !.waiters = Without(@, k), !.phase = At(g, t, "out")]

(* The continuation of a task whose promise was resolved. *)
Continued(g, t) == [g EXCEPT !.phase = At(g, t, "inside")]

(* The "finally" of run(): the operation ended, or threw, or never began      *)
(* because the signal aborted between the resolve and the continuation.       *)
Left(g, t) ==
  IF g.waiters # <<>>
  THEN [g EXCEPT !.waiters = Tail(@),
                 !.phase = [At(g, t, "out") EXCEPT ![Head(g.waiters)] = "granted"]]
  ELSE [g EXCEPT !.active = @ - 1, !.phase = At(g, t, "out")]

Enter(t)    == gate.phase[t] = "out" /\ gate' = Entered(gate, t)
Abort(t)    == gate.phase[t] = "waiting" /\ gate' = Aborted(gate, t)
Continue(t) == gate.phase[t] = "granted" /\ gate' = Continued(gate, t)
Leave(t)    == gate.phase[t] \in {"granted", "inside"} /\ gate' = Left(gate, t)

\* The laptop's process ends with whatever it was doing.
Restart == gate' = Empty

Init == gate = Empty
Next == Restart \/ \E t \in Task : Enter(t) \/ Abort(t) \/ Continue(t) \/ Leave(t)
Spec == Init /\ [][Next]_gate

-----------------------------------------------------------------------------
Holders == {t \in Task : gate.phase[t] \in {"granted", "inside"}}

TypeOK ==
  gate \in [active : Nat, waiters : Seq(Task), phase : [Task -> Phase]]

\* "active" counts the tasks that were let in and the ones about to be: no slot
\* is lost or invented by an abort, a failure or a hand-over, at most Limit are
\* out, nobody waits beside a free slot, and each waiting task has one callback.
SlotsAreCounted ==
  /\ gate.active = Cardinality(Holders) /\ gate.active <= Limit
  /\ gate.waiters # <<>> => gate.active = Limit
  /\ \A t \in Task : gate.phase[t] = "waiting" <=> \E k \in DOMAIN gate.waiters : gate.waiters[k] = t
  /\ \A k, m \in DOMAIN gate.waiters : gate.waiters[k] = gate.waiters[m] => k = m

\* The semaphore is a line: its slots go to whoever came first.
Fifo == INSTANCE FifoSlots WITH holders <- Holders, line <- gate.waiters
ImplementsFifo == Fifo!Spec
=============================================================================
