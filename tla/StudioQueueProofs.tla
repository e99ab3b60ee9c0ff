-------------------------- MODULE StudioQueueProofs --------------------------
(* The transfer queue of the laptop (StudioQueue) and the semaphore in front  *)
(* of its stages (StageGate): for any jobs, any set of tasks and any limits.  *)
EXTENDS StageGate, StudioQueue, FiniteSetTheorems, WellFoundedInduction, TLAPS

HoldersOf(g) == {t \in Task : g.phase[t] \in {"granted", "inside"}}

InLine(g, t) == \E k \in DOMAIN g.waiters : g.waiters[k] = t

(* The gate.  What its steps preserve: SlotsAreCounted over a finite set of holders.     *)
Counted(g) ==
  /\ g \in [active : Nat, waiters : Seq(Task), phase : [Task -> Phase]]
  /\ IsFiniteSet(HoldersOf(g))
  /\ g.active = Cardinality(HoldersOf(g)) /\ g.active <= Limit
  /\ g.waiters # <<>> => g.active = Limit
  /\ \A t \in Task : g.phase[t] = "waiting" <=> InLine(g, t)
  /\ \A k, m \in DOMAIN g.waiters : g.waiters[k] = g.waiters[m] => k = m

LEMMA EmptyIsCounted ==
  ASSUME LimitIsPositive
  PROVE  Counted(Empty)
<1>1. HoldersOf(Empty) = {}
  BY DEF HoldersOf, Empty
<1>2. IsFiniteSet({}) /\ Cardinality({}) = 0
  BY FS_EmptySet
<1>3. Empty \in [active : Nat, waiters : Seq(Task), phase : [Task -> Phase]]
  BY DEF Empty, Phase
<1>4. Empty.active = 0 /\ Empty.waiters = <<>> /\ Empty.phase = [t \in Task |-> "out"]
  BY DEF Empty
<1> QED BY <1>1, <1>2, <1>3, <1>4 DEF LimitIsPositive, Counted, InLine

(* A task that enters either takes a free slot or ends the line.              *)
LEMMA EnterKeepsCount ==
  ASSUME LimitIsPositive, NEW g, NEW t \in Task, Counted(g), g.phase[t] = "out"
  PROVE  Counted(Entered(g, t))
<1> DEFINE h == Entered(g, t)
<1>a. g.phase \in [Task -> Phase] /\ g.waiters \in Seq(Task) /\ g.active \in Nat
  BY DEF Counted
<1>b. g = [active |-> g.active, waiters |-> g.waiters, phase |-> g.phase]
  BY DEF Counted
<1>1. CASE g.active >= Limit
  <2>1. h.active = g.active /\ h.waiters = Append(g.waiters, t)
        /\ h.phase = [g.phase EXCEPT ![t] = "waiting"]
        /\ h = [active |-> g.active, waiters |-> Append(g.waiters, t),
                phase |-> [g.phase EXCEPT ![t] = "waiting"]]
    BY <1>1, <1>b DEF Entered, At
  <2>2. h \in [active : Nat, waiters : Seq(Task), phase : [Task -> Phase]]
    <3>1. [g.phase EXCEPT ![t] = "waiting"] \in [Task -> Phase] /\ Append(g.waiters, t) \in Seq(Task)
      BY <1>a DEF Phase
    <3> HIDE DEF h
    <3> QED BY <2>1, <3>1, <1>a
  <2>3. HoldersOf(h) = HoldersOf(g)
    BY <2>1, <1>a DEF HoldersOf
  <2>4. DOMAIN h.waiters = 1..(Len(g.waiters) + 1) /\ h.waiters[Len(g.waiters) + 1] = t
        /\ DOMAIN g.waiters = 1..Len(g.waiters) /\ Len(g.waiters) \in Nat
        /\ \A k \in DOMAIN g.waiters : h.waiters[k] = g.waiters[k]
    BY <2>1, <1>a
  <2>5. ~InLine(g, t)
    BY DEF Counted
  <2>6. \A u \in Task : InLine(h, u) <=> u = t \/ InLine(g, u)
    BY <2>4 DEF InLine
  <2>7. \A u \in Task : h.phase[u] = "waiting" <=> InLine(h, u)
    BY <2>1, <2>6, <1>a DEF Counted
  <2>8. \A k, m \in DOMAIN h.waiters : h.waiters[k] = h.waiters[m] => k = m
    BY <2>4, <2>5 DEF Counted, InLine
  <2>9. h.active = Limit
    BY <2>1, <1>1 DEF LimitIsPositive, Counted
  <2> HIDE DEF h
  <2>10. IsFiniteSet(HoldersOf(h)) /\ h.active = Cardinality(HoldersOf(h)) /\ h.active <= Limit
    BY <2>1, <2>3, <2>9 DEF LimitIsPositive, Counted
  <2>11. Counted(h)
    BY <2>2, <2>7, <2>8, <2>9, <2>10 DEF Counted
  <2> QED BY <2>11 DEF h
<1>2. CASE ~(g.active >= Limit)
  <2>1. h.active = g.active + 1 /\ h.waiters = g.waiters
        /\ h.phase = [g.phase EXCEPT ![t] = "inside"]
        /\ h = [active |-> g.active + 1, waiters |-> g.waiters,
                phase |-> [g.phase EXCEPT ![t] = "inside"]]
    BY <1>2, <1>b DEF Entered, At
  <2>2. h \in [active : Nat, waiters : Seq(Task), phase : [Task -> Phase]]
    <3>1. [g.phase EXCEPT ![t] = "inside"] \in [Task -> Phase] /\ g.active + 1 \in Nat
      BY <1>a DEF Phase
    <3> HIDE DEF h
    <3> QED BY <2>1, <3>1, <1>a
  <2>3. HoldersOf(h) = HoldersOf(g) \cup {t} /\ t \notin HoldersOf(g)
    BY <2>1, <1>a DEF HoldersOf
  <2>4. IsFiniteSet(HoldersOf(h)) /\ Cardinality(HoldersOf(h)) = Cardinality(HoldersOf(g)) + 1
    BY <2>3, FS_AddElement DEF Counted
  <2>5. g.waiters = <<>> /\ h.active <= Limit
    BY <1>2, <2>1 DEF LimitIsPositive, Counted
  <2>6. \A u \in Task : h.phase[u] = "waiting" <=> InLine(h, u)
    BY <2>1, <1>a DEF Counted, InLine
  <2>7. \A k, m \in DOMAIN h.waiters : h.waiters[k] = h.waiters[m] => k = m
    BY <2>1, <2>5
  <2> HIDE DEF h
  <2>8. h.active = Cardinality(HoldersOf(h)) /\ h.waiters = <<>>
    BY <2>1, <2>4, <2>5 DEF Counted
  <2>9. Counted(h)
    BY <2>2, <2>4, <2>5, <2>6, <2>7, <2>8 DEF Counted
  <2> QED BY <2>9 DEF h
<1> QED BY <1>1, <1>2

(* An aborted waiter leaves the line, the others keep their order.            *)
LEMMA WithoutIsTheRest ==
  ASSUME NEW S, NEW seq \in Seq(S), NEW k \in DOMAIN seq,
         \A i, j \in DOMAIN seq : seq[i] = seq[j] => i = j
  PROVE  /\ Without(seq, k) \in Seq(S)
         /\ \A x \in S : (\E i \in DOMAIN Without(seq, k) : Without(seq, k)[i] = x)
                          <=> x # seq[k] /\ \E i \in DOMAIN seq : seq[i] = x
         /\ \A i, j \in DOMAIN Without(seq, k) : Without(seq, k)[i] = Without(seq, k)[j] => i = j
<1> DEFINE w == Without(seq, k)
<1>1. Len(seq) \in Nat /\ DOMAIN seq = 1..Len(seq) /\ \A i \in DOMAIN seq : seq[i] \in S
  OBVIOUS
<1>2. k \in 1..Len(seq) /\ Len(seq) - 1 \in Nat
  BY <1>1
<1>3. w = [i \in 1..(Len(seq) - 1) |-> IF i < k THEN seq[i] ELSE seq[i + 1]]
  BY DEF Without
<1>4. DOMAIN w = 1..(Len(seq) - 1)
  BY <1>3
<1>5. \A i \in 1..(Len(seq) - 1) : w[i] = IF i < k THEN seq[i] ELSE seq[i + 1]
  BY <1>3
<1>6. w \in Seq(S)
  <2>1. \A i \in 1..(Len(seq) - 1) : w[i] \in S
    BY <1>1, <1>2, <1>5
  <2>2. w \in [1..(Len(seq) - 1) -> S]
    BY <1>3, <2>1
  <2> QED BY <2>2, <1>2
<1>7. \A i, j \in DOMAIN w : w[i] = w[j] => i = j
  <2> SUFFICES ASSUME NEW i \in 1..(Len(seq) - 1), NEW j \in 1..(Len(seq) - 1), w[i] = w[j]
               PROVE  i = j
    BY <1>4
  <2>1. w[i] = IF i < k THEN seq[i] ELSE seq[i + 1]
    BY <1>5
  <2>2. w[j] = IF j < k THEN seq[j] ELSE seq[j + 1]
    BY <1>5
  <2>3. \A n \in 1..(Len(seq) - 1) :
          /\ n \in DOMAIN seq /\ n + 1 \in DOMAIN seq
    BY <1>1, <1>2
  <2>4. CASE i < k /\ j < k
    <3>1. seq[i] = seq[j] /\ i \in DOMAIN seq /\ j \in DOMAIN seq
      BY <2>1, <2>2, <2>3, <2>4
    <3> QED BY <3>1
  <2>5. CASE i < k /\ ~(j < k)
    <3>1. seq[i] = seq[j + 1] /\ i \in DOMAIN seq /\ j + 1 \in DOMAIN seq
      BY <2>1, <2>2, <2>3, <2>5
    <3>2. i = j + 1
      BY <3>1
    <3> QED BY <3>2, <2>5, <1>2
  <2>6. CASE ~(i < k) /\ j < k
    <3>1. seq[i + 1] = seq[j] /\ i + 1 \in DOMAIN seq /\ j \in DOMAIN seq
      BY <2>1, <2>2, <2>3, <2>6
    <3>2. i + 1 = j
      BY <3>1
    <3> QED BY <3>2, <2>6, <1>2
  <2>7. CASE ~(i < k) /\ ~(j < k)
    <3>1. seq[i + 1] = seq[j + 1] /\ i + 1 \in DOMAIN seq /\ j + 1 \in DOMAIN seq
      BY <2>1, <2>2, <2>3, <2>7
    <3>2. i + 1 = j + 1
      BY <3>1
    <3> QED BY <3>2
  <2> QED BY <2>4, <2>5, <2>6, <2>7
<1>8. ASSUME NEW x \in S
      PROVE  (\E i \in DOMAIN w : w[i] = x) <=> x # seq[k] /\ \E i \in DOMAIN seq : seq[i] = x
  <2>1. ASSUME NEW i \in DOMAIN w, w[i] = x
        PROVE  x # seq[k] /\ \E j \in DOMAIN seq : seq[j] = x
    BY <2>1, <1>1, <1>2, <1>4, <1>5
  <2>2. ASSUME NEW i \in DOMAIN seq, seq[i] = x, x # seq[k]
        PROVE  \E j \in DOMAIN w : w[j] = x
    <3>1. i # k /\ i \in 1..Len(seq)
      BY <2>2, <1>1
    <3>2. CASE i < k
      <4>1. i \in 1..(Len(seq) - 1)
        BY <3>1, <3>2, <1>2
      <4>2. w[i] = seq[i]
        BY <4>1, <1>5, <3>2
      <4>3. i \in DOMAIN w
        BY <4>1, <1>4
      <4> QED BY <4>2, <4>3, <2>2
    <3>3. CASE i > k
      <4>1. i - 1 \in 1..(Len(seq) - 1) /\ ~(i - 1 < k) /\ (i - 1) + 1 = i
        BY <3>1, <3>3, <1>2
      <4>2. w[i - 1] = seq[(i - 1) + 1]
        BY <4>1, <1>5
      <4>3. i - 1 \in DOMAIN w
        BY <4>1, <1>4
      <4> QED BY <4>1, <4>2, <4>3, <2>2
    <3> QED BY <3>1, <3>2, <3>3, <1>2
  <2> QED BY <2>1, <2>2
<1> QED BY <1>6, <1>7, <1>8

(* The place of a waiting task's callback.                                    *)
LEMMA AbortedLeavesLine ==
  ASSUME NEW g, NEW t \in Task, Counted(g), g.phase[t] = "waiting"
  PROVE  \E k \in DOMAIN g.waiters :
           /\ g.waiters[k] = t
           /\ Aborted(g, t).waiters = Without(g.waiters, k)
           /\ Aborted(g, t).active = g.active
           /\ Aborted(g, t).phase = [g.phase EXCEPT ![t] = "out"]
           /\ Aborted(g, t) = [active |-> g.active, waiters |-> Without(g.waiters, k),
                               phase |-> [g.phase EXCEPT ![t] = "out"]]
<1> DEFINE k == CHOOSE k \in DOMAIN g.waiters : g.waiters[k] = t
<1>b. g = [active |-> g.active, waiters |-> g.waiters, phase |-> g.phase]
  BY DEF Counted
<1>1. \E i \in DOMAIN g.waiters : g.waiters[i] = t
  BY DEF Counted, InLine
<1>2. k \in DOMAIN g.waiters /\ g.waiters[k] = t
  BY <1>1
<1>4. Aborted(g, t) = [g EXCEPT !.waiters = Without(g.waiters, k),
                                !.phase = [g.phase EXCEPT ![t] = "out"]]
  BY DEF Aborted, At
<1>3. Aborted(g, t) = [active |-> g.active, waiters |-> Without(g.waiters, k),
                       phase |-> [g.phase EXCEPT ![t] = "out"]]
  <2> HIDE DEF k
  <2> QED BY <1>4, <1>b
<1> HIDE DEF k
<1> QED BY <1>2, <1>3

LEMMA AbortKeepsCount ==
  ASSUME NEW g, NEW t \in Task, Counted(g), g.phase[t] = "waiting"
  PROVE  Counted(Aborted(g, t))
<1> DEFINE h == Aborted(g, t)
<1>1. PICK k \in DOMAIN g.waiters :
        /\ g.waiters[k] = t
        /\ h.waiters = Without(g.waiters, k)
        /\ h.active = g.active
        /\ h.phase = [g.phase EXCEPT ![t] = "out"]
        /\ h = [active |-> g.active, waiters |-> Without(g.waiters, k),
                phase |-> [g.phase EXCEPT ![t] = "out"]]
  BY AbortedLeavesLine
<1> HIDE DEF h
<1>a. g.phase \in [Task -> Phase] /\ g.waiters \in Seq(Task) /\ g.active \in Nat
      /\ \A i, j \in DOMAIN g.waiters : g.waiters[i] = g.waiters[j] => i = j
  BY DEF Counted
<1>2. /\ h.waiters \in Seq(Task)
      /\ \A x \in Task : InLine(h, x) <=> x # t /\ InLine(g, x)
      /\ \A i, j \in DOMAIN h.waiters : h.waiters[i] = h.waiters[j] => i = j
  <2>1. /\ Without(g.waiters, k) \in Seq(Task)
        /\ \A x \in Task : (\E i \in DOMAIN Without(g.waiters, k) : Without(g.waiters, k)[i] = x)
                             <=> x # g.waiters[k] /\ \E i \in DOMAIN g.waiters : g.waiters[i] = x
        /\ \A i, j \in DOMAIN Without(g.waiters, k) :
             Without(g.waiters, k)[i] = Without(g.waiters, k)[j] => i = j
    BY <1>a, WithoutIsTheRest
  <2> QED BY <1>1, <2>1 DEF InLine
<1>3. h \in [active : Nat, waiters : Seq(Task), phase : [Task -> Phase]]
  BY <1>1, <1>2, <1>a DEF Phase
<1>4. HoldersOf(h) = HoldersOf(g)
  BY <1>1, <1>a DEF HoldersOf
<1>5. \A u \in Task : h.phase[u] = "waiting" <=> InLine(h, u)
  BY <1>1, <1>2, <1>a DEF Counted
<1>6. g.waiters # <<>>
  BY <1>1, <1>a
<1>7. h.active = Limit
  BY <1>1, <1>6 DEF Counted
<1>8. IsFiniteSet(HoldersOf(h)) /\ h.active = Cardinality(HoldersOf(h)) /\ h.active <= Limit
  BY <1>1, <1>4 DEF Counted
<1>9. Counted(h)
  BY <1>2, <1>3, <1>5, <1>7, <1>8 DEF Counted
<1> QED BY <1>9 DEF h

LEMMA ContinueKeepsCount ==
  ASSUME NEW g, NEW t \in Task, Counted(g), g.phase[t] = "granted"
  PROVE  Counted(Continued(g, t)) /\ HoldersOf(Continued(g, t)) = HoldersOf(g)
         /\ Continued(g, t).waiters = g.waiters
<1> DEFINE h == Continued(g, t)
<1>a. g.phase \in [Task -> Phase] /\ g.waiters \in Seq(Task) /\ g.active \in Nat
  BY DEF Counted
<1>b. g = [active |-> g.active, waiters |-> g.waiters, phase |-> g.phase]
  BY DEF Counted
<1>1. h.active = g.active /\ h.waiters = g.waiters /\ h.phase = [g.phase EXCEPT ![t] = "inside"]
  BY <1>b DEF Continued, At
<1>2. h \in [active : Nat, waiters : Seq(Task), phase : [Task -> Phase]]
  BY <1>a, <1>b DEF Continued, At, Phase
<1>3. HoldersOf(h) = HoldersOf(g)
  BY <1>1, <1>a DEF HoldersOf
<1>4. \A u \in Task : h.phase[u] = "waiting" <=> InLine(h, u)
  BY <1>1, <1>a DEF Counted, InLine
<1> QED BY <1>1, <1>2, <1>3, <1>4 DEF Counted

(* A slot that is given back goes to the head of the line, or is free again.  *)
LEMMA LeaveKeepsCount ==
  ASSUME LimitIsPositive, NEW g, NEW t \in Task, Counted(g), g.phase[t] \in {"granted", "inside"}
  PROVE  /\ Counted(Left(g, t))
         /\ g.waiters # <<>> => /\ Left(g, t).waiters = Tail(g.waiters)
                                /\ HoldersOf(Left(g, t)) = (HoldersOf(g) \ {t}) \cup {Head(g.waiters)}
         /\ g.waiters = <<>> => /\ Left(g, t).waiters = <<>>
                                /\ HoldersOf(Left(g, t)) = HoldersOf(g) \ {t}
<1> DEFINE h == Left(g, t)
<1>a. /\ g.phase \in [Task -> Phase] /\ g.waiters \in Seq(Task) /\ g.active \in Nat
      /\ IsFiniteSet(HoldersOf(g)) /\ g.active = Cardinality(HoldersOf(g)) /\ g.active <= Limit
  BY DEF Counted
<1>b. g = [active |-> g.active, waiters |-> g.waiters, phase |-> g.phase]
  BY DEF Counted
<1>c. t \in HoldersOf(g)
  BY DEF HoldersOf
<1>d. IsFiniteSet(HoldersOf(g) \ {t}) /\ Cardinality(HoldersOf(g) \ {t}) = Cardinality(HoldersOf(g)) - 1
  BY <1>a, <1>c, FS_RemoveElement
<1>1. CASE g.waiters # <<>>
  <2> DEFINE u == Head(g.waiters)
  <2>1. /\ Len(g.waiters) \in Nat \ {0} /\ u = g.waiters[1] /\ u \in Task
        /\ 1 \in DOMAIN g.waiters /\ DOMAIN g.waiters = 1..Len(g.waiters)
        /\ Tail(g.waiters) \in Seq(Task) /\ DOMAIN Tail(g.waiters) = 1..(Len(g.waiters) - 1)
        /\ \A i \in 1..(Len(g.waiters) - 1) : Tail(g.waiters)[i] = g.waiters[i + 1]
    BY <1>1, <1>a
  <2>2. g.phase[u] = "waiting"
    BY <2>1 DEF Counted, InLine
  <2> HIDE DEF u
  <2>3. u # t
    BY <2>2
  <2>4. /\ h.active = g.active /\ h.waiters = Tail(g.waiters)
        /\ h.phase = [[g.phase EXCEPT ![t] = "out"] EXCEPT ![u] = "granted"]
        /\ h = [active |-> g.active, waiters |-> Tail(g.waiters),
                phase |-> [[g.phase EXCEPT ![t] = "out"] EXCEPT ![u] = "granted"]]
    BY <1>1, <1>b DEF Left, At, u
  <2> HIDE DEF h
  <2>5. h \in [active : Nat, waiters : Seq(Task), phase : [Task -> Phase]]
    BY <2>1, <2>4, <1>a DEF Phase
  <2>6. /\ h.phase[t] = "out" /\ h.phase[u] = "granted"
        /\ \A x \in Task : x \notin {t, u} => h.phase[x] = g.phase[x]
    BY <2>1, <2>3, <2>4, <1>a
  <2>7. HoldersOf(h) = (HoldersOf(g) \ {t}) \cup {u} /\ u \notin HoldersOf(g)
    BY <2>1, <2>2, <2>3, <2>6 DEF HoldersOf
  <2>8. IsFiniteSet(HoldersOf(h)) /\ Cardinality(HoldersOf(h)) = Cardinality(HoldersOf(g))
    <3>1. u \notin HoldersOf(g) \ {t}
      BY <2>7
    <3>2. IsFiniteSet((HoldersOf(g) \ {t}) \cup {u})
          /\ Cardinality((HoldersOf(g) \ {t}) \cup {u}) = Cardinality(HoldersOf(g) \ {t}) + 1
      BY <3>1, <1>d, FS_AddElement
    <3> QED BY <3>2, <2>7, <1>a, <1>d
  <2>9. \A x \in Task : InLine(h, x) <=> x # u /\ InLine(g, x)
    <3> SUFFICES ASSUME NEW x \in Task PROVE InLine(h, x) <=> x # u /\ InLine(g, x)
      OBVIOUS
    <3>1. ASSUME NEW i \in DOMAIN h.waiters, h.waiters[i] = x PROVE x # u /\ InLine(g, x)
      <4>1. i \in 1..(Len(g.waiters) - 1) /\ i + 1 \in DOMAIN g.waiters /\ i + 1 # 1
        BY <3>1, <2>1, <2>4
      <4>2. g.waiters[i + 1] = x
        BY <4>1, <3>1, <2>1, <2>4
      <4>3. x # g.waiters[1]
        BY <4>1, <4>2, <2>1 DEF Counted
      <4> QED BY <4>1, <4>2, <4>3, <2>1 DEF InLine
    <3>2. ASSUME NEW i \in DOMAIN g.waiters, g.waiters[i] = x, x # u PROVE InLine(h, x)
      <4>0. i \in 1..Len(g.waiters) /\ i # 1
        BY <3>2, <2>1
      <4>1. i - 1 \in 1..(Len(g.waiters) - 1) /\ (i - 1) + 1 = i
        BY <4>0, <2>1
      <4>2. Tail(g.waiters)[i - 1] = x
        BY <4>1, <3>2, <2>1
      <4>3. i - 1 \in DOMAIN h.waiters /\ h.waiters[i - 1] = x
        BY <4>1, <4>2, <2>1, <2>4
      <4> QED BY <4>3 DEF InLine
    <3> QED BY <3>1, <3>2 DEF InLine
  <2>10. \A x \in Task : h.phase[x] = "waiting" <=> InLine(h, x)
    BY <2>2, <2>6, <2>9 DEF Counted
  <2>11. \A i, j \in DOMAIN h.waiters : h.waiters[i] = h.waiters[j] => i = j
    <3> SUFFICES ASSUME NEW i \in DOMAIN h.waiters, NEW j \in DOMAIN h.waiters, h.waiters[i] = h.waiters[j]
                 PROVE  i = j
      OBVIOUS
    <3>1. i \in 1..(Len(g.waiters) - 1) /\ j \in 1..(Len(g.waiters) - 1)
      BY <2>1, <2>4
    <3>2. i + 1 \in DOMAIN g.waiters /\ j + 1 \in DOMAIN g.waiters /\ g.waiters[i + 1] = g.waiters[j + 1]
      BY <3>1, <2>1, <2>4
    <3>3. i + 1 = j + 1
      BY <3>2 DEF Counted
    <3> QED BY <3>1, <3>3
  <2>12. h.active = Limit
    BY <1>1, <2>4 DEF Counted
  <2>13. Counted(h)
    BY <1>a, <2>4, <2>5, <2>8, <2>10, <2>11, <2>12 DEF Counted
  <2> QED BY <1>1, <2>4, <2>7, <2>13 DEF u, h
<1>2. CASE g.waiters = <<>>
  <2>0. g.active # 0
    BY <1>a, <1>c, FS_EmptySet, FS_CardinalityType, <1>d
  <2>1. /\ h.active = g.active - 1 /\ h.waiters = <<>>
        /\ h.phase = [g.phase EXCEPT ![t] = "out"]
        /\ h = [active |-> g.active - 1, waiters |-> <<>>, phase |-> [g.phase EXCEPT ![t] = "out"]]
    BY <1>2, <1>b DEF Left, At
  <2> HIDE DEF h
  <2>2. h \in [active : Nat, waiters : Seq(Task), phase : [Task -> Phase]]
    BY <2>0, <2>1, <1>a DEF Phase
  <2>3. HoldersOf(h) = HoldersOf(g) \ {t}
    BY <2>1, <1>a DEF HoldersOf
  <2>4. \A x \in Task : h.phase[x] = "waiting" <=> InLine(h, x)
    BY <1>2, <2>1, <1>a DEF Counted, InLine
  <2>5. h.active = Cardinality(HoldersOf(h)) /\ IsFiniteSet(HoldersOf(h)) /\ h.active <= Limit
    <3>1. Cardinality(HoldersOf(h)) = Cardinality(HoldersOf(g)) - 1 /\ IsFiniteSet(HoldersOf(h))
      BY <1>d, <2>3
    <3>2. h.active = g.active - 1
      BY <2>1
    <3> QED BY <3>1, <3>2, <1>a DEF LimitIsPositive
  <2>6. \A i, j \in DOMAIN h.waiters : h.waiters[i] = h.waiters[j] => i = j
    BY <2>1
  <2>7. Counted(h)
    BY <2>1, <2>2, <2>4, <2>5, <2>6 DEF Counted
  <2> QED BY <1>2, <2>1, <2>3, <2>7 DEF h
<1> QED BY <1>1, <1>2

(* The semaphore's state and what the callers did with it.                    *)
LEMMA StepKeepsCount ==
  ASSUME LimitIsPositive, Counted(gate), [Next]_gate
  PROVE  Counted(gate')
<1>1. CASE Restart
  BY <1>1, EmptyIsCounted DEF Restart
<1>2. ASSUME NEW t \in Task, Enter(t) PROVE Counted(gate')
  BY <1>2, EnterKeepsCount DEF Enter
<1>3. ASSUME NEW t \in Task, Abort(t) PROVE Counted(gate')
  BY <1>3, AbortKeepsCount DEF Abort
<1>4. ASSUME NEW t \in Task, Continue(t) PROVE Counted(gate')
  BY <1>4, ContinueKeepsCount DEF Continue
<1>5. ASSUME NEW t \in Task, Leave(t) PROVE Counted(gate')
  BY <1>5, LeaveKeepsCount DEF Leave
<1>6. CASE UNCHANGED gate
  BY <1>6
<1> QED BY <1>1, <1>2, <1>3, <1>4, <1>5, <1>6 DEF Next

LEMMA AlwaysCounted ==
  ASSUME LimitIsPositive
  PROVE  Spec => []Counted(gate)
<1>1. Init => Counted(gate)
  BY EmptyIsCounted DEF Init
<1>2. Counted(gate) /\ [Next]_gate => Counted(gate)'
  BY StepKeepsCount
<1> QED BY <1>1, <1>2, PTL DEF Spec

(* The semaphore's variables keep their shape.                                *)
THEOREM GateTypeCorrect ==
  ASSUME LimitIsPositive
  PROVE  Spec => []TypeOK
<1>1. Counted(gate) => TypeOK
  BY DEF Counted, TypeOK
<1>0. Spec => []Counted(gate)
  BY AlwaysCounted
<1> QED BY <1>0, <1>1, PTL

(* Whatever order tasks enter, abort, continue, fail and leave in, "active"   *)
(* is the number of slots that are out, and never more than the limit.        *)
THEOREM GateCountsSlots ==
  ASSUME LimitIsPositive
  PROVE  Spec => []SlotsAreCounted
<1>1. Counted(gate) => SlotsAreCounted
  BY DEF Counted, SlotsAreCounted, HoldersOf, Holders, InLine
<1>0. Spec => []Counted(gate)
  BY AlwaysCounted
<1> QED BY <1>0, <1>1, PTL

(* The semaphore of the downloads, the encoder and the uploads is a line:     *)
(* a slot that becomes free goes to whoever has waited longest.               *)
THEOREM GateIsFifo ==
  ASSUME LimitIsPositive
  PROVE  Spec => ImplementsFifo
<1>c. Fifo!Cardinality(Holders) = Cardinality(Holders)
  BY DEF Fifo!Cardinality, Cardinality
<1>a. Holders = HoldersOf(gate) /\ Fifo!InLine = {gate.waiters[k] : k \in DOMAIN gate.waiters}
  BY DEF Holders, HoldersOf, Fifo!InLine
<1>1. Init => Fifo!Init
  BY DEF Init, Empty, Fifo!Init, Holders
<1>2. Counted(gate) /\ [Next]_gate => [Fifo!Next]_(Fifo!slots)
  <2> SUFFICES ASSUME LimitIsPositive, Counted(gate), [Next]_gate PROVE [Fifo!Next]_(Fifo!slots)
    OBVIOUS
  <2>0. gate.phase \in [Task -> Phase] /\ gate.waiters \in Seq(Task)
        /\ gate.active = Cardinality(Holders) /\ gate.active \in Nat
    BY <1>a DEF Counted
  <2>h. Holders' = HoldersOf(gate')
    BY DEF Holders, HoldersOf
  <2>1. CASE Restart
    <3>1. Holders' = {} /\ gate'.waiters = <<>>
      BY <2>1 DEF Restart, Empty, Holders
    <3>2. Fifo!Restart
      BY <3>1 DEF Fifo!Restart
    <3> QED BY <3>2 DEF Fifo!Next
  <2>2. ASSUME NEW t \in Task, Enter(t) PROVE Fifo!Next
    <3>1. gate.phase[t] = "out" /\ gate' = Entered(gate, t)
      BY <2>2 DEF Enter
    <3>2. t \notin Holders /\ t \notin Fifo!InLine
      BY <3>1, <1>a DEF Holders, Counted, InLine
    <3>b. gate = [active |-> gate.active, waiters |-> gate.waiters, phase |-> gate.phase]
      BY DEF Counted
    <3>3. CASE gate.active >= Limit
      <4>1. gate'.waiters = Append(gate.waiters, t) /\ gate'.phase = [gate.phase EXCEPT ![t] = "waiting"]
        BY <3>1, <3>3, <3>b DEF Entered, At
      <4>2. Holders' = Holders
        BY <4>1, <3>1, <2>0 DEF Holders
      <4>3. Cardinality(Holders) = Limit
        BY <3>3, <2>0 DEF LimitIsPositive, Counted
      <4>4. Fifo!StandInLine(t)
        BY <1>c, <3>2, <4>1, <4>2, <4>3 DEF Fifo!StandInLine
      <4> QED BY <4>4 DEF Fifo!Next
    <3>4. CASE ~(gate.active >= Limit)
      <4>1. gate'.waiters = gate.waiters /\ gate'.phase = [gate.phase EXCEPT ![t] = "inside"]
        BY <3>1, <3>4, <3>b DEF Entered, At
      <4>2. Holders' = Holders \cup {t}
        BY <4>1, <3>1, <2>0 DEF Holders
      <4>3. Cardinality(Holders) < Limit /\ gate.waiters = <<>>
        BY <3>4, <2>0 DEF LimitIsPositive, Counted
      <4>4. Fifo!Take(t)
        BY <1>c, <3>2, <4>1, <4>2, <4>3 DEF Fifo!Take
      <4> QED BY <4>4 DEF Fifo!Next
    <3> QED BY <3>3, <3>4
  <2>3. ASSUME NEW t \in Task, Abort(t) PROVE Fifo!Next
    <3>1. gate.phase[t] = "waiting" /\ gate' = Aborted(gate, t)
      BY <2>3 DEF Abort
    <3>2. PICK k \in DOMAIN gate.waiters :
            /\ gate'.waiters = Without(gate.waiters, k)
            /\ gate'.phase = [gate.phase EXCEPT ![t] = "out"]
      BY <3>1, AbortedLeavesLine
    <3>3. Holders' = Holders
      BY <3>1, <3>2, <2>0 DEF Holders
    <3>4. Fifo!GiveUp(k)
      BY <3>2, <3>3 DEF Fifo!GiveUp, Without, Fifo!Without
    <3> QED BY <3>4 DEF Fifo!Next
  <2>4. ASSUME NEW t \in Task, Continue(t) PROVE UNCHANGED Fifo!slots
    <3>1. gate.phase[t] = "granted" /\ gate' = Continued(gate, t)
      BY <2>4 DEF Continue
    <3>2. Holders' = Holders /\ gate'.waiters = gate.waiters
      BY <3>1, <1>a, <2>h, ContinueKeepsCount
    <3> QED BY <3>2 DEF Fifo!slots
  <2>5. ASSUME NEW t \in Task, Leave(t) PROVE Fifo!Next
    <3>1. gate.phase[t] \in {"granted", "inside"} /\ gate' = Left(gate, t)
      BY <2>5 DEF Leave
    <3>2. /\ gate.waiters # <<>> => gate'.waiters = Tail(gate.waiters)
                                    /\ Holders' = (Holders \ {t}) \cup {Head(gate.waiters)}
          /\ gate.waiters = <<>> => gate'.waiters = <<>> /\ Holders' = Holders \ {t}
      BY <3>1, <1>a, <2>h, LeaveKeepsCount
    <3>3. t \in Holders
      BY <3>1 DEF Holders
    <3>4. Fifo!HandOver(t)
      BY <3>2, <3>3 DEF Fifo!HandOver
    <3> QED BY <3>4 DEF Fifo!Next
  <2>6. CASE UNCHANGED gate
    BY <2>6 DEF Fifo!slots, Holders
  <2> QED BY <2>1, <2>2, <2>3, <2>4, <2>5, <2>6 DEF Next
<1>3. Spec => []Counted(gate)
  BY AlwaysCounted
<1> QED BY <1>1, <1>2, <1>3, PTL DEF Spec, ImplementsFifo, Fifo!Spec

-----------------------------------------------------------------------------
(* The queue. *)

Status ==
  {"absent", "queued", "running", "waiting", "paused", "failed", "cancelled", "prepared", "complete"}
Place ==
  {"idle", "begin", "repair", "download", "convert", "verify", "unlinked", "create", "created", "send", "publish"}
Upload ==
  {"none", "receiving", "paused", "queued", "held", "working", "error", "refresh-error", "complete"}
Asked == {"none", "paused", "cancelled"}
Acting == {"none", "pause", "cancel", "pause done", "cancel done", "refused"}
Target == {"none"} \cup UNION {Kind[j].targets : j \in Job}

JobRecord ==
  [status : Status, target : Target, source : BOOLEAN, prepared : {"none", "source", "copy"},
   removed : BOOLEAN, upload : BOOLEAN, result : BOOLEAN, matched : BOOLEAN, due : BOOLEAN]

(* The laptop and what it keeps, the gates left out: they have proofs of      *)
(* their own.                                                                 *)
LaptopTypeOK(s) ==
  s \in [job : [Job -> JobRecord], at : [Job -> Place],
         asked : [Job -> Asked], acting : [Job -> Acting],
         gate : {s.gate}, timer : BOOLEAN, stopping : BOOLEAN]

QueueTypeOK ==
  /\ LaptopTypeOK(laptop)
  /\ files \in [Job -> SUBSET {"original", "copy"}]
  /\ pi \in [Job -> Upload]
  /\ events \in Nat

(* What the Pi has of a job that cannot turn up in the library by itself.     *)
Unpublished == {"none", "receiving", "paused"}

(* A job nobody wants, or whose upload the journal does not name, is not on   *)
(* its way into the library; it is idle, and nothing sends to the Pi what the *)
(* journal does not name.                                                     *)
NotOnItsWay(job, at, asked, acting, upload) ==
  /\ job.status = "cancelled" => at = "idle"
  /\ job.status = "cancelled" \/ asked = "cancelled" \/ ~job.upload => upload \in Unpublished
  /\ acting # "none" \/ at = "send" => job.upload
  /\ acting = "cancel done" => upload = "none"

(* There is a copy before the original goes, and while it is being removed.   *)
CopyIsThere(kind, job, at, videos) ==
  /\ job.prepared = "copy" => "copy" \in videos
  /\ job.source /\ "original" \notin videos => job.prepared = "copy"
  /\ kind.source = "file" => "original" \in videos
  /\ at \in {"verify", "unlinked"} => job.prepared = "copy" /\ kind.source = "iplayer"
  /\ at = "convert" /\ job.source => "original" \in videos

RowIsSound(kind, job, at, asked, acting, videos, upload) ==
  NotOnItsWay(job, at, asked, acting, upload) /\ CopyIsThere(kind, job, at, videos)

Sound(s, f, p) ==
  /\ LaptopTypeOK(s)
  /\ \A j \in Job : RowIsSound(Kind[j], s.job[j], s.at[j], s.asked[j], s.acting[j], f[j], p[j])

QueueInv == QueueTypeOK /\ Sound(laptop, files, pi)

LEMMA KickedIsSound ==
  ASSUME NEW s, NEW f, NEW p, Sound(s, f, p)
  PROVE  Sound(Kicked(s), f, p) /\ \A j \in Job : s.at[j] # "idle" => Kicked(s).at[j] = s.at[j]
<1> DEFINE started == {j \in Startable(s) : Cardinality({k \in Startable(s) : k < j} \cup Active(s)) < MaxActive}
           at == [j \in Job |-> IF j \in started THEN "begin" ELSE s.at[j]]
           timer == s.timer \/ Cardinality(Active(s) \cup started) < MaxActive
<1>1. CASE s.stopping
  BY <1>1 DEF Kicked
<1>2. CASE ~s.stopping
  <2>1. Kicked(s) = [s EXCEPT !.at = at, !.timer = timer]
    BY <1>2 DEF Kicked, Sound, LaptopTypeOK
  <2>2. \A j \in started : j \in Job /\ s.at[j] = "idle" /\ s.job[j].status \in {"queued", "waiting"}
    BY DEF Startable, Active, Sound, LaptopTypeOK
  <2>3. at \in [Job -> Place] /\ timer \in BOOLEAN
    BY DEF Sound, LaptopTypeOK, Place
  <2>4. /\ \A j \in Job : at[j] = s.at[j] \/ (at[j] = "begin" /\ s.job[j].status # "cancelled")
        /\ \A j \in Job : s.at[j] # "idle" => at[j] = s.at[j]
    BY <2>2
  <2> HIDE DEF at, timer
  <2>5. LaptopTypeOK(Kicked(s))
    BY <2>1, <2>3 DEF Sound, LaptopTypeOK
  <2>6. /\ Kicked(s).job = s.job /\ Kicked(s).at = at /\ Kicked(s).asked = s.asked /\ Kicked(s).acting = s.acting
    BY <2>1, <2>3 DEF Sound, LaptopTypeOK
  <2>7. ASSUME NEW j \in Job
        PROVE  RowIsSound(Kind[j], s.job[j], at[j], s.asked[j], s.acting[j], f[j], p[j])
    <3>1. RowIsSound(Kind[j], s.job[j], s.at[j], s.asked[j], s.acting[j], f[j], p[j])
      BY DEF Sound
    <3>2. CASE at[j] = s.at[j]
      BY <3>1, <3>2
    <3>3. CASE at[j] = "begin" /\ s.job[j].status # "cancelled"
      BY <3>1, <3>3 DEF RowIsSound, NotOnItsWay, CopyIsThere
    <3> QED BY <2>4, <3>2, <3>3
  <2> QED BY <2>4, <2>5, <2>6, <2>7 DEF Sound
<1> QED BY <1>1, <1>2

(* The gates matter to nothing of this.                                       *)
LEMMA GateIsSound ==
  ASSUME NEW s, NEW f, NEW p, Sound(s, f, p), NEW g, NEW t, t = [s EXCEPT !.gate = g]
  PROVE  Sound(t, f, p) /\ t.job = s.job /\ t.at = s.at /\ t.asked = s.asked /\ t.acting = s.acting
<1>1. t.gate = g /\ t.job = s.job /\ t.at = s.at /\ t.asked = s.asked /\ t.acting = s.acting
  BY DEF Sound, LaptopTypeOK
<1>2. LaptopTypeOK([s EXCEPT !.gate = g])
  <2>1. [s EXCEPT !.gate = g].gate = g
    BY DEF Sound, LaptopTypeOK
  <2> QED BY <2>1 DEF Sound, LaptopTypeOK
<1>3. LaptopTypeOK(t)
  BY <1>2
<1> QED BY <1>1, <1>3 DEF Sound

LEMMA LeaveIsSound ==
  ASSUME NEW s, NEW f, NEW p, Sound(s, f, p), NEW j \in Job
  PROVE  /\ Sound(LeaveStage(s, j), f, p)
         /\ LeaveStage(s, j).job = s.job /\ LeaveStage(s, j).at = s.at
         /\ LeaveStage(s, j).asked = s.asked /\ LeaveStage(s, j).acting = s.acting
<1>1. PICK g : LeaveStage(s, j) = [s EXCEPT !.gate = g]
  <2> DEFINE stage == StageOf(s.at[j])
             a == Gate(stage)!Aborted(s.gate[stage], j)
             l == Gate(stage)!Left(s.gate[stage], j)
  <2>1. CASE PhaseOf(s, j) = "out"
    <3>1. LeaveStage(s, j) = [s EXCEPT !.gate = s.gate]
      BY <2>1 DEF LeaveStage, Sound, LaptopTypeOK
    <3> QED BY <3>1
  <2>2. CASE PhaseOf(s, j) = "waiting"
    <3>1. LeaveStage(s, j) = [s EXCEPT !.gate[stage] = a]
      BY <2>2 DEF LeaveStage
    <3>2. [s EXCEPT !.gate[stage] = a] = [s EXCEPT !.gate = [s.gate EXCEPT ![stage] = a]]
      BY DEF Sound, LaptopTypeOK
    <3> QED BY <3>1, <3>2
  <2>3. CASE PhaseOf(s, j) \notin {"out", "waiting"}
    <3>1. LeaveStage(s, j) = [s EXCEPT !.gate[stage] = l]
      BY <2>3 DEF LeaveStage
    <3>2. [s EXCEPT !.gate[stage] = l] = [s EXCEPT !.gate = [s.gate EXCEPT ![stage] = l]]
      BY DEF Sound, LaptopTypeOK
    <3> QED BY <3>1, <3>2
  <2> QED BY <2>1, <2>2, <2>3
<1> QED BY <1>1, GateIsSound

(* One job changes in the journal or moves, perhaps with its videos or its    *)
(* upload.                                                                    *)
WithJob(s, j, job, at, asked, acting) ==
  [s EXCEPT !.job[j] = job, !.at[j] = at, !.asked[j] = asked, !.acting[j] = acting]

LEMMA JobIsSound ==
  ASSUME NEW s, NEW f, NEW p, Sound(s, f, p), NEW j \in Job, NEW job \in JobRecord, NEW at \in Place,
         NEW asked \in Asked, NEW acting \in Acting, NEW f2, NEW p2,
         \A k \in Job : k # j => f2[k] = f[k] /\ p2[k] = p[k],
         RowIsSound(Kind[j], job, at, asked, acting, f2[j], p2[j])
  PROVE  Sound(WithJob(s, j, job, at, asked, acting), f2, p2)
<1> DEFINE new == [s EXCEPT !.job[j] = job, !.at[j] = at, !.asked[j] = asked, !.acting[j] = acting]
<1>1. /\ new.job = [s.job EXCEPT ![j] = job] /\ new.at = [s.at EXCEPT ![j] = at]
      /\ new.asked = [s.asked EXCEPT ![j] = asked] /\ new.acting = [s.acting EXCEPT ![j] = acting]
      /\ new.gate = s.gate
  BY DEF Sound, LaptopTypeOK
<1>2. LaptopTypeOK(new)
  BY <1>1 DEF Sound, LaptopTypeOK
<1>3. WithJob(s, j, job, at, asked, acting) = new
  BY DEF WithJob
<1> HIDE DEF new
<1>4. /\ new.job[j] = job /\ new.at[j] = at /\ new.asked[j] = asked /\ new.acting[j] = acting
      /\ \A k \in Job : k # j => /\ new.job[k] = s.job[k] /\ new.at[k] = s.at[k]
                                /\ new.asked[k] = s.asked[k] /\ new.acting[k] = s.acting[k]
  BY <1>1 DEF Sound, LaptopTypeOK
<1>5. ASSUME NEW k \in Job
      PROVE  RowIsSound(Kind[k], new.job[k], new.at[k], new.asked[k], new.acting[k], f2[k], p2[k])
  <2>1. RowIsSound(Kind[k], s.job[k], s.at[k], s.asked[k], s.acting[k], f[k], p[k])
    BY DEF Sound
  <2>2. CASE k = j
    BY <1>4, <2>2
  <2>3. CASE k # j
    BY <1>4, <2>1, <2>3
  <2> QED BY <2>2, <2>3
<1> QED BY <1>2, <1>3, <1>4, <1>5 DEF Sound

(* What is known of a job and its run.                                        *)
LEMMA RowFields ==
  ASSUME NEW s, NEW f, NEW p, Sound(s, f, p), NEW j \in Job
  PROVE  /\ s.job[j] \in JobRecord /\ s.at[j] \in Place /\ s.asked[j] \in Asked /\ s.acting[j] \in Acting
         /\ RowIsSound(Kind[j], s.job[j], s.at[j], s.asked[j], s.acting[j], f[j], p[j])
BY DEF Sound, LaptopTypeOK

(* A run ends, its journal entry with it.                                     *)
LEMMA EndedIsSound ==
  ASSUME NEW s, NEW f, NEW p, Sound(s, f, p), NEW j \in Job, NEW status \in Status,
         status = "cancelled" => p[j] \in Unpublished
  PROVE  Sound(Ended(s, j, status), f, p)
<1> DEFINE new == [s EXCEPT !.job[j].status = status, !.at[j] = "idle", !.asked[j] = "none"]
           job == [s.job[j] EXCEPT !.status = status]
<1>1. /\ s.job[j] \in JobRecord /\ s.acting[j] \in Acting
      /\ RowIsSound(Kind[j], s.job[j], s.at[j], s.asked[j], s.acting[j], f[j], p[j])
  BY RowFields
<1>2. /\ job \in JobRecord /\ job.status = status /\ job.upload = s.job[j].upload
      /\ job.prepared = s.job[j].prepared /\ job.source = s.job[j].source
  BY <1>1 DEF JobRecord
<1>3. new = WithJob(s, j, job, "idle", "none", s.acting[j])
  BY DEF Sound, LaptopTypeOK, WithJob
<1>4. Ended(s, j, status) = Kicked(new)
  BY DEF Ended
<1> HIDE DEF new, job
<1>5. RowIsSound(Kind[j], job, "idle", "none", s.acting[j], f[j], p[j])
  BY <1>1, <1>2 DEF RowIsSound, NotOnItsWay, CopyIsThere
<1>6. Sound(new, f, p)
  BY <1>1, <1>2, <1>3, <1>5, JobIsSound DEF Place, Asked
<1> QED BY <1>4, <1>6, KickedIsSound

(* What the user asked for wins over the error, and it was asked of the Pi    *)
(* first.                                                                     *)
LEMMA RejectedIsSound ==
  ASSUME NEW s, NEW f, NEW p, Sound(s, f, p), NEW j \in Job, NEW status \in Status \ {"cancelled"}
  PROVE  Sound(Rejected(s, j, status), f, p)
<1> DEFINE left == LeaveStage(s, j)
           new == [left EXCEPT !.job[j].due = FALSE]
           job == [left.job[j] EXCEPT !.due = FALSE]
           end == IF s.asked[j] = "none" THEN status ELSE s.asked[j]
<1>1. /\ Sound(left, f, p)
      /\ left.job = s.job /\ left.at = s.at /\ left.asked = s.asked /\ left.acting = s.acting
  BY LeaveIsSound
<1>2. Rejected(s, j, status) = Ended(new, j, end)
  BY DEF Rejected
<1> HIDE DEF left
<1>3. /\ left.job[j] \in JobRecord /\ left.at[j] \in Place /\ left.asked[j] \in Asked
      /\ left.acting[j] \in Acting
      /\ RowIsSound(Kind[j], left.job[j], left.at[j], left.asked[j], left.acting[j], f[j], p[j])
  BY <1>1, RowFields
<1>4. /\ job \in JobRecord /\ job.status = left.job[j].status /\ job.upload = left.job[j].upload
      /\ job.prepared = left.job[j].prepared /\ job.source = left.job[j].source
  BY <1>3 DEF JobRecord
<1>5. new = WithJob(left, j, job, left.at[j], left.asked[j], left.acting[j])
  BY <1>1 DEF Sound, LaptopTypeOK, WithJob
<1> HIDE DEF new, job
<1>6. RowIsSound(Kind[j], job, left.at[j], left.asked[j], left.acting[j], f[j], p[j])
  BY <1>3, <1>4 DEF RowIsSound, NotOnItsWay, CopyIsThere
<1>7. Sound(new, f, p)
  BY <1>1, <1>3, <1>4, <1>5, <1>6, JobIsSound
<1>8. end \in Status /\ (end = "cancelled" => p[j] \in Unpublished)
  BY <1>1, <1>3 DEF Status, Asked, RowIsSound, NotOnItsWay
<1> HIDE DEF end
<1> QED BY <1>2, <1>7, <1>8, EndedIsSound

(* A run asks for a slot.                                                     *)
LEMMA EnterIsSound ==
  ASSUME NEW s, NEW f, NEW p, Sound(s, f, p), NEW j \in Job,
         NEW at \in {"download", "convert", "create"},
         at = "convert" /\ s.job[j].source => "original" \in f[j]
  PROVE  Sound(EnterStage(s, j, at), f, p)
<1> DEFINE stage == StageOf(at)
           x == Gate(stage)!Entered(s.gate[stage], j)
           g == [s.gate EXCEPT ![stage] = x]
           job == [s.job[j] EXCEPT !.status = "running"]
           new == WithJob(s, j, job, at, s.asked[j], s.acting[j])
<1>1. /\ s.job[j] \in JobRecord /\ s.asked[j] \in Asked /\ s.acting[j] \in Acting
      /\ RowIsSound(Kind[j], s.job[j], s.at[j], s.asked[j], s.acting[j], f[j], p[j])
  BY RowFields
<1>2. /\ job \in JobRecord /\ job.status = "running" /\ job.upload = s.job[j].upload
      /\ job.prepared = s.job[j].prepared /\ job.source = s.job[j].source
  BY <1>1 DEF JobRecord, Status
<1>3. EnterStage(s, j, at) = [s EXCEPT !.job[j].status = "running", !.at[j] = at, !.gate[stage] = x]
  BY DEF EnterStage, Sound, LaptopTypeOK
<1> HIDE DEF x
<1>4. EnterStage(s, j, at) = [new EXCEPT !.gate = g]
  <2> DEFINE jobs == [s.job EXCEPT ![j] = job]
             places == [s.at EXCEPT ![j] = at]
  <2>1. EnterStage(s, j, at) = [s EXCEPT !.job = jobs, !.at = places, !.gate = g]
    BY <1>3 DEF Sound, LaptopTypeOK
  <2>2. new = [s EXCEPT !.job = jobs, !.at = places]
    BY DEF Sound, LaptopTypeOK, WithJob
  <2> HIDE DEF jobs, places, g, new
  <2> QED BY <2>1, <2>2 DEF Sound, LaptopTypeOK
<1> HIDE DEF g, job, stage
<1>5. RowIsSound(Kind[j], job, at, s.asked[j], s.acting[j], f[j], p[j])
  BY <1>1, <1>2 DEF RowIsSound, NotOnItsWay, CopyIsThere
<1>6. Sound(new, f, p)
  BY <1>1, <1>2, <1>5, JobIsSound DEF Place
<1> HIDE DEF new
<1> QED BY <1>4, <1>6, GateIsSound

LEMMA DeliverIsSound ==
  ASSUME NEW s, NEW f, NEW p, Sound(s, f, p), NEW j \in Job
  PROVE  Sound(Deliver(s, j), f, p)
<1>1. Deliver(s, j) = Ended(s, j, "prepared") \/ Deliver(s, j) = EnterStage(s, j, "create")
  BY DEF Deliver
<1>2. Sound(Ended(s, j, "prepared"), f, p)
  BY EndedIsSound DEF Status
<1>3. Sound(EnterStage(s, j, "create"), f, p)
  BY EnterIsSound
<1> QED BY <1>1, <1>2, <1>3

(* A run is at another place, with the journal as it was.                     *)
LEMMA PlaceIsSound ==
  ASSUME NEW s, NEW f, NEW p, Sound(s, f, p), NEW j \in Job, NEW at \in Place,
         RowIsSound(Kind[j], s.job[j], at, s.asked[j], s.acting[j], f[j], p[j])
  PROVE  Sound([s EXCEPT !.at[j] = at], f, p)
<1>1. [s EXCEPT !.at[j] = at] = WithJob(s, j, s.job[j], at, s.asked[j], s.acting[j])
  BY DEF Sound, LaptopTypeOK, WithJob
<1>2. s.job[j] \in JobRecord /\ s.asked[j] \in Asked /\ s.acting[j] \in Acting
  BY RowFields
<1>3. Sound(WithJob(s, j, s.job[j], at, s.asked[j], s.acting[j]), f, p)
  BY <1>2, JobIsSound
<1> QED BY <1>1, <1>3

LEMMA CleanUpIsSound ==
  ASSUME NEW s, NEW f, NEW p, Sound(s, f, p), NEW j \in Job, s.job[j].status # "cancelled"
  PROVE  Sound(CleanUp(s, j), f, p)
<1>1. CASE Kind[j].source = "iplayer" /\ s.job[j].prepared = "copy" /\ ~s.job[j].removed
  <2>1. CleanUp(s, j) = [s EXCEPT !.at[j] = "verify"]
    BY <1>1 DEF CleanUp
  <2>2. RowIsSound(Kind[j], s.job[j], "verify", s.asked[j], s.acting[j], f[j], p[j])
    <3>1. RowIsSound(Kind[j], s.job[j], s.at[j], s.asked[j], s.acting[j], f[j], p[j])
      BY RowFields
    <3> QED BY <1>1, <3>1 DEF RowIsSound, NotOnItsWay, CopyIsThere
  <2>3. Sound([s EXCEPT !.at[j] = "verify"], f, p)
    BY <2>2, PlaceIsSound DEF Place
  <2> QED BY <2>1, <2>3
<1>2. CASE ~(Kind[j].source = "iplayer" /\ s.job[j].prepared = "copy" /\ ~s.job[j].removed)
  BY <1>2, DeliverIsSound DEF CleanUp
<1> QED BY <1>1, <1>2

LEMMA PrepareIsSound ==
  ASSUME NEW s, NEW f, NEW p, Sound(s, f, p), NEW j \in Job, s.job[j].status # "cancelled"
  PROVE  Sound(Prepare(s, j, f[j]), f, p)
<1>1. CASE ~s.job[j].removed /\ "original" \notin f[j]
  BY <1>1, RejectedIsSound DEF Prepare, Status
<1>2. CASE ~(~s.job[j].removed /\ "original" \notin f[j]) /\ s.job[j].prepared # "none"
  BY <1>2, CleanUpIsSound DEF Prepare
<1>3. CASE /\ ~(~s.job[j].removed /\ "original" \notin f[j]) /\ s.job[j].prepared = "none"
           /\ s.job[j].target = "later"
  <2> DEFINE job == [s.job[j] EXCEPT !.prepared = "source"]
             new == WithJob(s, j, job, s.at[j], s.asked[j], s.acting[j])
  <2>1. Prepare(s, j, f[j]) = Ended([s EXCEPT !.job[j].prepared = "source"], j, "prepared")
    BY <1>3 DEF Prepare
  <2>2. [s EXCEPT !.job[j].prepared = "source"] = new
    BY DEF Sound, LaptopTypeOK, WithJob
  <2>3. /\ s.job[j] \in JobRecord /\ s.at[j] \in Place /\ s.asked[j] \in Asked /\ s.acting[j] \in Acting
        /\ RowIsSound(Kind[j], s.job[j], s.at[j], s.asked[j], s.acting[j], f[j], p[j])
    BY RowFields
  <2>4. /\ job \in JobRecord /\ job.status = s.job[j].status /\ job.upload = s.job[j].upload
        /\ job.prepared = "source" /\ job.source = s.job[j].source
    BY <2>3 DEF JobRecord
  <2> HIDE DEF job
  <2>5. RowIsSound(Kind[j], job, s.at[j], s.asked[j], s.acting[j], f[j], p[j])
    BY <1>3, <2>3, <2>4 DEF RowIsSound, NotOnItsWay, CopyIsThere
  <2>6. Sound(new, f, p)
    BY <2>3, <2>4, <2>5, JobIsSound
  <2> HIDE DEF new
  <2> QED BY <2>1, <2>2, <2>6, EndedIsSound DEF Status
<1>4. CASE /\ ~(~s.job[j].removed /\ "original" \notin f[j]) /\ s.job[j].prepared = "none"
           /\ s.job[j].target # "later"
  <2>1. Prepare(s, j, f[j]) = EnterStage(s, j, "convert")
    BY <1>4 DEF Prepare
  <2>2. s.job[j].source => "original" \in f[j]
    <3>1. RowIsSound(Kind[j], s.job[j], s.at[j], s.asked[j], s.acting[j], f[j], p[j])
      BY RowFields
    <3> QED BY <1>4, <3>1 DEF RowIsSound, CopyIsThere
  <2> QED BY <2>1, <2>2, EnterIsSound
<1> QED BY <1>1, <1>2, <1>3, <1>4

LEMMA BegunIsSound ==
  ASSUME NEW s, NEW p, Sound(s, files, p), NEW j \in Job, s.at[j] = "begin"
  PROVE  Sound(Begun(s, j), files, p)
<1> DEFINE f == files
<1>1. /\ s.job[j] \in JobRecord /\ s.at[j] \in Place /\ s.asked[j] \in Asked /\ s.acting[j] \in Acting
      /\ RowIsSound(Kind[j], s.job[j], s.at[j], s.asked[j], s.acting[j], f[j], p[j])
  BY RowFields
<1>2. CASE s.job[j].result
  <2> DEFINE job == [s.job[j] EXCEPT !.status = "running"]
             new == WithJob(s, j, job, "repair", s.asked[j], s.acting[j])
  <2>1. Begun(s, j) = [s EXCEPT !.job[j].status = "running", !.at[j] = "repair"]
    BY <1>2 DEF Begun
  <2>2. [s EXCEPT !.job[j].status = "running", !.at[j] = "repair"] = new
    BY DEF Sound, LaptopTypeOK, WithJob
  <2>3. /\ job \in JobRecord /\ job.status = "running" /\ job.upload = s.job[j].upload
        /\ job.prepared = s.job[j].prepared /\ job.source = s.job[j].source
    BY <1>1 DEF JobRecord, Status
  <2> HIDE DEF job
  <2>4. RowIsSound(Kind[j], job, "repair", s.asked[j], s.acting[j], f[j], p[j])
    BY <1>1, <2>3 DEF RowIsSound, NotOnItsWay, CopyIsThere
  <2>5. Sound(new, f, p)
    BY <1>1, <2>3, <2>4, JobIsSound DEF Place
  <2> QED BY <2>1, <2>2, <2>5
<1>3. CASE ~s.job[j].result /\ ~s.job[j].source
  BY <1>3, EnterIsSound DEF Begun
<1>4. CASE ~s.job[j].result /\ s.job[j].source
  <2>1. Begun(s, j) = Prepare(s, j, files[j])
    BY <1>4 DEF Begun
  <2>2. s.job[j].status # "cancelled"
    BY <1>1 DEF RowIsSound, NotOnItsWay
  <2> QED BY <2>1, <2>2, PrepareIsSound
<1> QED BY <1>1, <1>2, <1>3, <1>4 DEF JobRecord

(* The second half of a pause or a cancel.                                    *)
LEMMA ApplyIsSound ==
  ASSUME NEW s, NEW f, NEW p, Sound(s, f, p), NEW j \in Job, NEW action \in {"pause", "cancel"},
         action = "cancel" => p[j] \in Unpublished
  PROVE  Sound(Apply(s, j, action), f, p)
<1> DEFINE asked == IF action = "cancel" THEN "cancelled" ELSE "paused"
           told == [s EXCEPT !.acting[j] = "none", !.asked[j] = asked]
           job == [s.job[j] EXCEPT !.status = asked]
           ended == [s EXCEPT !.job[j].status = asked, !.acting[j] = "none"]
<1>1. /\ s.job[j] \in JobRecord /\ s.at[j] \in Place /\ s.asked[j] \in Asked /\ s.acting[j] \in Acting
      /\ RowIsSound(Kind[j], s.job[j], s.at[j], s.asked[j], s.acting[j], f[j], p[j])
  BY RowFields
<1>2. /\ job \in JobRecord /\ job.status = asked /\ job.upload = s.job[j].upload
      /\ job.prepared = s.job[j].prepared /\ job.source = s.job[j].source
  BY <1>1 DEF JobRecord, Status
<1>3. asked \in Asked \ {"none"} /\ (asked = "cancelled" => p[j] \in Unpublished)
  BY DEF Asked
<1>4. told = WithJob(s, j, s.job[j], s.at[j], asked, "none")
  BY DEF Sound, LaptopTypeOK, WithJob
<1>5. ended = WithJob(s, j, job, s.at[j], s.asked[j], "none")
  BY DEF Sound, LaptopTypeOK, WithJob
<1>6. /\ s.at[j] = "idle" => Apply(s, j, action) = Kicked(ended)
      /\ s.at[j] # "idle" /\ PhaseOf(s, j) = "waiting" => Apply(s, j, action) = Rejected(told, j, "failed")
      /\ s.at[j] # "idle" /\ PhaseOf(s, j) # "waiting" => Apply(s, j, action) = Kicked(told)
  <2>1. CASE s.at[j] = "idle"
    <3>1. PhaseOf(s, j) = "out"
      BY <2>1 DEF PhaseOf, StageOf
    <3> QED BY <2>1, <3>1 DEF Apply
  <2>2. CASE s.at[j] # "idle" /\ PhaseOf(s, j) = "waiting"
    BY <2>2 DEF Apply
  <2>3. CASE s.at[j] # "idle" /\ PhaseOf(s, j) # "waiting"
    BY <2>3 DEF Apply
  <2> QED BY <2>1, <2>2, <2>3
<1> HIDE DEF asked, told, job, ended
<1>7. Sound(told, f, p)
  <2>1. RowIsSound(Kind[j], s.job[j], s.at[j], asked, "none", f[j], p[j])
    BY <1>1, <1>3 DEF RowIsSound, NotOnItsWay, CopyIsThere
  <2> QED BY <1>1, <1>3, <1>4, <2>1, JobIsSound DEF Acting
<1>8. ASSUME s.at[j] = "idle" PROVE Sound(ended, f, p)
  <2>1. RowIsSound(Kind[j], job, s.at[j], s.asked[j], "none", f[j], p[j])
    BY <1>1, <1>2, <1>3, <1>8 DEF RowIsSound, NotOnItsWay, CopyIsThere
  <2> QED BY <1>1, <1>2, <1>5, <2>1, JobIsSound DEF Acting
<1>9. Sound(Rejected(told, j, "failed"), f, p)
  BY <1>7, RejectedIsSound DEF Status
<1> QED BY <1>6, <1>7, <1>8, <1>9, KickedIsSound

(* Another process reads the journal.                                         *)
LEMMA StartedIsSound ==
  ASSUME NEW s, NEW f, NEW p, s.job \in [Job -> JobRecord],
         \A j \in Job : RowIsSound(Kind[j], s.job[j], "idle", "none", "none", f[j], p[j])
  PROVE  Sound(Started(s), f, p)
<1> DEFINE jobs == [j \in Job |->
                      IF s.job[j].status \in {"absent", "complete", "prepared", "cancelled", "failed", "paused"}
                      THEN s.job[j] ELSE [s.job[j] EXCEPT !.status = "paused"]]
           g == [stage \in Stage |-> Gate(stage)!Empty]
           new == [job |-> jobs, at |-> [j \in Job |-> "idle"], asked |-> [j \in Job |-> "none"],
                   acting |-> [j \in Job |-> "none"], gate |-> g, timer |-> FALSE, stopping |-> FALSE]
<1>1. Started(s) = Kicked(new)
  BY DEF Started
<1> HIDE DEF g
<1>2. ASSUME NEW j \in Job
      PROVE  /\ jobs[j] \in JobRecord /\ (jobs[j].status = "cancelled" => s.job[j].status = "cancelled")
             /\ jobs[j].upload = s.job[j].upload
             /\ jobs[j].prepared = s.job[j].prepared /\ jobs[j].source = s.job[j].source
  <2>1. s.job[j] \in JobRecord
    OBVIOUS
  <2> QED BY <2>1 DEF JobRecord, Status
<1>3. jobs \in [Job -> JobRecord]
  BY <1>2
<1> HIDE DEF jobs
<1>4. LaptopTypeOK(new)
  BY <1>3 DEF LaptopTypeOK, Place, Asked, Acting
<1>5. ASSUME NEW j \in Job
      PROVE  RowIsSound(Kind[j], new.job[j], new.at[j], new.asked[j], new.acting[j], f[j], p[j])
  <2>1. RowIsSound(Kind[j], s.job[j], "idle", "none", "none", f[j], p[j])
    OBVIOUS
  <2> QED BY <1>2, <2>1 DEF RowIsSound, NotOnItsWay, CopyIsThere
<1>6. Sound(new, f, p)
  BY <1>4, <1>5 DEF Sound
<1> HIDE DEF new
<1> QED BY <1>1, <1>6, KickedIsSound

-----------------------------------------------------------------------------
LEMMA InitIsSound == QueueInit => QueueInv
<1> SUFFICES ASSUME QueueInit PROVE QueueInv
  OBVIOUS
<1> DEFINE s == [job |-> [j \in Job |-> NewJob]]
<1>1. /\ files \in [Job -> SUBSET {"original", "copy"}] /\ pi \in [Job -> Upload] /\ events \in Nat
      /\ laptop = Started(s)
  BY DEF QueueInit, Upload
<1>2. s.job \in [Job -> JobRecord]
  <2>1. NewJob \in JobRecord
    <3>1. "none" \in Target
      BY DEF Target
    <3> QED BY <3>1 DEF NewJob, JobRecord, Status
  <2> QED BY <2>1
<1>3. ASSUME NEW j \in Job
      PROVE  RowIsSound(Kind[j], s.job[j], "idle", "none", "none", files[j], pi[j])
  BY DEF NewJob, QueueInit, RowIsSound, NotOnItsWay, CopyIsThere, Unpublished
<1> HIDE DEF s
<1>4. Sound(laptop, files, pi)
  BY <1>1, <1>2, <1>3, StartedIsSound
<1> QED BY <1>1, <1>4 DEF QueueInv, QueueTypeOK, Sound

LEMMA RestartIsSound ==
  ASSUME NEW f, NEW p, Sound(laptop, f, p)
  PROVE  Sound(Started(laptop), f, p)
<1>1. laptop.job \in [Job -> JobRecord]
  BY DEF Sound, LaptopTypeOK
<1>2. ASSUME NEW j \in Job
      PROVE  RowIsSound(Kind[j], laptop.job[j], "idle", "none", "none", f[j], p[j])
  <2>1. RowIsSound(Kind[j], laptop.job[j], laptop.at[j], laptop.asked[j], laptop.acting[j], f[j], p[j])
    BY RowFields
  <2> QED BY <2>1 DEF RowIsSound, NotOnItsWay, CopyIsThere
<1> QED BY <1>1, <1>2, StartedIsSound

LEMMA BeginIsSound ==
  ASSUME QueueInv, Begin
  PROVE  Sound(laptop', files, pi)
<1>1. Starting \subseteq Nat /\ Starting # {}
  BY JobsAreNumbered DEF Begin, Starting
<1>2. PICK j \in Starting : \A k \in Starting : ~(<<k, j>> \in OpToRel(<, Nat))
  BY <1>1, NatLessThanWellFounded, WFMin
<1>3. \A k \in Starting : j =< k
  <2> TAKE k \in Starting
  <2>1. ~(k < j)
    BY <1>1, <1>2 DEF OpToRel
  <2> QED BY <1>1, <2>1
<1>4. \E x \in Starting : \A y \in Starting : x =< y
  BY <1>3
<1>5. Min(Starting) \in Starting
  BY <1>4 DEF Min
<1>6. Min(Starting) \in Job /\ laptop.at[Min(Starting)] = "begin" /\ laptop' = Begun(laptop, Min(Starting))
  BY <1>5 DEF Starting, Begin
<1> QED BY <1>6, BegunIsSound DEF QueueInv

(* A continuation that got its slot.                                          *)
LEMMA GoOnIsSound ==
  ASSUME QueueInv, NEW j \in Job, GoOn(j)
  PROVE  Sound(laptop', files, pi)
<1> DEFINE stage == StageOf(laptop.at[j])
           x == Gate(stage)!Continued(laptop.gate[stage], j)
           g == [laptop.gate EXCEPT ![stage] = x]
<1>1. CASE laptop.asked[j] = "none"
  <2>1. laptop' = [laptop EXCEPT !.gate[stage] = x]
    BY <1>1 DEF GoOn
  <2> HIDE DEF x, stage
  <2>2. laptop' = [laptop EXCEPT !.gate = g]
    BY <2>1 DEF QueueInv, Sound, LaptopTypeOK
  <2> QED BY <2>2, GateIsSound DEF QueueInv
<1>2. CASE laptop.asked[j] # "none"
  BY <1>2, RejectedIsSound DEF GoOn, QueueInv, Status
<1> QED BY <1>1, <1>2

(* Runs that fail, are offline or were told to stop.                          *)
LEMMA FailureIsSound ==
  ASSUME QueueInv, NEW j \in Job, ToolFails(j) \/ Offline(j) \/ Stopped(j)
  PROVE  Sound(laptop', files, pi)
<1>1. laptop' = Rejected(laptop, j, "failed") \/ laptop' = Rejected(laptop, j, "waiting")
  BY DEF ToolFails, Offline, Stopped
<1>2. Sound(Rejected(laptop, j, "failed"), files, pi) /\ Sound(Rejected(laptop, j, "waiting"), files, pi)
  BY RejectedIsSound DEF QueueInv, Status
<1> QED BY <1>1, <1>2

(* The fields of a job that a run notes at its await.                         *)
Noted(s, j, job) == [s EXCEPT !.job[j] = job]

LEMMA NotedIsSound ==
  ASSUME NEW s, NEW f, NEW p, Sound(s, f, p), NEW j \in Job, NEW job \in JobRecord, NEW f2,
         \A k \in Job : k # j => f2[k] = f[k],
         RowIsSound(Kind[j], job, s.at[j], s.asked[j], s.acting[j], f2[j], p[j])
  PROVE  /\ Sound(Noted(s, j, job), f2, p)
         /\ Noted(s, j, job).job[j] = job /\ Noted(s, j, job).at = s.at /\ Noted(s, j, job).asked = s.asked
<1>1. Noted(s, j, job) = WithJob(s, j, job, s.at[j], s.asked[j], s.acting[j])
  BY DEF Sound, LaptopTypeOK, WithJob, Noted
<1>2. s.at[j] \in Place /\ s.asked[j] \in Asked /\ s.acting[j] \in Acting
  BY RowFields
<1>3. Sound(WithJob(s, j, job, s.at[j], s.asked[j], s.acting[j]), f2, p)
  BY <1>2, JobIsSound
<1>4. Noted(s, j, job).job[j] = job /\ Noted(s, j, job).at = s.at /\ Noted(s, j, job).asked = s.asked
  BY DEF Sound, LaptopTypeOK, Noted
<1> QED BY <1>1, <1>3, <1>4

LEMMA DownloadedIsSound ==
  ASSUME QueueInv, NEW j \in Job, Downloaded(j)
  PROVE  Sound(laptop', files', pi)
<1> DEFINE left == LeaveStage(laptop, j)
           job == [left.job[j] EXCEPT !.source = TRUE]
           new == Noted(left, j, job)
<1>1. /\ Sound(laptop, files, pi) /\ laptop.at[j] = "download"
      /\ files' = [files EXCEPT ![j] = files[j] \cup {"original"}] /\ files \in [Job -> SUBSET {"original", "copy"}]
      /\ laptop' = Prepare([left EXCEPT !.job[j].source = TRUE], j, files'[j])
  BY DEF Downloaded, Awaits, QueueInv, QueueTypeOK
<1>2. Sound(left, files, pi) /\ left.at = laptop.at
  BY <1>1, LeaveIsSound
<1> HIDE DEF left
<1>3. /\ left.job[j] \in JobRecord
      /\ RowIsSound(Kind[j], left.job[j], left.at[j], left.asked[j], left.acting[j], files[j], pi[j])
  BY <1>2, RowFields
<1>4. [left EXCEPT !.job[j].source = TRUE] = new
  BY <1>2 DEF Sound, LaptopTypeOK, Noted
<1>5. /\ job \in JobRecord /\ job.status = left.job[j].status /\ job.upload = left.job[j].upload
      /\ job.prepared = left.job[j].prepared /\ job.source
  BY <1>3 DEF JobRecord
<1> HIDE DEF job
<1>6. /\ files'[j] = files[j] \cup {"original"}
      /\ \A k \in Job : k # j => files'[k] = files[k]
  BY <1>1
<1>7. RowIsSound(Kind[j], job, left.at[j], left.asked[j], left.acting[j], files'[j], pi[j])
  BY <1>3, <1>5, <1>6 DEF RowIsSound, NotOnItsWay, CopyIsThere
<1>8. Sound(new, files', pi) /\ new.job[j] = job /\ new.at = left.at
  <2>1. \A k \in Job : k # j => files'[k] = files[k]
    BY <1>6
  <2> QED BY <1>2, <1>5, <1>7, <2>1, NotedIsSound
<1> HIDE DEF new
<1>9. new.at[j] = "download" /\ new.job[j].status # "cancelled"
  BY <1>1, <1>2, <1>3, <1>5, <1>8 DEF RowIsSound, NotOnItsWay
<1> QED BY <1>1, <1>4, <1>8, <1>9, PrepareIsSound

LEMMA ConvertedIsSound ==
  ASSUME QueueInv, NEW j \in Job, NEW prepared \in {"source", "copy"}, Converted(j, prepared)
  PROVE  Sound(laptop', files', pi)
<1> DEFINE left == LeaveStage(laptop, j)
           job == [left.job[j] EXCEPT !.prepared = prepared]
           new == Noted(left, j, job)
<1>1. /\ Sound(laptop, files, pi) /\ laptop.at[j] = "convert" /\ files \in [Job -> SUBSET {"original", "copy"}]
      /\ files' = [files EXCEPT ![j] = IF prepared = "copy" THEN files[j] \cup {"copy"} ELSE files[j]]
      /\ laptop' = CleanUp([left EXCEPT !.job[j].prepared = prepared], j)
  BY DEF Converted, Awaits, QueueInv, QueueTypeOK
<1>2. Sound(left, files, pi) /\ left.at = laptop.at
  BY <1>1, LeaveIsSound
<1> HIDE DEF left
<1>3. /\ left.job[j] \in JobRecord
      /\ RowIsSound(Kind[j], left.job[j], left.at[j], left.asked[j], left.acting[j], files[j], pi[j])
  BY <1>2, RowFields
<1>4. [left EXCEPT !.job[j].prepared = prepared] = new
  BY <1>2 DEF Sound, LaptopTypeOK, Noted
<1>5. /\ job \in JobRecord /\ job.status = left.job[j].status /\ job.upload = left.job[j].upload
      /\ job.prepared = prepared /\ job.source = left.job[j].source
  BY <1>3 DEF JobRecord
<1> HIDE DEF job
<1>6. /\ files'[j] = IF prepared = "copy" THEN files[j] \cup {"copy"} ELSE files[j]
      /\ \A k \in Job : k # j => files'[k] = files[k]
  BY <1>1
<1>7. RowIsSound(Kind[j], job, left.at[j], left.asked[j], left.acting[j], files'[j], pi[j])
  BY <1>1, <1>2, <1>3, <1>5, <1>6 DEF RowIsSound, NotOnItsWay, CopyIsThere
<1>8. Sound(new, files', pi) /\ new.job[j] = job /\ new.at = left.at
  <2>1. \A k \in Job : k # j => files'[k] = files[k]
    BY <1>6
  <2> QED BY <1>2, <1>5, <1>7, <2>1, NotedIsSound
<1> HIDE DEF new
<1>9. new.job[j].status # "cancelled"
  BY <1>1, <1>2, <1>3, <1>5, <1>8 DEF RowIsSound, NotOnItsWay
<1> QED BY <1>1, <1>4, <1>8, <1>9, CleanUpIsSound

(* The original goes only from a run that has seen the copy.                  *)
LEMMA UnlinkIsSound ==
  ASSUME QueueInv, NEW j \in Job, Unlink(j)
  PROVE  Sound(laptop', files', pi)
<1>1. /\ Sound(laptop, files, pi) /\ laptop.at[j] = "verify" /\ files \in [Job -> SUBSET {"original", "copy"}]
      /\ files' = [files EXCEPT ![j] = files[j] \ {"original"}]
      /\ laptop' = [laptop EXCEPT !.at[j] = "unlinked"]
  BY DEF Unlink, QueueInv, QueueTypeOK
<1>2. laptop' = WithJob(laptop, j, laptop.job[j], "unlinked", laptop.asked[j], laptop.acting[j])
  BY <1>1 DEF Sound, LaptopTypeOK, WithJob
<1>3. /\ laptop.job[j] \in JobRecord /\ laptop.asked[j] \in Asked /\ laptop.acting[j] \in Acting
      /\ RowIsSound(Kind[j], laptop.job[j], laptop.at[j], laptop.asked[j], laptop.acting[j], files[j], pi[j])
  BY <1>1, RowFields
<1>4. /\ files'[j] = files[j] \ {"original"}
      /\ \A k \in Job : k # j => files'[k] = files[k]
  BY <1>1
<1>5. RowIsSound(Kind[j], laptop.job[j], "unlinked", laptop.asked[j], laptop.acting[j], files'[j], pi[j])
  BY <1>1, <1>3, <1>4 DEF RowIsSound, NotOnItsWay, CopyIsThere
<1>6. Sound(WithJob(laptop, j, laptop.job[j], "unlinked", laptop.asked[j], laptop.acting[j]), files', pi)
  BY <1>1, <1>3, <1>4, <1>5, JobIsSound DEF Place
<1> QED BY <1>2, <1>6

LEMMA UnlinkedIsSound ==
  ASSUME QueueInv, NEW j \in Job, Unlinked(j)
  PROVE  Sound(laptop', files, pi)
<1> DEFINE job == [laptop.job[j] EXCEPT !.removed = TRUE]
           noted == Noted(laptop, j, job)
<1>1. Sound(laptop, files, pi) /\ laptop.at[j] = "unlinked"
  BY DEF Unlinked, QueueInv
<1>2. laptop' = Rejected(noted, j, "failed") \/ laptop' = Deliver(noted, j)
  <2>1. [laptop EXCEPT !.job[j].removed = TRUE] = noted
    BY <1>1 DEF Sound, LaptopTypeOK, Noted
  <2> HIDE DEF noted
  <2> QED BY <2>1 DEF Unlinked
<1>3. /\ laptop.job[j] \in JobRecord
      /\ RowIsSound(Kind[j], laptop.job[j], laptop.at[j], laptop.asked[j], laptop.acting[j], files[j], pi[j])
  BY <1>1, RowFields
<1>4. /\ job \in JobRecord /\ job.status = laptop.job[j].status /\ job.upload = laptop.job[j].upload
      /\ job.prepared = laptop.job[j].prepared /\ job.source = laptop.job[j].source
  BY <1>3 DEF JobRecord
<1> HIDE DEF job
<1>5. RowIsSound(Kind[j], job, laptop.at[j], laptop.asked[j], laptop.acting[j], files[j], pi[j])
  BY <1>3, <1>4 DEF RowIsSound, NotOnItsWay, CopyIsThere
<1>6. Sound(noted, files, pi)
  BY <1>1, <1>4, <1>5, NotedIsSound
<1> HIDE DEF noted
<1>7. Sound(Rejected(noted, j, "failed"), files, pi) /\ Sound(Deliver(noted, j), files, pi)
  BY <1>6, RejectedIsSound, DeliverIsSound DEF Status
<1> QED BY <1>2, <1>7

LEMMA PiCreatesIsSound ==
  ASSUME QueueInv, NEW j \in Job, PiCreates(j)
  PROVE  Sound(laptop', files, pi')
<1>1. /\ Sound(laptop, files, pi) /\ laptop.at[j] = "create" /\ ~laptop.job[j].upload
      /\ pi' = [pi EXCEPT ![j] = IF pi[j] = "none" THEN "receiving" ELSE pi[j]] /\ pi \in [Job -> Upload]
      /\ laptop' = [laptop EXCEPT !.at[j] = "created"]
  BY DEF PiCreates, Awaits, QueueInv, QueueTypeOK
<1>2. /\ laptop.job[j] \in JobRecord /\ laptop.asked[j] \in Asked /\ laptop.acting[j] \in Acting
      /\ RowIsSound(Kind[j], laptop.job[j], laptop.at[j], laptop.asked[j], laptop.acting[j], files[j], pi[j])
  BY <1>1, RowFields
<1>3. laptop' = WithJob(laptop, j, laptop.job[j], "created", laptop.asked[j], laptop.acting[j])
  BY <1>1 DEF Sound, LaptopTypeOK, WithJob
<1>4. /\ pi'[j] = IF pi[j] = "none" THEN "receiving" ELSE pi[j]
      /\ \A k \in Job : k # j => pi'[k] = pi[k]
  BY <1>1
<1>5. RowIsSound(Kind[j], laptop.job[j], "created", laptop.asked[j], laptop.acting[j], files[j], pi'[j])
  BY <1>1, <1>2, <1>4 DEF RowIsSound, NotOnItsWay, CopyIsThere, Unpublished
<1>6. Sound(WithJob(laptop, j, laptop.job[j], "created", laptop.asked[j], laptop.acting[j]), files, pi')
  <2>1. \A k \in Job : k # j => files[k] = files[k] /\ pi'[k] = pi[k]
    BY <1>4
  <2>2. "created" \in Place
    BY DEF Place
  <2> QED BY <1>1, <1>2, <1>5, <2>1, <2>2, JobIsSound
<1> QED BY <1>3, <1>6

LEMMA CreatedIsSound ==
  ASSUME QueueInv, NEW j \in Job, Created(j)
  PROVE  Sound(laptop', files, pi)
<1> DEFINE job == [laptop.job[j] EXCEPT !.upload = TRUE]
<1>1. /\ Sound(laptop, files, pi) /\ laptop.at[j] = "created" /\ laptop.asked[j] = "none"
      /\ laptop' = [laptop EXCEPT !.job[j].upload = TRUE, !.at[j] = "create"]
  BY DEF Created, Awaits, QueueInv
<1>2. /\ laptop.job[j] \in JobRecord /\ laptop.asked[j] \in Asked /\ laptop.acting[j] \in Acting
      /\ RowIsSound(Kind[j], laptop.job[j], laptop.at[j], laptop.asked[j], laptop.acting[j], files[j], pi[j])
  BY <1>1, RowFields
<1>3. laptop' = WithJob(laptop, j, job, "create", laptop.asked[j], laptop.acting[j])
  BY <1>1 DEF Sound, LaptopTypeOK, WithJob
<1>4. /\ job \in JobRecord /\ job.status = laptop.job[j].status /\ job.upload
      /\ job.prepared = laptop.job[j].prepared /\ job.source = laptop.job[j].source
  BY <1>2 DEF JobRecord
<1> HIDE DEF job
<1>5. RowIsSound(Kind[j], job, "create", laptop.asked[j], laptop.acting[j], files[j], pi[j])
  BY <1>1, <1>2, <1>4 DEF RowIsSound, NotOnItsWay, CopyIsThere
<1>6. Sound(WithJob(laptop, j, job, "create", laptop.asked[j], laptop.acting[j]), files, pi)
  BY <1>1, <1>2, <1>4, <1>5, JobIsSound DEF Place
<1> QED BY <1>3, <1>6

(* The Pi's side of an upload.                                                *)
LEMMA UploadIsSound ==
  ASSUME NEW s, NEW f, NEW p \in [Job -> Upload], Sound(s, f, p), NEW j \in Job, NEW u,
         RowIsSound(Kind[j], s.job[j], s.at[j], s.asked[j], s.acting[j], f[j], u)
  PROVE  Sound(s, f, [p EXCEPT ![j] = u])
<1> DEFINE p2 == [p EXCEPT ![j] = u]
<1>1. p2[j] = u /\ \A k \in Job : k # j => p2[k] = p[k]
  OBVIOUS
<1> HIDE DEF p2
<1>2. ASSUME NEW k \in Job
      PROVE  RowIsSound(Kind[k], s.job[k], s.at[k], s.asked[k], s.acting[k], f[k], p2[k])
  <2>1. RowIsSound(Kind[k], s.job[k], s.at[k], s.asked[k], s.acting[k], f[k], p[k])
    BY DEF Sound
  <2>2. CASE k = j
    BY <1>1, <2>2
  <2>3. CASE k # j
    BY <1>1, <2>1, <2>3
  <2> QED BY <2>2, <2>3
<1>3. Sound(s, f, p2)
  BY <1>2 DEF Sound
<1> QED BY <1>3 DEF p2

LEMMA FoundIsSound ==
  ASSUME QueueInv, NEW j \in Job, Found(j)
  PROVE  Sound(laptop', files, pi')
<1> DEFINE u == CASE pi[j] = "paused" -> "receiving"
                  [] pi[j] \in {"held", "error"} -> "queued"
                  [] OTHER -> pi[j]
<1>1. /\ Sound(laptop, files, pi) /\ laptop.at[j] = "create" /\ laptop.asked[j] = "none" /\ laptop.job[j].upload
      /\ pi' = [pi EXCEPT ![j] = u] /\ pi \in [Job -> Upload]
      /\ laptop' = IF pi[j] = "none" THEN Rejected(laptop, j, "failed") ELSE [laptop EXCEPT !.at[j] = "send"]
  BY DEF Found, Awaits, QueueInv, QueueTypeOK
<1>2. /\ laptop.job[j] \in JobRecord /\ laptop.asked[j] \in Asked /\ laptop.acting[j] \in Acting
      /\ RowIsSound(Kind[j], laptop.job[j], laptop.at[j], laptop.asked[j], laptop.acting[j], files[j], pi[j])
  BY <1>1, RowFields
<1>3. pi[j] = "none" => u = "none"
  OBVIOUS
<1> HIDE DEF u
<1>4. RowIsSound(Kind[j], laptop.job[j], laptop.at[j], laptop.asked[j], laptop.acting[j], files[j], u)
  BY <1>1, <1>2, <1>3 DEF RowIsSound, NotOnItsWay, CopyIsThere
<1>5. Sound(laptop, files, pi')
  BY <1>1, <1>4, UploadIsSound
<1>6. CASE pi[j] = "none"
  BY <1>1, <1>5, <1>6, RejectedIsSound DEF Status
<1>7. CASE pi[j] # "none"
  <2>1. pi'[j] = u
    BY <1>1
  <2>2. RowIsSound(Kind[j], laptop.job[j], "send", laptop.asked[j], laptop.acting[j], files[j], pi'[j])
    BY <1>1, <1>4, <2>1 DEF RowIsSound, NotOnItsWay, CopyIsThere
  <2>3. laptop' = [laptop EXCEPT !.at[j] = "send"]
    BY <1>1, <1>7
  <2>4. "send" \in Place
    BY DEF Place
  <2>5. Sound([laptop EXCEPT !.at[j] = "send"], files, pi')
    BY <1>5, <2>2, <2>4, PlaceIsSound
  <2> QED BY <2>3, <2>5
<1> QED BY <1>6, <1>7

(* Chunks go to the Pi only from a run that is wanted, and the Pi's answer to *)
(* a cancel leaves nothing to send them to.                                   *)
LEMMA SendChunksIsSound ==
  ASSUME QueueInv, NEW j \in Job, SendChunks(j)
  PROVE  Sound(laptop, files, pi')
<1>1. /\ Sound(laptop, files, pi) /\ laptop.at[j] = "send" /\ laptop.asked[j] = "none" /\ pi[j] = "receiving"
      /\ pi' = [pi EXCEPT ![j] = "queued"] /\ pi \in [Job -> Upload]
  BY DEF SendChunks, Awaits, QueueInv, QueueTypeOK
<1>2. RowIsSound(Kind[j], laptop.job[j], laptop.at[j], laptop.asked[j], laptop.acting[j], files[j], pi[j])
  BY <1>1, RowFields
<1>3. RowIsSound(Kind[j], laptop.job[j], laptop.at[j], laptop.asked[j], laptop.acting[j], files[j], "queued")
  BY <1>1, <1>2 DEF RowIsSound, NotOnItsWay, CopyIsThere
<1> QED BY <1>1, <1>3, UploadIsSound

LEMMA PollIsSound ==
  ASSUME QueueInv, NEW j \in Job, Poll(j)
  PROVE  Sound(laptop', files, pi') /\ pi' \in [Job -> Upload]
<1>1. /\ Sound(laptop, files, pi) /\ laptop.at[j] = "send" /\ laptop.asked[j] = "none" /\ pi \in [Job -> Upload]
  BY DEF Poll, Awaits, QueueInv, QueueTypeOK
<1>2. /\ laptop.job[j] \in JobRecord /\ laptop.asked[j] \in Asked /\ laptop.acting[j] \in Acting
      /\ RowIsSound(Kind[j], laptop.job[j], laptop.at[j], laptop.asked[j], laptop.acting[j], files[j], pi[j])
  BY <1>1, RowFields
<1>3. CASE /\ pi[j] \in {"complete", "refresh-error"}
           /\ pi' = [pi EXCEPT ![j] = "complete"]
           /\ laptop' = [laptop EXCEPT !.job[j].result = TRUE, !.at[j] = "publish"]
  <2> DEFINE job == [laptop.job[j] EXCEPT !.result = TRUE]
  <2>1. laptop' = WithJob(laptop, j, job, "publish", laptop.asked[j], laptop.acting[j])
    BY <1>1, <1>3 DEF Sound, LaptopTypeOK, WithJob
  <2>2. /\ job \in JobRecord /\ job.status = laptop.job[j].status /\ job.upload = laptop.job[j].upload
        /\ job.prepared = laptop.job[j].prepared /\ job.source = laptop.job[j].source
    BY <1>2 DEF JobRecord
  <2> HIDE DEF job
  <2>3. /\ pi'[j] = "complete"
        /\ \A k \in Job : k # j => files[k] = files[k] /\ pi'[k] = pi[k]
    BY <1>1, <1>3
  <2>4. RowIsSound(Kind[j], job, "publish", laptop.asked[j], laptop.acting[j], files[j], pi'[j])
    BY <1>1, <1>2, <1>3, <2>2, <2>3 DEF RowIsSound, NotOnItsWay, CopyIsThere, Unpublished
  <2>5. "publish" \in Place
    BY DEF Place
  <2>6. \A k \in Job : k # j => files[k] = files[k] /\ pi'[k] = pi[k]
    BY <2>3
  <2>7. Sound(WithJob(laptop, j, job, "publish", laptop.asked[j], laptop.acting[j]), files, pi')
    BY <1>1, <1>2, <2>2, <2>4, <2>5, <2>6, JobIsSound
  <2>8. pi' \in [Job -> Upload]
    BY <1>1, <1>3 DEF Upload
  <2> QED BY <2>1, <2>7, <2>8
<1>4. CASE UNCHANGED pi /\ (laptop' = Rejected(laptop, j, "paused") \/ laptop' = Rejected(laptop, j, "failed"))
  <2>1. Sound(Rejected(laptop, j, "paused"), files, pi) /\ Sound(Rejected(laptop, j, "failed"), files, pi)
    BY <1>1, RejectedIsSound DEF Status
  <2> QED BY <1>1, <1>4, <2>1
<1> QED BY <1>3, <1>4 DEF Poll

LEMMA CompleteIsSound ==
  ASSUME QueueInv, NEW j \in Job, NEW matched \in BOOLEAN, Complete(j, matched)
  PROVE  Sound(laptop', files, pi)
<1> DEFINE left == LeaveStage(laptop, j)
           job == [left.job[j] EXCEPT !.matched = left.job[j].matched \/ matched]
           new == Noted(left, j, job)
<1>1. /\ Sound(laptop, files, pi)
      /\ laptop' = Ended([left EXCEPT !.job[j].matched = @ \/ matched], j, "complete")
  BY DEF Complete, QueueInv
<1>2. Sound(left, files, pi)
  BY <1>1, LeaveIsSound
<1> HIDE DEF left
<1>3. /\ left.job[j] \in JobRecord
      /\ RowIsSound(Kind[j], left.job[j], left.at[j], left.asked[j], left.acting[j], files[j], pi[j])
  BY <1>2, RowFields
<1>4. [left EXCEPT !.job[j].matched = @ \/ matched] = new
  BY <1>2 DEF Sound, LaptopTypeOK, Noted
<1>5. /\ job \in JobRecord /\ job.status = left.job[j].status /\ job.upload = left.job[j].upload
      /\ job.prepared = left.job[j].prepared /\ job.source = left.job[j].source
  BY <1>3 DEF JobRecord
<1> HIDE DEF job
<1>6. RowIsSound(Kind[j], job, left.at[j], left.asked[j], left.acting[j], files[j], pi[j])
  BY <1>3, <1>5 DEF RowIsSound, NotOnItsWay, CopyIsThere
<1>7. Sound(new, files, pi)
  BY <1>2, <1>5, <1>6, NotedIsSound
<1> HIDE DEF new
<1> QED BY <1>1, <1>4, <1>7, EndedIsSound DEF Status

-----------------------------------------------------------------------------
LEMMA AddIsSound ==
  ASSUME QueueInv, NEW j \in Job, NEW target \in Kind[j].targets, Add(j, target)
  PROVE  Sound(laptop', files, pi)
<1> DEFINE job == [laptop.job[j] EXCEPT !.status = "queued", !.target = target, !.source = Kind[j].source = "file"]
           new == Noted(laptop, j, job)
<1>1. /\ Sound(laptop, files, pi) /\ laptop.job[j].status = "absent"
      /\ laptop' = Kicked([laptop EXCEPT !.job[j].status = "queued", !.job[j].target = target,
                                         !.job[j].source = Kind[j].source = "file"])
  BY DEF Add, QueueInv
<1>2. /\ laptop.job[j] \in JobRecord
      /\ RowIsSound(Kind[j], laptop.job[j], laptop.at[j], laptop.asked[j], laptop.acting[j], files[j], pi[j])
  BY <1>1, RowFields
<1>3. [laptop EXCEPT !.job[j].status = "queued", !.job[j].target = target,
                     !.job[j].source = Kind[j].source = "file"] = new
  BY <1>1 DEF Sound, LaptopTypeOK, Noted
<1>4. /\ job \in JobRecord /\ job.status = "queued" /\ job.upload = laptop.job[j].upload
      /\ job.prepared = laptop.job[j].prepared /\ job.source = (Kind[j].source = "file")
  <2>1. target \in Target
    BY DEF Target
  <2> QED BY <1>2, <2>1 DEF JobRecord, Status
<1> HIDE DEF job
<1>5. RowIsSound(Kind[j], job, laptop.at[j], laptop.asked[j], laptop.acting[j], files[j], pi[j])
  BY <1>2, <1>4 DEF RowIsSound, NotOnItsWay, CopyIsThere
<1>6. Sound(new, files, pi)
  BY <1>1, <1>4, <1>5, NotedIsSound
<1> HIDE DEF new
<1> QED BY <1>1, <1>3, <1>6, KickedIsSound

(* The first half of a pause or a cancel, and the answers to it.              *)
Waits(s, j, acting) == [s EXCEPT !.acting[j] = acting]

LEMMA WaitsIsSound ==
  ASSUME NEW s, NEW f, NEW p, Sound(s, f, p), NEW j \in Job, NEW acting \in Acting \ {"cancel done"},
         acting = "none" \/ s.job[j].upload
  PROVE  Sound(Waits(s, j, acting), f, p)
<1>1. Waits(s, j, acting) = WithJob(s, j, s.job[j], s.at[j], s.asked[j], acting)
  BY DEF Sound, LaptopTypeOK, WithJob, Waits
<1>2. /\ s.job[j] \in JobRecord /\ s.at[j] \in Place /\ s.asked[j] \in Asked
      /\ RowIsSound(Kind[j], s.job[j], s.at[j], s.asked[j], s.acting[j], f[j], p[j])
  BY RowFields
<1>3. RowIsSound(Kind[j], s.job[j], s.at[j], s.asked[j], acting, f[j], p[j])
  BY <1>2 DEF RowIsSound, NotOnItsWay, CopyIsThere
<1>4. Sound(WithJob(s, j, s.job[j], s.at[j], s.asked[j], acting), f, p)
  BY <1>2, <1>3, JobIsSound
<1> QED BY <1>1, <1>4

LEMMA ActIsSound ==
  ASSUME QueueInv, NEW j \in Job, NEW action \in {"pause", "cancel"}, Act(j, action)
  PROVE  Sound(laptop', files, pi)
<1>1. /\ Sound(laptop, files, pi)
      /\ laptop' = IF laptop.job[j].upload THEN Waits(laptop, j, action) ELSE Apply(laptop, j, action)
  BY DEF Act, AskedOfPi, QueueInv, Waits
<1>2. CASE laptop.job[j].upload
  <2>1. action \in Acting \ {"cancel done"}
    BY DEF Acting
  <2> QED BY <1>1, <1>2, <2>1, WaitsIsSound
<1>3. CASE ~laptop.job[j].upload
  <2>1. RowIsSound(Kind[j], laptop.job[j], laptop.at[j], laptop.asked[j], laptop.acting[j], files[j], pi[j])
    BY <1>1, RowFields
  <2>2. pi[j] \in Unpublished
    BY <1>3, <2>1 DEF RowIsSound, NotOnItsWay
  <2> QED BY <1>1, <1>3, <2>2, ApplyIsSound
<1> QED BY <1>2, <1>3

LEMMA AnsweredIsSound ==
  ASSUME QueueInv, NEW j \in Job, Answered(j) \/ Unanswered(j)
  PROVE  Sound(laptop', files, pi)
<1>1. /\ Sound(laptop, files, pi)
      /\ \/ laptop' = Apply(laptop, j, "pause")
         \/ laptop.acting[j] = "cancel done" /\ laptop' = Apply(laptop, j, "cancel")
         \/ laptop' = Waits(laptop, j, "none")
  BY DEF Answered, Unanswered, QueueInv, Waits
<1>2. RowIsSound(Kind[j], laptop.job[j], laptop.at[j], laptop.asked[j], laptop.acting[j], files[j], pi[j])
  BY <1>1, RowFields
<1>3. Sound(Apply(laptop, j, "pause"), files, pi)
  BY <1>1, ApplyIsSound
<1>4. ASSUME laptop.acting[j] = "cancel done" PROVE Sound(Apply(laptop, j, "cancel"), files, pi)
  <2>1. pi[j] \in Unpublished
    BY <1>2, <1>4 DEF RowIsSound, NotOnItsWay, Unpublished
  <2> QED BY <1>1, <2>1, ApplyIsSound
<1>5. Sound(Waits(laptop, j, "none"), files, pi)
  <2>1. "none" \in Acting \ {"cancel done"}
    BY DEF Acting
  <2> QED BY <1>1, <2>1, WaitsIsSound
<1> QED BY <1>1, <1>3, <1>4, <1>5

(* Requests for the Pi's side of an upload, from Studio or the portal.        *)
LEMMA AfterIsSound ==
  ASSUME NEW action \in {"pause", "cancel"}, NEW u \in Allowed(action)
  PROVE  /\ After(action, u) \in Upload /\ (u \in Unpublished => After(action, u) \in Unpublished)
         /\ u # "none" /\ (action = "cancel" => After(action, u) = "none")
BY DEF Allowed, After, Upload, Unpublished

LEMMA PiActsIsSound ==
  ASSUME QueueInv, NEW j \in Job, PiActs(j)
  PROVE  Sound(laptop', files, pi') /\ pi' \in [Job -> Upload]
<1> DEFINE action == laptop.acting[j]
           u == After(action, pi[j])
           done == IF action = "pause" THEN "pause done" ELSE "cancel done"
<1>1. /\ Sound(laptop, files, pi) /\ action \in {"pause", "cancel"} /\ pi \in [Job -> Upload]
      /\ \/ /\ pi[j] \in Allowed(action) /\ pi' = [pi EXCEPT ![j] = u]
            /\ laptop' = [laptop EXCEPT !.acting[j] = done]
         \/ pi' = pi /\ laptop' = Waits(laptop, j, "refused")
  BY DEF PiActs, QueueInv, QueueTypeOK, Waits
<1>2. /\ laptop.job[j] \in JobRecord /\ laptop.at[j] \in Place /\ laptop.asked[j] \in Asked
      /\ RowIsSound(Kind[j], laptop.job[j], laptop.at[j], laptop.asked[j], action, files[j], pi[j])
  BY <1>1, RowFields
<1>3. laptop.job[j].upload
  BY <1>1, <1>2 DEF RowIsSound, NotOnItsWay
<1>4. CASE /\ pi[j] \in Allowed(action) /\ pi' = [pi EXCEPT ![j] = u]
           /\ laptop' = [laptop EXCEPT !.acting[j] = done]
  <2>1. /\ u \in Upload /\ (pi[j] \in Unpublished => u \in Unpublished)
        /\ action = "cancel" => u = "none"
    BY <1>1, <1>4, AfterIsSound
  <2>2. done \in Acting /\ (done = "cancel done" => action = "cancel")
    BY <1>1 DEF Acting
  <2> HIDE DEF u, done
  <2>3. laptop' = WithJob(laptop, j, laptop.job[j], laptop.at[j], laptop.asked[j], done)
    <3>1. laptop' = [laptop EXCEPT !.acting[j] = done]
      BY <1>4
    <3>2. [laptop EXCEPT !.acting[j] = done] = WithJob(laptop, j, laptop.job[j], laptop.at[j], laptop.asked[j], done)
      BY <1>1 DEF Sound, LaptopTypeOK, WithJob
    <3> QED BY <3>1, <3>2
  <2>4. pi'[j] = u /\ \A k \in Job : k # j => files[k] = files[k] /\ pi'[k] = pi[k]
    BY <1>1, <1>4
  <2>5. RowIsSound(Kind[j], laptop.job[j], laptop.at[j], laptop.asked[j], done, files[j], pi'[j])
    BY <1>2, <1>3, <2>1, <2>2, <2>4 DEF RowIsSound, NotOnItsWay, CopyIsThere
  <2>6. \A k \in Job : k # j => files[k] = files[k] /\ pi'[k] = pi[k]
    BY <2>4
  <2>7. Sound(WithJob(laptop, j, laptop.job[j], laptop.at[j], laptop.asked[j], done), files, pi')
    BY <1>1, <1>2, <2>2, <2>5, <2>6, JobIsSound
  <2>8. pi' \in [Job -> Upload]
    BY <1>1, <1>4, <2>1
  <2> QED BY <2>3, <2>7, <2>8
<1>5. CASE pi' = pi /\ laptop' = Waits(laptop, j, "refused")
  <2>3. "refused" \in Acting \ {"cancel done"}
    BY DEF Acting
  <2> QED BY <1>1, <1>3, <1>5, <2>3, WaitsIsSound
<1> QED BY <1>1, <1>4, <1>5

LEMMA PiGoesOnIsSound ==
  ASSUME QueueInv, NEW j \in Job, PiWorks(j) \/ PortalActs(j)
  PROVE  Sound(laptop, files, pi') /\ pi' \in [Job -> Upload]
<1>1. Sound(laptop, files, pi) /\ pi \in [Job -> Upload]
  BY DEF QueueInv, QueueTypeOK
<1>2. RowIsSound(Kind[j], laptop.job[j], laptop.at[j], laptop.asked[j], laptop.acting[j], files[j], pi[j])
  BY <1>1, RowFields
<1>3. PICK u \in Upload : /\ pi' = [pi EXCEPT ![j] = u] /\ pi[j] # "none"
                          /\ pi[j] \in Unpublished => u \in Unpublished
  <2>1. CASE PiWorks(j)
    BY <2>1 DEF PiWorks, Upload, Unpublished
  <2>2. CASE PortalActs(j)
    <3>1. PICK action \in {"pause", "cancel"} :
            pi[j] \in Allowed(action) /\ pi' = [pi EXCEPT ![j] = After(action, pi[j])]
      BY <2>2 DEF PortalActs
    <3> QED BY <3>1, AfterIsSound
  <2> QED BY <2>1, <2>2
<1>4. RowIsSound(Kind[j], laptop.job[j], laptop.at[j], laptop.asked[j], laptop.acting[j], files[j], u)
  BY <1>2, <1>3 DEF RowIsSound, NotOnItsWay, CopyIsThere
<1>5. Sound(laptop, files, [pi EXCEPT ![j] = u])
  BY <1>1, <1>4, UploadIsSound
<1> QED BY <1>1, <1>3, <1>5

LEMMA ResumeIsSound ==
  ASSUME QueueInv, NEW j \in Job, Resume(j)
  PROVE  Sound(laptop', files, pi)
<1> DEFINE job == [laptop.job[j] EXCEPT !.status = "queued"]
           new == Noted(laptop, j, job)
<1>1. Sound(laptop, files, pi) /\ laptop' = Kicked([laptop EXCEPT !.job[j].status = "queued"])
  BY DEF Resume, QueueInv
<1>2. /\ laptop.job[j] \in JobRecord
      /\ RowIsSound(Kind[j], laptop.job[j], laptop.at[j], laptop.asked[j], laptop.acting[j], files[j], pi[j])
  BY <1>1, RowFields
<1>3. [laptop EXCEPT !.job[j].status = "queued"] = new
  BY <1>1 DEF Sound, LaptopTypeOK, Noted
<1>4. /\ job \in JobRecord /\ job.status = "queued" /\ job.upload = laptop.job[j].upload
      /\ job.prepared = laptop.job[j].prepared /\ job.source = laptop.job[j].source
  BY <1>2 DEF JobRecord, Status
<1> HIDE DEF job
<1>5. RowIsSound(Kind[j], job, laptop.at[j], laptop.asked[j], laptop.acting[j], files[j], pi[j])
  BY <1>2, <1>4 DEF RowIsSound, NotOnItsWay, CopyIsThere
<1>6. Sound(new, files, pi)
  BY <1>1, <1>4, <1>5, NotedIsSound
<1> HIDE DEF new
<1> QED BY <1>1, <1>3, <1>6, KickedIsSound

LEMMA RetryIsDueIsSound ==
  ASSUME QueueInv, NEW j \in Job, RetryIsDue(j)
  PROVE  Sound(laptop', files, pi)
<1> DEFINE job == [laptop.job[j] EXCEPT !.due = TRUE]
<1>1. Sound(laptop, files, pi) /\ laptop' = [laptop EXCEPT !.job[j].due = TRUE]
  BY DEF RetryIsDue, QueueInv
<1>2. /\ laptop.job[j] \in JobRecord
      /\ RowIsSound(Kind[j], laptop.job[j], laptop.at[j], laptop.asked[j], laptop.acting[j], files[j], pi[j])
  BY <1>1, RowFields
<1>3. laptop' = Noted(laptop, j, job)
  BY <1>1 DEF Sound, LaptopTypeOK, Noted
<1>4. /\ job \in JobRecord /\ job.status = laptop.job[j].status /\ job.upload = laptop.job[j].upload
      /\ job.prepared = laptop.job[j].prepared /\ job.source = laptop.job[j].source
  BY <1>2 DEF JobRecord
<1> HIDE DEF job
<1>5. RowIsSound(Kind[j], job, laptop.at[j], laptop.asked[j], laptop.acting[j], files[j], pi[j])
  BY <1>2, <1>4 DEF RowIsSound, NotOnItsWay, CopyIsThere
<1>6. Sound(Noted(laptop, j, job), files, pi)
  BY <1>1, <1>4, <1>5, NotedIsSound
<1> QED BY <1>3, <1>6

LEMMA TimerIsSound ==
  ASSUME QueueInv, TimerFires
  PROVE  Sound(laptop', files, pi)
<1>1. Sound(laptop, files, pi) /\ laptop' = Kicked([laptop EXCEPT !.timer = FALSE])
  BY DEF TimerFires, QueueInv
<1>2. Sound([laptop EXCEPT !.timer = FALSE], files, pi)
  BY <1>1 DEF Sound, LaptopTypeOK
<1> QED BY <1>1, <1>2, KickedIsSound

(* What waits for a slot ends; the other runs are told.                       *)
LEMMA ShutdownIsSound ==
  ASSUME QueueInv, Shutdown
  PROVE  Sound(laptop', files, pi)
<1> DEFINE ends == {j \in Job : laptop.at[j] = "idle" \/ PhaseOf(laptop, j) = "waiting"}
           asked == [j \in Job |-> IF j \in ends THEN "none" ELSE "paused"]
           at == [j \in Job |-> IF j \in ends THEN "idle" ELSE laptop.at[j]]
           jobs == [j \in Job |-> IF PhaseOf(laptop, j) = "waiting"
                                  THEN [laptop.job[j] EXCEPT !.status = "paused", !.due = FALSE] ELSE laptop.job[j]]
           g == [stage \in Stage |-> Emptied(laptop.gate[stage])]
           new == [laptop EXCEPT !.stopping = TRUE, !.timer = FALSE, !.asked = asked, !.at = at, !.job = jobs,
                                 !.gate = g]
<1>1. Sound(laptop, files, pi) /\ laptop' = new
  BY DEF Shutdown, QueueInv
<1> HIDE DEF g, ends
<1>2. ASSUME NEW j \in Job
      PROVE  /\ jobs[j] \in JobRecord /\ (jobs[j].status = "cancelled" => laptop.job[j].status = "cancelled")
             /\ jobs[j].upload = laptop.job[j].upload
             /\ jobs[j].prepared = laptop.job[j].prepared /\ jobs[j].source = laptop.job[j].source
             /\ at[j] \in Place /\ (at[j] = "idle" \/ at[j] = laptop.at[j])
             /\ asked[j] \in Asked /\ asked[j] # "cancelled"
  <2>1. laptop.job[j] \in JobRecord /\ laptop.at[j] \in Place
    BY <1>1, RowFields
  <2>2. /\ jobs[j] \in JobRecord /\ (jobs[j].status = "cancelled" => laptop.job[j].status = "cancelled")
        /\ jobs[j].upload = laptop.job[j].upload
        /\ jobs[j].prepared = laptop.job[j].prepared /\ jobs[j].source = laptop.job[j].source
    <3>1. CASE PhaseOf(laptop, j) = "waiting"
      <4>1. jobs[j] = [laptop.job[j] EXCEPT !.status = "paused", !.due = FALSE]
        BY <3>1
      <4> HIDE DEF jobs
      <4> QED BY <2>1, <4>1 DEF JobRecord, Status
    <3>2. CASE PhaseOf(laptop, j) # "waiting"
      <4>1. jobs[j] = laptop.job[j]
        BY <3>2
      <4> QED BY <2>1, <4>1
    <3> QED BY <3>1, <3>2
  <2>3. at[j] \in Place /\ (at[j] = "idle" \/ at[j] = laptop.at[j])
    BY <2>1 DEF Place
  <2>4. asked[j] \in Asked /\ asked[j] # "cancelled"
    BY DEF Asked
  <2> QED BY <2>2, <2>3, <2>4
<1>3. jobs \in [Job -> JobRecord] /\ at \in [Job -> Place] /\ asked \in [Job -> Asked]
  BY <1>2
<1> HIDE DEF jobs, at, asked
<1>4. /\ new.job = jobs /\ new.at = at /\ new.asked = asked /\ new.acting = laptop.acting
  BY <1>1 DEF Sound, LaptopTypeOK
<1>5. LaptopTypeOK(new)
  BY <1>1, <1>3 DEF Sound, LaptopTypeOK
<1> HIDE DEF new
<1>6. ASSUME NEW j \in Job
      PROVE  RowIsSound(Kind[j], new.job[j], new.at[j], new.asked[j], new.acting[j], files[j], pi[j])
  <2>1. RowIsSound(Kind[j], laptop.job[j], laptop.at[j], laptop.asked[j], laptop.acting[j], files[j], pi[j])
    BY <1>1, RowFields
  <2> QED BY <1>2, <1>4, <2>1 DEF RowIsSound, NotOnItsWay, CopyIsThere
<1> QED BY <1>1, <1>5, <1>6 DEF Sound

-----------------------------------------------------------------------------
LEMMA FilesStayTyped ==
  ASSUME QueueTypeOK, NEW j \in Job,
         Downloaded(j) \/ Unlink(j) \/ (\E prepared \in {"source", "copy"} : Converted(j, prepared))
  PROVE  files' \in [Job -> SUBSET {"original", "copy"}] /\ UNCHANGED <<pi, events>>
BY DEF QueueTypeOK, Downloaded, Unlink, Converted

LEMMA UploadsStayTyped ==
  ASSUME QueueTypeOK, NEW j \in Job, PiCreates(j) \/ Found(j) \/ SendChunks(j)
  PROVE  pi' \in [Job -> Upload] /\ UNCHANGED <<files, events>>
<1>1. CASE PiCreates(j)
  BY <1>1 DEF QueueTypeOK, PiCreates, Upload
<1>2. CASE Found(j)
  <2>1. pi[j] \in Upload
    BY DEF QueueTypeOK
  <2> QED BY <1>2, <2>1 DEF QueueTypeOK, Found, Upload
<1>3. CASE SendChunks(j)
  BY <1>3 DEF QueueTypeOK, SendChunks, Upload
<1> QED BY <1>1, <1>2, <1>3

LEMMA RunKeepsQueue ==
  ASSUME QueueInv, NEW j \in Job, ExecuteNext(j)
  PROVE  QueueInv'
<1> SUFFICES /\ Sound(laptop', files', pi') /\ files' \in [Job -> SUBSET {"original", "copy"}]
             /\ pi' \in [Job -> Upload] /\ events' \in Nat
  BY DEF QueueInv, QueueTypeOK, Sound
<1>1. /\ files \in [Job -> SUBSET {"original", "copy"}] /\ pi \in [Job -> Upload] /\ events \in Nat /\ QueueTypeOK
      /\ Sound(laptop, files, pi)
  BY DEF QueueInv, QueueTypeOK
<1>2. CASE GoOn(j)
  <2>1. UNCHANGED <<files, pi, events>>
    BY <1>2 DEF GoOn
  <2> QED BY <1>1, <1>2, <2>1, GoOnIsSound
<1>3. CASE Downloaded(j)
  BY <1>1, <1>3, DownloadedIsSound, FilesStayTyped
<1>4. CASE Unlink(j)
  BY <1>1, <1>4, UnlinkIsSound, FilesStayTyped
<1>5. CASE Unlinked(j)
  <2>1. UNCHANGED <<files, pi, events>>
    BY <1>5 DEF Unlinked
  <2> QED BY <1>1, <1>5, <2>1, UnlinkedIsSound
<1>6. CASE Stopped(j)
  <2>1. UNCHANGED <<files, pi, events>>
    BY <1>6 DEF Stopped
  <2> QED BY <1>1, <1>6, <2>1, FailureIsSound
<1>7. CASE \E prepared \in {"source", "copy"} : Converted(j, prepared)
  <2>1. Sound(laptop', files', pi)
    BY <1>7, ConvertedIsSound
  <2> QED BY <1>1, <1>7, <2>1, FilesStayTyped
<1>8. CASE PiCreates(j)
  BY <1>1, <1>8, PiCreatesIsSound, UploadsStayTyped
<1>9. CASE Created(j)
  <2>1. UNCHANGED <<files, pi, events>>
    BY <1>9 DEF Created
  <2> QED BY <1>1, <1>9, <2>1, CreatedIsSound
<1>10. CASE Found(j)
  BY <1>1, <1>10, FoundIsSound, UploadsStayTyped
<1>11. CASE SendChunks(j)
  <2>1. UNCHANGED laptop
    BY <1>11 DEF SendChunks
  <2> QED BY <1>1, <1>11, <2>1, SendChunksIsSound, UploadsStayTyped
<1>12. CASE Poll(j)
  <2>1. UNCHANGED <<files, events>>
    BY <1>12 DEF Poll
  <2> QED BY <1>1, <1>12, <2>1, PollIsSound
<1>13. CASE \E matched \in BOOLEAN : Complete(j, matched)
  <2>1. UNCHANGED <<files, pi, events>>
    BY <1>13 DEF Complete
  <2>2. Sound(laptop', files, pi)
    BY <1>13, CompleteIsSound
  <2> QED BY <1>1, <2>1, <2>2
<1> QED BY <1>2, <1>3, <1>4, <1>5, <1>6, <1>7, <1>8, <1>9, <1>10, <1>11, <1>12, <1>13 DEF ExecuteNext

(* What changes neither the videos nor the uploads.                           *)
LEMMA LaptopKeepsQueue ==
  ASSUME QueueInv, Sound(laptop', files, pi), UNCHANGED <<files, pi>>, UNCHANGED events \/ Happens
  PROVE  QueueInv'
<1>1. events' \in Nat
  BY DEF QueueInv, QueueTypeOK, Happens
<1> QED BY <1>1 DEF QueueInv, QueueTypeOK, Sound

(* What the Pi and its portal do.                                             *)
LEMMA PiKeepsQueue ==
  ASSUME QueueInv, NEW j \in Job, PiActs(j) \/ PiWorks(j) \/ PortalActs(j)
  PROVE  QueueInv'
<1>1. Sound(laptop', files, pi') /\ pi' \in [Job -> Upload]
  <2>1. CASE PiActs(j)
    BY <2>1, PiActsIsSound
  <2>2. CASE PiWorks(j) \/ PortalActs(j)
    <3>1. UNCHANGED laptop
      BY <2>2 DEF PiWorks, PortalActs
    <3> QED BY <2>2, <3>1, PiGoesOnIsSound
  <2> QED BY <2>1, <2>2
<1>2. UNCHANGED files /\ events' \in Nat
  <2>1. events \in Nat
    BY DEF QueueInv, QueueTypeOK
  <2>2. UNCHANGED files /\ (UNCHANGED events \/ events' = events + 1)
    <3>1. CASE PiActs(j)
      BY <3>1 DEF PiActs
    <3>2. CASE PiWorks(j)
      BY <3>2 DEF PiWorks
    <3>3. CASE PortalActs(j)
      BY <3>3 DEF PortalActs, Happens
    <3> QED BY <3>1, <3>2, <3>3
  <2> QED BY <2>1, <2>2
<1> QED BY <1>1, <1>2 DEF QueueInv, QueueTypeOK, Sound

LEMMA StepKeepsQueue ==
  ASSUME QueueInv, [QueueNext]_queueVars
  PROVE  QueueInv'
<1>1. Sound(laptop, files, pi)
  BY DEF QueueInv
<1>2. CASE UNCHANGED queueVars
  BY <1>2 DEF QueueInv, QueueTypeOK, Sound, LaptopTypeOK, queueVars
<1>3. CASE Begin
  BY <1>3, BeginIsSound, LaptopKeepsQueue DEF Begin
<1>4. CASE TimerFires
  BY <1>4, TimerIsSound, LaptopKeepsQueue DEF TimerFires
<1>5. CASE Crash \/ Quit
  BY <1>1, <1>5, RestartIsSound, LaptopKeepsQueue DEF Crash, Quit
<1>6. CASE Shutdown
  BY <1>6, ShutdownIsSound, LaptopKeepsQueue DEF Shutdown
<1>7. ASSUME NEW j \in Job, ExecuteNext(j)
      PROVE  QueueInv'
  BY <1>7, RunKeepsQueue
<1>8. ASSUME NEW j \in Job, ToolFails(j) \/ Offline(j)
      PROVE  QueueInv'
  BY <1>8, FailureIsSound, LaptopKeepsQueue DEF ToolFails, Offline
<1>9. ASSUME NEW j \in Job, Resume(j)
      PROVE  QueueInv'
  BY <1>9, ResumeIsSound, LaptopKeepsQueue DEF Resume
<1>10. ASSUME NEW j \in Job, NEW target \in Kind[j].targets, Add(j, target)
       PROVE  QueueInv'
  BY <1>10, AddIsSound, LaptopKeepsQueue DEF Add
<1>11. ASSUME NEW j \in Job, NEW action \in {"pause", "cancel"}, Act(j, action)
       PROVE  QueueInv'
  BY <1>11, ActIsSound, LaptopKeepsQueue DEF Act
<1>12. ASSUME NEW j \in Job, PiActs(j) \/ PiWorks(j) \/ PortalActs(j)
       PROVE  QueueInv'
  BY <1>12, PiKeepsQueue
<1>13. ASSUME NEW j \in Job, Answered(j) \/ Unanswered(j)
       PROVE  QueueInv'
  BY <1>13, AnsweredIsSound, LaptopKeepsQueue DEF Answered, Unanswered
<1>14. ASSUME NEW j \in Job, RetryIsDue(j)
       PROVE  QueueInv'
  BY <1>14, RetryIsDueIsSound, LaptopKeepsQueue DEF RetryIsDue
<1> QED
  BY <1>2, <1>3, <1>4, <1>5, <1>6, <1>7, <1>8, <1>9, <1>10, <1>11, <1>12, <1>13, <1>14 DEF QueueNext

LEMMA QueueStaysSound == QueueSpec => []QueueInv
<1>1. QueueInit => QueueInv
  BY InitIsSound
<1>2. QueueInv /\ [QueueNext]_queueVars => QueueInv'
  BY StepKeepsQueue
<1> QED BY <1>1, <1>2, PTL DEF QueueSpec

(* The journal, the runs, the gates' users, the videos and the uploads keep   *)
(* their types through every run, failure, request, crash and restart.        *)
THEOREM QueueTypeCorrect == QueueSpec => []QueueTypeOK
<1>1. QueueInv => QueueTypeOK
  BY DEF QueueInv
<1> QED BY <1>1, QueueStaysSound, PTL

(* Whatever jobs there are, however many run at once and whatever the gates'  *)
(* limits: a cancelled transfer is never published, and a downloaded original *)
(* goes only when the journal names a copy that exists.                       *)
THEOREM CancelledStaysUnpublished == QueueSpec => []IrrevocableIsWanted
<1>1. QueueInv => IrrevocableIsWanted
  <2> SUFFICES ASSUME QueueInv PROVE IrrevocableIsWanted
    OBVIOUS
  <2>1. ASSUME NEW j \in Job
        PROVE  RowIsSound(Kind[j], laptop.job[j], laptop.at[j], laptop.asked[j], laptop.acting[j], files[j], pi[j])
    BY RowFields DEF QueueInv
  <2> QED
    BY <2>1 DEF IrrevocableIsWanted, CancelledIsNotPublished, CopyBeforeRemoval, RowIsSound,
       NotOnItsWay,
                      CopyIsThere, Unpublished
<1> QED BY <1>1, QueueStaysSound, PTL
=============================================================================
