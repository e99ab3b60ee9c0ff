----------------------------- MODULE PhoneProofs -----------------------------
(* What a phone and the Pi say to each other, proved.  The checkpoints of My  *)
(* TV never fall behind, for any number of phones, positions, moments and     *)
(* playbacks; the player plays what its owner wants and leaves no stream      *)
(* behind, for any titles, calls under way, recoveries and faults; and the    *)
(* gallery and the insights come to rest on what the Pi has, for any photos,  *)
(* channels, films, answers and failures; the sheets of My TV act on what     *)
(* they were opened for, for any seasons, files, taps and lost requests.      *)
EXTENDS MyTvProgress, RemotePlayer, FamilyLibrary, ViewingInsights, MyTvSheets,
        FiniteSetTheorems, TLAPS

(* The samples an outbox holds, and all samples there are. *)
Holds(x) == ({x.memory, x.stored, x.sending} \ {None}) \cup x.puts

Known == wire \cup UNION {Holds(device[d]) : d \in Device}

Outbox == [writer : 0..MaxWriters, unsent : BOOLEAN,
           memory : Sample \cup {None}, stored : Sample \cup {None},
           sending : Sample \cup {None}, puts : SUBSET Sample]

Media == [position : Position, last : 0..MaxTime, cleared : 0..MaxTime,
          ignored : Position, writers : [1..MaxWriters -> 0..MaxTime]]

(* No two things happen at one moment, and none in the future. *)
Distinct ==
  /\ \A s \in Known : s.at <= now /\ s.at # media.cleared
  /\ \A s, u \in Known : s.at = u.at => s = u

(* What the service has is something it was told, and nothing is newer. *)
Newer ==
  /\ media.last <= now /\ media.cleared <= now
  /\ OfService \in Told
  /\ \A b \in Told : b.at <= OfService.at
  /\ \A w \in 1..MaxWriters : media.writers[w] <= OfService.at

(* A television that has not watched the film has no position in it. *)
TvTime ==
  /\ tv.at <= now
  /\ \A b \in {tv, row} : b.at = 0 => b.position = 0

IInv == ProgressTypeOK /\ Distinct /\ Newer /\ TvTime /\ MarkedSentIsProcessed

USE ProgressAssumption
-----------------------------------------------------------------------------
(* The newest of at most two bookmarks.                                      *)
LEMMA NewestOfTwo ==
  ASSUME NEW a, NEW b, a.at \in Nat, b.at \in Nat,
         NEW S \in SUBSET {a, b}, S # {}
  PROVE  Newest(S) \in S /\ \A c \in S : c.at <= Newest(S).at
<1>1. \E x \in S : \A c \in S : c.at <= x.at
  <2>1. CASE a \in S /\ (b \in S => b.at <= a.at)
    BY <2>1
  <2>2. CASE ~(a \in S /\ (b \in S => b.at <= a.at))
    <3>1. b \in S /\ (a \in S => a.at <= b.at)
      BY <2>2
    <3> QED BY <3>1
  <2> QED BY <2>1, <2>2
<1> QED BY <1>1 DEF Newest

LEMMA OutboxTypes ==
  ASSUME ProgressTypeOK, NEW d \in Device
  PROVE  /\ device[d] \in Outbox /\ device[d].stored.at \in Nat
         /\ device[d].unsent => device[d].stored # None
<1>1. device[d] \in Outbox /\ (device[d].unsent => device[d].stored # None)
  BY DEF ProgressTypeOK, Outbox
<1>2. ASSUME NEW s \in Sample \cup {None} PROVE s.at \in Nat
  BY <1>2 DEF Sample, None
<1>3. device[d].stored \in Sample \cup {None}
  BY <1>1 DEF Outbox
<1> QED BY <1>1, <1>2, <1>3

LEMMA UnsentIsHeld ==
  ASSUME ProgressTypeOK, NEW d \in Device, Unsent(d) # {}
  PROVE  Newest(Unsent(d)) \in Holds(device[d]) \cap Sample
<1> DEFINE x == device[d]
<1>1. x \in Outbox /\ (x.unsent => x.stored # None)
  BY DEF ProgressTypeOK, Outbox
<1>2. Unsent(d) \subseteq {x.stored, x.memory} /\ None \notin Unsent(d)
  BY <1>1 DEF Unsent
<1>3. x.stored.at \in Nat /\ x.memory.at \in Nat
  BY <1>1 DEF Outbox, Sample, None
<1>4. Newest(Unsent(d)) \in Unsent(d)
  BY <1>2, <1>3, NewestOfTwo
<1> QED BY <1>1, <1>2, <1>4 DEF Holds, Outbox

(* put keeps the newer of two samples. *)
LEMMA PutKeepsNewer ==
  ASSUME ProgressTypeOK, NEW d \in Device, NEW s \in Sample, NEW unsent \in BOOLEAN,
         MarkedSentIsProcessed, ~unsent => s \in processed
  PROVE  LET x == Put(d, s, unsent)
         IN  /\ x \in Outbox
             /\ x.unsent => x.stored # None
             /\ x.stored.at >= device[d].stored.at
             /\ x.stored \in {s, device[d].stored}
             /\ x.stored # None /\ ~x.unsent => x.stored \in processed
             /\ x.memory = device[d].memory /\ x.sending = device[d].sending
             /\ x.puts = device[d].puts /\ x.writer = device[d].writer
<1> DEFINE old == device[d]
<1>1. old \in Outbox /\ (old.unsent => old.stored # None) /\ old.stored.at \in Nat
  BY OutboxTypes
<1>2. s.at \in Nat /\ s # None
  BY DEF Sample, None
<1>3. CASE old.stored.at > s.at
  BY <1>1, <1>2, <1>3 DEF Put, MarkedSentIsProcessed
<1>4. CASE ~(old.stored.at > s.at)
  <2>1. Put(d, s, unsent) = [old EXCEPT !.stored = s, !.unsent = unsent]
    BY <1>4 DEF Put
  <2> DEFINE new == [old EXCEPT !.stored = s, !.unsent = unsent]
  <2>2. new \in Outbox
    BY <1>1 DEF Outbox
  <2>3. /\ new.stored = s /\ new.unsent = unsent /\ new.memory = old.memory
        /\ new.sending = old.sending /\ new.puts = old.puts /\ new.writer = old.writer
    BY <1>1 DEF Outbox
  <2> HIDE DEF new
  <2>4. new.stored.at >= old.stored.at
    BY <1>1, <1>2, <1>4, <2>3
  <2>5. Put(d, s, unsent) = new
    BY <2>1 DEF new
  <2>6. (new.unsent => new.stored # None) /\ (new.stored # None /\ ~new.unsent => new.stored \in processed)
    BY <1>2, <2>3
  <2> QED BY <2>2, <2>3, <2>4, <2>5, <2>6
<1> QED BY <1>3, <1>4
-----------------------------------------------------------------------------
(* A step of a phone changes its own outbox only, never makes the stored      *)
(* sample older, and adds at most one sample, observed at this moment.        *)

Moved(d, x) ==
  /\ device' = [device EXCEPT ![d] = x]
  /\ x.unsent => x.stored # None
  /\ x.stored.at >= device[d].stored.at
  /\ x.stored # None /\ ~x.unsent => x.stored \in processed
  /\ wire \subseteq wire' /\ wire' \subseteq Sample
  /\ writers' \in 0..MaxWriters

Fewer(d, x) ==
  now' = now /\ Holds(x) \cup wire' \subseteq Holds(device[d]) \cup wire

Sampled(d, x) ==
  /\ now' = now + 1 /\ now' \in 0..MaxTime
  /\ \E s \in Sample :
       s.at = now' /\ Holds(x) \cup wire' \subseteq Holds(device[d]) \cup wire \cup {s}

LEMMA OutboxStep ==
  ASSUME ProgressTypeOK, MarkedSentIsProcessed, NEW d \in Device, DeviceNext(d)
  PROVE  \E x \in Outbox : Moved(d, x) /\ (Fewer(d, x) \/ Sampled(d, x))
<1> DEFINE old == device[d]
<1>1. /\ old \in Outbox /\ (old.unsent => old.stored # None) /\ old.stored.at \in Nat
      /\ device \in [Device -> Outbox]
      /\ wire \subseteq Sample /\ writers \in 0..MaxWriters /\ now \in 0..MaxTime
      /\ old.stored # None /\ ~old.unsent => old.stored \in processed
  BY OutboxTypes DEF ProgressTypeOK, MarkedSentIsProcessed
<1>2. CASE Open(d)
  <2> DEFINE x == [old EXCEPT !.writer = writers + 1]
  <2>1. device' = [device EXCEPT ![d] = x] /\ writers' \in 0..MaxWriters /\ UNCHANGED <<wire, now>>
    BY <1>1, <1>2 DEF Open
  <2>2. /\ x \in Outbox /\ x.memory = old.memory /\ x.stored = old.stored
        /\ x.sending = old.sending /\ x.puts = old.puts /\ x.unsent = old.unsent
    BY <1>1, <1>2 DEF Outbox, Open
  <2> HIDE DEF x
  <2>3. Moved(d, x) /\ Fewer(d, x)
    BY <1>1, <2>1, <2>2 DEF Moved, Fewer, Holds
  <2> QED BY <2>2, <2>3
<1>3. CASE Close(d)
  <2> DEFINE x == [old EXCEPT !.writer = 0]
  <2>1. device' = [device EXCEPT ![d] = x] /\ UNCHANGED <<wire, now, writers>>
    BY <1>1, <1>3 DEF Close
  <2>2. /\ x \in Outbox /\ x.memory = old.memory /\ x.stored = old.stored
        /\ x.sending = old.sending /\ x.puts = old.puts /\ x.unsent = old.unsent
    BY <1>1 DEF Outbox
  <2> HIDE DEF x
  <2>3. Moved(d, x) /\ Fewer(d, x)
    BY <1>1, <2>1, <2>2 DEF Moved, Fewer, Holds
  <2> QED BY <2>2, <2>3
<1>4. CASE Kill(d)
  <2> DEFINE y == [old EXCEPT !.memory = None, !.sending = None]
             x == [y EXCEPT !.writer = 0, !.puts = {}]
  <2>1. device' = [device EXCEPT ![d] = x] /\ UNCHANGED <<wire, now, writers>>
    BY <1>1, <1>4 DEF Kill
  <2>2. /\ y \in Outbox /\ y.stored = old.stored /\ y.unsent = old.unsent
        /\ y.memory = None /\ y.sending = None
    BY <1>1 DEF Outbox
  <2> HIDE DEF y
  <2>3. /\ x.memory = None /\ x.stored = old.stored
        /\ x.sending = None /\ x.puts = {} /\ x.unsent = old.unsent /\ x.writer = 0
    BY <2>2 DEF Outbox
  <2>4. 0 \in 0..MaxWriters /\ {} \in SUBSET Sample
    OBVIOUS
  <2>5. x \in Outbox
    BY <2>2, <2>4 DEF Outbox
  <2> HIDE DEF x
  <2>6. Moved(d, x) /\ Fewer(d, x)
    BY <1>1, <2>1, <2>3, <2>5 DEF Moved, Fewer, Holds
  <2> QED BY <2>5, <2>6
<1>5. ASSUME NEW p \in Position, NEW beacon \in BOOLEAN, Checkpoint(d, p, beacon)
      PROVE  \E x \in Outbox : Moved(d, x) /\ Sampled(d, x)
  <2> DEFINE s == [position |-> p, at |-> now + 1, writer |-> old.writer]
             x == [old EXCEPT !.memory = s, !.puts = @ \cup {s}]
  <2>1. s \in Sample /\ now' = now + 1 /\ now' \in 0..MaxTime /\ writers' = writers
    BY <1>1, <1>5 DEF Checkpoint, Sample, Outbox
  <2>2. device' = [device EXCEPT ![d] = x] /\ wire' \in {wire, wire \cup {s}}
    BY <1>1, <1>5 DEF Checkpoint
  <2>3. /\ x \in Outbox /\ x.memory = s /\ x.stored = old.stored
        /\ x.sending = old.sending /\ x.puts = old.puts \cup {s} /\ x.unsent = old.unsent
    BY <1>1, <2>1 DEF Outbox
  <2>4. s.at = now'
    BY <2>1
  <2> HIDE DEF x, s
  <2>5. Moved(d, x) /\ Sampled(d, x)
    BY <1>1, <2>1, <2>2, <2>3, <2>4 DEF Moved, Sampled, Holds
  <2> QED BY <2>3, <2>5
<1>6. ASSUME NEW s \in old.puts, NEW committed \in BOOLEAN, PutEnds(d, s, committed)
      PROVE  \E x \in Outbox : Moved(d, x) /\ Fewer(d, x)
  <2> DEFINE y == IF committed THEN Put(d, s, TRUE) ELSE old
             x == [y EXCEPT !.puts = @ \ {s}]
  <2>1. device' = [device EXCEPT ![d] = x] /\ UNCHANGED <<wire, now, writers>>
    BY <1>1, <1>6 DEF PutEnds
  <2>2. s \in Sample
    BY <1>1 DEF Outbox
  <2>3. /\ y \in Outbox /\ (y.unsent => y.stored # None) /\ y.stored.at >= old.stored.at
        /\ y.stored \in {s, old.stored} /\ y.memory = old.memory /\ y.sending = old.sending
        /\ y.puts = old.puts /\ (y.stored # None /\ ~y.unsent => y.stored \in processed)
    <3>1. CASE committed
      BY <2>2, <3>1, PutKeepsNewer
    <3>2. CASE ~committed
      BY <1>1, <3>2
    <3> QED BY <3>1, <3>2
  <2> HIDE DEF y
  <2>4. /\ x \in Outbox /\ x.memory = y.memory /\ x.stored = y.stored
        /\ x.sending = y.sending /\ x.puts = y.puts \ {s} /\ x.unsent = y.unsent
    BY <2>3 DEF Outbox
  <2> HIDE DEF x
  <2>5. Moved(d, x) /\ Fewer(d, x)
    BY <1>1, <2>1, <2>3, <2>4 DEF Moved, Fewer, Holds
  <2> QED BY <2>4, <2>5
<1>7. CASE Flush(d)
  <2> DEFINE s == Newest(Unsent(d))
             x == [old EXCEPT !.sending = s]
  <2>1. device' = [device EXCEPT ![d] = x] /\ wire' = wire \cup {s} /\ UNCHANGED <<now, writers>>
    BY <1>1, <1>7 DEF Flush
  <2>2. s \in Holds(old) /\ s \in Sample
    BY <1>7, UnsentIsHeld DEF Flush
  <2> HIDE DEF s
  <2>3. /\ x \in Outbox /\ x.memory = old.memory /\ x.stored = old.stored
        /\ x.sending = s /\ x.puts = old.puts /\ x.unsent = old.unsent
    BY <1>1, <2>2 DEF Outbox
  <2> HIDE DEF x
  <2>4. Moved(d, x) /\ Fewer(d, x)
    BY <1>1, <2>1, <2>2, <2>3 DEF Moved, Fewer, Holds
  <2> QED BY <2>3, <2>4
<1>8. ASSUME NEW committed \in BOOLEAN, Acknowledge(d, committed)
      PROVE  \E x \in Outbox : Moved(d, x) /\ Fewer(d, x)
  <2> DEFINE s == old.sending
             y == IF committed THEN Put(d, s, FALSE) ELSE old
             x == Sent(d, y)
  <2>1. device' = [device EXCEPT ![d] = x] /\ UNCHANGED <<wire, now, writers>>
    BY <1>1, <1>8 DEF Acknowledge
  <2>2. s \in Sample /\ s \in processed
    BY <1>1, <1>8 DEF Outbox, Acknowledge
  <2>3. /\ y \in Outbox /\ (y.unsent => y.stored # None) /\ y.stored.at >= old.stored.at
        /\ y.stored \in {s, old.stored} /\ y.memory = old.memory /\ y.sending = old.sending
        /\ y.puts = old.puts /\ (y.stored # None /\ ~y.unsent => y.stored \in processed)
    <3>1. CASE committed
      BY <2>2, <3>1, PutKeepsNewer
    <3>2. CASE ~committed
      BY <1>1, <3>2
    <3> QED BY <3>1, <3>2
  <2> HIDE DEF y
  <2>4. /\ x \in Outbox /\ x.memory \in {y.memory, None} /\ x.stored = y.stored
        /\ x.sending = None /\ x.puts = y.puts /\ x.unsent = y.unsent
    BY <2>3 DEF Outbox, Sent
  <2> HIDE DEF x
  <2>5. Moved(d, x) /\ Fewer(d, x)
    BY <1>1, <2>1, <2>2, <2>3, <2>4 DEF Moved, Fewer, Holds
  <2> QED BY <2>4, <2>5
<1>9. CASE SendFails(d)
  <2> DEFINE x == [old EXCEPT !.sending = None]
  <2>1. device' = [device EXCEPT ![d] = x] /\ UNCHANGED <<wire, now, writers>>
    BY <1>1, <1>9 DEF SendFails
  <2>2. /\ x \in Outbox /\ x.memory = old.memory /\ x.stored = old.stored
        /\ x.sending = None /\ x.puts = old.puts /\ x.unsent = old.unsent
    BY <1>1 DEF Outbox
  <2> HIDE DEF x
  <2>3. Moved(d, x) /\ Fewer(d, x)
    BY <1>1, <2>1, <2>2 DEF Moved, Fewer, Holds
  <2> QED BY <2>2, <2>3
<1> QED BY <1>2, <1>3, <1>4, <1>5, <1>6, <1>7, <1>8, <1>9 DEF DeviceNext
-----------------------------------------------------------------------------
(* The inductive invariant, one lemma per kind of step.                      *)

LEMMA KnownAfter ==
  ASSUME ProgressTypeOK, NEW d \in Device, NEW x \in Outbox, NEW extra,
         device' = [device EXCEPT ![d] = x],
         Holds(x) \cup wire' \subseteq Holds(device[d]) \cup wire \cup extra
  PROVE  Known' \subseteq Known \cup extra
<1> SUFFICES ASSUME NEW s \in Known' PROVE s \in Known \cup extra
  OBVIOUS
<1>1. DOMAIN device = Device
  BY DEF ProgressTypeOK
<1>2. CASE s \in wire'
  BY <1>2 DEF Known
<1>3. CASE s \notin wire'
  <2>1. PICK e \in Device : s \in Holds(device'[e])
    BY <1>3 DEF Known, Holds
  <2>2. CASE e = d
    BY <1>1, <2>1, <2>2 DEF Known
  <2>3. CASE e # d
    BY <1>1, <2>1, <2>3 DEF Known
  <2> QED BY <2>2, <2>3
<1> QED BY <1>2, <1>3

LEMMA DeviceKeepsIInv ==
  ASSUME IInv, NEW d \in Device, DeviceNext(d)
  PROVE  IInv' /\ \A e \in Device : device'[e].stored.at >= device[e].stored.at
<1>1. ProgressTypeOK /\ Distinct /\ Newer /\ TvTime /\ MarkedSentIsProcessed
  BY DEF IInv
<1>2. UNCHANGED <<media, row, tv, processed>>
  BY DEF DeviceNext, Open, Close, Kill, Checkpoint, PutEnds, Flush, Acknowledge, SendFails
<1>3. PICK x \in Outbox : Moved(d, x) /\ (Fewer(d, x) \/ Sampled(d, x))
  BY <1>1, OutboxStep
<1>4. /\ device \in [Device -> Outbox] /\ \A e \in Device : device[e].stored.at \in Nat
      /\ \A e \in Device : device[e].unsent => device[e].stored # None
  BY <1>1, OutboxTypes DEF ProgressTypeOK, Outbox
<1>5. /\ device' \in [Device -> Outbox] /\ device'[d] = x
      /\ \A e \in Device \ {d} : device'[e] = device[e]
  BY <1>3, <1>4 DEF Moved
<1>6. now \in 0..MaxTime /\ now' \in 0..MaxTime /\ now <= now'
  BY <1>1, <1>3 DEF ProgressTypeOK, Fewer, Sampled
<1>7. ProgressTypeOK'
  <2>1. \A e \in Device : device'[e].unsent => device'[e].stored # None
    BY <1>3, <1>4, <1>5 DEF Moved
  <2> QED BY <1>1, <1>2, <1>3, <1>5, <1>6, <2>1 DEF ProgressTypeOK, Moved, Outbox
<1>8. Distinct'
  <2>0. /\ \A s \in Known : s.at <= now /\ s.at # media.cleared
        /\ media.cleared \in 0..MaxTime /\ media.cleared <= now
        /\ \A s, u \in Known : s.at = u.at => s = u
    BY <1>1 DEF Distinct, Newer, ProgressTypeOK
  <2>1. CASE Fewer(d, x)
    <3>1. Known' \subseteq Known
      BY <1>1, <1>3, <2>1, KnownAfter DEF Moved, Fewer
    <3> QED BY <1>2, <2>0, <2>1, <3>1 DEF Distinct, Fewer
  <2>2. CASE Sampled(d, x)
    <3>1. PICK s \in Sample :
            s.at = now' /\ Holds(x) \cup wire' \subseteq Holds(device[d]) \cup wire \cup {s}
      BY <2>2 DEF Sampled
    <3>2. Known' \subseteq Known \cup {s}
      BY <1>1, <1>3, <3>1, KnownAfter DEF Moved
    <3>3. now' = now + 1
      BY <2>2 DEF Sampled
    <3>4. \A u \in Known : u.at <= now /\ u.at \in Nat
      <4>1. \A u \in Known : u \in Sample
        BY <1>1, <1>4 DEF Known, Holds, Outbox, ProgressTypeOK
      <4> QED BY <2>0, <4>1 DEF Sample
    <3>5. \A u \in Known' : u.at <= now' /\ u.at # media'.cleared
      BY <1>2, <1>6, <2>0, <3>1, <3>2, <3>3, <3>4
    <3>6. ASSUME NEW u \in Known', NEW v \in Known', u.at = v.at
          PROVE  u = v
      BY <1>6, <2>0, <3>1, <3>2, <3>3, <3>4, <3>6
    <3> QED BY <3>5, <3>6 DEF Distinct
  <2> QED BY <1>3, <2>1, <2>2
<1>9. Newer'
  <2>1. OfService' = OfService /\ Told' = Told
    BY <1>2 DEF OfService, Told
  <2> QED BY <1>1, <1>2, <1>6, <2>1 DEF Newer, ProgressTypeOK
<1>10. TvTime'
  BY <1>1, <1>2, <1>6 DEF TvTime, ProgressTypeOK, Bookmark
<1>11. MarkedSentIsProcessed'
  BY <1>1, <1>2, <1>3, <1>5 DEF MarkedSentIsProcessed, Moved
<1>12. \A e \in Device : device'[e].stored.at >= device[e].stored.at
  BY <1>3, <1>4, <1>5 DEF Moved
<1> QED BY <1>7, <1>8, <1>9, <1>10, <1>11, <1>12 DEF IInv

LEMMA TelevisionKeepsIInv ==
  ASSUME IInv, TvSaves \/ \E p \in Position : TvRemembers(p)
  PROVE  IInv' /\ UNCHANGED device
<1>1. ProgressTypeOK /\ Distinct /\ Newer /\ TvTime /\ MarkedSentIsProcessed
  BY DEF IInv
<1>2. UNCHANGED <<media, device, wire, processed, writers>> /\ now \in 0..MaxTime
      /\ now' \in 0..MaxTime /\ now <= now'
  BY <1>1 DEF TvSaves, TvRemembers, ProgressTypeOK
<1>3. tv' \in Bookmark /\ row' \in Bookmark /\ row'.at <= tv'.at /\ TvTime'
  <2>1. CASE TvSaves
    BY <1>1, <2>1 DEF TvSaves, ProgressTypeOK, Bookmark, TvTime
  <2>2. ASSUME NEW p \in Position, TvRemembers(p)
        PROVE  tv' \in Bookmark /\ row' \in Bookmark /\ row'.at <= tv'.at /\ TvTime'
    BY <1>1, <2>2 DEF TvRemembers, ProgressTypeOK, Bookmark, TvTime
  <2> QED BY <2>1, <2>2
<1>4. ProgressTypeOK'
  BY <1>1, <1>2, <1>3 DEF ProgressTypeOK
<1>5. Known' = Known /\ \A s \in Known : s.at \in Nat
  <2>1. \A s \in Known : s \in Sample
    BY <1>1 DEF Known, Holds, ProgressTypeOK
  <2> QED BY <1>2, <2>1 DEF Known, Sample
<1>6. Distinct'
  BY <1>1, <1>2, <1>5 DEF Distinct
<1>7. Newer'
  BY <1>1, <1>2 DEF Newer, OfService, Told, ProgressTypeOK
<1>8. MarkedSentIsProcessed'
  BY <1>1, <1>2 DEF MarkedSentIsProcessed
<1> QED BY <1>2, <1>3, <1>4, <1>6, <1>7, <1>8 DEF IInv

LEMMA ClearKeepsIInv ==
  ASSUME IInv, Clear
  PROVE  IInv' /\ UNCHANGED device
<1>1. ProgressTypeOK /\ Distinct /\ Newer /\ TvTime /\ MarkedSentIsProcessed
  BY DEF IInv
<1>2. /\ UNCHANGED <<row, tv, device, wire, processed, writers>>
      /\ now \in 0..MaxTime /\ now' \in 0..MaxTime /\ now' = now + 1
  BY <1>1 DEF Clear, ProgressTypeOK
<1>3. /\ media'.position = 0 /\ media'.last = 0 /\ media'.cleared = now'
      /\ media'.ignored = row.position /\ media'.writers = media.writers
  BY <1>1, <1>2 DEF Clear, ProgressTypeOK
<1>4. media' \in Media
  <2> DEFINE y == [media EXCEPT !.position = 0, !.last = 0]
  <2>1. media' = [y EXCEPT !.cleared = now', !.ignored = row.position]
    BY <1>2 DEF Clear
  <2>0. media \in Media /\ 0 \in Position /\ 0 \in 0..MaxTime
    BY <1>1 DEF ProgressTypeOK, Media
  <2>2. y \in Media
    BY <2>0 DEF Media
  <2>3. row.position \in Position
    BY <1>1 DEF ProgressTypeOK, Bookmark
  <2> HIDE DEF y
  <2> QED BY <1>2, <2>1, <2>2, <2>3 DEF Media
<1>5. ProgressTypeOK'
  BY <1>1, <1>2, <1>4 DEF ProgressTypeOK, Media
<1>6. Known' = Known /\ \A s \in Known : s.at \in Nat
  <2>1. \A s \in Known : s \in Sample
    BY <1>1 DEF Known, Holds, ProgressTypeOK
  <2> QED BY <1>2, <2>1 DEF Known, Sample
<1>7. Distinct'
  BY <1>1, <1>2, <1>3, <1>6 DEF Distinct
<1>8. Newer'
  <2>1. OfService' = [position |-> 0, at |-> now']
    BY <1>2, <1>3 DEF OfService, Later
  <2>2. OfService' \in Told'
    BY <1>3, <2>1 DEF Told
  <2>3. \A b \in Told' : b.at <= now'
    <3>1. \A s \in processed : s \in Known
      BY <1>1 DEF Known, ProgressTypeOK
    <3> QED BY <1>1, <1>2, <1>3, <1>6, <3>1 DEF Told, Distinct
  <2>4. OfService.at <= now
    BY <1>1 DEF Newer, OfService, Later
  <2>5. \A w \in 1..MaxWriters : media'.writers[w] <= now'
    BY <1>1, <1>2, <1>3, <2>4 DEF Newer, ProgressTypeOK, OfService, Later
  <2> QED BY <1>2, <1>3, <2>1, <2>2, <2>3, <2>5 DEF Newer
<1>9. TvTime'
  BY <1>1, <1>2 DEF TvTime, ProgressTypeOK, Bookmark
<1>10. MarkedSentIsProcessed'
  BY <1>1, <1>2 DEF MarkedSentIsProcessed
<1> QED BY <1>2, <1>5, <1>7, <1>8, <1>9, <1>10 DEF IInv

(* Whatever arrives, the newest of all that was ever told stays in place: a   *)
(* sample that is not applied is older than it.                               *)
LEMMA ReceiveKeepsIInv ==
  ASSUME IInv, NEW s \in wire, Receive(s)
  PROVE  IInv' /\ UNCHANGED device
<1>1. ProgressTypeOK /\ Distinct /\ Newer /\ TvTime /\ MarkedSentIsProcessed
  BY DEF IInv
<1>2. /\ UNCHANGED <<row, tv, device, wire, now, writers>>
      /\ processed' = processed \cup {s}
  BY DEF Receive
<1>3. /\ s \in Sample /\ s.at \in 1..MaxTime /\ s.position \in Position /\ s \in Known
      /\ s.writer \in 1..MaxWriters
      /\ now \in 0..MaxTime /\ s.at <= now /\ row.position \in Position
      /\ media.last \in 0..MaxTime /\ media.cleared \in 0..MaxTime
      /\ media.writers \in [1..MaxWriters -> 0..MaxTime]
      /\ OfService.at = Later(media.last, media.cleared)
  BY <1>1 DEF ProgressTypeOK, Sample, Known, Bookmark, Distinct, OfService
<1>4. Known' = Known
  BY <1>2 DEF Known
<1>5. /\ media' \in Media
      /\ media'.cleared = media.cleared
  <2>1. CASE Applies(s)
    <3> DEFINE silent == IF s.position = 0 THEN row.position ELSE 0
               y == [media EXCEPT !.position = s.position, !.last = s.at]
               z == [media.writers EXCEPT ![s.writer] = s.at]
    <3>1. silent \in Position /\ z \in [1..MaxWriters -> 0..MaxTime]
      BY <1>3
    <3>2. media' = [y EXCEPT !.ignored = silent, !.writers = z]
      BY <2>1 DEF Receive
    <3>0. media \in Media /\ s.at \in 0..MaxTime
      BY <1>1, <1>3 DEF ProgressTypeOK, Media
    <3>3. y \in Media /\ y.cleared = media.cleared
      BY <1>3, <3>0 DEF Media
    <3> HIDE DEF silent, y, z
    <3> QED BY <3>1, <3>2, <3>3 DEF Media
  <2>2. CASE ~Applies(s)
    BY <1>1, <2>2 DEF Receive, ProgressTypeOK, Media
  <2> QED BY <2>1, <2>2
<1>6. ProgressTypeOK'
  BY <1>1, <1>2, <1>5 DEF ProgressTypeOK, Media
<1>7. Distinct'
  BY <1>1, <1>2, <1>4, <1>5 DEF Distinct
<1>8. Told' = Told \cup {[position |-> s.position, at |-> s.at]}
  BY <1>2, <1>5 DEF Told
<1>9. Newer'
  <2>1. CASE Applies(s)
    <3>1. /\ media'.position = s.position /\ media'.last = s.at
          /\ media'.writers = [media.writers EXCEPT ![s.writer] = s.at]
      BY <1>1, <2>1 DEF Receive, ProgressTypeOK
    <3>2. s.at > media.cleared /\ s.at >= media.last
      BY <2>1 DEF Applies
    <3>3. OfService' = [position |-> s.position, at |-> s.at] /\ OfService.at <= s.at
      BY <1>3, <1>5, <3>1, <3>2 DEF OfService, Later
    <3>4. \A b \in Told : b.at \in Nat /\ b.at <= OfService.at
      BY <1>1 DEF Newer, Told, ProgressTypeOK, Sample
    <3>5. \A b \in Told' : b.at <= OfService'.at
      BY <1>3, <1>8, <3>3, <3>4 DEF Later
    <3>6. \A w \in 1..MaxWriters : media'.writers[w] <= OfService'.at
      BY <1>1, <1>3, <3>1, <3>3 DEF Newer, Later
    <3> QED BY <1>1, <1>2, <1>3, <1>5, <1>8, <3>1, <3>3, <3>5, <3>6 DEF Newer
  <2>2. CASE ~Applies(s)
    <3>1. media' = media /\ OfService' = OfService
      BY <2>2 DEF Receive, OfService
    <3>2. s.at <= OfService.at
      <4>1. s.at <= media.cleared \/ s.at <= media.writers[s.writer] \/ s.at <= media.last
        BY <1>3, <2>2 DEF Applies
      <4>2. media.writers[s.writer] <= OfService.at
        BY <1>1, <1>3 DEF Newer
      <4>3. media.cleared <= OfService.at /\ media.last <= OfService.at
        BY <1>3 DEF Later
      <4>4. s.at \in Nat /\ media.cleared \in Nat /\ media.last \in Nat
        BY <1>3
      <4>5. media.writers[s.writer] \in Nat
        BY <1>3
      <4>6. OfService.at \in Nat
        BY <1>3, <4>4 DEF Later
      <4> QED BY <4>1, <4>2, <4>3, <4>4, <4>5, <4>6
    <3> QED BY <1>1, <1>2, <1>8, <3>1, <3>2 DEF Newer
  <2> QED BY <2>1, <2>2
<1>10. TvTime'
  BY <1>1, <1>2 DEF TvTime
<1>11. MarkedSentIsProcessed'
  BY <1>1, <1>2 DEF MarkedSentIsProcessed
<1> QED BY <1>2, <1>6, <1>7, <1>9, <1>10, <1>11 DEF IInv

LEMMA InitIInv ==
  ASSUME Init
  PROVE  IInv
<1>1. Known = {}
  BY DEF Init, Known, Holds, None
<1>2. /\ media = [position |-> 0, last |-> 0, cleared |-> 0, ignored |-> 0,
                  writers |-> [w \in 1..MaxWriters |-> 0]]
      /\ row = Unset /\ tv = Unset /\ wire = {} /\ processed = {} /\ now = 0 /\ writers = 0
  BY DEF Init
<1>3. ProgressTypeOK
  <2>1. 0 \in 0..MaxTime /\ 0 \in Position /\ 0 \in 0..MaxWriters
    OBVIOUS
  <2>2. [writer |-> 0, memory |-> None, stored |-> None,
         unsent |-> FALSE, sending |-> None, puts |-> {}] \in Outbox
    BY <2>1 DEF Outbox
  <2>3. device \in [Device -> Outbox] /\ \A d \in Device : ~device[d].unsent
    BY <2>2 DEF Init
  <2>4. Unset \in Bookmark /\ Unset.at = 0
    BY <2>1 DEF Unset, Bookmark
  <2>5. media \in Media
    BY <1>2, <2>1 DEF Media
  <2> QED BY <1>2, <2>1, <2>3, <2>4, <2>5 DEF ProgressTypeOK, Media, Outbox
<1>4. Distinct
  BY <1>1 DEF Distinct
<1>5. Newer
  <2>1. OfService = [position |-> 0, at |-> 0] /\ Told = {[position |-> 0, at |-> 0]}
    BY <1>2 DEF OfService, Told, Later
  <2> QED BY <1>2, <2>1 DEF Newer
<1>6. TvTime /\ MarkedSentIsProcessed
  BY <1>2 DEF TvTime, MarkedSentIsProcessed, Unset, Init
<1> QED BY <1>3, <1>4, <1>5, <1>6 DEF IInv

LEMMA StepKeepsIInv ==
  ASSUME IInv, [Next]_vars
  PROVE  IInv' /\ \A d \in Device : device'[d].stored.at >= device[d].stored.at
<1>1. \A d \in Device : device[d].stored.at \in Nat
  BY OutboxTypes DEF IInv
<1>2. CASE TvSaves \/ \E p \in Position : TvRemembers(p)
  BY <1>1, <1>2, TelevisionKeepsIInv
<1>3. CASE Clear
  BY <1>1, <1>3, ClearKeepsIInv
<1>4. ASSUME NEW s \in wire, Receive(s)
      PROVE  IInv' /\ \A d \in Device : device'[d].stored.at >= device[d].stored.at
  BY <1>1, <1>4, ReceiveKeepsIInv
<1>5. ASSUME NEW d \in Device, DeviceNext(d)
      PROVE  IInv' /\ \A e \in Device : device'[e].stored.at >= device[e].stored.at
  BY <1>5, DeviceKeepsIInv
<1>6. CASE UNCHANGED vars
  BY <1>1, <1>6 DEF vars, IInv, ProgressTypeOK, Distinct, Known, Holds, Newer, OfService, Told,
                    TvTime, MarkedSentIsProcessed
<1> QED BY <1>2, <1>3, <1>4, <1>5, <1>6 DEF Next

LEMMA Inductive == Spec => []IInv
<1>1. Init => IInv
  BY InitIInv
<1>2. IInv /\ [Next]_vars => IInv'
  BY StepKeepsIInv
<1> QED BY <1>1, <1>2, PTL DEF Spec
-----------------------------------------------------------------------------
(* Theorems.                                                                 *)

(* Every column, outbox and request keeps its type (ProgressTypeOK).         *)
THEOREM ProgressTypeCorrect == Spec => []ProgressTypeOK
<1>1. IInv => ProgressTypeOK
  BY DEF IInv
<1> QED BY <1>1, Inductive, PTL

(* A checkpoint a phone has marked as sent was answered by the service        *)
(* (progress.js:46).                                                          *)
THEOREM SentWasProcessed == Spec => []MarkedSentIsProcessed
<1>1. IInv => MarkedSentIsProcessed
  BY DEF IInv
<1> QED BY <1>1, Inductive, PTL

(* However requests are delayed, reordered or repeated, the service has the   *)
(* newest position it was ever told (repositories/playback.py:24-35).         *)
THEOREM ServiceKnowsTheNewest == Spec => []ArrivalOrderIsNotWatchOrder
<1>1. IInv => ArrivalOrderIsNotWatchOrder
  <2> SUFFICES ASSUME IInv PROVE OfService = Newest(Told)
    BY DEF ArrivalOrderIsNotWatchOrder
  <2>1. OfService \in Told /\ \A b \in Told : b.at <= OfService.at
    BY DEF IInv, Newer
  <2>2. \A b \in Told : b.at \in Nat
    BY DEF IInv, ProgressTypeOK, Told, Sample
  <2>3. ASSUME NEW b \in Told, NEW c \in Told, b.at = c.at
        PROVE  b = c
    <3>1. \A s \in processed : s \in Known
      BY DEF IInv, ProgressTypeOK, Known
    <3> QED BY <2>3, <3>1 DEF IInv, Distinct, Told
  <2>4. \A b \in Told : (\A c \in Told : c.at <= b.at) => b = OfService
    BY <2>1, <2>2, <2>3
  <2> QED BY <2>1, <2>4 DEF Newest
<1> QED BY <1>1, Inductive, PTL

(* Where a phone goes on was observed no earlier than the checkpoint in its   *)
(* own store, unless the television's bookmark is silenced                    *)
(* (players.js:300-305, remote.py:51-116).                                    *)
THEOREM PhoneNeverFallsBack == Spec => []PhoneResumesWhereItLeft
<1>1. IInv => PhoneResumesWhereItLeft
  <2> SUFFICES ASSUME IInv, ~TvIgnored, NEW d \in Device
               PROVE  StartPoint(d).at >= device[d].stored.at
    BY DEF PhoneResumesWhereItLeft
  <2> DEFINE own == device[d].stored
  <2>0. own \in Sample \cup {None} /\ row \in Bookmark /\ media \in Media
    BY DEF IInv, ProgressTypeOK, Media
  <2>1. /\ own.at \in Nat /\ row.at \in Nat /\ row.position \in Nat
        /\ media.last \in Nat /\ media.cleared \in Nat /\ media.position \in Nat
        /\ OfService.at \in Nat /\ OfService.position \in Nat
    <3> HIDE DEF own
    <3>1. own.at \in Nat
      BY <2>0 DEF Sample, None
    <3>2. row.at \in 0..MaxTime /\ row.position \in Position
      BY <2>0 DEF Bookmark
    <3>3. media.last \in 0..MaxTime /\ media.cleared \in 0..MaxTime /\ media.position \in Position
      BY <2>0 DEF Media
    <3>4. \A n \in Position \cup (0..MaxTime) : n \in Nat
      OBVIOUS
    <3>5. /\ row.at \in Nat /\ row.position \in Nat
          /\ media.last \in Nat /\ media.cleared \in Nat /\ media.position \in Nat
      BY <3>2, <3>3, <3>4
    <3> QED BY <3>1, <3>5 DEF OfService, Later
  <2>2. CASE device[d].unsent /\ own.at > ResumeUpdated
    BY <2>1, <2>2 DEF StartPoint
  <2>3. CASE ~(device[d].unsent /\ own.at > ResumeUpdated)
    <3>1. own.at <= Later(OfService.at, row.at)
      <4>1. CASE device[d].unsent
        BY <2>1, <2>3, <4>1 DEF ResumeUpdated, OfService, Later
      <4>2. CASE ~device[d].unsent /\ own # None
        <5>1. own \in processed
          BY <4>2 DEF IInv, MarkedSentIsProcessed
        <5>2. [position |-> own.position, at |-> own.at] \in Told
          BY <5>1 DEF Told
        <5>3. own.at <= OfService.at
          BY <5>2 DEF IInv, Newer
        <5> QED BY <2>1, <5>3 DEF Later
      <4>3. CASE own = None
        BY <2>1, <4>3 DEF None, Later
      <4> QED BY <4>1, <4>2, <4>3
    <3>2. Candidates = {OfService, row}
      BY DEF Candidates
    <3>3. /\ OfService.at = 0 => OfService.position = 0
          /\ row.at = 0 => row.position = 0
      BY DEF IInv, Newer, Told, TvTime, ProgressTypeOK, Sample
    <3>4. Resume.at >= OfService.at /\ Resume.at >= row.at /\ Resume.at \in Nat
      <4>1. CASE \A c \in Candidates : c.at > 0
        <5>1. Resume = Newest({OfService, row})
          BY <3>2, <4>1 DEF Resume
        <5> QED BY <2>1, <5>1, NewestOfTwo
      <4>2. CASE ~\A c \in Candidates : c.at > 0
        <5> DEFINE F == {c \in Candidates : \A e \in Candidates : e.position <= c.position}
        <5>1. Resume = Newest(F)
          BY <4>2 DEF Resume
        <5>2. F \in SUBSET {OfService, row} /\ F # {}
          BY <2>1, <3>2
        <5>3. Newest(F) \in F /\ \A c \in F : c.at <= Newest(F).at
          <6> HIDE DEF F
          <6> QED BY <2>1, <5>2, NewestOfTwo
        <5>4. CASE OfService.at = 0
          <6>1. row \in F
            BY <2>1, <3>2, <3>3, <5>4
          <6> HIDE DEF F
          <6> QED BY <2>1, <5>1, <5>2, <5>3, <5>4, <6>1
        <5>5. CASE row.at = 0
          <6>1. OfService \in F
            BY <2>1, <3>2, <3>3, <5>5
          <6> HIDE DEF F
          <6> QED BY <2>1, <5>1, <5>2, <5>3, <5>5, <6>1
        <5> QED BY <2>1, <3>2, <4>2, <5>4, <5>5
      <4> QED BY <4>1, <4>2
    <3>5. StartPoint(d) = Resume
      BY <2>3 DEF StartPoint
    <3> QED BY <2>1, <3>1, <3>4, <3>5 DEF Later
  <2> QED BY <2>2, <2>3
<1> QED BY <1>1, Inductive, PTL

(* No late put and no late answer makes the stored checkpoint of a phone      *)
(* older (progress.js:44-49).                                                 *)
THEOREM OutboxOnlyAdvances == Spec => OutboxNeverGoesBack
<1>1. IInv /\ [Next]_vars =>
        [\A d \in Device : device'[d].stored.at >= device[d].stored.at]_vars
  BY StepKeepsIInv
<1> QED BY <1>1, Inductive, PTL DEF Spec, OutboxNeverGoesBack

HIDE ProgressAssumption
-----------------------------------------------------------------------------
(* The player of films and episodes.                                          *)
Player == [open : BOOLEAN, generation : Nat, title : Title \cup {Nothing}, session : Nat,
           source : Title \cup {Nothing}, recovering : {"no", "asked", "loading"},
           ended : {"no", "saving", "counting", "busy", "over"}]
CallState == [at : {"rest", "permit", "asked", "answered", "checkpoint", "saving"},
              for : {"start", "recover", "end", "next"}, title : Title \cup {Nothing},
              generation : Nat, stream : Nat, saved : BOOLEAN]

PlayerTypeOK ==
  /\ player \in Player /\ call \in [Call -> CallState]
  /\ stream \in Nat /\ release \in SUBSET Nat /\ orphans \in SUBSET Nat
  /\ events \in [streams : Nat, faults : Nat]
  /\ asked \in SUBSET Title /\ belated \in SUBSET Title

\* The calls that were begun by, and belong to, the player as it is now.
Concerns(c) == call[c].at \notin {"rest", "permit"} /\ Current(c)
StartsIt(c) == Concerns(c) /\ call[c].for = "start"

\* No call is of the future, and one that is current is about the open title.
CallsKnowTheirPlayer ==
  \A c \in Call :
    /\ call[c].generation <= player.generation
    /\ call[c].at \in {"asked", "answered"} => call[c].for \in {"start", "recover"}
    /\ call[c].at \in {"permit", "checkpoint"} => call[c].for = "start"
    /\ call[c].at \notin {"rest"} /\ call[c].for # "end" => call[c].title \in Title
    /\ Concerns(c) => player.open
    /\ Concerns(c) /\ call[c].for # "end" => call[c].title = player.title
    /\ call[c].for = "next" => call[c].title \in Series /\ Following(call[c].title) # {}

\* Only one call starts the player, and until it has the video plays nothing
\* that a recovery could be about.
OneStartAtATime ==
  /\ \A c, d \in Call : StartsIt(c) /\ StartsIt(d) => c = d
  /\ \A c \in Call : StartsIt(c) =>
       player.source = Nothing /\ (call[c].at # "checkpoint" => player.session = NoStream)
  /\ \A c \in Call : Concerns(c) /\ call[c].for = "recover" => player.source # Nothing

\* What may play next is wanted as the title that plays is.
NextIsAsked == player.open => player.title \in Wanted /\ Following(player.title) \subseteq Wanted

\* The Pi's stream is somebody's.
StreamIsHeld ==
  /\ player.session # NoStream => player.open
  /\ stream # NoStream =>
       \/ stream \in orphans \cup release
       \/ stream = player.session
       \/ \E c \in Call : call[c].at = "answered" /\ call[c].stream = stream

PlayerInv ==
  /\ PlayerTypeOK
  /\ CallsKnowTheirPlayer
  /\ OneStartAtATime
  /\ NextIsAsked
  /\ StreamIsHeld
  /\ OnlyWhatWasAsked
-----------------------------------------------------------------------------
LEMMA EpisodesAreNumbered ==
  ASSUME NEW k \in DOMAIN Episode
  PROVE  Numbered(Episode[k]) = k
BY TitleAssumption DEF Numbered

LEMMA FollowersAreTitles ==
  ASSUME NEW t
  PROVE  Following(t) \subseteq Title
<1>1. CASE t \in Series
  <2>1. PICK k \in DOMAIN Episode : Episode[k] = t
    BY <1>1 DEF Series
  <2>2. Numbered(t) = k
    BY <2>1, EpisodesAreNumbered
  <2>3. \A j \in (k + 1)..Len(Episode) : j \in DOMAIN Episode
    BY TitleAssumption
  <2> QED BY <1>1, <2>2, <2>3 DEF Following, Title, Series
<1>2. CASE t \notin Series
  BY <1>2 DEF Following
<1> QED BY <1>1, <1>2

\* The next episode is one of those that follow, and so are those after it.
LEMMA NextFollows ==
  ASSUME NEW t \in Series, Following(t) # {}
  PROVE  LET n == Episode[Numbered(t) + 1]
         IN  n \in Title /\ n \in Following(t) /\ Following(n) \subseteq Following(t)
<1> DEFINE n == Episode[Numbered(t) + 1]
<1>1. PICK k \in DOMAIN Episode : Episode[k] = t
  BY DEF Series
<1>2. Numbered(t) = k
  BY <1>1, EpisodesAreNumbered
<1>3. k \in Nat /\ Len(Episode) \in Nat /\ DOMAIN Episode = 1..Len(Episode)
  BY TitleAssumption
<1>4. k + 1 \in (k + 1)..Len(Episode) /\ k + 1 \in DOMAIN Episode
  BY <1>2, <1>3 DEF Following
<1>5. n \in Series /\ n \in Following(t)
  BY <1>2, <1>4 DEF Following, Series
<1>6. Numbered(n) = k + 1
  BY <1>2, <1>4, EpisodesAreNumbered
<1>7. Following(n) \subseteq Following(t)
  BY <1>2, <1>3, <1>5, <1>6 DEF Following
<1> QED BY <1>5, <1>7 DEF Title
-----------------------------------------------------------------------------
USE DEF Nothing, NoStream

LEMMA InitPlayerInv == PlayerInit => PlayerInv
BY TitleAssumption DEF PlayerInit, PlayerInv, PlayerTypeOK, Player, CallState, Shut, Idle,
  Concerns, StartsIt, CallsKnowTheirPlayer, OneStartAtATime, NextIsAsked, StreamIsHeld,
  OnlyWhatWasAsked, Wanted

\* Whoever opens a title, by a tap, by Retry or as the next episode, leaves the
\* player before to the calls of the past.
LEMMA StartKeepsInv ==
  ASSUME PlayerInv, NEW c \in Call, NEW t \in Title, Starts(c, t),
         call[c].at \notin {"asked", "answered"},
         UNCHANGED <<stream, events, orphans>>,
         asked' \in SUBSET Title, belated' \in SUBSET Title,
         t \in Wanted', Following(t) \subseteq Wanted'
  PROVE  PlayerInv'
<1> DEFINE here == IF t \in Download THEN "checkpoint" ELSE "asked"
           new == [Idle EXCEPT !.at = here, !.title = t, !.generation = player.generation + 1]
<1>0. here \in {"asked", "checkpoint"}
  OBVIOUS
<1>1. call' = [call EXCEPT ![c] = new]
  BY DEF Starts
<1> HIDE DEF here
<1>2. PlayerTypeOK
  BY DEF PlayerInv
<1>3. player.generation + 1 \in Nat
  BY <1>2 DEF PlayerTypeOK, Player
<1>4. /\ new \in CallState /\ new.at = here /\ new.for = "start" /\ new.title = t
      /\ new.generation = player.generation + 1 /\ new.stream = NoStream
  BY <1>0, <1>3 DEF Idle, CallState
<1> HIDE DEF new
<1>5. /\ player'.open /\ player'.generation = player.generation + 1 /\ player'.title = t
      /\ player'.session = NoStream /\ player'.source = Nothing
      /\ player' \in Player
  BY <1>2, <1>3 DEF Starts, PlayerTypeOK, Player
<1>6. release' = release \cup Held /\ Held \in SUBSET Nat
  BY <1>2 DEF Starts, Held, PlayerTypeOK, Player
<1>7. PlayerTypeOK'
  BY <1>1, <1>2, <1>4, <1>5, <1>6 DEF PlayerTypeOK
<1>8. \A d \in Call : call'[d] = IF d = c THEN new ELSE call[d]
  BY <1>1, <1>2 DEF PlayerTypeOK
<1>9. \A d \in Call : d # c => call[d].generation < player'.generation
  BY <1>2, <1>5 DEF PlayerInv, CallsKnowTheirPlayer, PlayerTypeOK, Player, CallState
<1>10. CallsKnowTheirPlayer'
  <2>1. ASSUME NEW d \in Call
        PROVE  /\ call'[d].generation <= player'.generation
               /\ Concerns(d)' => d = c
    BY <1>0, <1>2, <1>4, <1>5, <1>8, <1>9 DEF Concerns, Current, PlayerTypeOK, Player, CallState
  <2> QED BY <1>0, <1>4, <1>5, <1>8, <2>1 DEF PlayerInv, CallsKnowTheirPlayer
<1>11. OneStartAtATime'
  BY <1>0, <1>2, <1>4, <1>5, <1>8, <1>9 DEF OneStartAtATime, StartsIt, Concerns, Current, CallState
<1>12. NextIsAsked' /\ OnlyWhatWasAsked'
  BY <1>5 DEF NextIsAsked, OnlyWhatWasAsked, Wanted
<1>13. StreamIsHeld'
  BY <1>0, <1>2, <1>4, <1>5, <1>6, <1>8 DEF PlayerInv, StreamIsHeld, Held, PlayerTypeOK, CallState
<1> QED BY <1>7, <1>10, <1>11, <1>12, <1>13 DEF PlayerInv

LEMMA TapKeepsInv ==
  ASSUME PlayerInv, NEW c \in Call, NEW t \in Title, Tap(c, t)
  PROVE  PlayerInv'
<1>1. PlayerTypeOK'
  BY FollowersAreTitles DEF PlayerInv, PlayerTypeOK, CallState, Idle, Tap
<1>2. CallsKnowTheirPlayer'
  BY DEF PlayerInv, PlayerTypeOK, Player, Idle, Concerns, Current, Tap, CallsKnowTheirPlayer
<1>3. OneStartAtATime'
  BY DEF PlayerInv, Concerns, StartsIt, Current, Tap, OneStartAtATime
<1>4. NextIsAsked'
  BY DEF Tap, NextIsAsked, Wanted
<1>5. StreamIsHeld'
  BY DEF PlayerInv, Tap, StreamIsHeld
<1>6. OnlyWhatWasAsked'
  BY DEF PlayerInv, Tap, OnlyWhatWasAsked, Wanted
<1> QED BY <1>1, <1>2, <1>3, <1>4, <1>5, <1>6 DEF PlayerInv

LEMMA PiStartsKeepsInv ==
  ASSUME PlayerInv, NEW c \in Call, PiStarts(c)
  PROVE  PlayerInv'
<1>0. PlayerTypeOK
  BY DEF PlayerInv
<1> DEFINE new == [call[c] EXCEPT !.at = "answered", !.stream = events.streams + 1]
<1>1. call' = [call EXCEPT ![c] = new]
  BY <1>0 DEF PiStarts, PlayerTypeOK, CallState, Ends
<1>2. new \in CallState
  <2>1. events.streams + 1 \in Nat
    BY <1>0 DEF PlayerTypeOK
  <2> QED BY <1>0, <2>1 DEF PlayerTypeOK, CallState
<1>3. new.at = "answered" /\ new.stream = events.streams + 1 /\ new.title = call[c].title
      /\ new.generation = call[c].generation /\ new.for = call[c].for
  BY <1>0 DEF PlayerTypeOK, CallState, Idle
<1> HIDE DEF new
<1>4. \A d \in Call : call'[d] = IF d = c THEN new ELSE call[d]
  BY <1>0, <1>1 DEF PlayerTypeOK
<1>7. PlayerTypeOK'
  BY <1>0, <1>4, <1>3, <1>2, <1>1 DEF PlayerTypeOK, PiStarts, Faulty
<1>8. CallsKnowTheirPlayer'
  BY <1>0, <1>4, <1>3, <1>2 DEF PlayerInv, PlayerTypeOK, Player, Concerns, Current, PiStarts,
    CallsKnowTheirPlayer
<1>9. OneStartAtATime'
  BY <1>0, <1>4, <1>3, <1>2 DEF PlayerInv, PlayerTypeOK, Concerns, StartsIt, Current, PiStarts,
    OneStartAtATime
<1>10. NextIsAsked'
  BY <1>0, <1>4, <1>3, <1>2 DEF PlayerInv, PiStarts, NextIsAsked, Wanted
<1>11. StreamIsHeld'
  BY <1>0, <1>4, <1>3, <1>2 DEF PlayerInv, PlayerTypeOK, PiStarts, StreamIsHeld
<1>12. OnlyWhatWasAsked'
  BY <1>0, <1>4, <1>3, <1>2 DEF PlayerInv, PiStarts, OnlyWhatWasAsked, Wanted
<1> QED BY <1>7, <1>8, <1>9, <1>10, <1>11, <1>12 DEF PlayerInv

\* A call that ends changes nothing for the others.
LEMMA EndKeepsInv ==
  ASSUME PlayerInv, NEW c \in Call, Ends(c), UNCHANGED <<stream, events, asked, belated>>,
         player' \in Player,
         player'.open = player.open,
         player'.generation = player.generation,
         player'.title = player.title,
         player'.session = player.session,
         player'.source = player.source,
         release' \in SUBSET Nat, orphans' \in SUBSET Nat,
         release \subseteq release', orphans \subseteq orphans',
         call[c].at = "answered" /\ call[c].stream # NoStream => call[c].stream \in release' \cup orphans'
  PROVE  PlayerInv'
<1>0. PlayerTypeOK
  BY DEF PlayerInv
<1>1. Idle \in CallState /\ Idle.at = "rest" /\ Idle.generation = 0 /\ Idle.for = "start"
  BY DEF Idle, CallState
<1>2. \A d \in Call : call'[d] = IF d = c THEN Idle ELSE call[d]
  BY <1>0 DEF Ends, PlayerTypeOK
<1>3. PlayerTypeOK'
  <2>1. call' \in [Call -> CallState]
    BY <1>0, <1>1 DEF Ends, PlayerTypeOK
  <2> QED BY <1>0, <2>1 DEF PlayerTypeOK
<1>4. CallsKnowTheirPlayer'
  BY <1>0, <1>1, <1>2 DEF PlayerInv, CallsKnowTheirPlayer, Player, Concerns, Current
<1>5. OneStartAtATime'
  BY <1>1, <1>2 DEF PlayerInv, OneStartAtATime, StartsIt, Concerns, Current
<1>6. NextIsAsked' /\ OnlyWhatWasAsked'
  BY DEF PlayerInv, NextIsAsked, OnlyWhatWasAsked, Wanted
<1>7. StreamIsHeld'
  BY <1>1, <1>2 DEF PlayerInv, StreamIsHeld
<1> QED BY <1>3, <1>4, <1>5, <1>6, <1>7 DEF PlayerInv

LEMMA AnsweredKeepsInv ==
  ASSUME PlayerInv, NEW c \in Call, Answered(c)
  PROVE  PlayerInv'
<1>0. PlayerTypeOK /\ call[c].stream \in Nat /\ call[c].at = "answered"
  BY DEF PlayerInv, PlayerTypeOK, CallState, Answered
<1>1. CASE ~Current(c)
  <2>1. release' = release \cup {call[c].stream} /\ Ends(c)
        /\ UNCHANGED <<player, orphans, stream, events, asked, belated>>
    BY <1>1 DEF Answered
  <2> QED BY <1>0, <2>1, EndKeepsInv DEF PlayerTypeOK
<1>2. CASE Current(c) /\ call[c].for = "recover"
  <2>1. /\ Ends(c) /\ UNCHANGED <<release, stream, events, asked, belated>>
        /\ orphans' = orphans \cup (Held \cap ({stream} \ {call[c].stream}))
    BY <1>2 DEF Answered
  <2>2. Concerns(c) /\ player.open /\ player.source # Nothing /\ player.title \in Title
    BY <1>0, <1>2 DEF PlayerInv, Concerns, OneStartAtATime, OnlyWhatWasAsked, PlayerTypeOK, Wanted
  <2>3. /\ player' \in Player /\ player'.session = call[c].stream /\ player'.source = player.title
        /\ player'.open = player.open /\ player'.generation = player.generation /\ player'.title = player.title
    BY <1>0, <1>2, <2>2 DEF Answered, PlayerTypeOK, Player
  <2>4. Idle \in CallState /\ Idle.at = "rest" /\ Idle.generation = 0 /\ Idle.for = "start"
    BY DEF Idle, CallState
  <2>5. \A d \in Call : call'[d] = IF d = c THEN Idle ELSE call[d]
    BY <1>0, <2>1 DEF Ends, PlayerTypeOK
  <2>6. Held \in SUBSET Nat
    BY <1>0 DEF Held, PlayerTypeOK, Player
  <2>7. PlayerTypeOK'
    <3>1. call' \in [Call -> CallState]
      BY <1>0, <2>1, <2>4 DEF Ends, PlayerTypeOK
    <3> QED BY <1>0, <2>1, <2>3, <2>6, <3>1 DEF PlayerTypeOK
  <2>8. CallsKnowTheirPlayer'
    BY <1>0, <2>3, <2>4, <2>5 DEF PlayerInv, CallsKnowTheirPlayer, Player, Concerns, Current
  <2>9. OneStartAtATime'
    <3>1. \A d \in Call : ~StartsIt(d)
      BY <2>2 DEF PlayerInv, OneStartAtATime
    <3>2. \A d \in Call : ~StartsIt(d)'
      BY <2>3, <2>4, <2>5, <3>1 DEF StartsIt, Concerns, Current
    <3>3. player'.source # Nothing
      BY <2>2, <2>3, TitleAssumption
    <3> QED BY <3>2, <3>3 DEF OneStartAtATime
  <2>10. NextIsAsked' /\ OnlyWhatWasAsked'
    BY <2>1, <2>2, <2>3 DEF PlayerInv, NextIsAsked, OnlyWhatWasAsked, Wanted
  <2>11. StreamIsHeld'
    <3>1. CASE stream = player.session /\ stream # call[c].stream /\ stream # NoStream
      BY <2>1, <2>2, <2>3, <3>1 DEF StreamIsHeld, Held
    <3>2. CASE ~(stream = player.session /\ stream # call[c].stream /\ stream # NoStream)
      BY <2>1, <2>2, <2>3, <2>4, <2>5, <3>2 DEF PlayerInv, StreamIsHeld
    <3> QED BY <3>1, <3>2
  <2> QED BY <2>7, <2>8, <2>9, <2>10, <2>11 DEF PlayerInv
<1>3. CASE Current(c) /\ call[c].for # "recover"
  <2> DEFINE new == [call[c] EXCEPT !.at = "checkpoint"]
  <2>1. call[c].for = "start" /\ StartsIt(c) /\ player.open /\ player.source = Nothing /\ player.session = NoStream
        /\ call[c].title \in Title
    BY <1>0, <1>3 DEF PlayerInv, Concerns, StartsIt, CallsKnowTheirPlayer, OneStartAtATime
  <2>2. /\ call' = [call EXCEPT ![c] = new]
        /\ UNCHANGED <<release, orphans, stream, events, asked, belated>>
    BY <1>0, <1>3 DEF Answered, PlayerTypeOK, CallState
  <2>3. /\ new \in CallState /\ new.at = "checkpoint" /\ new.for = "start" /\ new.title = call[c].title
        /\ new.generation = call[c].generation
    BY <1>0, <2>1 DEF PlayerTypeOK, CallState
  <2> HIDE DEF new
  <2>4. \A d \in Call : call'[d] = IF d = c THEN new ELSE call[d]
    BY <1>0, <2>2 DEF PlayerTypeOK
  <2>5. /\ player' \in Player /\ player'.session = call[c].stream /\ player'.source = Nothing
        /\ player'.open = player.open /\ player'.generation = player.generation /\ player'.title = player.title
    BY <1>0, <1>3 DEF Answered, PlayerTypeOK, Player
  <2>6. PlayerTypeOK'
    BY <1>0, <2>2, <2>3, <2>5 DEF PlayerTypeOK
  <2>7. CallsKnowTheirPlayer'
    BY <1>0, <2>1, <2>3, <2>4, <2>5 DEF PlayerInv, CallsKnowTheirPlayer, Concerns, Current
  <2>8. OneStartAtATime'
    <3>1. \A d \in Call : StartsIt(d)' => d = c
      BY <2>1, <2>3, <2>4, <2>5 DEF PlayerInv, OneStartAtATime, StartsIt, Concerns, Current
    <3>2. \A d \in Call : ~(Concerns(d)' /\ call'[d].for = "recover")
      BY <2>1, <2>3, <2>4, <2>5 DEF PlayerInv, OneStartAtATime, Concerns, Current
    <3> QED BY <2>3, <2>4, <2>5, <3>1, <3>2 DEF OneStartAtATime
  <2>9. NextIsAsked' /\ OnlyWhatWasAsked'
    BY <2>1, <2>2, <2>5 DEF PlayerInv, NextIsAsked, OnlyWhatWasAsked, Wanted
  <2>10. StreamIsHeld'
    BY <2>1, <2>2, <2>4, <2>5 DEF PlayerInv, StreamIsHeld
  <2> QED BY <2>6, <2>7, <2>8, <2>9, <2>10 DEF PlayerInv
<1> QED BY <1>1, <1>2, <1>3

LEMMA PlayKeepsInv ==
  ASSUME PlayerInv, NEW c \in Call, Play(c)
  PROVE  PlayerInv'
<1>1. PlayerTypeOK'
  BY DEF PlayerInv, PlayerTypeOK, Player, CallState, Idle, Ends, Play
<1>2. CallsKnowTheirPlayer'
  BY DEF PlayerInv, PlayerTypeOK, Player, Idle, Ends, Concerns, Current, Play, CallsKnowTheirPlayer
<1>3. OneStartAtATime'
  BY DEF PlayerInv, PlayerTypeOK, Idle, Ends, Concerns, StartsIt, Current, Play, OneStartAtATime,
    CallsKnowTheirPlayer
<1>4. NextIsAsked'
  BY DEF PlayerInv, Play, NextIsAsked, Wanted
<1>5. StreamIsHeld'
  BY DEF PlayerInv, Ends, Play, StreamIsHeld
<1>6. OnlyWhatWasAsked'
  BY DEF PlayerInv, Concerns, Play, OnlyWhatWasAsked, CallsKnowTheirPlayer, Wanted
<1> QED BY <1>1, <1>2, <1>3, <1>4, <1>5, <1>6 DEF PlayerInv

LEMMA FailsKeepsInv ==
  ASSUME PlayerInv, NEW c \in Call, Fails(c)
  PROVE  PlayerInv'
<1>1. PlayerTypeOK'
  BY DEF PlayerInv, PlayerTypeOK, Player, CallState, Idle, Ends, Faulty, Fails
<1>2. CallsKnowTheirPlayer'
  BY DEF PlayerInv, PlayerTypeOK, Player, Idle, Ends, Concerns, Current, Fails, CallsKnowTheirPlayer
<1>3. OneStartAtATime'
  BY DEF PlayerInv, Idle, Ends, Concerns, StartsIt, Current, Fails, OneStartAtATime
<1>4. NextIsAsked'
  BY DEF PlayerInv, Fails, NextIsAsked, Wanted
<1>5. StreamIsHeld'
  BY DEF PlayerInv, Ends, Fails, StreamIsHeld
<1>6. OnlyWhatWasAsked'
  BY DEF PlayerInv, Fails, OnlyWhatWasAsked, Wanted
<1> QED BY <1>1, <1>2, <1>3, <1>4, <1>5, <1>6 DEF PlayerInv

LEMMA RecoverKeepsInv ==
  ASSUME PlayerInv, NEW c \in Call, Recover(c)
  PROVE  PlayerInv'
<1>0. PlayerTypeOK
  BY DEF PlayerInv
<1> DEFINE new == [Idle EXCEPT !.at = "asked", !.for = "recover",
                                     !.title = player.title, !.generation = player.generation]
<1>1. call' = [call EXCEPT ![c] = new]
  BY <1>0 DEF Recover, PlayerTypeOK, CallState, Ends
<1>2. new \in CallState
  BY <1>0 DEF PlayerTypeOK, CallState, Player, Idle
<1>3. new.at = "asked" /\ new.title = player.title /\ new.generation = player.generation /\ new.for = "recover"
  BY <1>0 DEF PlayerTypeOK, CallState, Idle
<1> HIDE DEF new
<1>4. \A d \in Call : call'[d] = IF d = c THEN new ELSE call[d]
  BY <1>0, <1>1 DEF PlayerTypeOK
<1>5. player' \in Player
  BY <1>0 DEF Recover, PlayerTypeOK, Player, Shut, CallState
<1>6. player'.open = player.open /\ player'.generation = player.generation /\ player'.title = player.title
      /\ player'.session = player.session /\ player'.source = player.source /\ player'.ended = player.ended
  BY <1>0 DEF Recover, PlayerTypeOK, Player, Shut
<1>7. PlayerTypeOK'
  BY <1>0, <1>4, <1>3, <1>2, <1>5, <1>6, <1>1 DEF PlayerTypeOK, Recover, Faulty
<1>8. CallsKnowTheirPlayer'
  BY <1>0, <1>4, <1>3, <1>2, <1>5, <1>6 DEF PlayerInv, PlayerTypeOK, CallState, Concerns, Current,
    Recover, CallsKnowTheirPlayer, OnlyWhatWasAsked, Wanted
<1>9. OneStartAtATime'
  <2>1. player.source # Nothing
    BY TitleAssumption DEF Recover, Title
  <2>2. \A d \in Call : ~StartsIt(d)'
    BY <1>0, <1>3, <1>4, <1>6, <2>1 DEF PlayerInv, OneStartAtATime, StartsIt, Concerns, Current
  <2> QED BY <1>6, <2>1, <2>2 DEF OneStartAtATime
<1>10. NextIsAsked'
  BY <1>0, <1>4, <1>3, <1>2, <1>5, <1>6 DEF PlayerInv, Recover, NextIsAsked, Wanted
<1>11. StreamIsHeld'
  BY <1>0, <1>4, <1>3, <1>2, <1>5, <1>6 DEF PlayerInv, Recover, StreamIsHeld
<1>12. OnlyWhatWasAsked'
  BY <1>0, <1>4, <1>3, <1>2, <1>5, <1>6 DEF PlayerInv, Recover, OnlyWhatWasAsked, OnlyWhatWasAsked, Wanted
<1> QED BY <1>7, <1>8, <1>9, <1>10, <1>11, <1>12 DEF PlayerInv

LEMMA EpisodeEndsKeepsInv ==
  ASSUME PlayerInv, NEW c \in Call, EpisodeEnds(c)
  PROVE  PlayerInv'
<1>0. PlayerTypeOK
  BY DEF PlayerInv
<1>1. PICK saved \in BOOLEAN : call' = [call EXCEPT ![c] =
        [Idle EXCEPT !.at = "saving", !.for = "end", !.generation = player.generation, !.saved = saved]]
  BY DEF EpisodeEnds
<1> DEFINE new == [Idle EXCEPT !.at = "saving", !.for = "end", !.generation = player.generation, !.saved = saved]
<1>2. new \in CallState
  BY <1>0 DEF PlayerTypeOK, CallState, Player, Idle
<1>3. new.at = "saving" /\ new.for = "end" /\ new.generation = player.generation
  BY DEF Idle
<1> HIDE DEF new
<1>4. \A d \in Call : call'[d] = IF d = c THEN new ELSE call[d]
  BY <1>0, <1>1 DEF PlayerTypeOK, new
<1>5. player' \in Player
  BY <1>0 DEF EpisodeEnds, PlayerTypeOK, Player
<1>6. player'.open = player.open /\ player'.generation = player.generation /\ player'.title = player.title
      /\ player'.session = player.session /\ player'.source = player.source /\ player'.recovering = player.recovering
  BY <1>0 DEF EpisodeEnds, PlayerTypeOK, Player
<1>7. PlayerTypeOK'
  <2>1. call' \in [Call -> CallState]
    BY <1>0, <1>1, <1>2 DEF PlayerTypeOK, new
  <2> QED BY <1>0, <1>5, <2>1 DEF PlayerTypeOK, EpisodeEnds
<1>8. CallsKnowTheirPlayer'
  BY <1>0, <1>3, <1>4, <1>6 DEF PlayerInv, CallsKnowTheirPlayer, PlayerTypeOK, Player, Concerns,
    Current, EpisodeEnds
<1>9. OneStartAtATime'
  BY <1>3, <1>4, <1>6 DEF PlayerInv, OneStartAtATime, StartsIt, Concerns, Current
<1>10. NextIsAsked' /\ OnlyWhatWasAsked'
  BY <1>6 DEF PlayerInv, NextIsAsked, OnlyWhatWasAsked, EpisodeEnds, Wanted
<1>11. StreamIsHeld'
  BY <1>3, <1>4, <1>6 DEF PlayerInv, StreamIsHeld, EpisodeEnds
<1> QED BY <1>7, <1>8, <1>9, <1>10, <1>11 DEF PlayerInv

LEMMA CountingKeepsInv ==
  ASSUME PlayerInv, NEW c \in Call, Counting(c)
  PROVE  PlayerInv'
<1>1. PlayerTypeOK'
  BY DEF PlayerInv, PlayerTypeOK, Player, CallState, Idle, Ends, Counting
<1>2. CallsKnowTheirPlayer'
  BY DEF PlayerInv, PlayerTypeOK, Player, Idle, Ends, Concerns, Current, Counting,
    CallsKnowTheirPlayer
<1>3. OneStartAtATime'
  BY DEF PlayerInv, Idle, Ends, Concerns, StartsIt, Current, Counting, OneStartAtATime
<1>4. NextIsAsked'
  BY DEF PlayerInv, Counting, NextIsAsked, Wanted
<1>5. StreamIsHeld'
  BY DEF PlayerInv, Ends, Counting, StreamIsHeld
<1>6. OnlyWhatWasAsked'
  BY DEF PlayerInv, Counting, OnlyWhatWasAsked, Wanted
<1> QED BY <1>1, <1>2, <1>3, <1>4, <1>5, <1>6 DEF PlayerInv

LEMMA WantNextKeepsInv ==
  ASSUME PlayerInv, NEW c \in Call, WantNext(c)
  PROVE  PlayerInv'
<1>0. PlayerTypeOK
  BY DEF PlayerInv
<1>1. PICK saved \in BOOLEAN : call' = [call EXCEPT ![c] =
        [Idle EXCEPT !.at = "saving", !.for = "next", !.title = player.title, !.generation = player.generation,
                    !.saved = saved]]
  BY DEF WantNext
<1> DEFINE new == [Idle EXCEPT !.at = "saving", !.for = "next", !.title = player.title,
            !.generation = player.generation, !.saved = saved]
<1>2. new \in CallState
  BY <1>0 DEF PlayerTypeOK, CallState, Player, Idle
<1>3. new.at = "saving" /\ new.for = "next" /\ new.generation = player.generation /\ new.title = player.title
  BY DEF Idle
<1> HIDE DEF new
<1>4. \A d \in Call : call'[d] = IF d = c THEN new ELSE call[d]
  BY <1>0, <1>1 DEF PlayerTypeOK, new
<1>5. player' \in Player
  BY <1>0 DEF WantNext, PlayerTypeOK, Player
<1>6. player'.open = player.open /\ player'.generation = player.generation /\ player'.title = player.title
      /\ player'.session = player.session /\ player'.source = player.source /\ player'.recovering = player.recovering
  BY <1>0 DEF WantNext, PlayerTypeOK, Player
<1>7. PlayerTypeOK'
  <2>1. call' \in [Call -> CallState]
    BY <1>0, <1>1, <1>2 DEF PlayerTypeOK, new
  <2> QED BY <1>0, <1>5, <2>1 DEF PlayerTypeOK, WantNext
<1>8. CallsKnowTheirPlayer'
  <2>1. /\ player.open /\ player.title \in Series /\ Following(player.title) # {}
        /\ player.title \in Title /\ player.generation \in Nat
    BY <1>0, TitleAssumption DEF PlayerInv, OnlyWhatWasAsked, WantNext, Title, PlayerTypeOK, Player, Wanted
  <2> QED BY <1>3, <1>4, <1>6, <2>1 DEF PlayerInv, CallsKnowTheirPlayer, Concerns, Current
<1>9. OneStartAtATime'
  BY <1>3, <1>4, <1>6 DEF PlayerInv, OneStartAtATime, StartsIt, Concerns, Current
<1>10. NextIsAsked' /\ OnlyWhatWasAsked'
  BY <1>6 DEF PlayerInv, NextIsAsked, OnlyWhatWasAsked, WantNext, Wanted
<1>11. StreamIsHeld'
  BY <1>3, <1>4, <1>6 DEF PlayerInv, StreamIsHeld, WantNext
<1> QED BY <1>7, <1>8, <1>9, <1>10, <1>11 DEF PlayerInv

LEMMA ReleasedKeepsInv ==
  ASSUME PlayerInv, NEW s \in release, Released(s)
  PROVE  PlayerInv'
<1>1. PlayerTypeOK'
  BY DEF PlayerInv, PlayerTypeOK, Faulty, Released
<1>2. CallsKnowTheirPlayer'
  BY DEF PlayerInv, Concerns, Current, Released, CallsKnowTheirPlayer
<1>3. OneStartAtATime'
  BY DEF PlayerInv, Concerns, StartsIt, Current, Released, OneStartAtATime
<1>4. NextIsAsked'
  BY DEF PlayerInv, Released, NextIsAsked, Wanted
<1>5. StreamIsHeld'
  BY DEF PlayerInv, Released, StreamIsHeld
<1>6. OnlyWhatWasAsked'
  BY DEF PlayerInv, Released, OnlyWhatWasAsked, Wanted
<1> QED BY <1>1, <1>2, <1>3, <1>4, <1>5, <1>6 DEF PlayerInv

LEMMA RecoveredKeepsInv ==
  ASSUME PlayerInv, Recovered
  PROVE  PlayerInv'
<1>1. PlayerTypeOK'
  BY DEF PlayerInv, PlayerTypeOK, Player, Recovered
<1>2. CallsKnowTheirPlayer'
  BY DEF PlayerInv, Concerns, Current, Recovered, CallsKnowTheirPlayer
<1>3. OneStartAtATime'
  BY DEF PlayerInv, Concerns, StartsIt, Current, Recovered, OneStartAtATime
<1>4. NextIsAsked'
  BY DEF PlayerInv, Recovered, NextIsAsked, Wanted
<1>5. StreamIsHeld'
  BY DEF PlayerInv, Recovered, StreamIsHeld
<1>6. OnlyWhatWasAsked'
  BY DEF PlayerInv, Recovered, OnlyWhatWasAsked, Wanted
<1> QED BY <1>1, <1>2, <1>3, <1>4, <1>5, <1>6 DEF PlayerInv

LEMMA CancelNextKeepsInv ==
  ASSUME PlayerInv, CancelNext
  PROVE  PlayerInv'
<1>1. PlayerTypeOK'
  BY DEF PlayerInv, PlayerTypeOK, Player, CancelNext
<1>2. CallsKnowTheirPlayer'
  BY DEF PlayerInv, Concerns, Current, CancelNext, CallsKnowTheirPlayer
<1>3. OneStartAtATime'
  BY DEF PlayerInv, Concerns, StartsIt, Current, CancelNext, OneStartAtATime
<1>4. NextIsAsked'
  BY DEF PlayerInv, CancelNext, NextIsAsked, Wanted
<1>5. StreamIsHeld'
  BY DEF PlayerInv, CancelNext, StreamIsHeld
<1>6. OnlyWhatWasAsked'
  BY DEF PlayerInv, CancelNext, OnlyWhatWasAsked, Wanted
<1> QED BY <1>1, <1>2, <1>3, <1>4, <1>5, <1>6 DEF PlayerInv

LEMMA ClosePlayerKeepsInv ==
  ASSUME PlayerInv, ClosePlayer
  PROVE  PlayerInv'
<1>1. PlayerTypeOK'
  <2>1. PlayerTypeOK /\ player.generation + 1 \in Nat
    BY DEF PlayerInv, PlayerTypeOK, Player
  <2>2. player' \in Player
    BY <2>1 DEF ClosePlayer, Shut, Player
  <2> QED BY <2>1, <2>2 DEF PlayerTypeOK, ClosePlayer, Held, Player
<1>2. CallsKnowTheirPlayer'
  BY DEF PlayerInv, PlayerTypeOK, Player, CallState, Concerns, Current, ClosePlayer,
    CallsKnowTheirPlayer
<1>3. OneStartAtATime'
  BY DEF PlayerInv, PlayerTypeOK, Player, Concerns, StartsIt, Current, ClosePlayer,
    OneStartAtATime, CallsKnowTheirPlayer
<1>4. NextIsAsked'
  BY DEF ClosePlayer, Shut, NextIsAsked, Wanted
<1>5. StreamIsHeld'
  BY DEF PlayerInv, ClosePlayer, Shut, StreamIsHeld, Held
<1>6. OnlyWhatWasAsked'
  BY DEF ClosePlayer, Shut, OnlyWhatWasAsked, Wanted
<1> QED BY <1>1, <1>2, <1>3, <1>4, <1>5, <1>6 DEF PlayerInv

LEMMA StreamEndsKeepsInv ==
  ASSUME PlayerInv, StreamEnds
  PROVE  PlayerInv'
<1>1. PlayerTypeOK'
  BY DEF PlayerInv, PlayerTypeOK, Faulty, StreamEnds
<1>2. CallsKnowTheirPlayer'
  BY DEF PlayerInv, Concerns, Current, StreamEnds, CallsKnowTheirPlayer
<1>3. OneStartAtATime'
  BY DEF PlayerInv, Concerns, StartsIt, Current, StreamEnds, OneStartAtATime
<1>4. NextIsAsked'
  BY DEF PlayerInv, StreamEnds, NextIsAsked, Wanted
<1>5. StreamIsHeld'
  BY DEF PlayerInv, StreamEnds, StreamIsHeld
<1>6. OnlyWhatWasAsked'
  BY DEF PlayerInv, StreamEnds, OnlyWhatWasAsked, Wanted
<1> QED BY <1>1, <1>2, <1>3, <1>4, <1>5, <1>6 DEF PlayerInv

LEMMA PlayerStep == PlayerInv /\ [PlayerNext]_playerVars => PlayerInv'
<1> SUFFICES ASSUME PlayerInv, [PlayerNext]_playerVars PROVE PlayerInv'
  OBVIOUS
<1>1. ASSUME NEW c \in Call, Permit(c) PROVE PlayerInv'
  <2>1. call[c].title \in Title
    BY <1>1 DEF PlayerInv, PlayerTypeOK, CallState, CallsKnowTheirPlayer, Permit
  <2>2. /\ asked' \in SUBSET Title /\ belated' \in SUBSET Title
        /\ call[c].title \in Wanted' /\ Following(call[c].title) \subseteq Wanted'
    BY <1>1, <2>1, FollowersAreTitles DEF Permit, PlayerInv, PlayerTypeOK, Wanted
  <2> QED BY <1>1, <2>1, <2>2, StartKeepsInv DEF Permit
<1>2. ASSUME NEW c \in Call, Retry(c) PROVE PlayerInv'
  <2>1. player.title \in Title
    BY <1>2 DEF PlayerInv, Retry, OnlyWhatWasAsked, PlayerTypeOK, Wanted
  <2>2. /\ asked' \in SUBSET Title /\ belated' \in SUBSET Title
        /\ player.title \in Wanted' /\ Following(player.title) \subseteq Wanted'
    BY <1>2, <2>1, FollowersAreTitles DEF Retry, Wanted
  <2> QED BY <1>2, <2>1, <2>2, StartKeepsInv DEF Retry
<1>3. ASSUME NEW c \in Call, PlayNext(c) PROVE PlayerInv'
  <2>1. CASE NextApplies(c) /\ call[c].saved
    <3> DEFINE t == Episode[Numbered(call[c].title) + 1]
    <3>1. call[c].title = player.title /\ player.open /\ call[c].title \in Series /\ Following(call[c].title) # {}
      BY <1>3, <2>1 DEF PlayerInv, CallsKnowTheirPlayer, PlayNext, NextApplies, Concerns
    <3>2. t \in Title /\ t \in Following(player.title) /\ Following(t) \subseteq Following(player.title)
      BY <3>1, NextFollows
    <3>3. /\ t \in Wanted' /\ Following(t) \subseteq Wanted'
          /\ asked' \in SUBSET Title /\ belated' \in SUBSET Title
      BY <1>3, <3>1, <3>2 DEF PlayNext, PlayerInv, NextIsAsked, PlayerTypeOK, Wanted
    <3>4. Starts(c, t) /\ UNCHANGED <<stream, events, orphans>> /\ call[c].at \notin {"asked", "answered"}
      BY <1>3, <2>1 DEF PlayNext
    <3> HIDE DEF t
    <3> QED BY <3>2, <3>3, <3>4, StartKeepsInv
  <2>2. CASE ~(NextApplies(c) /\ call[c].saved)
    <3>1. Ends(c) /\ UNCHANGED <<release, stream, events, asked, belated, orphans>> /\ call[c].at = "saving"
          /\ player' = IF Current(c) THEN [player EXCEPT !.ended = "over"] ELSE player
      BY <1>3, <2>2 DEF PlayNext
    <3>2. PlayerTypeOK
      BY DEF PlayerInv
    <3>3. player' \in Player /\ player'.open = player.open /\ player'.generation = player.generation
          /\ player'.title = player.title /\ player'.session = player.session /\ player'.source = player.source
      BY <3>1, <3>2 DEF PlayerTypeOK, Player
    <3> QED BY <3>1, <3>2, <3>3, EndKeepsInv DEF PlayerTypeOK
  <2> QED BY <2>1, <2>2
<1>4. CASE UNCHANGED playerVars
  BY <1>4 DEF playerVars, PlayerInv, PlayerTypeOK, Concerns, StartsIt, Current,
    CallsKnowTheirPlayer, OneStartAtATime, NextIsAsked, StreamIsHeld, OnlyWhatWasAsked, Wanted
<1> QED
  BY <1>1, <1>2, <1>3, <1>4, TapKeepsInv, PiStartsKeepsInv, AnsweredKeepsInv, PlayKeepsInv,
     FailsKeepsInv,
  RecoverKeepsInv, EpisodeEndsKeepsInv, CountingKeepsInv, WantNextKeepsInv, ReleasedKeepsInv, RecoveredKeepsInv,
  CancelNextKeepsInv, ClosePlayerKeepsInv, StreamEndsKeepsInv DEF PlayerNext

THEOREM PlayerTypeCorrect == PlayerSpec => []PlayerTypeOK
BY InitPlayerInv, PlayerStep, PTL DEF PlayerSpec, PlayerInv

THEOREM PlayerStaysTheOwners == PlayerSpec => []PlayerIsTheOwners
<1>1. PlayerInv => PlayerIsTheOwners
  BY DEF PlayerInv, PlayerIsTheOwners, ClosedPlayerFreesThePi, StreamIsHeld
<1> QED BY <1>1, InitPlayerInv, PlayerStep, PTL DEF PlayerSpec
-----------------------------------------------------------------------------
FileState == {NoMedia, "uploading", "processing", "ready", "error"}
MediaLibrary == [MediaItem -> FileState]

GalleryTypeOK ==
  /\ mediaFiles \in MediaLibrary /\ mediaShown \in MediaLibrary
  /\ mediaRead \in [step : {"idle", "asked", "read", "drawn"}, data : MediaLibrary, try : 0..2]
  /\ timer \in BOOLEAN /\ gallery \in BOOLEAN
  /\ mediaSheet \in MediaItem \cup {NoMedia}
  /\ mediaChange \subseteq [action : {"retry", "remove"}, item : MediaItem,
                            step : {"asked", "done", "boots", "reads"}, data : MediaLibrary]
  /\ mediaUpload \in [item : MediaItem \cup {NoMedia}, step : {"idle", "sends", "reads"}]
  /\ mediaUpload.step = "sends" => mediaUpload.item # NoMedia
  /\ upset \in BOOLEAN /\ crossed \in BOOLEAN /\ overlooked \in BOOLEAN

(* An owner who waits for the library waits for a read. *)
ReadIsUnderWay ==
  mediaRead.step = "idle" => Waiting = {} /\ mediaUpload.step # "reads"

(* A retry under way on an item that the gallery will ask about when it ends. *)
Retries(i) ==
  \E c \in mediaChange : c.action = "retry" /\ c.item = i /\ c.step \in {"done", "boots"}

(* An open gallery in which nothing went wrong, and which no read or timer    *)
(* brings up to date.                                                         *)
Undisturbed == ~upset /\ ~crossed /\ ~overlooked
AtRest == gallery /\ mediaRead.step = "idle" /\ ~timer /\ Undisturbed

(* What the Pi still prepares is looked after by a retry, and what the page   *)
(* does not know yet is on its way to it.                                     *)
RestIsLookedAfter ==
  AtRest =>
    /\ \A i \in MediaItem : mediaFiles[i] = "processing" => Retries(i)
    /\ \/ mediaShown = mediaFiles
       \/ mediaUpload.step = "sends"
       \/ \E c \in mediaChange : c.step = "done" \/ (c.action = "retry" /\ c.step = "boots")

(* The same of a read that is drawn but has not ended: what is shown as being *)
(* prepared will arm the timer.                                               *)
Answers == \E c \in mediaChange : c.step = "done"
DrawnIsLookedAfter ==
  mediaRead.step = "drawn" /\ Undisturbed =>
    /\ \A i \in MediaItem : mediaFiles[i] = "processing" =>
         \/ mediaShown[i] \in {"uploading", "processing"}
         \/ \E c \in mediaChange : c.action = "retry" /\ c.item = i /\ c.step = "done"
    /\ mediaShown = mediaFiles \/ Preparing(mediaShown) \/ mediaUpload.step = "sends" \/ Answers

(* What is shown as ready is ready, or gone.                                  *)
ReadyIsReady ==
  ~crossed => \A i \in MediaItem : mediaShown[i] = "ready" => mediaFiles[i] \in {"ready", NoMedia}

GalleryInv == GalleryTypeOK /\ ReadIsUnderWay /\ RestIsLookedAfter /\ DrawnIsLookedAfter /\ ReadyIsReady

-----------------------------------------------------------------------------
LEMMA LibraryTypes ==
  ASSUME GalleryTypeOK
  PROVE  /\ Empty \in MediaLibrary
         /\ NoRead \in [step : {"idle", "asked", "read", "drawn"}, data : MediaLibrary, try : 0..2]
         /\ NoRead.step = "idle"
         /\ LibraryAsked \in [step : {"idle", "asked", "read", "drawn"}, data : MediaLibrary, try : 0..2]
         /\ LibraryAsked.step # "idle"
         /\ LibraryAsked.step = "drawn" => LibraryAsked = mediaRead
         /\ NoUpload \in [item : MediaItem \cup {NoMedia}, step : {"idle", "sends", "reads"}]
         /\ NoUpload.step = "idle"
<1>1. Empty \in MediaLibrary
  BY DEF Empty, MediaLibrary, FileState
<1>2. NoRead \in [step : {"idle", "asked", "read", "drawn"}, data : MediaLibrary, try : 0..2] /\ NoRead.step = "idle"
  BY <1>1 DEF NoRead
<1>3. NoUpload \in [item : MediaItem \cup {NoMedia}, step : {"idle", "sends", "reads"}] /\ NoUpload.step = "idle"
  BY DEF NoUpload
<1>4. mediaRead \in [step : {"idle", "asked", "read", "drawn"}, data : MediaLibrary, try : 0..2]
  BY DEF GalleryTypeOK
<1>5. /\ LibraryAsked \in [step : {"idle", "asked", "read", "drawn"}, data : MediaLibrary, try : 0..2]
      /\ LibraryAsked.step # "idle"
      /\ LibraryAsked.step = "drawn" => LibraryAsked = mediaRead
  <2>1. CASE mediaRead.step = "idle"
    <3>1. 1 \in 0..2
      OBVIOUS
    <3> QED BY <1>2, <2>1, <3>1 DEF LibraryAsked
  <2>2. CASE mediaRead.step # "idle"
    BY <1>4, <2>2 DEF LibraryAsked
  <2> QED BY <2>1, <2>2
<1> QED BY <1>1, <1>2, <1>3, <1>5

(* Steps that change nothing the invariant speaks of, but what is on the      *)
(* sheet and which changes were just asked for.                               *)
LEMMA NothingMoves ==
  ASSUME GalleryInv,
         UNCHANGED <<mediaFiles, mediaShown, mediaRead, timer, gallery, mediaUpload, upset, crossed, overlooked>>,
         mediaSheet' \in MediaItem \cup {NoMedia},
         NEW new, mediaChange' = mediaChange \cup new,
         new \subseteq [action : {"retry", "remove"}, item : MediaItem, step : {"asked"}, data : MediaLibrary]
  PROVE  GalleryInv'
<1>1. GalleryTypeOK'
  BY DEF GalleryInv, GalleryTypeOK
<1>2. ReadIsUnderWay'
  BY DEF GalleryInv, ReadIsUnderWay, Waiting
<1>3. RestIsLookedAfter'
  <2>1. mediaChange \subseteq mediaChange'
    OBVIOUS
  <2>2. AtRest' = AtRest
    BY DEF AtRest, Undisturbed
  <2>3. \A i \in MediaItem : Retries(i) => Retries(i)'
    BY <2>1 DEF Retries
  <2> QED BY <2>1, <2>2, <2>3 DEF GalleryInv, RestIsLookedAfter
<1>4. ReadyIsReady'
  BY DEF GalleryInv, ReadyIsReady
<1>5. DrawnIsLookedAfter'
  BY DEF GalleryInv, DrawnIsLookedAfter, Undisturbed, Answers
<1> QED BY <1>1, <1>2, <1>3, <1>4, <1>5 DEF GalleryInv

LEMMA GalleryInitInv ==
  ASSUME GalleryInit
  PROVE  GalleryInv
<1>1. GalleryTypeOK
  <2>1. mediaFiles \in MediaLibrary
    BY DEF GalleryInit, MediaLibrary, FileState
  <2>2. Empty \in MediaLibrary
    BY DEF Empty, MediaLibrary, FileState
  <2>3. mediaRead \in [step : {"idle", "asked", "read", "drawn"}, data : MediaLibrary, try : 0..2]
    BY <2>2 DEF GalleryInit, NoRead
  <2>4. mediaUpload \in [item : MediaItem \cup {NoMedia}, step : {"idle", "sends", "reads"}]
        /\ mediaUpload.step = "idle"
    BY DEF GalleryInit, NoUpload
  <2> QED BY <2>1, <2>3, <2>4 DEF GalleryInit, GalleryTypeOK
<1>2. ReadIsUnderWay
  BY DEF GalleryInit, ReadIsUnderWay, Waiting, NoUpload
<1>3. RestIsLookedAfter
  BY DEF GalleryInit, RestIsLookedAfter, AtRest, Undisturbed
<1>4. ReadyIsReady
  BY DEF GalleryInit, ReadyIsReady
<1>5. DrawnIsLookedAfter
  BY DEF GalleryInit, DrawnIsLookedAfter, NoRead
<1> QED BY <1>1, <1>2, <1>3, <1>4, <1>5 DEF GalleryInv

LEMMA PiReadsInv ==
  ASSUME GalleryInv, PiReadsLibrary
  PROVE  GalleryInv'
<1>1. GalleryTypeOK
  BY DEF GalleryInv
<1>2. GalleryTypeOK'
  BY <1>1, LibraryTypes DEF PiReadsLibrary, GalleryTypeOK, galleryPage, ghosts
<1>3. ReadIsUnderWay'
  BY <1>1, LibraryTypes DEF PiReadsLibrary, GalleryInv, GalleryTypeOK, ReadIsUnderWay, Waiting,
     galleryPage, ghosts
<1>4. RestIsLookedAfter'
  BY <1>1, LibraryTypes DEF PiReadsLibrary, GalleryInv, GalleryTypeOK, ReadIsUnderWay, Waiting,
     RestIsLookedAfter, AtRest, Undisturbed, Retries, galleryPage, ghosts
<1>5. ReadyIsReady'
  BY <1>1, LibraryTypes DEF PiReadsLibrary, GalleryInv, GalleryTypeOK, ReadyIsReady, MediaLibrary,
     galleryPage, ghosts
<1>6. DrawnIsLookedAfter'
  BY <1>1 DEF PiReadsLibrary, GalleryTypeOK, DrawnIsLookedAfter
<1> QED BY <1>2, <1>3, <1>4, <1>5, <1>6 DEF GalleryInv

LEMMA LoadedInv ==
  ASSUME GalleryInv, Loaded
  PROVE  GalleryInv'
<1>1. GalleryTypeOK
  BY DEF GalleryInv
<1>2. /\ mediaRead' \in [step : {"idle", "asked", "read", "drawn"}, data : MediaLibrary, try : 0..2]
      /\ mediaRead'.step = "drawn" /\ mediaRead.data \in MediaLibrary
  BY <1>1, LibraryTypes DEF Loaded, GalleryTypeOK
<1>3. GalleryTypeOK'
  BY <1>1, <1>2 DEF Loaded, GalleryTypeOK, galleryPage, Draws
<1>4. ReadIsUnderWay' /\ RestIsLookedAfter'
  BY <1>2 DEF ReadIsUnderWay, RestIsLookedAfter, AtRest
<1>5. ReadyIsReady' /\ DrawnIsLookedAfter'
  BY DEF Loaded, Draws, ReadyIsReady, DrawnIsLookedAfter, Undisturbed
<1> QED BY <1>3, <1>4, <1>5 DEF GalleryInv

(* The read ends: the timer looks after what is shown as being prepared.      *)
LEMMA ReadEndsInv ==
  ASSUME GalleryInv, ReadEnds
  PROVE  GalleryInv'
<1>1. GalleryTypeOK
  BY DEF GalleryInv
<1>2. GalleryTypeOK'
  BY <1>1, LibraryTypes DEF ReadEnds, GalleryTypeOK, galleryPage, ghosts, Settles, Preparing, Waiting
<1>3. ReadIsUnderWay'
  BY <1>1, LibraryTypes DEF ReadEnds, ReadIsUnderWay, Waiting, Settles, GalleryTypeOK
<1>4. RestIsLookedAfter'
  <2> SUFFICES ASSUME AtRest'
               PROVE  /\ \A i \in MediaItem : mediaFiles'[i] = "processing" => Retries(i)'
                      /\ \/ mediaShown' = mediaFiles'
                         \/ mediaUpload'.step = "sends"
                         \/ \E c \in mediaChange' : c.step = "done"
    BY DEF RestIsLookedAfter
  <2>1. Undisturbed /\ mediaRead.step = "drawn" /\ ~Preparing(mediaShown)
    BY DEF AtRest, Undisturbed, ReadEnds, ghosts
  <2>2. UNCHANGED <<mediaFiles, mediaShown>> /\ mediaChange' = mediaChange \ Waiting
        /\ (mediaUpload.step = "sends" => mediaUpload' = mediaUpload)
    BY DEF ReadEnds, Settles
  <2>3. \A c \in mediaChange : c.step = "done" => c \in mediaChange'
    BY <2>2 DEF Waiting
  <2>4. /\ \A i \in MediaItem : mediaFiles[i] = "processing" =>
             \E c \in mediaChange : c.action = "retry" /\ c.item = i /\ c.step = "done"
        /\ mediaShown = mediaFiles \/ mediaUpload.step = "sends" \/ Answers
    BY <2>1 DEF GalleryInv, DrawnIsLookedAfter, Preparing
  <2> QED BY <2>2, <2>3, <2>4 DEF Retries, Answers
<1>5. ReadyIsReady' /\ DrawnIsLookedAfter'
  BY <1>1, LibraryTypes DEF ReadEnds, GalleryInv, ReadyIsReady, DrawnIsLookedAfter, ghosts
<1> QED BY <1>2, <1>3, <1>4, <1>5 DEF GalleryInv

LEMMA ReadFailsInv ==
  ASSUME GalleryInv, ReadFails
  PROVE  GalleryInv'
<1>1. GalleryTypeOK
  BY DEF GalleryInv
<1>2. GalleryTypeOK'
  <2>1. mediaRead' \in [step : {"idle", "asked", "read", "drawn"}, data : MediaLibrary, try : 0..2]
    <3>1. CASE mediaRead.try = 1
      <4>1. 2 \in 0..2
        OBVIOUS
      <4>2. mediaRead \in [step : {"idle", "asked", "read", "drawn"}, data : MediaLibrary, try : 0..2]
        BY <1>1 DEF GalleryTypeOK
      <4>3. mediaRead' = [mediaRead EXCEPT !.step = "asked", !.try = 2]
        BY <3>1 DEF ReadFails
      <4> QED BY <4>1, <4>2, <4>3
    <3>2. CASE mediaRead.try # 1
      BY <3>2, <1>1, LibraryTypes DEF ReadFails
    <3> QED BY <3>1, <3>2
  <2>2. /\ mediaUpload' \in [item : MediaItem \cup {NoMedia}, step : {"idle", "sends", "reads"}]
        /\ mediaUpload' = mediaUpload \/ mediaUpload'.step = "idle"
        /\ mediaChange' \subseteq mediaChange
        /\ upset' \in BOOLEAN
    BY <1>1, LibraryTypes DEF ReadFails, GalleryTypeOK, Settles, Waiting
  <2> QED BY <1>1, <2>1, <2>2 DEF ReadFails, GalleryTypeOK, galleryPage
<1>3. ReadIsUnderWay'
  BY <1>1, LibraryTypes DEF ReadFails, GalleryInv, GalleryTypeOK, ReadIsUnderWay, Waiting,
     galleryPage, Settles
<1>4. RestIsLookedAfter'
  BY <1>1, LibraryTypes DEF ReadFails, GalleryInv, GalleryTypeOK, ReadIsUnderWay, Waiting,
     RestIsLookedAfter, AtRest, Undisturbed, Retries, galleryPage, Settles
<1>5. ReadyIsReady'
  BY <1>1, LibraryTypes DEF ReadFails, GalleryInv, GalleryTypeOK, ReadyIsReady, MediaLibrary,
     galleryPage, Settles
<1>6. DrawnIsLookedAfter'
  BY <1>1, LibraryTypes DEF ReadFails, GalleryTypeOK, DrawnIsLookedAfter, NoRead
<1> QED BY <1>2, <1>3, <1>4, <1>5, <1>6 DEF GalleryInv

LEMMA TimerFiresInv ==
  ASSUME GalleryInv, TimerFires
  PROVE  GalleryInv'
<1>1. GalleryTypeOK
  BY DEF GalleryInv
<1>2. GalleryTypeOK'
  BY <1>1, LibraryTypes DEF TimerFires, GalleryTypeOK, galleryPage, ghosts
<1>3. ReadIsUnderWay'
  BY <1>1, LibraryTypes DEF TimerFires, GalleryInv, GalleryTypeOK, ReadIsUnderWay, Waiting,
     galleryPage, ghosts
<1>4. RestIsLookedAfter'
  BY <1>1, LibraryTypes DEF TimerFires, GalleryInv, GalleryTypeOK, ReadIsUnderWay, Waiting,
     RestIsLookedAfter, AtRest, Undisturbed, Retries, galleryPage, ghosts
<1>5. ReadyIsReady'
  BY <1>1, LibraryTypes DEF TimerFires, GalleryInv, GalleryTypeOK, ReadyIsReady, MediaLibrary,
     galleryPage, ghosts
<1>6. DrawnIsLookedAfter'
  BY <1>1, LibraryTypes DEF TimerFires, GalleryInv, DrawnIsLookedAfter, Undisturbed, Preparing, Answers,
     galleryPage, ghosts
<1> QED BY <1>2, <1>3, <1>4, <1>5, <1>6 DEF GalleryInv

LEMMA OpensInv ==
  ASSUME GalleryInv, OpenGallery
  PROVE  GalleryInv'
<1>1. GalleryTypeOK
  BY DEF GalleryInv
<1>2. GalleryTypeOK'
  BY <1>1, LibraryTypes DEF OpenGallery, GalleryTypeOK, GalleryTap, ghosts
<1>3. ReadIsUnderWay'
  BY <1>1, LibraryTypes DEF OpenGallery, GalleryInv, GalleryTypeOK, ReadIsUnderWay, Waiting,
     GalleryTap, ghosts
<1>4. RestIsLookedAfter'
  BY <1>1, LibraryTypes DEF OpenGallery, GalleryInv, GalleryTypeOK, ReadIsUnderWay, Waiting,
     RestIsLookedAfter, AtRest, Undisturbed, Retries, GalleryTap, ghosts
<1>5. ReadyIsReady'
  BY <1>1, LibraryTypes DEF OpenGallery, GalleryInv, GalleryTypeOK, ReadyIsReady, MediaLibrary,
     GalleryTap, ghosts
<1>6. DrawnIsLookedAfter'
  BY <1>1, LibraryTypes DEF OpenGallery, GalleryInv, DrawnIsLookedAfter, Undisturbed, Preparing, Answers,
     galleryPage, ghosts
<1> QED BY <1>2, <1>3, <1>4, <1>5, <1>6 DEF GalleryInv

LEMMA LeavesInv ==
  ASSUME GalleryInv, LeaveGallery
  PROVE  GalleryInv'
<1>1. GalleryTypeOK
  BY DEF GalleryInv
<1>2. GalleryTypeOK'
  BY <1>1, LibraryTypes DEF LeaveGallery, GalleryTypeOK, GalleryTap, ghosts
<1>3. ReadIsUnderWay'
  BY <1>1, LibraryTypes DEF LeaveGallery, GalleryInv, GalleryTypeOK, ReadIsUnderWay, Waiting,
     GalleryTap, ghosts
<1>4. RestIsLookedAfter'
  BY <1>1, LibraryTypes DEF LeaveGallery, GalleryInv, GalleryTypeOK, ReadIsUnderWay, Waiting,
     RestIsLookedAfter, AtRest, Undisturbed, Retries, GalleryTap, ghosts
<1>5. ReadyIsReady'
  BY <1>1, LibraryTypes DEF LeaveGallery, GalleryInv, GalleryTypeOK, ReadyIsReady, MediaLibrary,
     GalleryTap, ghosts
<1>6. DrawnIsLookedAfter'
  BY <1>1, LibraryTypes DEF LeaveGallery, GalleryInv, DrawnIsLookedAfter, Undisturbed, Preparing, Answers,
     galleryPage, ghosts
<1> QED BY <1>2, <1>3, <1>4, <1>5, <1>6 DEF GalleryInv

LEMMA SheetsInv ==
  ASSUME GalleryInv, NEW i \in MediaItem, OpenSheet(i) \/ CloseSheet
  PROVE  GalleryInv'
<1>1. mediaSheet' \in MediaItem \cup {NoMedia} /\ mediaChange' = mediaChange \cup {}
  BY DEF OpenSheet, CloseSheet
<1>2. UNCHANGED <<mediaFiles, mediaShown, mediaRead, timer, gallery, mediaUpload, upset, crossed, overlooked>>
  BY DEF OpenSheet, CloseSheet, ghosts
<1> QED BY <1>1, <1>2, NothingMoves

LEMMA AskedInv ==
  ASSUME GalleryInv, RetryMedia \/ RemoveMedia
  PROVE  GalleryInv'
<1>1. GalleryTypeOK
  BY DEF GalleryInv
<1>2. mediaSheet \in MediaItem /\ mediaSheet' \in MediaItem \cup {NoMedia}
  BY <1>1 DEF RetryMedia, RemoveMedia, GalleryTypeOK, galleryPage
<1>3. UNCHANGED <<mediaFiles, mediaShown, mediaRead, timer, gallery, mediaUpload, upset, crossed, overlooked>>
  BY DEF RetryMedia, RemoveMedia, galleryPage, ghosts
<1>4. PICK action \in {"retry", "remove"} : Sends(action, mediaSheet)
  BY DEF RetryMedia, RemoveMedia
<1> DEFINE new == {[action |-> action, item |-> mediaSheet, step |-> "asked", data |-> Empty]}
<1>5. mediaChange' = mediaChange \cup new
  BY <1>4 DEF Sends
<1>6. new \subseteq [action : {"retry", "remove"}, item : MediaItem, step : {"asked"}, data : MediaLibrary]
  BY <1>1, <1>2, LibraryTypes
<1> HIDE DEF new
<1> QED BY <1>2, <1>3, <1>5, <1>6, NothingMoves

LEMMA PiChangesInv ==
  ASSUME GalleryInv, NEW c \in mediaChange, PiChangesMedia(c)
  PROVE  GalleryInv'
<1>1. GalleryTypeOK
  BY DEF GalleryInv
<1> DEFINE v == IF c.action = "remove" THEN NoMedia
                ELSE IF mediaFiles[c.item] = "error" THEN "processing" ELSE mediaFiles[c.item]
           after == [mediaFiles EXCEPT ![c.item] = v]
           done == [c EXCEPT !.step = "done", !.data = after]
<1>2. /\ c.step = "asked" /\ mediaFiles' = after /\ mediaChange' = (mediaChange \ {c}) \cup {done}
      /\ UNCHANGED <<mediaShown, mediaRead, timer, gallery, mediaSheet, mediaUpload, upset, crossed, overlooked>>
  BY DEF PiChangesMedia, galleryPage, ghosts
<1>3. /\ c \in [action : {"retry", "remove"}, item : MediaItem,
                 step : {"asked", "done", "boots", "reads"}, data : MediaLibrary]
      /\ mediaFiles \in MediaLibrary
  BY <1>1 DEF GalleryTypeOK
<1>4. v \in FileState
  BY <1>3 DEF MediaLibrary, FileState
<1>5. after \in MediaLibrary /\ \A j \in MediaItem : after[j] = IF j = c.item THEN v ELSE mediaFiles[j]
  BY <1>3, <1>4 DEF MediaLibrary
<1>6. v = "processing" => c.action = "retry"
  BY <1>3 DEF NoMedia
<1>7. v \in {NoMedia, "processing"} \/ v = mediaFiles[c.item]
  OBVIOUS
<1>8. v = "processing" => mediaFiles[c.item] \in {"error", "processing"}
  BY DEF NoMedia
<1> HIDE DEF v, after
<1>9. /\ done \in [action : {"retry", "remove"}, item : MediaItem,
                    step : {"asked", "done", "boots", "reads"}, data : MediaLibrary]
      /\ done.step = "done" /\ done.action = c.action /\ done.item = c.item
  BY <1>3, <1>5
<1> HIDE DEF done
<1>10. GalleryTypeOK'
  BY <1>1, <1>2, <1>5, <1>9 DEF GalleryTypeOK
<1>11. ReadIsUnderWay'
  BY <1>2, <1>9 DEF GalleryInv, ReadIsUnderWay, Waiting
<1>12. RestIsLookedAfter'
  <2> SUFFICES ASSUME AtRest'
               PROVE  /\ \A i \in MediaItem : mediaFiles'[i] = "processing" => Retries(i)'
                      /\ \E d \in mediaChange' : d.step = "done"
    BY DEF RestIsLookedAfter
  <2>1. AtRest
    BY <1>2 DEF AtRest, Undisturbed
  <2>2. \E d \in mediaChange' : d.step = "done"
    BY <1>2, <1>9
  <2>3. \A i \in MediaItem : Retries(i) => Retries(i)'
    BY <1>2 DEF Retries
  <2>4. ASSUME NEW i \in MediaItem, mediaFiles'[i] = "processing"
        PROVE  Retries(i)'
    <3>1. CASE i = c.item
      <4>1. v = "processing"
        BY <1>2, <1>5, <2>4, <3>1
      <4> QED BY <1>2, <1>6, <1>9, <3>1, <4>1 DEF Retries
    <3>2. CASE i # c.item
      BY <1>2, <1>5, <2>1, <2>3, <2>4, <3>2 DEF GalleryInv, RestIsLookedAfter
    <3> QED BY <3>1, <3>2
  <2> QED BY <2>2, <2>4
<1>13. ReadyIsReady'
  <2> SUFFICES ASSUME ~crossed, NEW i \in MediaItem, mediaShown[i] = "ready"
               PROVE  mediaFiles'[i] \in {"ready", NoMedia}
    BY <1>2 DEF ReadyIsReady
  <2>1. mediaFiles[i] \in {"ready", NoMedia}
    BY DEF GalleryInv, ReadyIsReady
  <2>2. mediaFiles'[i] = v \/ mediaFiles'[i] = mediaFiles[i]
    BY <1>2, <1>5
  <2>3. CASE i = c.item /\ v = "processing"
    BY <1>8, <2>1, <2>3 DEF NoMedia
  <2>4. CASE i = c.item /\ v # "processing"
    BY <1>2, <1>5, <1>7, <2>1, <2>4
  <2>5. CASE i # c.item
    BY <1>2, <1>5, <2>1, <2>5
  <2> QED BY <2>3, <2>4, <2>5
<1>14. DrawnIsLookedAfter'
  <2> SUFFICES ASSUME mediaRead.step = "drawn", Undisturbed, NEW i \in MediaItem, mediaFiles'[i] = "processing"
               PROVE  \/ mediaShown[i] \in {"uploading", "processing"}
                      \/ \E d \in mediaChange' : d.action = "retry" /\ d.item = i /\ d.step = "done"
    BY <1>2, <1>9 DEF DrawnIsLookedAfter, Undisturbed, Answers
  <2>1. CASE i = c.item
    BY <1>2, <1>5, <1>6, <1>9, <2>1
  <2>2. CASE i # c.item
    BY <1>2, <1>5, <2>2 DEF GalleryInv, DrawnIsLookedAfter
  <2> QED BY <2>1, <2>2
<1> QED BY <1>10, <1>11, <1>12, <1>13, <1>14 DEF GalleryInv

LEMMA ChangedInv ==
  ASSUME GalleryInv, NEW c \in mediaChange, Changed(c)
  PROVE  GalleryInv'
<1>1. GalleryTypeOK
  BY DEF GalleryInv
<1>2. GalleryTypeOK'
  BY <1>1, LibraryTypes DEF Changed, GalleryTypeOK, galleryPage, Draws
<1>3. ReadIsUnderWay'
  BY <1>1, LibraryTypes DEF Changed, GalleryInv, GalleryTypeOK, ReadIsUnderWay, Waiting,
     galleryPage, Draws
<1>4. RestIsLookedAfter'
  <2> SUFFICES ASSUME AtRest'
               PROVE  /\ \A i \in MediaItem : mediaFiles'[i] = "processing" => Retries(i)'
                      /\ mediaShown' = mediaFiles'
    BY DEF RestIsLookedAfter
  <2>1. AtRest /\ mediaShown' = mediaFiles' /\ mediaFiles' = mediaFiles
    BY DEF Changed, AtRest, Undisturbed, Draws, galleryPage
  <2> DEFINE boots == [c EXCEPT !.step = "boots"]
  <2>2. boots.step = "boots" /\ boots.action = c.action /\ boots.item = c.item
    BY <1>1 DEF GalleryTypeOK
  <2>3. mediaChange' = (mediaChange \ {c}) \cup {boots}
    BY DEF Changed
  <2> HIDE DEF boots
  <2>4. \A i \in MediaItem : Retries(i) => Retries(i)'
    BY <2>2, <2>3 DEF Retries
  <2> QED BY <2>1, <2>4 DEF GalleryInv, RestIsLookedAfter
<1>5. ReadyIsReady'
  BY <1>1, LibraryTypes DEF Changed, GalleryInv, GalleryTypeOK, ReadyIsReady, MediaLibrary,
     galleryPage, Draws
<1>6. DrawnIsLookedAfter'
  BY <1>1 DEF Changed, Draws, DrawnIsLookedAfter, Undisturbed
<1> QED BY <1>2, <1>3, <1>4, <1>5, <1>6 DEF GalleryInv

LEMMA ChangeEndsInv ==
  ASSUME GalleryInv, NEW c \in mediaChange, ChangeEnds(c)
  PROVE  GalleryInv'
<1>1. GalleryTypeOK
  BY DEF GalleryInv
<1>2. GalleryTypeOK'
  BY <1>1, LibraryTypes DEF ChangeEnds, GalleryTypeOK, ghosts
<1>3. ReadIsUnderWay'
  BY <1>1, LibraryTypes DEF ChangeEnds, GalleryInv, GalleryTypeOK, ReadIsUnderWay, Waiting, ghosts
<1>4. RestIsLookedAfter'
  BY <1>1, LibraryTypes DEF ChangeEnds, GalleryInv, GalleryTypeOK, ReadIsUnderWay, Waiting,
     RestIsLookedAfter, AtRest, Undisturbed, Retries, ghosts
<1>5. ReadyIsReady'
  BY <1>1, LibraryTypes DEF ChangeEnds, GalleryInv, GalleryTypeOK, ReadyIsReady, MediaLibrary, ghosts
<1>6. DrawnIsLookedAfter'
  BY <1>1, LibraryTypes DEF ChangeEnds, GalleryInv, GalleryTypeOK, DrawnIsLookedAfter, Undisturbed,
     Preparing, Answers, ghosts
<1> QED BY <1>2, <1>3, <1>4, <1>5, <1>6 DEF GalleryInv

LEMMA ChangeFailsInv ==
  ASSUME GalleryInv, NEW c \in mediaChange, ChangeFails(c)
  PROVE  GalleryInv'
<1>1. GalleryTypeOK
  BY DEF GalleryInv
<1>2. GalleryTypeOK'
  BY <1>1, LibraryTypes DEF ChangeFails, GalleryTypeOK, galleryPage
<1>3. ReadIsUnderWay'
  BY <1>1, LibraryTypes DEF ChangeFails, GalleryInv, GalleryTypeOK, ReadIsUnderWay, Waiting, galleryPage
<1>4. RestIsLookedAfter'
  BY <1>1, LibraryTypes DEF ChangeFails, GalleryInv, GalleryTypeOK, ReadIsUnderWay, Waiting,
     RestIsLookedAfter, AtRest, Undisturbed, Retries, galleryPage
<1>5. ReadyIsReady'
  BY <1>1, LibraryTypes DEF ChangeFails, GalleryInv, GalleryTypeOK, ReadyIsReady, MediaLibrary,
     galleryPage
<1>6. DrawnIsLookedAfter'
  BY DEF ChangeFails, DrawnIsLookedAfter, Undisturbed
<1> QED BY <1>2, <1>3, <1>4, <1>5, <1>6 DEF GalleryInv

LEMMA UploadInv ==
  ASSUME GalleryInv, NEW i \in MediaItem, Upload(i)
  PROVE  GalleryInv'
<1>1. GalleryTypeOK
  BY DEF GalleryInv
<1>2. mediaFiles \in MediaLibrary /\ mediaShown \in MediaLibrary
  BY <1>1 DEF GalleryTypeOK
<1>3. /\ mediaFiles' \in MediaLibrary
      /\ \A j \in MediaItem : mediaFiles'[j] = IF j = i THEN "uploading" ELSE mediaFiles[j]
  <2>1. "uploading" \in FileState /\ mediaFiles' = [mediaFiles EXCEPT ![i] = "uploading"]
    BY DEF Upload, FileState
  <2> QED BY <1>2, <2>1 DEF MediaLibrary
<1>4. /\ mediaUpload' \in [item : MediaItem \cup {NoMedia}, step : {"idle", "sends", "reads"}]
      /\ mediaUpload'.step = "sends" /\ mediaUpload'.item # NoMedia
  BY MediaAssumption DEF Upload, NoMedia
<1>5. UNCHANGED <<mediaShown, mediaRead, timer, gallery, mediaSheet, mediaChange, upset, crossed, overlooked>>
  BY DEF Upload, galleryPage, ghosts
<1>6. GalleryTypeOK'
  BY <1>1, <1>3, <1>4, <1>5 DEF GalleryTypeOK
<1>7. ReadIsUnderWay'
  BY <1>4, <1>5 DEF GalleryInv, ReadIsUnderWay, Waiting
<1>8. RestIsLookedAfter'
  BY <1>3, <1>4, <1>5 DEF GalleryInv, RestIsLookedAfter, AtRest, Undisturbed, Retries
<1>9. ReadyIsReady'
  BY <1>3, <1>5 DEF Upload, FreshMedia, GalleryInv, ReadyIsReady, NoMedia
<1>10. DrawnIsLookedAfter'
  BY <1>3, <1>4, <1>5 DEF GalleryInv, DrawnIsLookedAfter, Undisturbed
<1> QED BY <1>7, <1>8, <1>9, <1>10, <1>6 DEF GalleryInv

LEMMA ReceivedInv ==
  ASSUME GalleryInv, UploadReceived
  PROVE  GalleryInv'
<1>1. GalleryTypeOK
  BY DEF GalleryInv
<1>2. mediaUpload.item \in MediaItem /\ mediaFiles \in MediaLibrary
  BY <1>1 DEF UploadReceived, GalleryTypeOK
<1>3. /\ mediaFiles' \in MediaLibrary
      /\ \A j \in MediaItem : mediaFiles[j] \in {"ready", NoMedia} => mediaFiles'[j] = mediaFiles[j]
  <2>1. "processing" \in FileState
    BY DEF FileState
  <2>2. CASE mediaFiles[mediaUpload.item] = "uploading"
    <3>1. mediaFiles' = [mediaFiles EXCEPT ![mediaUpload.item] = "processing"]
      BY <2>2 DEF UploadReceived
    <3>2. /\ mediaFiles' \in MediaLibrary
          /\ \A j \in MediaItem : j # mediaUpload.item => mediaFiles'[j] = mediaFiles[j]
      BY <1>2, <2>1, <3>1 DEF MediaLibrary
    <3> QED BY <2>2, <3>2 DEF NoMedia
  <2>3. CASE mediaFiles[mediaUpload.item] # "uploading"
    BY <1>2, <2>3 DEF UploadReceived
  <2> QED BY <2>2, <2>3
<1>4. /\ mediaUpload' \in [item : MediaItem \cup {NoMedia}, step : {"idle", "sends", "reads"}]
      /\ mediaUpload'.step = "reads"
  BY <1>1 DEF UploadReceived, GalleryTypeOK
<1>5. /\ mediaRead' = LibraryAsked
      /\ overlooked' = (overlooked \/ mediaRead.step = "drawn")
      /\ UNCHANGED <<mediaShown, timer, gallery, mediaSheet, mediaChange, upset, crossed>>
  BY DEF UploadReceived, galleryPage, ghosts
<1>6. GalleryTypeOK'
  BY <1>1, <1>3, <1>4, <1>5, LibraryTypes DEF GalleryTypeOK
<1>7. ReadIsUnderWay'
  BY <1>1, <1>5, LibraryTypes DEF ReadIsUnderWay
<1>8. RestIsLookedAfter'
  BY <1>1, <1>5, LibraryTypes DEF RestIsLookedAfter, AtRest, Undisturbed
<1>9. ReadyIsReady'
  BY <1>3, <1>5 DEF GalleryInv, ReadyIsReady
<1>10. DrawnIsLookedAfter'
  BY <1>1, <1>5, LibraryTypes DEF DrawnIsLookedAfter, Undisturbed
<1> QED BY <1>7, <1>8, <1>9, <1>10, <1>6 DEF GalleryInv

LEMMA UploadFailsInv ==
  ASSUME GalleryInv, UploadFails
  PROVE  GalleryInv'
<1>1. GalleryTypeOK
  BY DEF GalleryInv
<1>2. GalleryTypeOK'
  BY <1>1, LibraryTypes DEF UploadFails, GalleryTypeOK, galleryPage
<1>3. ReadIsUnderWay'
  BY <1>1, LibraryTypes DEF UploadFails, GalleryInv, GalleryTypeOK, ReadIsUnderWay, Waiting, galleryPage
<1>4. RestIsLookedAfter'
  BY <1>1, LibraryTypes DEF UploadFails, GalleryInv, GalleryTypeOK, ReadIsUnderWay, Waiting,
     RestIsLookedAfter, AtRest, Undisturbed, Retries, galleryPage
<1>5. ReadyIsReady'
  BY <1>1, LibraryTypes DEF UploadFails, GalleryInv, GalleryTypeOK, ReadyIsReady, MediaLibrary,
     galleryPage
<1>6. DrawnIsLookedAfter'
  BY DEF UploadFails, DrawnIsLookedAfter, Undisturbed
<1> QED BY <1>2, <1>3, <1>4, <1>5, <1>6 DEF GalleryInv

LEMMA PreparedInv ==
  ASSUME GalleryInv, NEW i \in MediaItem, MediaPrepared(i) \/ MediaNotPrepared(i)
  PROVE  GalleryInv'
<1>1. GalleryTypeOK
  BY DEF GalleryInv
<1>2. /\ mediaFiles' \in MediaLibrary /\ mediaFiles[i] = "processing"
      /\ \A j \in MediaItem : j # i => mediaFiles'[j] = mediaFiles[j]
      /\ mediaFiles'[i] \in {"ready", "error"}
  <2>1. mediaFiles \in MediaLibrary
    BY <1>1 DEF GalleryTypeOK
  <2>2. PICK v \in {"ready", "error"} : mediaFiles' = [mediaFiles EXCEPT ![i] = v]
    BY DEF MediaPrepared, MediaNotPrepared
  <2>3. v \in FileState
    BY DEF FileState
  <2>4. mediaFiles' \in MediaLibrary /\ \A j \in MediaItem : mediaFiles'[j] = IF j = i THEN v ELSE mediaFiles[j]
    BY <2>1, <2>2, <2>3 DEF MediaLibrary
  <2> QED BY <2>2, <2>4 DEF MediaPrepared, MediaNotPrepared
<1>3. UNCHANGED <<mediaShown, mediaRead, timer, gallery, mediaSheet, mediaChange, mediaUpload, upset, crossed, overlooked>>
  BY DEF MediaPrepared, MediaNotPrepared, galleryPage, ghosts
<1>4. GalleryTypeOK'
  BY <1>1, <1>2, <1>3 DEF GalleryTypeOK
<1>5. ReadIsUnderWay'
  BY <1>3 DEF GalleryInv, ReadIsUnderWay, Waiting
<1>6. RestIsLookedAfter'
  <2> SUFFICES ASSUME AtRest
               PROVE  /\ \A j \in MediaItem : mediaFiles'[j] = "processing" => Retries(j)
                      /\ \E c \in mediaChange : c.step = "done" \/ (c.action = "retry" /\ c.step = "boots")
    BY <1>3 DEF RestIsLookedAfter, AtRest, Undisturbed, Retries
  <2>1. \A j \in MediaItem : mediaFiles[j] = "processing" => Retries(j)
    BY DEF GalleryInv, RestIsLookedAfter
  <2>2. Retries(i)
    BY <1>2, <2>1
  <2> QED BY <1>2, <2>1, <2>2 DEF Retries
<1>7. ReadyIsReady'
  BY <1>2, <1>3 DEF GalleryInv, ReadyIsReady, NoMedia
<1>8. DrawnIsLookedAfter'
  <2> SUFFICES ASSUME mediaRead.step = "drawn", Undisturbed
               PROVE  /\ \A j \in MediaItem : mediaFiles'[j] = "processing" =>
                           \/ mediaShown[j] \in {"uploading", "processing"}
                           \/ \E c \in mediaChange : c.action = "retry" /\ c.item = j /\ c.step = "done"
                      /\ Preparing(mediaShown) \/ Answers
    BY <1>3 DEF DrawnIsLookedAfter, Undisturbed, Preparing, Answers
  <2>1. \A j \in MediaItem : mediaFiles[j] = "processing" =>
           \/ mediaShown[j] \in {"uploading", "processing"}
           \/ \E c \in mediaChange : c.action = "retry" /\ c.item = j /\ c.step = "done"
    BY DEF GalleryInv, DrawnIsLookedAfter
  <2>2. Preparing(mediaShown) \/ Answers
    BY <1>2, <2>1 DEF Preparing, Answers
  <2> QED BY <1>2, <2>1, <2>2
<1> QED BY <1>5, <1>6, <1>7, <1>8, <1>4 DEF GalleryInv

LEMMA GalleryStep ==
  ASSUME GalleryInv, [GalleryNext]_galleryVars
  PROVE  GalleryInv'
<1>1. CASE PiReadsLibrary
  BY <1>1, PiReadsInv
<1>2. CASE Loaded
  BY <1>2, LoadedInv
<1>3. CASE ReadFails
  BY <1>3, ReadFailsInv
<1>4. CASE TimerFires
  BY <1>4, TimerFiresInv
<1>5. CASE OpenGallery
  BY <1>5, OpensInv
<1>6. CASE LeaveGallery
  BY <1>6, LeavesInv
<1>7. CASE RetryMedia \/ RemoveMedia
  BY <1>7, AskedInv
<1>8. CASE CloseSheet
  <2>1. mediaSheet' \in MediaItem \cup {NoMedia} /\ mediaChange' = mediaChange \cup {}
    BY <1>8 DEF CloseSheet
  <2>2. UNCHANGED <<mediaFiles, mediaShown, mediaRead, timer, gallery, mediaUpload, upset, crossed, overlooked>>
    BY <1>8 DEF CloseSheet, ghosts
  <2> QED BY <2>1, <2>2, NothingMoves
<1>9. CASE \E i \in MediaItem : OpenSheet(i)
  BY <1>9, SheetsInv
<1>10. CASE \E c \in mediaChange : PiChangesMedia(c)
  BY <1>10, PiChangesInv
<1>11. CASE \E c \in mediaChange : Changed(c)
  BY <1>11, ChangedInv
<1>12. CASE \E c \in mediaChange : ChangeEnds(c)
  BY <1>12, ChangeEndsInv
<1>13. CASE \E c \in mediaChange : ChangeFails(c)
  BY <1>13, ChangeFailsInv
<1>14. CASE \E i \in MediaItem : Upload(i)
  BY <1>14, UploadInv
<1>15. CASE UploadReceived
  BY <1>15, ReceivedInv
<1>16. CASE UploadFails
  BY <1>16, UploadFailsInv
<1>17. CASE \E i \in MediaItem : MediaPrepared(i) \/ MediaNotPrepared(i)
  BY <1>17, PreparedInv
<1>18. CASE ReadEnds
  BY <1>18, ReadEndsInv
<1>19. CASE UNCHANGED galleryVars
  BY <1>19 DEF galleryVars, GalleryInv, GalleryTypeOK, ReadIsUnderWay, Waiting, RestIsLookedAfter,
               AtRest, Undisturbed, Retries, DrawnIsLookedAfter, Preparing, Answers, ReadyIsReady
<1> QED BY <1>1, <1>2, <1>3, <1>4, <1>5, <1>6, <1>7, <1>8, <1>9, <1>10, <1>11, <1>12, <1>13, <1>14,
           <1>15, <1>16, <1>17, <1>18, <1>19 DEF GalleryNext

LEMMA GalleryAlways == GallerySpec => []GalleryInv
BY GalleryInitInv, GalleryStep, PTL DEF GallerySpec

(* The gallery, its read, its changes and its upload keep their types.        *)
THEOREM GalleryTypeCorrect == GallerySpec => []GalleryTypeOK
<1>1. GalleryInv => GalleryTypeOK
  BY DEF GalleryInv
<1> QED BY <1>1, GalleryAlways, PTL

LEMMA RestIsCurrent ==
  ASSUME GalleryInv
  PROVE  QuietGalleryIsCurrent
<1>1. GalleryTypeOK /\ RestIsLookedAfter
  BY DEF GalleryInv
<1> QED BY <1>1 DEF QuietGalleryIsCurrent, RestIsLookedAfter, AtRest, Undisturbed, GalleryTypeOK

LEMMA NothingGoesBackHere ==
  ASSUME GalleryInv, [GalleryNext]_galleryVars
  PROVE  NothingGoesBack
<1> SUFFICES ASSUME ~crossed, ~crossed', NEW i \in MediaItem, mediaShown[i] = "ready",
                    mediaShown'[i] \in {"uploading", "processing"}
             PROVE  FALSE
  BY DEF NothingGoesBack
<1>1. mediaShown' = mediaShown \/ mediaShown' = mediaFiles
  <2>1. CASE Loaded
    BY <2>1 DEF Loaded, Draws
  <2>2. CASE \E c \in mediaChange : Changed(c)
    BY <2>2 DEF Changed, Draws
  <2>3. CASE ~(Loaded \/ \E c \in mediaChange : Changed(c))
    BY <2>3 DEF GalleryNext, galleryVars, PiReadsLibrary, ReadEnds, ReadFails, TimerFires, OpenGallery,
       LeaveGallery,
       RetryMedia, RemoveMedia, CloseSheet, OpenSheet, PiChangesMedia, ChangeEnds, ChangeFails, Upload,
       UploadReceived, UploadFails, MediaPrepared, MediaNotPrepared
  <2> QED BY <2>1, <2>2, <2>3
<1>2. mediaFiles[i] \in {"ready", NoMedia}
  BY DEF GalleryInv, ReadyIsReady
<1> QED BY <1>1, <1>2 DEF NoMedia

(* An open gallery that asks no more shows what the Pi has, and what it       *)
(* showed as ready does not become unready again, for any photos and videos,  *)
(* changes, uploads and failures, but for requests that failed, answers that  *)
(* came in the wrong order and an upload that went past a read which was      *)
(* already drawn (family/library.js, uploads.js).                             *)
THEOREM GalleryStaysCurrent == GallerySpec => GalleryIsCurrent
<1>1. GalleryInv /\ [GalleryNext]_galleryVars => [QuietGalleryIsCurrent' /\ NothingGoesBack]_galleryVars
  <2>1. GalleryInv' => QuietGalleryIsCurrent'
    BY RestIsCurrent, PTL
  <2> QED BY <2>1, GalleryStep, NothingGoesBackHere
<1> QED BY <1>1, GalleryAlways, PTL DEF GallerySpec, GalleryIsCurrent
-----------------------------------------------------------------------------
(* What a resource may ever tell of. *)
About(key) == IF key[1] = "item" THEN {key[2]} ELSE Viewed

Resource == [data : SUBSET Viewed, key : Keys \cup {<<"nothing">>}, fresh : BOOLEAN, revision : Nat]

InsightsTypeOK ==
  /\ history \subseteq Viewed /\ known \in Nat
  /\ route \in [screen : Screens, range : Span, item : Viewed]
  /\ mode \in {"mabel", "my_tv"}
  /\ memory \in [Keys -> Resource] /\ snapshot \in [Keys -> Resource]
  /\ painted \in [Screens -> Resource]
  /\ requests \subseteq [key : Keys, read : BOOLEAN, data : SUBSET Viewed]
  /\ deletions \subseteq [entry : Viewed, done : BOOLEAN]
  /\ excused \subseteq Viewed

(* A resource of that key that holds all the Pi has. *)
HoldsAll(r, key) == r.key = key /\ Entries(key) \subseteq r.data /\ r.data \subseteq About(key)

(* Memory and the device hold one answer. *)
HeldOnTheDevice ==
  \A k \in Keys :
    /\ snapshot[k] # NoResource => HoldsAll(snapshot[k], k)
    /\ memory[k] # NoResource =>
         memory[k].key = k /\ snapshot[k] # NoResource /\ memory[k].data = snapshot[k].data

(* Answers come in the order of their questions: there is one of a kind. *)
AnswersAreNewer ==
  /\ \A p, q \in requests : p.key = q.key => p = q
  /\ \A q \in requests :
       IF q.read
       THEN /\ Entries(q.key) \subseteq q.data /\ q.data \subseteq About(q.key)
            /\ snapshot[q.key] # NoResource => q.data \subseteq snapshot[q.key].data
       ELSE q.data = {}

(* No screen shows less than the device has. *)
PaintedBefore ==
  \A s \in Screens :
    \/ painted[s] = NoResource
    \/ /\ painted[s].key \in Keys /\ snapshot[painted[s].key] # NoResource
       /\ snapshot[painted[s].key].data \subseteq painted[s].data
       /\ painted[s].data \subseteq About(painted[s].key)
       /\ s = "item" => painted[s].key[1] = "item"

Missing == Viewed \ (history \cup excused)
BeingDeleted(x) == \E d \in deletions : d.done /\ d.entry = x

(* The page is about to notice, or has noticed, that an entry is gone. *)
NoticedGone ==
  \A x \in Missing :
    \/ BeingDeleted(x)
    \/ \E q \in requests : q.key = <<"item", x>> /\ x \notin q.data
    \/ snapshot[<<"item", x>>] # NoResource /\ x \notin snapshot[<<"item", x>>].data

(* An item that has nothing to paint is being asked for. *)
EmptyItemIsAsked ==
  (mode = "mabel" /\ route.screen = "item" /\ memory[Key(route)] = NoResource) =>
    \A x \in Missing : BeingDeleted(x) \/ \E q \in requests : q.key = Key(route)

InsightsInv ==
  /\ InsightsTypeOK /\ HeldOnTheDevice /\ AnswersAreNewer /\ PaintedBefore
  /\ ScopesAreSeparate /\ NoticedGone /\ EmptyItemIsAsked

-----------------------------------------------------------------------------
Route == [screen : Screens, range : Span, item : Viewed]

LEMMA NothingIsNoKey == <<"nothing">> \notin Keys
<1>1. \A d : <<"nothing">> # <<"overview", d>> /\ <<"nothing">> # <<"item", d>>
  OBVIOUS
<1>2. <<"nothing">> # <<"catalogue">> /\ <<"nothing">> # <<"diary">>
  OBVIOUS
<1> QED BY <1>1, <1>2 DEF Keys, BrowseShows, DiaryShows

LEMMA ItemKeys ==
  /\ \A x \in Viewed : <<"item", x>> \in Keys
  /\ \A x : <<"item", x>>[1] = "item" /\ <<"item", x>>[2] = x
  /\ \A k \in Keys : k[1] = "item" => k[2] \in Viewed /\ k = <<"item", k[2]>>
<1>1. \A k \in Keys : k[1] = "item" => k[2] \in Viewed /\ k = <<"item", k[2]>>
  <2> TAKE k \in Keys
  <2>1. CASE k \in {<<"overview", d>> : d \in Span}
    BY <2>1
  <2>2. CASE k \in {BrowseShows, DiaryShows}
    BY <2>2 DEF BrowseShows, DiaryShows
  <2>3. CASE k \in {<<"item", i>> : i \in Viewed}
    BY <2>3
  <2> QED BY <2>1, <2>2, <2>3 DEF Keys
<1> QED BY <1>1 DEF Keys

LEMMA RouteKeys ==
  ASSUME NEW r \in Route
  PROVE  /\ Key(r) \in Keys /\ r.screen \in Screens
         /\ r.screen = "item" => Key(r) = <<"item", r.item>>
         /\ r.screen = "item" <=> Key(r)[1] = "item"
<1>1. r.screen \in Screens /\ r.range \in Span /\ r.item \in Viewed
  BY DEF Route
<1>2. CASE r.screen = "dashboard"
  BY <1>1, <1>2 DEF Key, Keys, DashboardShows
<1>3. CASE r.screen = "channels"
  BY <1>1, <1>3 DEF Key, Keys, BrowseShows
<1>4. CASE r.screen = "item"
  BY <1>1, <1>4 DEF Key, Keys, ItemShows
<1>5. CASE r.screen = "diary"
  BY <1>1, <1>5 DEF Key, Keys, DiaryShows
<1> QED BY <1>1, <1>2, <1>3, <1>4, <1>5 DEF Screens

LEMMA NoResourceIsEmpty ==
  /\ NoResource \in Resource /\ NoResource.data = {} /\ NoResource.key \notin Keys
  /\ NoResource.fresh = FALSE /\ [NoResource EXCEPT !.fresh = FALSE] = NoResource
<1>1. NoResource \in Resource
  BY DEF NoResource, Resource
<1>2. NoResource.data = {} /\ NoResource.key = <<"nothing">> /\ NoResource.fresh = FALSE
  BY DEF NoResource
<1>3. [NoResource EXCEPT !.fresh = FALSE] = NoResource
  <2>1. [NoResource EXCEPT !.fresh = FALSE] = [NoResource EXCEPT !.fresh = NoResource.fresh]
    BY <1>2
  <2> QED BY <1>1, <2>1 DEF Resource
<1> QED BY <1>1, <1>2, <1>3, NothingIsNoKey
(* An entry of the device, or what memory has of it, for the key it is under. *)
LEMMA KeptAreResources ==
  ASSUME InsightsTypeOK, NEW k \in Keys, NEW data \in SUBSET Viewed
  PROVE  /\ Kept(k, data) \in Resource /\ Kept(k, data).key = k /\ Kept(k, data).data = data
         /\ Kept(k, data) # NoResource
<1>1. Kept(k, data) \in Resource /\ Kept(k, data).key = k /\ Kept(k, data).data = data
  BY DEF Kept, Resource, InsightsTypeOK
<1> QED BY <1>1, NoResourceIsEmpty

LEMMA EntriesAreAbout ==
  ASSUME InsightsTypeOK, NEW k \in Keys
  PROVE  Entries(k) \in SUBSET Viewed /\ Entries(k) \subseteq About(k)
BY ItemKeys DEF Entries, About, InsightsTypeOK

(* What a step may have memory look like before it loads a route.             *)
Forgets(held) ==
  held \in [Keys -> Resource] /\ \A k \in Keys : held[k] \in {memory[k], NoResource}

LEMMA RestoredIsHeld ==
  ASSUME InsightsInv, NEW held, Forgets(held), NEW key \in Keys
  PROVE  /\ RestoredResource(key, held) \in [Keys -> Resource]
         /\ \A k \in Keys :
              RestoredResource(key, held)[k] # NoResource =>
                /\ RestoredResource(key, held)[k].key = k /\ snapshot[k] # NoResource
                /\ RestoredResource(key, held)[k].data = snapshot[k].data
<1>1. InsightsTypeOK /\ HeldOnTheDevice
  BY DEF InsightsInv
<1>2. \A k \in Keys : held[k] # NoResource =>
        held[k].key = k /\ snapshot[k] # NoResource /\ held[k].data = snapshot[k].data
  BY <1>1 DEF Forgets, HeldOnTheDevice
<1>3. CASE held[key] # NoResource \/ snapshot[key] = NoResource
  BY <1>2, <1>3 DEF RestoredResource, Forgets
<1>4. CASE held[key] = NoResource /\ snapshot[key] # NoResource
  <2> DEFINE old == [snapshot[key] EXCEPT !.fresh = @ /\ snapshot[key].revision = known]
  <2>1. RestoredResource(key, held) = [held EXCEPT ![key] = old]
    BY <1>4 DEF RestoredResource
  <2>2. snapshot[key] \in Resource
    BY <1>1 DEF InsightsTypeOK
  <2>3. old \in Resource /\ old.key = snapshot[key].key /\ old.data = snapshot[key].data
    BY <2>2 DEF Resource
  <2>4. old.key = key
    BY <1>1, <1>4, <2>3 DEF HeldOnTheDevice, HoldsAll
  <2> HIDE DEF old
  <2> QED BY <1>2, <1>4, <2>1, <2>3, <2>4 DEF Forgets
<1> QED BY <1>3, <1>4

(* A route that is loaded.                                                    *)
LEMMA LoadsShow ==
  ASSUME InsightsInv, NEW held, Forgets(held), NEW r \in Route, NEW m \in {"mabel", "my_tv"},
         NEW force \in BOOLEAN, Loads(r, m, held, force), UNCHANGED <<history, snapshot>>
  PROVE  /\ memory' \in [Keys -> Resource] /\ painted' \in [Screens -> Resource]
         /\ requests' \subseteq [key : Keys, read : BOOLEAN, data : SUBSET Viewed]
         /\ HeldOnTheDevice' /\ AnswersAreNewer' /\ PaintedBefore'
         /\ m = "mabel" /\ memory'[Key(r)] # NoResource =>
              painted'[r.screen].key = Key(r) /\ painted'[r.screen].data = memory'[Key(r)].data
         /\ requests \subseteq requests'
         /\ \A q \in requests' : q \in requests \/ (q.key = Key(r) /\ q.data = {})
         /\ force \/ memory'[Key(r)] = NoResource => \E q \in requests' : q.key = Key(r)
         /\ NothingReappears
<1> DEFINE loaded == RestoredResource(Key(r), held)
           new == [key |-> Key(r), read |-> FALSE, data |-> {}]
<1>1. InsightsTypeOK /\ HeldOnTheDevice /\ AnswersAreNewer /\ PaintedBefore
  BY DEF InsightsInv
<1>2. Key(r) \in Keys /\ r.screen \in Screens /\ (r.screen = "item" => Key(r)[1] = "item")
  BY RouteKeys
<1>3. /\ memory' = loaded
      /\ painted' = IF m = "mabel" /\ loaded[Key(r)] # NoResource
                      THEN [painted EXCEPT ![r.screen] = loaded[Key(r)]] ELSE painted
      /\ requests' = IF (loaded[Key(r)].fresh /\ ~force) \/ \E q \in requests : q.key = Key(r)
                       THEN requests ELSE requests \cup {new}
  BY DEF Loads, Painted
<1>4. /\ loaded \in [Keys -> Resource]
      /\ \A k \in Keys : loaded[k] # NoResource =>
           loaded[k].key = k /\ snapshot[k] # NoResource /\ loaded[k].data = snapshot[k].data
  BY <1>2, RestoredIsHeld
<1> HIDE DEF loaded
<1>5. new \in [key : Keys, read : BOOLEAN, data : SUBSET Viewed] /\ new.key = Key(r) /\ new.data = {} /\ ~new.read
  BY <1>2
<1> HIDE DEF new
<1>6. memory' \in [Keys -> Resource] /\ painted' \in [Screens -> Resource]
  BY <1>1, <1>2, <1>3, <1>4 DEF InsightsTypeOK
<1>7. requests' \subseteq [key : Keys, read : BOOLEAN, data : SUBSET Viewed]
  BY <1>1, <1>3, <1>5 DEF InsightsTypeOK
<1>8. HeldOnTheDevice'
  BY <1>1, <1>3, <1>4 DEF HeldOnTheDevice, HoldsAll, Entries
<1>9. AnswersAreNewer'
  <2>1. CASE requests' = requests
    BY <1>1, <2>1 DEF AnswersAreNewer, Entries
  <2>2. CASE requests' = requests \cup {new} /\ ~ \E q \in requests : q.key = Key(r)
    BY <1>1, <1>5, <2>2 DEF AnswersAreNewer, Entries
  <2> QED BY <1>3, <2>1, <2>2
<1>10. /\ PaintedBefore' /\ NothingReappears
       /\ m = "mabel" /\ memory'[Key(r)] # NoResource =>
            painted'[r.screen].key = Key(r) /\ painted'[r.screen].data = memory'[Key(r)].data
  <2>1. CASE m = "mabel" /\ loaded[Key(r)] # NoResource
    <3>1. /\ painted'[r.screen] = loaded[Key(r)]
          /\ \A s \in Screens : s # r.screen => painted'[s] = painted[s]
      BY <1>1, <1>2, <1>3, <2>1 DEF InsightsTypeOK
    <3>2. /\ loaded[Key(r)].key = Key(r) /\ snapshot[Key(r)] # NoResource
          /\ loaded[Key(r)].data = snapshot[Key(r)].data
      BY <1>2, <1>4, <2>1
    <3>3. snapshot[Key(r)].data \subseteq About(Key(r))
      BY <1>1, <1>2, <3>2 DEF HeldOnTheDevice, HoldsAll
    <3>4. PaintedBefore'
      BY <1>1, <1>2, <3>1, <3>2, <3>3 DEF PaintedBefore
    <3>5. NothingReappears
      <4> SUFFICES ASSUME NEW s \in Screens, painted'[s].key = painted[s].key
                   PROVE  painted'[s].data \subseteq painted[s].data
        BY DEF NothingReappears
      <4>1. CASE s = r.screen
        <5>1. painted[s].key = Key(r) /\ painted[s] # NoResource
          BY <1>2, <3>1, <3>2, <4>1, NoResourceIsEmpty
        <5> QED BY <1>1, <3>1, <3>2, <4>1, <5>1 DEF PaintedBefore
      <4>2. CASE s # r.screen
        BY <3>1, <4>2
      <4> QED BY <4>1, <4>2
    <3> QED BY <1>3, <3>1, <3>2, <3>4, <3>5
  <2>2. CASE ~(m = "mabel" /\ loaded[Key(r)] # NoResource)
    <3>1. painted' = painted
      BY <1>3, <2>2
    <3>2. PaintedBefore' /\ NothingReappears
      BY <1>1, <3>1 DEF PaintedBefore, NothingReappears
    <3> QED BY <1>3, <2>2, <3>2
  <2> QED BY <2>1, <2>2
<1>11. force \/ memory'[Key(r)] = NoResource => \E q \in requests' : q.key = Key(r)
  <2>1. memory'[Key(r)] = NoResource => ~loaded[Key(r)].fresh
    BY <1>3, NoResourceIsEmpty
  <2> QED BY <1>3, <1>5, <2>1
<1>12. requests \subseteq requests' /\ \A q \in requests' : q \in requests \/ (q.key = Key(r) /\ q.data = {})
  BY <1>3, <1>5
<1> QED BY <1>3, <1>6, <1>7, <1>8, <1>9, <1>10, <1>11, <1>12

LEMMA InsightsInitInv ==
  ASSUME InsightsInit
  PROVE  InsightsInv
<1>1. InsightsTypeOK
  <2>1. route \in [screen : Screens, range : Span, item : Viewed]
    BY InsightsAssumption DEF InsightsInit, Screens
  <2>2. known \in Nat /\ history \subseteq Viewed
    BY DEF InsightsInit
  <2>3. snapshot \in [Keys -> Resource]
    <3>1. \A k \in Keys : Kept(k, Entries(k)) \in Resource
      BY <2>2, ItemKeys DEF Kept, Entries, Resource
    <3> QED BY <3>1, NoResourceIsEmpty DEF InsightsInit
  <2>4. memory \in [Keys -> Resource] /\ painted \in [Screens -> Resource]
    BY NoResourceIsEmpty DEF InsightsInit
  <2> QED BY <2>1, <2>2, <2>3, <2>4 DEF InsightsInit, InsightsTypeOK
<1>2. HeldOnTheDevice
  <2>1. \A k \in Keys : memory[k] = NoResource /\ snapshot[k] \in {NoResource, Kept(k, Entries(k))}
    BY DEF InsightsInit
  <2>2. \A k \in Keys : HoldsAll(Kept(k, Entries(k)), k)
    BY <1>1, KeptAreResources, EntriesAreAbout DEF HoldsAll
  <2> QED BY <2>1, <2>2 DEF HeldOnTheDevice
<1>3. AnswersAreNewer /\ PaintedBefore
  BY DEF InsightsInit, AnswersAreNewer, PaintedBefore
<1>4. ScopesAreSeparate /\ EmptyItemIsAsked
  BY DEF InsightsInit, ScopesAreSeparate, EmptyItemIsAsked
<1>5. NoticedGone
  BY DEF InsightsInit, NoticedGone, Missing
<1> QED BY <1>1, <1>2, <1>3, <1>4, <1>5 DEF InsightsInv

(* Opening a route, another range, or the insights of MabelTV again.          *)
LEMMA RouteLoadedInv ==
  ASSUME InsightsInv, NEW r \in Route, NEW force \in BOOLEAN, Loads(r, "mabel", memory, force),
         route' = r, mode' = "mabel", UNCHANGED <<history, known, snapshot, deletions, excused>>
  PROVE  InsightsInv' /\ NothingReappears
<1>1. InsightsTypeOK /\ NoticedGone
  BY DEF InsightsInv
<1>2. Forgets(memory)
  BY <1>1 DEF Forgets, InsightsTypeOK
<1>3. /\ memory' \in [Keys -> Resource] /\ painted' \in [Screens -> Resource]
      /\ requests' \subseteq [key : Keys, read : BOOLEAN, data : SUBSET Viewed]
      /\ HeldOnTheDevice' /\ AnswersAreNewer' /\ PaintedBefore'
      /\ memory'[Key(r)] # NoResource =>
           painted'[r.screen].key = Key(r) /\ painted'[r.screen].data = memory'[Key(r)].data
      /\ requests \subseteq requests'
      /\ memory'[Key(r)] = NoResource => \E q \in requests' : q.key = Key(r)
      /\ NothingReappears
  BY <1>2, LoadsShow
<1>4. Key(route)' = Key(r)
  BY DEF Key, DashboardShows, BrowseShows, ItemShows, DiaryShows
<1>5. InsightsTypeOK'
  BY <1>1, <1>3 DEF InsightsTypeOK, Route
<1>6. ScopesAreSeparate' /\ EmptyItemIsAsked'
  BY <1>3, <1>4 DEF ScopesAreSeparate, EmptyItemIsAsked
<1>7. NoticedGone'
  BY <1>1, <1>3 DEF NoticedGone, Missing, BeingDeleted
<1> QED BY <1>3, <1>5, <1>6, <1>7 DEF InsightsInv

(* Steps that touch neither the Pi nor what is kept and painted.              *)
LEMMA DeletionAskedInv ==
  ASSUME InsightsInv, NEW i \in Viewed, Delete(i)
  PROVE  InsightsInv' /\ NothingReappears
<1>1. deletions' = deletions \cup {[entry |-> i, done |-> FALSE]}
      /\ UNCHANGED <<history, known, route, mode, memory, snapshot, requests, painted, excused>>
  BY DEF Delete
<1>2. InsightsTypeOK'
  <2>1. deletions' \subseteq [entry : Viewed, done : BOOLEAN]
    <3>1. [entry |-> i, done |-> FALSE] \in [entry : Viewed, done : BOOLEAN]
      OBVIOUS
    <3> QED BY <1>1, <3>1 DEF InsightsInv, InsightsTypeOK
  <2> QED BY <1>1, <2>1 DEF InsightsInv, InsightsTypeOK
<1>3. HeldOnTheDevice' /\ AnswersAreNewer' /\ PaintedBefore'
  BY <1>1 DEF InsightsInv, HeldOnTheDevice, HoldsAll, AnswersAreNewer, PaintedBefore, Entries
<1>4. ScopesAreSeparate'
  BY <1>1 DEF InsightsInv, ScopesAreSeparate, Key, DashboardShows, BrowseShows, ItemShows, DiaryShows
<1>5. \A x : BeingDeleted(x) => BeingDeleted(x)'
  BY <1>1 DEF BeingDeleted
<1>6. NoticedGone'
  BY <1>1, <1>5 DEF InsightsInv, NoticedGone, Missing
<1>7. Key(route)' = Key(route)
  BY <1>1 DEF Key, DashboardShows, BrowseShows, ItemShows, DiaryShows
<1>8. EmptyItemIsAsked'
  BY <1>1, <1>5, <1>7 DEF InsightsInv, EmptyItemIsAsked, Missing
<1> QED BY <1>1, <1>2, <1>3, <1>4, <1>6, <1>8 DEF InsightsInv, NothingReappears

LEMMA ToMyTvInv ==
  ASSUME InsightsInv, ToMyTv
  PROVE  InsightsInv' /\ NothingReappears
<1>1. /\ mode' = "my_tv"
      /\ UNCHANGED <<history, known, route, memory, snapshot, requests, painted, deletions, excused>>
  BY DEF ToMyTv
<1>2. InsightsTypeOK'
  BY <1>1 DEF InsightsInv, InsightsTypeOK
<1>3. HeldOnTheDevice' /\ AnswersAreNewer' /\ PaintedBefore'
  BY <1>1 DEF InsightsInv, HeldOnTheDevice, HoldsAll, AnswersAreNewer, PaintedBefore, Entries
<1>4. ScopesAreSeparate' /\ EmptyItemIsAsked'
  BY <1>1 DEF ScopesAreSeparate, EmptyItemIsAsked
<1>5. NoticedGone'
  BY <1>1 DEF InsightsInv, NoticedGone, Missing, BeingDeleted
<1> QED BY <1>1, <1>2, <1>3, <1>4, <1>5 DEF InsightsInv, NothingReappears

LEMMA HistoryReadInv ==
  ASSUME InsightsInv, NEW q \in requests, PiReadsHistory(q)
  PROVE  InsightsInv' /\ NothingReappears
<1> DEFINE answer == [q EXCEPT !.read = TRUE, !.data = Entries(q.key)]
<1>1. /\ ~q.read /\ requests' = (requests \ {q}) \cup {answer}
      /\ UNCHANGED <<history, known, route, mode, memory, snapshot, painted, deletions, excused>>
  BY DEF PiReadsHistory
<1>2. InsightsTypeOK /\ HeldOnTheDevice /\ AnswersAreNewer
  BY DEF InsightsInv
<1>3. q \in [key : Keys, read : BOOLEAN, data : SUBSET Viewed]
  BY <1>2 DEF InsightsTypeOK
<1>4. Entries(q.key) \in SUBSET Viewed /\ Entries(q.key) \subseteq About(q.key)
  BY <1>2, <1>3, EntriesAreAbout
<1>5. /\ answer \in [key : Keys, read : BOOLEAN, data : SUBSET Viewed]
      /\ answer.key = q.key /\ answer.read /\ answer.data = Entries(q.key)
  BY <1>3, <1>4
<1> HIDE DEF answer
<1>6. InsightsTypeOK'
  BY <1>1, <1>2, <1>5 DEF InsightsTypeOK
<1>7. HeldOnTheDevice' /\ PaintedBefore'
  BY <1>1 DEF InsightsInv, HeldOnTheDevice, HoldsAll, PaintedBefore, Entries
<1>8. AnswersAreNewer'
  <2>1. snapshot[q.key] # NoResource => Entries(q.key) \subseteq snapshot[q.key].data
    BY <1>2, <1>3 DEF HeldOnTheDevice, HoldsAll
  <2>2. \A k : Entries(k)' = Entries(k)
    BY <1>1 DEF Entries
  <2>3. \A p \in requests' : p = answer \/ (p \in requests /\ p.key # q.key)
    BY <1>1, <1>2 DEF AnswersAreNewer
  <2> QED BY <1>1, <1>2, <1>4, <1>5, <2>1, <2>2, <2>3 DEF AnswersAreNewer
<1>9. Key(route)' = Key(route)
  BY <1>1 DEF Key, DashboardShows, BrowseShows, ItemShows, DiaryShows
<1>10. ScopesAreSeparate'
  BY <1>1, <1>9 DEF InsightsInv, ScopesAreSeparate
<1>11. Missing' = Missing /\ \A x : BeingDeleted(x)' = BeingDeleted(x)
  BY <1>1 DEF Missing, BeingDeleted
<1>12. \A p \in requests : \E a \in requests' :
         a.key = p.key /\ (a = p \/ a.data = Entries(p.key))
  BY <1>1, <1>5
<1>13. EmptyItemIsAsked'
  BY <1>1, <1>9, <1>11, <1>12 DEF InsightsInv, EmptyItemIsAsked
<1>14. NoticedGone'
  <2> SUFFICES ASSUME NEW x \in Missing, ~BeingDeleted(x), NEW p \in requests, p.key = <<"item", x>>, x \notin p.data
               PROVE  \E a \in requests' : a.key = <<"item", x>> /\ x \notin a.data
    BY <1>1, <1>11 DEF InsightsInv, NoticedGone
  <2>1. x \notin Entries(p.key)
    BY ItemKeys DEF Missing, Entries
  <2> QED BY <1>12, <2>1
<1> QED BY <1>1, <1>6, <1>7, <1>8, <1>10, <1>13, <1>14 DEF InsightsInv, NothingReappears

LEMMA PiDeletesInv ==
  ASSUME InsightsInv, NEW d \in deletions, PiDeletes(d)
  PROVE  InsightsInv' /\ NothingReappears
<1> DEFINE done == [d EXCEPT !.done = TRUE]
<1>1. /\ ~d.done /\ history' = history \ {d.entry} /\ deletions' = (deletions \ {d}) \cup {done}
      /\ UNCHANGED <<known, route, mode, memory, snapshot, requests, painted, excused>>
  BY DEF PiDeletes
<1>2. InsightsTypeOK
  BY DEF InsightsInv
<1>3. done \in [entry : Viewed, done : BOOLEAN] /\ done.done /\ done.entry = d.entry
  BY <1>2 DEF InsightsTypeOK
<1> HIDE DEF done
<1>4. InsightsTypeOK'
  BY <1>1, <1>2, <1>3 DEF InsightsTypeOK
<1>5. \A k : Entries(k)' \subseteq Entries(k)
  BY <1>1 DEF Entries
<1>6. HeldOnTheDevice' /\ AnswersAreNewer' /\ PaintedBefore'
  BY <1>1, <1>5 DEF InsightsInv, HeldOnTheDevice, HoldsAll, AnswersAreNewer, PaintedBefore
<1>7. Key(route)' = Key(route)
  BY <1>1 DEF Key, DashboardShows, BrowseShows, ItemShows, DiaryShows
<1>8. ScopesAreSeparate'
  BY <1>1, <1>7 DEF InsightsInv, ScopesAreSeparate
<1>9. \A x \in Missing' : x \in Missing \/ BeingDeleted(x)'
  BY <1>1, <1>3 DEF Missing, BeingDeleted
<1>10. \A x : BeingDeleted(x) => BeingDeleted(x)'
  BY <1>1 DEF BeingDeleted
<1>11. NoticedGone'
  BY <1>1, <1>9, <1>10 DEF InsightsInv, NoticedGone
<1>12. EmptyItemIsAsked'
  BY <1>1, <1>7, <1>9, <1>10 DEF InsightsInv, EmptyItemIsAsked
<1> QED BY <1>1, <1>4, <1>6, <1>8, <1>11, <1>12 DEF InsightsInv, NothingReappears

LEMMA ArrivesInv ==
  ASSUME InsightsInv, NEW q \in requests, Arrives(q)
  PROVE  InsightsInv' /\ NothingReappears
<1> DEFINE kept == Kept(q.key, q.data)
<1>1. /\ q.read /\ memory' = [memory EXCEPT ![q.key] = kept] /\ snapshot' = [snapshot EXCEPT ![q.key] = kept]
      /\ requests' = requests \ {q} /\ painted' = Painted(route, mode, memory')
      /\ UNCHANGED <<history, known, route, mode, deletions, excused>>
  BY DEF Arrives
<1>2. InsightsTypeOK /\ HeldOnTheDevice /\ AnswersAreNewer /\ PaintedBefore
  BY DEF InsightsInv
<1>3. q.key \in Keys /\ q.data \in SUBSET Viewed
  BY <1>2 DEF InsightsTypeOK
<1>4. kept \in Resource /\ kept.key = q.key /\ kept.data = q.data /\ kept # NoResource
  BY <1>2, <1>3, KeptAreResources
<1> HIDE DEF kept
<1>5. /\ memory' \in [Keys -> Resource] /\ snapshot' \in [Keys -> Resource]
      /\ \A k \in Keys :
           /\ memory'[k] = IF k = q.key THEN kept ELSE memory[k]
           /\ snapshot'[k] = IF k = q.key THEN kept ELSE snapshot[k]
  BY <1>1, <1>2, <1>3, <1>4 DEF InsightsTypeOK
<1>6. /\ Entries(q.key) \subseteq q.data /\ q.data \subseteq About(q.key)
      /\ snapshot[q.key] # NoResource => q.data \subseteq snapshot[q.key].data
  BY <1>1, <1>2 DEF AnswersAreNewer
<1>7. \A k : Entries(k)' = Entries(k)
  BY <1>1 DEF Entries
<1>8. HeldOnTheDevice'
  BY <1>2, <1>4, <1>5, <1>6, <1>7 DEF HeldOnTheDevice, HoldsAll
<1>9. AnswersAreNewer'
  <2>1. \A p \in requests' : p \in requests /\ p.key \in Keys /\ p.key # q.key
    BY <1>1, <1>2 DEF AnswersAreNewer, InsightsTypeOK
  <2> QED BY <1>2, <1>5, <1>7, <2>1 DEF AnswersAreNewer
<1>10. /\ route \in Route /\ Key(route) \in Keys /\ route.screen \in Screens /\ Key(route)' = Key(route)
       /\ route.screen = "item" => Key(route)[1] = "item"
  <2>1. route \in Route
    BY <1>2 DEF InsightsTypeOK, Route
  <2>2. Key(route)' = Key(route)
    BY <1>1 DEF Key, DashboardShows, BrowseShows, ItemShows, DiaryShows
  <2> QED BY <2>1, <2>2, RouteKeys
(* What was painted before is no less than what is kept now.                  *)
<1>11. \A s \in Screens :
         \/ painted[s] = NoResource
         \/ /\ painted[s].key \in Keys /\ snapshot'[painted[s].key] # NoResource
            /\ snapshot'[painted[s].key].data \subseteq painted[s].data
            /\ painted[s].data \subseteq About(painted[s].key)
            /\ s = "item" => painted[s].key[1] = "item"
  BY <1>2, <1>4, <1>5, <1>6 DEF PaintedBefore
<1>12. /\ painted' \in [Screens -> Resource] /\ PaintedBefore' /\ ScopesAreSeparate' /\ NothingReappears
  <2>1. CASE mode = "mabel" /\ memory'[Key(route)] # NoResource
    <3>1. /\ painted' \in [Screens -> Resource] /\ painted'[route.screen] = memory'[Key(route)]
          /\ \A s \in Screens : s # route.screen => painted'[s] = painted[s]
      BY <1>1, <1>2, <1>5, <1>10, <2>1 DEF InsightsTypeOK, Painted
    <3>2. /\ memory'[Key(route)].key = Key(route) /\ snapshot'[Key(route)] # NoResource
          /\ memory'[Key(route)].data = snapshot'[Key(route)].data
          /\ snapshot'[Key(route)].data \subseteq About(Key(route))
      BY <1>8, <1>10, <2>1 DEF HeldOnTheDevice, HoldsAll
    <3>3. PaintedBefore'
      BY <1>10, <1>11, <3>1, <3>2 DEF PaintedBefore
    <3>4. ScopesAreSeparate'
      BY <1>1, <1>10, <3>1, <3>2 DEF ScopesAreSeparate
    <3>5. NothingReappears
      <4> SUFFICES ASSUME NEW s \in Screens, painted'[s].key = painted[s].key
                   PROVE  painted'[s].data \subseteq painted[s].data
        BY DEF NothingReappears
      <4>1. CASE s = route.screen
        <5>1. painted[s].key = Key(route) /\ painted[s] # NoResource
          BY <1>10, <3>1, <3>2, <4>1, NoResourceIsEmpty
        <5> QED BY <1>11, <3>1, <3>2, <4>1, <5>1
      <4>2. CASE s # route.screen
        BY <3>1, <4>2
      <4> QED BY <4>1, <4>2
    <3> QED BY <3>1, <3>3, <3>4, <3>5
  <2>2. CASE ~(mode = "mabel" /\ memory'[Key(route)] # NoResource)
    <3>1. painted' = painted
      BY <1>1, <2>2 DEF Painted
    <3> QED BY <1>1, <1>2, <1>10, <1>11, <2>2, <3>1
            DEF InsightsTypeOK, PaintedBefore, ScopesAreSeparate, NothingReappears
  <2> QED BY <2>1, <2>2
<1>13. InsightsTypeOK'
  BY <1>1, <1>2, <1>5, <1>12 DEF InsightsTypeOK
<1>14. Missing' = Missing /\ \A x : BeingDeleted(x)' = BeingDeleted(x)
  BY <1>1 DEF Missing, BeingDeleted
<1>15. NoticedGone'
  <2> SUFFICES ASSUME NEW x \in Missing, ~BeingDeleted(x)
               PROVE  \/ \E p \in requests' : p.key = <<"item", x>> /\ x \notin p.data
                      \/ snapshot'[<<"item", x>>] # NoResource /\ x \notin snapshot'[<<"item", x>>].data
    BY <1>14 DEF NoticedGone
  <2>1. <<"item", x>> \in Keys
    BY ItemKeys DEF Missing
  <2>2. CASE \E p \in requests : p.key = <<"item", x>> /\ x \notin p.data
    BY <1>1, <1>4, <1>5, <2>1, <2>2
  <2>3. CASE snapshot[<<"item", x>>] # NoResource /\ x \notin snapshot[<<"item", x>>].data
    BY <1>4, <1>5, <1>6, <2>1, <2>3
  <2> QED BY <2>2, <2>3 DEF InsightsInv, NoticedGone
<1>16. EmptyItemIsAsked'
  <2> SUFFICES ASSUME mode = "mabel", route.screen = "item", memory'[Key(route)] = NoResource,
                      NEW x \in Missing, ~BeingDeleted(x)
               PROVE  \E p \in requests' : p.key = Key(route)
    BY <1>1, <1>10, <1>14 DEF EmptyItemIsAsked
  <2>1. Key(route) # q.key /\ memory[Key(route)] = NoResource
    BY <1>4, <1>5, <1>10
  <2> QED BY <1>1, <2>1 DEF InsightsInv, EmptyItemIsAsked
<1> QED BY <1>8, <1>9, <1>12, <1>13, <1>15, <1>16 DEF InsightsInv

LEMMA InsightFailsInv ==
  ASSUME InsightsInv, NEW q \in requests, InsightFails(q)
  PROVE  InsightsInv' /\ NothingReappears
<1>1. /\ requests' = requests \ {q} /\ excused' = excused \cup (Viewed \ history)
      /\ UNCHANGED <<history, known, route, mode, memory, snapshot, painted, deletions>>
  BY DEF InsightFails
<1>2. InsightsTypeOK'
  BY <1>1 DEF InsightsInv, InsightsTypeOK
<1>3. HeldOnTheDevice' /\ AnswersAreNewer' /\ PaintedBefore'
  BY <1>1 DEF InsightsInv, HeldOnTheDevice, HoldsAll, AnswersAreNewer, PaintedBefore, Entries
<1>4. ScopesAreSeparate'
  BY <1>1 DEF InsightsInv, ScopesAreSeparate, Key, DashboardShows, BrowseShows, ItemShows, DiaryShows
<1>5. Missing' = {}
  BY <1>1 DEF Missing
<1>6. NoticedGone' /\ EmptyItemIsAsked'
  BY <1>5 DEF NoticedGone, EmptyItemIsAsked
<1> QED BY <1>1, <1>2, <1>3, <1>4, <1>6 DEF InsightsInv, NothingReappears

LEMMA DeleteFailsInv ==
  ASSUME InsightsInv, NEW d \in deletions, DeleteFails(d)
  PROVE  InsightsInv' /\ NothingReappears
<1>1. /\ deletions' = deletions \ {d} /\ excused' = excused \cup (IF d.done THEN {d.entry} ELSE {})
      /\ UNCHANGED <<history, known, route, mode, memory, snapshot, requests, painted>>
  BY DEF DeleteFails
<1>2. InsightsTypeOK'
  BY <1>1 DEF InsightsInv, InsightsTypeOK
<1>3. HeldOnTheDevice' /\ AnswersAreNewer' /\ PaintedBefore'
  BY <1>1 DEF InsightsInv, HeldOnTheDevice, HoldsAll, AnswersAreNewer, PaintedBefore, Entries
<1>4. Key(route)' = Key(route)
  BY <1>1 DEF Key, DashboardShows, BrowseShows, ItemShows, DiaryShows
<1>5. ScopesAreSeparate'
  BY <1>1, <1>4 DEF InsightsInv, ScopesAreSeparate
<1>6. \A x \in Missing' : x \in Missing /\ (BeingDeleted(x) => BeingDeleted(x)')
  BY <1>1 DEF Missing, BeingDeleted
<1>7. NoticedGone'
  BY <1>1, <1>6 DEF InsightsInv, NoticedGone
<1>8. EmptyItemIsAsked'
  BY <1>1, <1>4, <1>6 DEF InsightsInv, EmptyItemIsAsked
<1> QED BY <1>1, <1>2, <1>3, <1>5, <1>7, <1>8 DEF InsightsInv, NothingReappears

LEMMA DeleteAnsweredInv ==
  ASSUME InsightsInv, NEW d \in deletions, DeleteAnswered(d)
  PROVE  InsightsInv' /\ NothingReappears
<1> DEFINE forgotten == [memory EXCEPT ![<<"catalogue">>] = NoResource,
                                       ![<<"overview", route.range>>] = NoResource]
           item == [forgotten EXCEPT ![Key(route)] = NoResource]
<1>1. /\ d.done /\ deletions' = deletions \ {d}
      /\ UNCHANGED <<history, known, route, mode, snapshot>>
  BY DEF DeleteAnswered
<1>2. InsightsTypeOK /\ HeldOnTheDevice /\ AnswersAreNewer /\ PaintedBefore /\ d.entry \in Viewed
  BY DEF InsightsInv, InsightsTypeOK
<1>3. route \in Route /\ Key(route) \in Keys /\ Key(route)' = Key(route)
  <2>1. route \in Route
    BY <1>2 DEF InsightsTypeOK, Route
  <2>2. Key(route)' = Key(route)
    BY <1>1 DEF Key, DashboardShows, BrowseShows, ItemShows, DiaryShows
  <2> QED BY <2>1, <2>2, RouteKeys
<1>4. Forgets(forgotten)
  BY <1>2, NoResourceIsEmpty DEF Forgets, InsightsTypeOK
<1>5. Forgets(item)
  BY <1>3, <1>4, NoResourceIsEmpty DEF Forgets
<1>6. /\ route.screen = "item" => Loads(route, mode, item, TRUE)
      /\ route.screen # "item" => memory' = forgotten /\ UNCHANGED <<requests, painted>>
  BY DEF DeleteAnswered
<1> HIDE DEF forgotten, item
<1>7. /\ excused \subseteq excused' /\ excused' \subseteq excused \cup {d.entry}
      /\ d.entry \in excused'
           \/ /\ route.screen = "item" /\ Key(route) = <<"item", d.entry>>
              /\ \A q \in requests : q.key = Key(route) => ~q.read
  BY DEF DeleteAnswered
<1>8. \A x \in Missing' :
        /\ x \in Missing
        /\ BeingDeleted(x) => BeingDeleted(x)' \/ x = d.entry
  BY <1>1, <1>7 DEF Missing, BeingDeleted
<1>9. CASE route.screen = "item"
  <2>1. /\ memory' \in [Keys -> Resource] /\ painted' \in [Screens -> Resource]
        /\ requests' \subseteq [key : Keys, read : BOOLEAN, data : SUBSET Viewed]
        /\ HeldOnTheDevice' /\ AnswersAreNewer' /\ PaintedBefore'
        /\ mode = "mabel" /\ memory'[Key(route)] # NoResource =>
             painted'[route.screen].key = Key(route)
             /\ painted'[route.screen].data = memory'[Key(route)].data
        /\ requests \subseteq requests'
        /\ \A q \in requests' : q \in requests \/ (q.key = Key(route) /\ q.data = {})
        /\ \E q \in requests' : q.key = Key(route)
        /\ NothingReappears
    <3>1. mode \in {"mabel", "my_tv"}
      BY <1>2 DEF InsightsTypeOK
    <3> QED BY <1>1, <1>3, <1>5, <1>6, <1>9, <3>1, LoadsShow
  <2>2. InsightsTypeOK'
    BY <1>1, <1>2, <1>7, <2>1 DEF InsightsTypeOK
  <2>3. ScopesAreSeparate' /\ EmptyItemIsAsked'
    BY <1>1, <1>3, <2>1 DEF ScopesAreSeparate, EmptyItemIsAsked
  <2>4. NoticedGone'
    <3> SUFFICES ASSUME NEW x \in Missing', ~BeingDeleted(x)'
                 PROVE  \/ \E q \in requests' : q.key = <<"item", x>> /\ x \notin q.data
                        \/ snapshot[<<"item", x>>] # NoResource /\ x \notin snapshot[<<"item", x>>].data
      BY <1>1 DEF NoticedGone
    <3>1. CASE x = d.entry
      <4>1. Key(route) = <<"item", x>> /\ \A q \in requests : q.key = Key(route) => q.data = {}
        BY <1>2, <1>7, <3>1 DEF AnswersAreNewer, Missing
      <4> QED BY <2>1, <4>1
    <3>2. CASE x # d.entry
      BY <1>8, <2>1, <3>2 DEF InsightsInv, NoticedGone
    <3> QED BY <3>1, <3>2
  <2> QED BY <2>1, <2>2, <2>3, <2>4 DEF InsightsInv
<1>10. CASE route.screen # "item"
  <2>1. /\ memory' \in [Keys -> Resource] /\ \A k \in Keys : memory'[k] \in {memory[k], NoResource}
        /\ UNCHANGED <<requests, painted>>
    BY <1>4, <1>6, <1>10 DEF Forgets
  <2>2. InsightsTypeOK'
    BY <1>1, <1>2, <1>7, <2>1 DEF InsightsTypeOK
  <2>3. HeldOnTheDevice' /\ AnswersAreNewer' /\ PaintedBefore'
    BY <1>1, <1>2, <2>1 DEF HeldOnTheDevice, HoldsAll, AnswersAreNewer, PaintedBefore, Entries
  <2>4. ScopesAreSeparate'
    BY <1>1, <1>3, <2>1 DEF InsightsInv, ScopesAreSeparate
  <2>5. NoticedGone'
    <3>1. \A x \in Missing' : x # d.entry
      BY <1>7, <1>10 DEF Missing
    <3> QED BY <1>1, <1>8, <2>1, <3>1 DEF InsightsInv, NoticedGone
  <2>6. EmptyItemIsAsked'
    BY <1>1, <1>10 DEF EmptyItemIsAsked
  <2> QED BY <2>1, <2>2, <2>3, <2>4, <2>5, <2>6 DEF InsightsInv, NothingReappears
<1> QED BY <1>9, <1>10

LEMMA ToldInv ==
  ASSUME InsightsInv, InsightsTold
  PROVE  InsightsInv' /\ NothingReappears
<1>1. /\ known' = Revision
      /\ UNCHANGED <<history, route, mode, memory, snapshot, requests, painted, deletions, excused>>
  BY DEF InsightsTold
<1>2. Revision \in Nat
  BY InsightsAssumption, FS_CardinalityType, FS_Subset DEF Revision
<1>3. InsightsTypeOK'
  BY <1>1, <1>2 DEF InsightsInv, InsightsTypeOK
<1>4. HeldOnTheDevice' /\ AnswersAreNewer' /\ PaintedBefore'
  BY <1>1 DEF InsightsInv, HeldOnTheDevice, HoldsAll, AnswersAreNewer, PaintedBefore, Entries
<1>5. Key(route)' = Key(route)
  BY <1>1 DEF Key, DashboardShows, BrowseShows, ItemShows, DiaryShows
<1>6. Missing' = Missing /\ \A x : BeingDeleted(x)' = BeingDeleted(x)
  BY <1>1 DEF Missing, BeingDeleted
<1>7. ScopesAreSeparate' /\ NoticedGone' /\ EmptyItemIsAsked'
  BY <1>1, <1>5, <1>6 DEF InsightsInv, ScopesAreSeparate, NoticedGone, EmptyItemIsAsked
<1> QED BY <1>1, <1>3, <1>4, <1>7 DEF InsightsInv, NothingReappears

(* What grows old is the same to read.                                        *)
LEMMA AgedIsSame ==
  ASSUME NEW r \in Resource
  PROVE  /\ [r EXCEPT !.fresh = FALSE] \in Resource
         /\ [r EXCEPT !.fresh = FALSE].key = r.key /\ [r EXCEPT !.fresh = FALSE].data = r.data
BY DEF Resource

LEMMA AgesInv ==
  ASSUME InsightsInv, Ages
  PROVE  InsightsInv' /\ NothingReappears
<1>1. /\ memory' = [k \in Keys |-> [memory[k] EXCEPT !.fresh = FALSE]]
      /\ snapshot' = [k \in Keys |-> [snapshot[k] EXCEPT !.fresh = FALSE]]
      /\ UNCHANGED <<history, known, route, mode, requests, painted, deletions, excused>>
  BY DEF Ages
<1>2. InsightsTypeOK /\ HeldOnTheDevice
  BY DEF InsightsInv
<1>3. /\ memory' \in [Keys -> Resource] /\ snapshot' \in [Keys -> Resource]
      /\ \A k \in Keys :
           /\ memory'[k].key = memory[k].key /\ memory'[k].data = memory[k].data
           /\ snapshot'[k].key = snapshot[k].key /\ snapshot'[k].data = snapshot[k].data
  BY <1>1, <1>2, AgedIsSame DEF InsightsTypeOK
<1>4. \A k \in Keys :
        /\ memory'[k] = NoResource <=> memory[k] = NoResource
        /\ snapshot'[k] = NoResource <=> snapshot[k] = NoResource
  <2> TAKE k \in Keys
  <2>1. /\ memory[k] = NoResource => memory'[k] = NoResource
        /\ snapshot[k] = NoResource => snapshot'[k] = NoResource
    BY <1>1, NoResourceIsEmpty
  <2>2. /\ memory[k] # NoResource => memory'[k] # NoResource
        /\ snapshot[k] # NoResource => snapshot'[k] # NoResource
    BY <1>2, <1>3, NoResourceIsEmpty DEF HeldOnTheDevice, HoldsAll
  <2> QED BY <2>1, <2>2
<1>5. InsightsTypeOK'
  BY <1>1, <1>2, <1>3 DEF InsightsTypeOK
<1>6. \A k : Entries(k)' = Entries(k)
  BY <1>1 DEF Entries
<1>7. HeldOnTheDevice'
  BY <1>2, <1>3, <1>4, <1>6 DEF HeldOnTheDevice, HoldsAll
<1>8. AnswersAreNewer'
  BY <1>1, <1>2, <1>3, <1>4, <1>6 DEF InsightsInv, AnswersAreNewer, InsightsTypeOK
<1>9. PaintedBefore'
  BY <1>1, <1>3, <1>4 DEF InsightsInv, PaintedBefore
<1>10. route \in Route /\ Key(route) \in Keys /\ Key(route)' = Key(route)
  <2>1. route \in Route
    BY <1>2 DEF InsightsTypeOK, Route
  <2>2. Key(route)' = Key(route)
    BY <1>1 DEF Key, DashboardShows, BrowseShows, ItemShows, DiaryShows
  <2> QED BY <2>1, <2>2, RouteKeys
<1>11. ScopesAreSeparate'
  BY <1>1, <1>3, <1>4, <1>10 DEF InsightsInv, ScopesAreSeparate
<1>12. Missing' = Missing /\ \A x : BeingDeleted(x)' = BeingDeleted(x)
  BY <1>1 DEF Missing, BeingDeleted
<1>13. NoticedGone'
  <2>1. \A x \in Missing : <<"item", x>> \in Keys
    BY ItemKeys DEF Missing
  <2> QED BY <1>1, <1>3, <1>4, <1>12, <2>1 DEF InsightsInv, NoticedGone
<1>14. EmptyItemIsAsked'
  BY <1>1, <1>4, <1>10, <1>12 DEF InsightsInv, EmptyItemIsAsked
<1> QED BY <1>1, <1>5, <1>7, <1>8, <1>9, <1>11, <1>13, <1>14 DEF InsightsInv, NothingReappears

LEMMA OpenRouteInv ==
  ASSUME InsightsInv, NEW r \in Route, OpenRoute(r)
  PROVE  InsightsInv' /\ NothingReappears
<1>1. FALSE \in BOOLEAN /\ route' = r /\ mode' = "mabel" /\ Loads(r, "mabel", memory, FALSE)
      /\ UNCHANGED <<history, known, snapshot, deletions, excused>>
  BY DEF OpenRoute
<1> QED BY <1>1, RouteLoadedInv

LEMMA InsightsStep ==
  ASSUME InsightsInv, [InsightsNext]_insightVars
  PROVE  InsightsInv' /\ NothingReappears
<1>1. InsightsTypeOK /\ route \in Route
  BY DEF InsightsInv, InsightsTypeOK, Route
<1>2. CASE \E s \in {"dashboard", "channels", "diary"} : OpenScreen(s)
  <2>1. PICK s \in {"dashboard", "channels", "diary"} : OpenRoute([route EXCEPT !.screen = s])
    BY <1>2 DEF OpenScreen
  <2>2. [route EXCEPT !.screen = s] \in Route
    BY <1>1 DEF Route, Screens
  <2> QED BY <2>1, <2>2, OpenRouteInv
<1>3. \A i \in Viewed : OpenItem(i) => InsightsInv' /\ NothingReappears
  <2> SUFFICES ASSUME NEW i \in Viewed, OpenItem(i)
               PROVE  InsightsInv' /\ NothingReappears
    OBVIOUS
  <2>1. [route EXCEPT !.screen = "item", !.item = i] \in Route
    BY <1>1 DEF Route, Screens
  <2> QED BY <2>1, OpenRouteInv DEF OpenItem
<1>4. CASE OpenTab
  <2>1. painted["item"].key[2] \in Viewed
    <3>1. painted["item"] # NoResource /\ "item" \in Screens
      BY <1>4 DEF OpenTab, Screens
    <3>2. painted["item"].key \in Keys /\ painted["item"].key[1] = "item"
      BY <3>1 DEF InsightsInv, PaintedBefore
    <3> QED BY <3>2, ItemKeys
  <2> QED BY <1>3, <1>4, <2>1 DEF OpenTab
<1>5. CASE \E i \in Viewed : OpenItem(i)
  BY <1>3, <1>5
<1>6. CASE \E a \in Span : ChooseRange(a)
  <2>1. PICK a \in Span : ChooseRange(a)
    BY <1>6
  <2>2. [route EXCEPT !.range = a] \in Route
    BY <1>1 DEF Route
  <2>3. /\ mode = "mabel" /\ mode' = "mabel" /\ route' = [route EXCEPT !.range = a]
        /\ Loads(route', mode, memory, TRUE) /\ UNCHANGED <<history, known, snapshot, deletions, excused>>
    BY <2>1 DEF ChooseRange, OnInsights
  <2> QED BY <2>2, <2>3, RouteLoadedInv
<1>7. CASE ToMyTv
  BY <1>7, ToMyTvInv
<1>8. CASE ToMabel
  <2>1. /\ mode' = "mabel" /\ Loads(route, "mabel", memory, FALSE) /\ route' = route
        /\ UNCHANGED <<history, known, snapshot, deletions, excused>>
    BY <1>8 DEF ToMabel
  <2> QED BY <1>1, <2>1, RouteLoadedInv
<1>9. CASE \E i \in Viewed : Delete(i)
  BY <1>9, DeletionAskedInv
<1>10. CASE \E q \in requests : PiReadsHistory(q)
  BY <1>10, HistoryReadInv
<1>11. CASE \E q \in requests : Arrives(q)
  BY <1>11, ArrivesInv
<1>12. CASE \E q \in requests : InsightFails(q)
  BY <1>12, InsightFailsInv
<1>13. CASE \E d \in deletions : PiDeletes(d)
  BY <1>13, PiDeletesInv
<1>14. CASE \E d \in deletions : DeleteAnswered(d)
  BY <1>14, DeleteAnsweredInv
<1>15. CASE \E d \in deletions : DeleteFails(d)
  BY <1>15, DeleteFailsInv
<1>16. CASE InsightsTold
  BY <1>16, ToldInv
<1>17. CASE Ages
  BY <1>17, AgesInv
<1>18. CASE UNCHANGED insightVars
  <2>1. UNCHANGED <<history, known, route, mode, memory, snapshot, requests, painted, deletions, excused>>
    BY <1>18 DEF insightVars
  <2>2. InsightsTypeOK' /\ HeldOnTheDevice' /\ PaintedBefore' /\ NothingReappears
    BY <2>1 DEF InsightsInv, InsightsTypeOK, HeldOnTheDevice, HoldsAll, Entries, PaintedBefore,
       NothingReappears
  <2>3. AnswersAreNewer'
    BY <2>1 DEF InsightsInv, AnswersAreNewer, Entries
  <2>4. Key(route)' = Key(route) /\ Missing' = Missing /\ \A x : BeingDeleted(x)' = BeingDeleted(x)
    BY <2>1 DEF Key, DashboardShows, BrowseShows, ItemShows, DiaryShows, Missing, BeingDeleted
  <2>5. ScopesAreSeparate' /\ NoticedGone' /\ EmptyItemIsAsked'
    BY <2>1, <2>4 DEF InsightsInv, ScopesAreSeparate, NoticedGone, EmptyItemIsAsked
  <2> QED BY <2>2, <2>3, <2>5 DEF InsightsInv
<1> QED BY <1>2, <1>4, <1>5, <1>6, <1>7, <1>8, <1>9, <1>10, <1>11, <1>12, <1>13, <1>14, <1>15, <1>16,
           <1>17, <1>18 DEF InsightsNext

LEMMA InsightsAlways == InsightsSpec => []InsightsInv
BY InsightsInitInv, InsightsStep, PTL DEF InsightsSpec

(* The routes, resources, requests and deletions keep their types.            *)
THEOREM InsightsTypeCorrect == InsightsSpec => []InsightsTypeOK
<1>1. InsightsInv => InsightsTypeOK
  BY DEF InsightsInv
<1> QED BY <1>1, InsightsAlways, PTL

LEMMA DeletedIsGoneAtRest ==
  ASSUME InsightsInv
  PROVE  DeletedIsGone
<1> SUFFICES ASSUME mode = "mabel", route.screen = "item", deletions = {}, requests = {},
                    NEW x \in painted["item"].data, x \notin history, x \notin excused
             PROVE  FALSE
  BY DEF DeletedIsGone
<1>1. InsightsTypeOK /\ route \in Route /\ "item" \in Screens
  BY DEF InsightsInv, InsightsTypeOK, Route, Screens
<1>2. x \in Missing /\ ~BeingDeleted(x)
  BY <1>1 DEF InsightsTypeOK, Resource, Missing, BeingDeleted
<1>3. Key(route) \in Keys /\ Key(route)[1] = "item" /\ memory[Key(route)] # NoResource
  BY <1>1, <1>2, RouteKeys, ItemKeys DEF InsightsInv, EmptyItemIsAsked
<1>4. /\ painted["item"].key = Key(route) /\ x \in memory[Key(route)].data
      /\ memory[Key(route)].data = snapshot[Key(route)].data
      /\ snapshot[Key(route)].data \subseteq About(Key(route))
  BY <1>3 DEF InsightsInv, ScopesAreSeparate, HeldOnTheDevice, HoldsAll
<1>5. Key(route) = <<"item", x>>
  BY <1>3, <1>4, ItemKeys DEF About
<1> QED BY <1>2, <1>4, <1>5 DEF InsightsInv, NoticedGone

(* Each screen shows its own resource, an entry that was deleted is gone from *)
(* an item that is open in peace, and none comes back on a screen that stays, *)
(* for any channels, films, ranges, answers and failures (viewing-insights).  *)
THEOREM InsightsStayTrue == InsightsSpec => InsightsAreTrue
<1>1. InsightsInv => ScopesAreSeparate /\ DeletedIsGone
  BY DeletedIsGoneAtRest DEF InsightsInv
<1>2. InsightsInv /\ [InsightsNext]_insightVars => [NothingReappears]_insightVars
  BY InsightsStep
<1> QED BY <1>1, <1>2, InsightsAlways, PTL DEF InsightsSpec, InsightsAreTrue

-----------------------------------------------------------------------------
(* The sheets of a film.  A change that no one disturbed is the one the shown *)
(* library still lacks, and a library that was read undisturbed is the Pi's.  *)
Copy == [favourite : BOOLEAN, place : {0, 1}, address : 0..2]

FilmRequest ==
  [what : {"favourite", "clear", "manage", "read", "reload"}, id : 0..1, of : Nat, to : 0..2,
   reply : {"none", "done", "refused"}, alone : BOOLEAN, address : 0..2, seen : Copy]

SheetsOfFilms ==
  [at : {"none", "film", "settings", "choice"}, of : 1..Latest,
   context : {"library", "favourite", "continue"}, resumable : BOOLEAN]

FilmTypeOK ==
  /\ kind \in {"my_tv", "channel", "show"}
  /\ film \in Copy
  /\ objects \in Seq(Copy) /\ Latest \in Nat \ {0}
  /\ filmSheet \in SheetsOfFilms
  /\ filmRequests \subseteq FilmRequest /\ IsFiniteSet(filmRequests)
  /\ \A r \in filmRequests : r.of \in 1..Latest
  /\ filmTaps \in Nat /\ filmUpsets \in Nat /\ adrift \in BOOLEAN

RequestsAreTold == \A p, q \in filmRequests : p.id = q.id => p = q

ReadingIsNotRefused == \A r \in filmRequests : r.reply = "refused" => r.what \notin Reading

(* As long as nothing that was done is still to be told.                      *)
NothingUntold == \A r \in filmRequests : r.reply # "done" /\ r.what # "reload"
ShelfIsTold == ~adrift /\ NothingUntold => objects[Latest] = film

(* What the Pi has once it did what was asked of a film.                      *)
DoneTo(f, r) ==
  CASE r.what = "favourite" -> [f EXCEPT !.favourite = r.to = 1]
    [] r.what = "clear" -> [f EXCEPT !.place = 0]
    [] OTHER -> film
LoneAnswerIsTrue ==
  \A r \in filmRequests : filmRequests = {r} /\ r.alone /\ r.reply = "done" =>
    /\ r.what \in Reading => r.seen = film
    /\ ~adrift => film = DoneTo(objects[Latest], r)

FilmInv == FilmTypeOK /\ RequestsAreTold /\ ReadingIsNotRefused /\ ShelfIsTold /\ LoneAnswerIsTrue

LEMMA NoSheetIsOne == Latest \in Nat \ {0} => NoSheet \in SheetsOfFilms
<1> HAVE Latest \in Nat \ {0}
<1>1. 1 \in 1..Latest
  OBVIOUS
<1> QED BY <1>1, Zenon DEF NoSheet, SheetsOfFilms

LEMMA FilmInitInv == FilmInit => FilmInv
<1> SUFFICES ASSUME FilmInit PROVE FilmInv
  OBVIOUS
<1>1. film \in Copy /\ objects = <<film>> /\ filmRequests = {} /\ adrift = FALSE
  BY DEF FilmInit, Copy
<1>2. objects \in Seq(Copy) /\ Latest = 1 /\ objects[Latest] = film
  BY <1>1 DEF Latest
<1>3. filmSheet \in SheetsOfFilms /\ IsFiniteSet(filmRequests)
  BY <1>1, <1>2, FS_EmptySet, NoSheetIsOne DEF FilmInit
<1>4. FilmTypeOK
  <2>1. kind \in {"my_tv", "channel", "show"} /\ filmTaps = 0 /\ filmUpsets = 0
    BY DEF FilmInit
  <2>2. Latest \in Nat \ {0} /\ filmTaps \in Nat /\ filmUpsets \in Nat
    BY <1>2, <2>1
  <2>3. adrift \in BOOLEAN
    BY <1>1, Zenon
  <2>4. filmRequests \subseteq FilmRequest /\ \A r \in filmRequests : r.of \in 1..Latest
    BY <1>1
  <2> QED BY <1>1, <1>2, <1>3, <2>1, <2>2, <2>3, <2>4, Zenon DEF FilmTypeOK
<1> QED
  BY <1>1, <1>2, <1>4 DEF FilmInv, RequestsAreTold, ReadingIsNotRefused, ShelfIsTold, LoneAnswerIsTrue

(* Steps of the owner that ask for nothing only change the sheet.             *)
LEMMA OnlyTheSheet ==
  ASSUME FilmInv, FilmTypeOK', UNCHANGED <<kind, film, objects, filmRequests, filmTaps, filmUpsets, adrift>>
  PROVE  FilmInv'
BY DEF FilmInv, RequestsAreTold, ReadingIsNotRefused, ShelfIsTold, LoneAnswerIsTrue, NothingUntold, DoneTo, Latest

LEMMA SheetTypes ==
  ASSUME FilmTypeOK, NEW of \in 1..Latest, NEW context \in {"library", "favourite", "continue"},
         AnySheet(of, context),
         UNCHANGED <<kind, film, objects, filmRequests, filmTaps, filmUpsets, adrift>>
  PROVE  FilmTypeOK'
<1>1. objects[of] \in Copy
  BY DEF FilmTypeOK, Latest
<1>2. InProgress(objects[of]) \in BOOLEAN
  BY <1>1 DEF InProgress, Copy
<1>3. filmSheet' \in SheetsOfFilms
  <2>1. PICK c \in {"library", context}, resumable \in BOOLEAN :
          filmSheet' = [at |-> "film", of |-> of, context |-> c, resumable |-> resumable]
    BY <1>2, Zenon DEF AnySheet, FilmSheet, ProgrammeSheet, ChannelSheet, OpenFilm
  <2> QED BY <2>1, Zenon DEF SheetsOfFilms
<1> QED BY <1>3 DEF FilmTypeOK, SheetsOfFilms, Latest

LEMMA AskInv ==
  ASSUME FilmInv, NEW what \in {"favourite", "clear", "manage", "read"}, NEW to \in 0..2,
         AskOfFilm(what, to),
         filmSheet' \in {filmSheet, NoSheet}
  PROVE  FilmInv'
<1> DEFINE i == CHOOSE i \in 0..1 : \A r \in filmRequests : r.id # i
           new == [what |-> what, id |-> i, of |-> filmSheet.of, to |-> to, reply |-> "none",
                   alone |-> filmRequests = {}, address |-> objects[filmSheet.of].address, seen |-> objects[1]]
<1>1. /\ filmRequests' = filmRequests \cup {new} /\ filmTaps' = filmTaps + 1
      /\ Cardinality(filmRequests) < 2
      /\ UNCHANGED <<kind, film, objects, filmUpsets, adrift>>
  BY DEF AskOfFilm
<1>2. FilmTypeOK
  BY DEF FilmInv
<1>3. i \in 0..1 /\ \A r \in filmRequests : r.id # i
  <2>1. SUFFICES \E j \in 0..1 : \A r \in filmRequests : r.id # j
    OBVIOUS
  <2>2. SUFFICES ASSUME NEW p \in filmRequests, p.id = 0, NEW q \in filmRequests, q.id = 1
                 PROVE  FALSE
    OBVIOUS
  <2>3. p # q /\ {p, q} \subseteq filmRequests /\ IsFiniteSet(filmRequests)
    BY <1>2, <2>2 DEF FilmTypeOK
  <2>4. Cardinality({p, q}) = 2
    <3>1. {p, q} = {q} \cup {p} /\ p \notin {q}
      BY <2>3
    <3>2. IsFiniteSet({q}) /\ Cardinality({q}) = 1
      BY FS_Singleton
    <3> QED BY <3>1, <3>2, FS_AddElement
  <2>5. Cardinality({p, q}) =< Cardinality(filmRequests)
    BY <2>3, FS_Subset
  <2> QED BY <1>1, <1>2, <2>3, <2>4, <2>5, FS_CardinalityType DEF FilmTypeOK
<1>4. new \in FilmRequest /\ new.of \in 1..Latest /\ new.reply = "none" /\ new.what # "reload" /\ new.id = i
  <2>1. filmSheet.of \in 1..Latest /\ 1 \in 1..Latest
    BY <1>2 DEF FilmTypeOK, SheetsOfFilms
  <2>2. objects[filmSheet.of] \in Copy /\ objects[1] \in Copy
    BY <1>2, <2>1 DEF FilmTypeOK, Latest
  <2> QED BY <1>3, <2>1, <2>2 DEF FilmRequest, Copy
<1> HIDE DEF new, i
<1>5. FilmTypeOK'
  <2>1. IsFiniteSet(filmRequests')
    BY <1>1, <1>2, FS_AddElement DEF FilmTypeOK
  <2>2. filmSheet' \in SheetsOfFilms
    BY <1>2, NoSheetIsOne DEF FilmTypeOK
  <2> QED BY <1>1, <1>2, <1>4, <2>1, <2>2 DEF FilmTypeOK, SheetsOfFilms, Latest
<1>6. RequestsAreTold' /\ ReadingIsNotRefused'
  BY <1>1, <1>3, <1>4 DEF FilmInv, RequestsAreTold, ReadingIsNotRefused
<1>7. ShelfIsTold'
  BY <1>1 DEF FilmInv, ShelfIsTold, NothingUntold, Latest
<1>8. LoneAnswerIsTrue'
  BY <1>1, <1>4 DEF LoneAnswerIsTrue
<1> QED BY <1>5, <1>6, <1>7, <1>8 DEF FilmInv

LEMMA OwnerOfFilmInv ==
  ASSUME FilmInv,
         \/ OpenFromHome \/ OpenFromMyTv \/ OpenFromChannels \/ OpenFilmSettings \/ OpenProgrammeSettings
         \/ LeaveFilmSheet \/ PlayFilm \/ OpenChoice
  PROVE  FilmInv'
<1>1. FilmTypeOK /\ Latest \in 1..Latest /\ filmSheet.of \in 1..Latest
      /\ filmSheet.context \in {"library", "favourite", "continue"}
  BY DEF FilmInv, FilmTypeOK, SheetsOfFilms
<1>2. UNCHANGED <<kind, film, objects, filmRequests, filmTaps, filmUpsets, adrift>>
  BY DEF OpenFromHome, OpenFromMyTv, OpenFromChannels, FromShelf, OpenFilmSettings, OpenProgrammeSettings,
         LeaveFilmSheet, PlayFilm, OpenChoice
<1>3. SUFFICES FilmTypeOK'
  BY <1>2, OnlyTheSheet
<1>4. CASE \E of \in 1..Latest, context \in {"library", "favourite", "continue"} : AnySheet(of, context)
  BY <1>1, <1>2, <1>4, SheetTypes
<1>5. CASE filmSheet' \in SheetsOfFilms
  BY <1>1, <1>2, <1>5 DEF FilmTypeOK, SheetsOfFilms, Latest
<1>6. CASE OpenFromHome \/ OpenFromMyTv \/ OpenFromChannels
  BY <1>1, <1>4, <1>6 DEF OpenFromHome, OpenFromMyTv, OpenFromChannels, FromShelf, AnySheet
<1>7. CASE OpenFilmSettings \/ OpenProgrammeSettings
  <2>1. objects[filmSheet.of] \in Copy
    BY <1>1 DEF FilmTypeOK, Latest
  <2>2. InProgress(objects[filmSheet.of]) \in BOOLEAN
    BY <2>1 DEF InProgress, Copy
  <2>3. filmSheet \in SheetsOfFilms
    BY <1>1 DEF FilmTypeOK
  <2>4. \/ filmSheet' = [filmSheet EXCEPT !.at = "settings", !.resumable = InProgress(objects[filmSheet.of])]
        \/ filmSheet' = [filmSheet EXCEPT !.at = "settings"]
    BY <1>7 DEF OpenFilmSettings, OpenProgrammeSettings
  <2> QED BY <1>5, <2>2, <2>3, <2>4, Zenon DEF SheetsOfFilms
<1>8. CASE LeaveFilmSheet
  BY <1>1, <1>4, <1>5, <1>8, NoSheetIsOne DEF LeaveFilmSheet, FilmTypeOK
<1>9. CASE PlayFilm
  BY <1>1, <1>5, <1>9, NoSheetIsOne DEF PlayFilm, FilmTypeOK
<1>10. CASE OpenChoice
  <2>1. filmSheet \in SheetsOfFilms /\ filmSheet' = [filmSheet EXCEPT !.at = "choice"]
    BY <1>1, <1>10 DEF FilmTypeOK, OpenChoice
  <2> QED BY <1>5, <2>1, Zenon DEF SheetsOfFilms
<1> QED BY <1>6, <1>7, <1>8, <1>9, <1>10

LEMMA AskingInv ==
  ASSUME FilmInv, \/ PressFavourite \/ PressClear \/ Reload \/ \E to \in {0, 2} : Manage(to)
  PROVE  FilmInv'
<1>1. CASE PressFavourite
  BY <1>1, AskInv DEF PressFavourite
<1>2. CASE PressClear
  BY <1>2, AskInv DEF PressClear
<1>3. CASE Reload
  BY <1>3, AskInv DEF Reload
<1>4. ASSUME NEW to \in {0, 2}, Manage(to) PROVE FilmInv'
  <2>1. CASE AskOfFilm("manage", to)
    BY <1>4, <2>1, AskInv DEF Manage
  <2>2. CASE UNCHANGED <<kind, film, objects, filmRequests, filmTaps, filmUpsets, adrift>>
    <3>1. filmSheet' \in SheetsOfFilms
      BY <1>4, NoSheetIsOne DEF Manage, FilmInv, FilmTypeOK
    <3>2. FilmTypeOK'
      BY <2>2, <3>1 DEF FilmInv, FilmTypeOK, SheetsOfFilms, Latest
    <3> QED BY <2>2, <3>2, OnlyTheSheet
  <2> QED BY <1>4, <2>1, <2>2 DEF Manage
<1> QED BY <1>1, <1>2, <1>3, <1>4

(* A request that is over leaves the others, which were not alone.            *)
LEMMA GoneRequests ==
  ASSUME FilmInv, NEW r, RequestGone(r)
  PROVE  /\ filmRequests' \subseteq FilmRequest /\ IsFiniteSet(filmRequests')
         /\ \A q \in filmRequests' :
              /\ q.alone = FALSE
              /\ \E p \in filmRequests \ {r} : /\ q.of = p.of /\ q.id = p.id /\ q.what = p.what
                                              /\ q.reply = p.reply
         /\ \A p \in filmRequests \ {r} :
              \E q \in filmRequests' : q.what = p.what /\ q.reply = p.reply
         /\ RequestsAreTold' /\ ReadingIsNotRefused' /\ LoneAnswerIsTrue'
<1> DEFINE Disturbed(q) == [q EXCEPT !.alone = FALSE]
<1>1. filmRequests' = {Disturbed(q) : q \in filmRequests \ {r}}
  BY DEF RequestGone
<1>2. \A q \in FilmRequest :
        /\ Disturbed(q) \in FilmRequest /\ Disturbed(q).alone = FALSE /\ Disturbed(q).of = q.of
        /\ Disturbed(q).id = q.id /\ Disturbed(q).what = q.what /\ Disturbed(q).reply = q.reply
  BY Zenon DEF FilmRequest
<1>3. filmRequests \subseteq FilmRequest /\ IsFiniteSet(filmRequests)
  BY DEF FilmInv, FilmTypeOK
<1>4. IsFiniteSet(filmRequests')
  <2>1. IsFiniteSet(filmRequests \ {r})
    BY <1>3, FS_Subset
  <2> DEFINE f == [q \in filmRequests \ {r} |-> Disturbed(q)]
  <2> HIDE DEF Disturbed
  <2>2. f \in Surjection(filmRequests \ {r}, filmRequests')
    BY <1>1 DEF Surjection
  <2> HIDE DEF f
  <2> QED BY <2>1, <2>2, FS_Surjection
<1> HIDE DEF Disturbed
<1>5. RequestsAreTold'
  BY <1>1, <1>2, <1>3 DEF FilmInv, RequestsAreTold
<1>6. ReadingIsNotRefused'
  BY <1>1, <1>2, <1>3 DEF FilmInv, ReadingIsNotRefused
<1>7. LoneAnswerIsTrue'
  BY <1>1, <1>2, <1>3 DEF LoneAnswerIsTrue
<1>8. filmRequests' \subseteq FilmRequest
  BY <1>1, <1>2, <1>3
<1>9. \A q \in filmRequests' :
        /\ q.alone = FALSE
        /\ \E p \in filmRequests \ {r} : q.of = p.of /\ q.id = p.id /\ q.what = p.what /\ q.reply = p.reply
  BY <1>1, <1>2, <1>3
<1>10. \A p \in filmRequests \ {r} : \E q \in filmRequests' : q.what = p.what /\ q.reply = p.reply
  BY <1>1, <1>2, <1>3
<1> QED BY <1>4, <1>5, <1>6, <1>7, <1>8, <1>9, <1>10

LEMMA GoneTypes ==
  ASSUME FilmInv, NEW r, RequestGone(r), UNCHANGED <<kind, film, filmTaps>>, filmUpsets' \in Nat,
         adrift' \in BOOLEAN, objects' \in Seq(Copy), Latest' \in Nat, Latest =< Latest',
         filmSheet' \in {filmSheet, NoSheet}
  PROVE  FilmTypeOK'
<1>1. FilmTypeOK /\ Latest \in Nat \ {0}
  BY DEF FilmInv, FilmTypeOK
<1>2. Latest' \in Nat \ {0} /\ \A i \in 1..Latest : i \in 1..Latest'
  BY <1>1
<1>3. filmSheet' \in SheetsOfFilms'
  <2>1. filmSheet' \in SheetsOfFilms
    BY <1>1, NoSheetIsOne DEF FilmTypeOK
  <2> QED BY <1>2, <2>1, Zenon DEF SheetsOfFilms
<1>4. \A q \in filmRequests' : q.of \in 1..Latest'
  BY <1>1, <1>2, GoneRequests DEF FilmTypeOK
<1>5. filmRequests' \subseteq FilmRequest /\ IsFiniteSet(filmRequests')
  BY GoneRequests
<1> QED BY <1>1, <1>2, <1>3, <1>4, <1>5 DEF FilmTypeOK

LEMMA PiAnswersFilmInv ==
  ASSUME FilmInv, NEW r \in filmRequests, PiAnswersFilm(r)
  PROVE  FilmInv'
<1> DEFINE there == r.what \in Reading \/ (r.address = film.address /\ film.address # 0)
           told == [r EXCEPT !.reply = IF there THEN "done" ELSE "refused",
                             !.seen = IF r.what \in Reading THEN film ELSE @]
<1>1. /\ r.reply = "none" /\ filmRequests' = (filmRequests \ {r}) \cup {told}
      /\ UNCHANGED <<kind, objects, filmSheet, filmTaps, filmUpsets, adrift>>
  BY DEF PiAnswersFilm
<1>2. film' = IF ~there THEN film
              ELSE CASE r.what = "favourite" -> [film EXCEPT !.favourite = r.to = 1]
                     [] r.what = "clear" -> [film EXCEPT !.place = 0]
                     [] r.what = "manage" -> [film EXCEPT !.address = r.to]
                     [] OTHER -> film
  BY DEF PiAnswersFilm
<1>3. FilmTypeOK /\ r \in FilmRequest /\ film \in Copy
  BY DEF FilmInv, FilmTypeOK
<1>4. /\ told \in FilmRequest /\ told.id = r.id /\ told.of = r.of /\ told.what = r.what
      /\ told.reply = (IF there THEN "done" ELSE "refused")
      /\ r.what \in Reading => told.seen = film
      /\ told.alone = r.alone /\ told.to = r.to
  <2> HIDE DEF there
  <2> QED BY <1>3 DEF FilmRequest
<1>5. film' \in Copy
  <2>1. CASE ~there
    BY <1>2, <1>3, <2>1
  <2>2. CASE r.what = "favourite"
    <3>1. film' \in {film, [film EXCEPT !.favourite = r.to = 1]}
      BY <1>2, <2>2
    <3> QED BY <1>3, <3>1, Zenon DEF Copy
  <2>3. CASE there /\ r.what # "favourite"
    <3> HIDE DEF there
    <3> QED BY <1>2, <1>3, <2>3 DEF Copy, FilmRequest
  <2> QED BY <2>1, <2>2, <2>3
<1>6. r.what \in Reading => film' = film
  BY <1>2 DEF Reading
<1> HIDE DEF told
<1>7. FilmTypeOK'
  <2>1. IsFiniteSet(filmRequests')
    BY <1>1, <1>3, FS_Subset, FS_AddElement DEF FilmTypeOK
  <2> QED BY <1>1, <1>3, <1>4, <1>5, <2>1 DEF FilmTypeOK, SheetsOfFilms, Latest
<1>8. RequestsAreTold'
  BY <1>1, <1>4 DEF FilmInv, RequestsAreTold
<1>9. ReadingIsNotRefused'
  BY <1>1, <1>4 DEF FilmInv, ReadingIsNotRefused
<1>10. ASSUME ~adrift, \A p \in filmRequests \ {r} : p.reply # "done" /\ p.what # "reload", r.what # "reload"
       PROVE  objects[Latest] = film
  BY <1>1, <1>10 DEF FilmInv, ShelfIsTold, NothingUntold
<1>11. ShelfIsTold'
  <2> SUFFICES ASSUME ~adrift', NothingUntold' PROVE objects'[Latest'] = film'
    BY DEF ShelfIsTold
  <2>1. told \in filmRequests'
    BY <1>1
  <2>2. ~there /\ r.what # "reload"
    BY <1>4, <2>1 DEF NothingUntold
  <2>3. film' = film
    BY <1>2, <2>2
  <2>4. objects[Latest] = film
    BY <1>1, <1>10, <2>2 DEF NothingUntold
  <2> QED BY <1>1, <2>3, <2>4 DEF Latest
<1>12. LoneAnswerIsTrue'
  <2> SUFFICES ASSUME NEW q \in filmRequests', filmRequests' = {q}, q.alone, q.reply = "done"
               PROVE  /\ q.what \in Reading => q.seen = film'
                      /\ ~adrift' => film' = DoneTo(objects[Latest], q)'
    BY DEF LoneAnswerIsTrue, Latest
  <2>1. q = told /\ filmRequests \ {r} = {}
    <3>1. told = q /\ \A p \in filmRequests \ {r} : p = q
      BY <1>1
    <3>2. \A p \in filmRequests : p.id = r.id => p = r
      BY DEF FilmInv, RequestsAreTold
    <3> QED BY <1>4, <3>1, <3>2
  <2>2. there
    BY <1>4, <2>1
  <2>3. q.what \in Reading => q.seen = film'
    BY <1>4, <1>6, <2>1
  <2>4. ASSUME ~adrift PROVE film' = DoneTo(objects[Latest], q)'
    <3>1. CASE q.what \in {"favourite", "clear"}
      <4>1. objects[Latest] = film /\ objects'[Latest'] = film
        BY <1>1, <1>4, <1>10, <2>1, <2>4, <3>1 DEF Latest
      <4>2. CASE q.what = "favourite"
        <5>1. film' = [film EXCEPT !.favourite = r.to = 1]
          BY <1>2, <1>4, <2>1, <2>2, <4>2
        <5> QED BY <1>4, <2>1, <4>1, <4>2, <5>1, Zenon DEF DoneTo
      <4>3. CASE q.what = "clear"
        <5>1. film' = [film EXCEPT !.place = 0]
          BY <1>2, <1>4, <2>1, <2>2, <4>3
        <5> QED BY <1>4, <2>1, <4>1, <4>3, <5>1 DEF DoneTo
      <4> QED BY <3>1, <4>2, <4>3
    <3>2. CASE q.what \notin {"favourite", "clear"}
      BY <3>2 DEF DoneTo
    <3> QED BY <3>1, <3>2
  <2> QED BY <1>1, <2>3, <2>4
<1> QED BY <1>7, <1>8, <1>9, <1>11, <1>12 DEF FilmInv

(* Something else was under way, or the answer is about the shown library.    *)
LEMMA AnswerIsPlaced ==
  ASSUME FilmInv, NEW r \in filmRequests, r.reply = "done", NEW placed \in BOOLEAN, Misplaced(r, placed), ~adrift'
  PROVE  /\ placed /\ ~adrift /\ filmRequests = {r}
         /\ r.what \in {"favourite", "clear"} => film = DoneTo(objects[Latest], r)
<1>1. placed /\ ~adrift /\ filmRequests = {r} /\ r.alone
  BY DEF Misplaced
<1> QED BY <1>1 DEF FilmInv, LoneAnswerIsTrue

LEMMA FavouriteAnswerInv ==
  ASSUME FilmInv, NEW r \in filmRequests, FavouriteAnswer(r)
  PROVE  FilmInv'
<1>1. /\ r.what = "favourite" /\ r.reply = "done" /\ RequestGone(r) /\ Misplaced(r, r.of = Latest)
      /\ objects' = [objects EXCEPT ![r.of].favourite = r.to = 1]
      /\ UNCHANGED <<kind, film, filmSheet, filmTaps, filmUpsets>>
  BY DEF FavouriteAnswer
<1>2. FilmTypeOK /\ r.of \in 1..Latest
  BY DEF FilmInv, FilmTypeOK
<1> DEFINE changed == [objects[r.of] EXCEPT !.favourite = r.to = 1]
<1>3. objects[r.of] \in Copy
  BY <1>2 DEF FilmTypeOK, Latest
<1>4. changed \in Copy
  BY <1>3, Zenon DEF Copy
<1>5. objects' = [objects EXCEPT ![r.of] = changed]
  BY <1>1
<1> HIDE DEF changed
<1>6. objects' \in Seq(Copy) /\ Latest' = Latest /\ objects'[r.of] = changed
  BY <1>2, <1>4, <1>5 DEF FilmTypeOK, Latest
<1>7. adrift' \in BOOLEAN
  BY <1>1 DEF Misplaced
<1>8. FilmTypeOK'
  BY <1>1, <1>2, <1>6, <1>7, GoneTypes DEF FilmTypeOK
<1>9. ShelfIsTold'
  <2> SUFFICES ASSUME ~adrift' PROVE objects'[Latest'] = film'
    BY DEF ShelfIsTold
  <2>1. r.of = Latest /\ film = DoneTo(objects[Latest], r)
    BY <1>1, AnswerIsPlaced
  <2>2. film = changed
    BY <1>1, <2>1, Zenon DEF DoneTo, changed
  <2> QED BY <1>1, <1>6, <2>1, <2>2
<1> QED BY <1>1, <1>8, <1>9, GoneRequests DEF FilmInv

LEMMA ClearAnswerInv ==
  ASSUME FilmInv, NEW r \in filmRequests, ClearAnswer(r)
  PROVE  FilmInv'
<1> DEFINE placed == IF kind = "my_tv" THEN objects[Latest].address = r.address ELSE r.of = Latest
<1>1. /\ r.what = "clear" /\ r.reply = "done" /\ RequestGone(r) /\ Misplaced(r, placed)
      /\ objects' = [i \in 1..Latest |-> IF i \in Cleared(r) THEN [objects[i] EXCEPT !.place = 0] ELSE objects[i]]
      /\ filmSheet' \in {filmSheet, NoSheet}
      /\ UNCHANGED <<kind, film, filmTaps, filmUpsets>>
  BY DEF ClearAnswer
<1>2. FilmTypeOK /\ r.of \in 1..Latest /\ Latest \in Nat \ {0}
  BY DEF FilmInv, FilmTypeOK
<1>3. \A i \in 1..Latest : objects[i] \in Copy /\ [objects[i] EXCEPT !.place = 0] \in Copy
  <2>1. \A f \in Copy : [f EXCEPT !.place = 0] \in Copy
    BY DEF Copy
  <2> QED BY <1>2, <2>1 DEF FilmTypeOK, Latest
<1>4. objects' \in Seq(Copy) /\ Latest' = Latest
  BY <1>1, <1>2, <1>3 DEF Latest
<1>5. adrift' \in BOOLEAN
  BY <1>1 DEF Misplaced
<1>6. FilmTypeOK'
  BY <1>1, <1>2, <1>4, <1>5, GoneTypes DEF FilmTypeOK
<1>7. ShelfIsTold'
  <2> SUFFICES ASSUME ~adrift' PROVE objects'[Latest'] = film'
    BY DEF ShelfIsTold
  <2>1. placed \in BOOLEAN
    OBVIOUS
  <2>2. placed /\ film = DoneTo(objects[Latest], r)
    BY <1>1, <2>1, AnswerIsPlaced
  <2>3. Latest \in Cleared(r)
    BY <2>2 DEF Cleared
  <2>4. film = [objects[Latest] EXCEPT !.place = 0]
    BY <1>1, <2>2 DEF DoneTo
  <2> QED BY <1>1, <1>2, <1>4, <2>3, <2>4
<1> QED BY <1>1, <1>6, <1>7, GoneRequests DEF FilmInv

LEMMA ManageAnswerInv ==
  ASSUME FilmInv, NEW r \in filmRequests, ManageAnswer(r)
  PROVE  FilmInv'
<1> DEFINE reload == [r EXCEPT !.what = "reload", !.reply = "none"]
<1>1. /\ filmRequests' = (filmRequests \ {r}) \cup {reload}
      /\ UNCHANGED <<kind, film, objects, filmSheet, filmTaps, filmUpsets, adrift>>
  BY DEF ManageAnswer
<1>2. FilmTypeOK /\ r \in FilmRequest
  BY DEF FilmInv, FilmTypeOK
<1>3. reload \in FilmRequest /\ reload.what = "reload" /\ reload.reply = "none" /\ reload.id = r.id /\ reload.of = r.of
  BY <1>2 DEF FilmRequest
<1> HIDE DEF reload
<1>4. IsFiniteSet(filmRequests')
  BY <1>1, <1>2, FS_Subset, FS_AddElement DEF FilmTypeOK
<1>5. FilmTypeOK'
  BY <1>1, <1>2, <1>3, <1>4 DEF FilmTypeOK, SheetsOfFilms, Latest
<1>6. RequestsAreTold' /\ ReadingIsNotRefused'
  BY <1>1, <1>3 DEF FilmInv, RequestsAreTold, ReadingIsNotRefused
<1>7. ShelfIsTold' /\ LoneAnswerIsTrue'
  BY <1>1, <1>3 DEF ShelfIsTold, NothingUntold, LoneAnswerIsTrue
<1> QED BY <1>5, <1>6, <1>7 DEF FilmInv

LEMMA FilmReadAnswerInv ==
  ASSUME FilmInv, NEW r \in filmRequests, FilmReadAnswer(r)
  PROVE  FilmInv'
<1>1. /\ r.what \in Reading /\ r.reply = "done" /\ RequestGone(r) /\ objects' = Append(objects, r.seen)
      /\ adrift' = (filmRequests # {r} \/ ~r.alone)
      /\ UNCHANGED <<kind, film, filmSheet, filmTaps, filmUpsets>>
  BY DEF FilmReadAnswer
<1>2. FilmTypeOK /\ r.seen \in Copy /\ objects \in Seq(Copy)
  BY DEF FilmInv, FilmTypeOK, FilmRequest
<1>3. objects' \in Seq(Copy) /\ Latest' = Latest + 1 /\ objects'[Latest'] = r.seen
  BY <1>1, <1>2 DEF Latest
<1>4. adrift' \in BOOLEAN
  BY <1>1
<1>5. FilmTypeOK'
  <2>1. Latest \in Nat /\ Latest' \in Nat /\ Latest =< Latest'
    BY <1>2, <1>3 DEF FilmTypeOK
  <2> QED BY <1>1, <1>2, <1>3, <1>4, <2>1, GoneTypes DEF FilmTypeOK
<1>6. ShelfIsTold'
  <2> SUFFICES ASSUME ~adrift' PROVE r.seen = film
    BY <1>1, <1>3 DEF ShelfIsTold
  <2>1. filmRequests = {r} /\ r.alone
    BY <1>1
  <2> QED BY <1>1, <2>1 DEF FilmInv, LoneAnswerIsTrue
<1> QED BY <1>1, <1>5, <1>6, GoneRequests DEF FilmInv

LEMMA FilmFailsInv ==
  ASSUME FilmInv, NEW r \in filmRequests, FilmFails(r)
  PROVE  FilmInv'
<1>1. RequestGone(r) /\ UNCHANGED <<kind, film, objects, filmSheet, filmTaps>>
  BY DEF FilmFails
<1>2. FilmTypeOK /\ filmUpsets' \in Nat /\ adrift' \in BOOLEAN
  <2>1. FilmTypeOK /\ filmUpsets \in Nat /\ adrift \in BOOLEAN
    BY DEF FilmInv, FilmTypeOK
  <2>2. \/ filmUpsets' = filmUpsets /\ adrift' = adrift
        \/ filmUpsets' = filmUpsets + 1 /\ adrift' = TRUE
    BY DEF FilmFails
  <2>3. filmUpsets' \in Nat
    BY <2>1, <2>2
  <2>4. adrift' \in BOOLEAN
    BY <2>1, <2>2, Zenon
  <2> QED BY <2>1, <2>3, <2>4
<1>3. FilmTypeOK'
  <2>1. objects' \in Seq(Copy) /\ Latest' = Latest /\ Latest \in Nat
    BY <1>1, <1>2 DEF FilmTypeOK, Latest
  <2> QED BY <1>1, <1>2, <2>1, GoneTypes
<1>4. ShelfIsTold'
  <2> SUFFICES ASSUME ~adrift', NothingUntold' PROVE objects[Latest] = film
    BY <1>1 DEF ShelfIsTold, Latest
  <2>1. r.reply = "refused" /\ ~adrift
    BY DEF FilmFails
  <2>2. r.what # "reload"
    BY <2>1 DEF FilmInv, ReadingIsNotRefused, Reading
  <2>3. \A p \in filmRequests \ {r} : p.reply # "done" /\ p.what # "reload"
    <3> SUFFICES ASSUME NEW p \in filmRequests \ {r} PROVE p.reply # "done" /\ p.what # "reload"
      OBVIOUS
    <3>1. PICK q \in filmRequests' : q.what = p.what /\ q.reply = p.reply
      BY <1>1, GoneRequests
    <3> QED BY <3>1 DEF NothingUntold
  <2> QED BY <2>1, <2>2, <2>3 DEF FilmInv, ShelfIsTold, NothingUntold
<1> QED BY <1>1, <1>3, <1>4, GoneRequests DEF FilmInv

LEMMA WatchedInv ==
  ASSUME FilmInv, NEW place \in {0, 1}, Watched(place)
  PROVE  FilmInv'
<1> DEFINE nobody == CHOOSE x : x \notin filmRequests
<1>1. /\ film' = [film EXCEPT !.place = place] /\ filmUpsets' = filmUpsets + 1 /\ adrift' = TRUE
      /\ filmRequests' = {[q EXCEPT !.alone = FALSE] : q \in filmRequests}
      /\ UNCHANGED <<kind, objects, filmSheet, filmTaps>>
  BY DEF Watched
<1>2. nobody \notin filmRequests
  BY NoSetContainsEverything
<1> HIDE DEF nobody
<1>3. filmRequests \ {nobody} = filmRequests
  BY <1>2
<1>4. RequestGone(nobody)
  BY <1>1, <1>3 DEF RequestGone
<1>5. FilmTypeOK /\ film' \in Copy
  BY <1>1 DEF FilmInv, FilmTypeOK, Copy
<1>6. \A q \in filmRequests' : q \in FilmRequest /\ q.of \in 1..Latest
  BY <1>4, <1>5, GoneRequests DEF FilmTypeOK
<1>7. IsFiniteSet(filmRequests') /\ RequestsAreTold' /\ ReadingIsNotRefused' /\ LoneAnswerIsTrue'
  BY <1>4, GoneRequests
<1>8. FilmTypeOK'
  BY <1>1, <1>5, <1>6, <1>7 DEF FilmTypeOK, SheetsOfFilms, Latest
<1>9. ShelfIsTold'
  BY <1>1 DEF ShelfIsTold
<1> QED BY <1>7, <1>8, <1>9 DEF FilmInv

LEMMA FilmStep == FilmInv /\ [FilmNext]_filmVars => FilmInv'
<1> SUFFICES ASSUME FilmInv, [FilmNext]_filmVars PROVE FilmInv'
  OBVIOUS
<1>1. CASE \/ OpenFromHome \/ OpenFromMyTv \/ OpenFromChannels \/ OpenFilmSettings \/ OpenProgrammeSettings
           \/ LeaveFilmSheet \/ PlayFilm \/ OpenChoice
  BY <1>1, OwnerOfFilmInv
<1>2. CASE PressFavourite \/ PressClear \/ Reload \/ \E to \in {0, 2} : Manage(to)
  BY <1>2, AskingInv
<1>3. ASSUME NEW r \in filmRequests, PiAnswersFilm(r) PROVE FilmInv'
  BY <1>3, PiAnswersFilmInv
<1>4. ASSUME NEW r \in filmRequests, FavouriteAnswer(r) PROVE FilmInv'
  BY <1>4, FavouriteAnswerInv
<1>5. ASSUME NEW r \in filmRequests, ClearAnswer(r) PROVE FilmInv'
  BY <1>5, ClearAnswerInv
<1>6. ASSUME NEW r \in filmRequests, ManageAnswer(r) PROVE FilmInv'
  BY <1>6, ManageAnswerInv
<1>7. ASSUME NEW r \in filmRequests, FilmReadAnswer(r) PROVE FilmInv'
  BY <1>7, FilmReadAnswerInv
<1>8. ASSUME NEW r \in filmRequests, FilmFails(r) PROVE FilmInv'
  BY <1>8, FilmFailsInv
<1>9. ASSUME NEW place \in {0, 1}, Watched(place) PROVE FilmInv'
  BY <1>9, WatchedInv
<1>10. CASE UNCHANGED filmVars
  <2>1. FilmTypeOK'
    BY <1>10 DEF filmVars, FilmInv, FilmTypeOK, SheetsOfFilms, Latest
  <2> QED BY <1>10, <2>1, OnlyTheSheet DEF filmVars
<1> QED BY <1>1, <1>2, <1>3, <1>4, <1>5, <1>6, <1>7, <1>8, <1>9, <1>10 DEF FilmNext

LEMMA FilmInvariant == FilmSpec => []FilmInv
<1>1. FilmInit => FilmInv
  BY FilmInitInv
<1>2. FilmInv /\ [FilmNext]_filmVars => FilmInv'
  BY FilmStep
<1> QED BY <1>1, <1>2, PTL DEF FilmSpec

(* The places, films and requests stay what they are.                         *)
THEOREM FilmTypeCorrect == FilmSpec => []FilmTypeOK
<1>1. FilmInv => FilmTypeOK
  BY DEF FilmInv
<1> QED BY <1>1, FilmInvariant, PTL

LEMMA FilmInvImpliesShelf == FilmInv => ShelfIsTrue
BY DEF FilmInv, ShelfIsTold, NothingUntold, ShelfIsTrue

-----------------------------------------------------------------------------
(* The sheets of a series.                                                    *)
Place == Season \cup {Whole}

(* A dialog of a season, of a place of the series, or of the upload's target. *)
Fits(d) ==
  /\ d.sheet = "season" => d.season \in Season
  /\ d.sheet \in {"settings", "restart"} => d.season \in Place
Dialogs ==
  {d \in [sheet : SeriesSheet, season : Place \cup {NoSeason}, back : Seq(Place), over : SUBSET SeriesSheet] : Fits(d)}
Target == [season : Season, back : Seq(Place) \ {<<>>}]
Ways == {<<>>} \cup {<<b>> : b \in Seq(Place)}
MarkRequest ==
  {r \in [what : {"mark", "restart"}, season : Place, to : BOOLEAN, at : {"sent", "answered", "marked", "reads", "read"},
          from : {"season", "card", "restart"}, back : Seq(Place)] : IF r.what = "mark" THEN r.season \in Season ELSE ~r.to}

PlacesTypeOK ==
  /\ open \subseteq Dialogs /\ closing \subseteq SeriesSheet
  /\ chosen \in [{"series", "season"} -> Ways]
  /\ restart \in Place \cup {NoSeason}
  /\ target \in Target \cup {NoTarget} /\ picker \in BOOLEAN /\ crossedSheets \in BOOLEAN

UploadsTypeOK ==
  /\ files \subseteq VideoFile
  /\ transfer \in [target : Target \cup {NoTarget}, files : SUBSET VideoFile]
  /\ transfer # NoTransfer => transfer.target \in Target
  /\ chosenFor \in [VideoFile -> SUBSET Season]
  /\ sent \subseteq VideoFile \X Season /\ mixed \subseteq VideoFile

MarksTypeOK ==
  /\ watched \subseteq Season /\ marksShown \subseteq Season
  /\ seriesAsked \subseteq MarkRequest /\ overlapped \in BOOLEAN

SeriesTypeOK == PlacesTypeOK /\ UploadsTypeOK /\ MarksTypeOK

(* One sheet at a time, as long as no answer has opened one over another.     *)
OneSheet == crossedSheets \/ \A d, e \in open : d = e

SheetsInPlace ==
  /\ OneSheet
  /\ "upload" \in closing => ~IsOpen("upload")
  /\ IsOpen("source") => picker
  /\ TargetIsThere

(* What is selected, and what is under way, was chosen for where it goes.     *)
Belongs(f, season) == season \in chosenFor[f] \/ f \in mixed
FilesBelong ==
  /\ target # NoTarget => \A f \in files : Belongs(f, target.season)
  /\ transfer # NoTransfer => \A f \in transfer.files : Belongs(f, transfer.target.season)
  /\ SentAsChosen

(* What the page lacks is what its one request has changed.                   *)
Lacks(r) ==
  CASE r.at \in {"sent", "marked", "read"} -> marksShown = watched
    [] r.what = "mark" /\ r.at = "answered" ->
         watched = IF r.to THEN marksShown \cup {r.season} ELSE marksShown \ {r.season}
    [] OTHER -> TRUE
MarksCatchUp ==
  overlapped \/ \/ seriesAsked = {} /\ marksShown = watched
                \/ \E r \in seriesAsked : seriesAsked = {r} /\ Lacks(r) /\ (r.what = "mark" => r.at \in {"sent", "answered", "marked"})

SeriesInv == SeriesTypeOK /\ SheetsInPlace /\ FilesBelong /\ MarksCatchUp

LEMMA SeriesInitInv == SeriesInit => SeriesInv
<1> SUFFICES ASSUME SeriesInit PROVE SeriesInv
  OBVIOUS
<1>1. PICK s \in Season : open = {Dialog("settings", s, <<s, Whole>>)}
  BY DEF SeriesInit
<1>2. Dialog("settings", s, <<s, Whole>>) \in Dialogs
  <2>1. <<s, Whole>> \in Seq(Place)
    BY DEF Place
  <2> QED BY <2>1 DEF Dialog, Dialogs, Fits, Place, SeriesSheet
<1>3. \A d \in open : d.sheet = "settings"
  BY <1>1 DEF Dialog
<1>4. chosen \in [{"series", "season"} -> Ways]
  BY DEF SeriesInit, Ways
<1>5. PlacesTypeOK
  BY <1>1, <1>2, <1>4 DEF SeriesInit, PlacesTypeOK
<1>6. UploadsTypeOK
  BY DEF SeriesInit, UploadsTypeOK, NoTransfer
<1>7. MarksTypeOK /\ MarksCatchUp
  BY DEF SeriesInit, MarksTypeOK, MarksCatchUp
<1>8. SheetsInPlace
  <2>1. ~IsOpen("upload") /\ ~IsOpen("source") /\ ~IsOpen("restart")
    BY <1>3 DEF IsOpen
  <2> QED BY <1>1, <2>1 DEF SheetsInPlace, OneSheet, TargetIsThere
<1>9. FilesBelong
  BY DEF SeriesInit, FilesBelong, SentAsChosen
<1> QED BY <1>5, <1>6, <1>7, <1>8, <1>9 DEF SeriesInv, SeriesTypeOK

-----------------------------------------------------------------------------
(* Dialogs that open and close.                                               *)
LEMMA WaysLead == \A w \in Ways : w # <<>> => Head(w) \in Seq(Place)
BY DEF Ways

LEMMA DialogTypes ==
  ASSUME NEW sheet \in SeriesSheet, NEW season \in Place \cup {NoSeason}, NEW back \in Seq(Place),
         Fits(Dialog(sheet, season, back))
  PROVE  Dialog(sheet, season, back) \in Dialogs
BY DEF Dialogs, Dialog

LEMMA DialogAtTypes ==
  ASSUME NEW back \in Seq(Place), back # <<>>
  PROVE  DialogAt(back) \in Dialogs /\ DialogAt(back).sheet \in {"series", "season"}
<1>1. Head(back) \in Place /\ Tail(back) \in Seq(Place)
  OBVIOUS
<1>2. DialogAt(back) = Dialog(IF Head(back) = Whole THEN "series" ELSE "season", Head(back), Tail(back))
  BY DEF DialogAt
<1>3. Fits(DialogAt(back)) /\ DialogAt(back).sheet \in {"series", "season"}
  BY <1>1, <1>2 DEF Fits, Dialog, Place
<1> QED BY <1>1, <1>2, <1>3, DialogTypes DEF SeriesSheet

LEMMA OverTypes ==
  ASSUME NEW d \in Dialogs, NEW over \in SUBSET SeriesSheet
  PROVE  [d EXCEPT !.over = over] \in Dialogs /\ [d EXCEPT !.over = over].sheet = d.sheet
BY DEF Dialogs, Fits

LEMMA WithoutTypes ==
  ASSUME NEW dialogs \in SUBSET Dialogs, NEW gone
  PROVE  /\ Without(dialogs, gone) \subseteq Dialogs
         /\ \A s : (\E d \in Without(dialogs, gone) : d.sheet = s)
                   <=> s \notin gone /\ \E d \in dialogs : d.sheet = s
         /\ (\A d, e \in dialogs : d = e) => \A d, e \in Without(dialogs, gone) : d = e
<1>1. Without(dialogs, gone) = {[d EXCEPT !.over = @ \ gone] : d \in {e \in dialogs : e.sheet \notin gone}}
  BY DEF Without
<1>2. \A d \in dialogs : /\ [d EXCEPT !.over = @ \ gone] \in Dialogs
                         /\ [d EXCEPT !.over = @ \ gone].sheet = d.sheet
  <2> TAKE d \in dialogs
  <2>1. d.over \ gone \in SUBSET SeriesSheet
    BY DEF Dialogs
  <2> QED BY <2>1, OverTypes
<1> QED BY <1>1, <1>2

LEMMA WithTypes ==
  ASSUME NEW dialogs \in SUBSET Dialogs, NEW d \in Dialogs
  PROVE  /\ With(dialogs, d) \subseteq Dialogs
         /\ \A s : (\E e \in With(dialogs, d) : e.sheet = s) <=> s = d.sheet \/ \E e \in dialogs : e.sheet = s
         /\ dialogs = {} => \A e, f \in With(dialogs, d) : e = f
<1>1. CASE \E e \in dialogs : e.sheet = d.sheet
  <2>1. With(dialogs, d) = {IF e.sheet = d.sheet THEN [d EXCEPT !.over = e.over] ELSE e : e \in dialogs}
    BY <1>1 DEF With
  <2>2. \A e \in dialogs : [d EXCEPT !.over = e.over] \in Dialogs /\ [d EXCEPT !.over = e.over].sheet = d.sheet
    <3> TAKE e \in dialogs
    <3>1. e.over \in SUBSET SeriesSheet
      BY DEF Dialogs
    <3> QED BY <3>1, OverTypes
  <2> QED BY <1>1, <2>1, <2>2
<1>2. CASE ~\E e \in dialogs : e.sheet = d.sheet
  <2> DEFINE top == [d EXCEPT !.over = {e.sheet : e \in dialogs}]
  <2>1. With(dialogs, d) = dialogs \cup {top}
    BY <1>2 DEF With
  <2>2. {e.sheet : e \in dialogs} \in SUBSET SeriesSheet
    BY DEF Dialogs
  <2>3. top \in Dialogs /\ top.sheet = d.sheet
    BY <2>2, OverTypes
  <2> HIDE DEF top
  <2> QED BY <2>1, <2>3
<1> QED BY <1>1, <1>2

LEMMA ChosenTypes ==
  ASSUME NEW c \in [{"series", "season"} -> Ways], NEW d \in Dialogs, NEW gone
  PROVE  /\ Selecting(c, d) \in [{"series", "season"} -> Ways]
         /\ Deselecting(c, gone) \in [{"series", "season"} -> Ways]
<1>1. <<d.back>> \in Ways /\ <<>> \in Ways
  BY DEF Dialogs, Ways
<1> QED BY <1>1 DEF Selecting, Deselecting

LEMMA Replaced ==
  ASSUME PlacesTypeOK, NEW gone \in SUBSET SeriesSheet, NEW forgotten, NEW d \in Dialogs, Replace(gone, forgotten, d)
  PROVE  /\ open' \subseteq Dialogs /\ closing' \subseteq SeriesSheet /\ chosen' \in [{"series", "season"} -> Ways]
         /\ closing' = closing \cup {s \in gone : IsOpen(s)}
         /\ \A s : IsOpen(s)' <=> s = d.sheet \/ (s \notin gone /\ IsOpen(s))
         /\ Without(open, gone) = {} => \A e, f \in open' : e = f
<1>1. /\ closing' = closing \cup {s \in gone : IsOpen(s)} /\ open' = With(Without(open, gone), d)
      /\ chosen' = Selecting(Deselecting(chosen, forgotten), d)
  BY DEF Replace
<1>2. /\ open \subseteq Dialogs /\ closing \subseteq SeriesSheet /\ chosen \in [{"series", "season"} -> Ways]
  BY DEF PlacesTypeOK
<1>3. Without(open, gone) \subseteq Dialogs
  BY <1>2, WithoutTypes
<1>4. open' \subseteq Dialogs /\ (Without(open, gone) = {} => \A e, f \in open' : e = f)
  BY <1>1, <1>3, WithTypes
<1>5. \A s : IsOpen(s)' <=> s = d.sheet \/ \E e \in Without(open, gone) : e.sheet = s
  BY <1>1, <1>3, WithTypes DEF IsOpen
<1>6. \A s : (\E e \in Without(open, gone) : e.sheet = s) <=> s \notin gone /\ IsOpen(s)
  BY <1>2, WithoutTypes DEF IsOpen
<1>7. chosen' \in [{"series", "season"} -> Ways]
  BY <1>1, <1>2, ChosenTypes
<1> QED BY <1>1, <1>2, <1>4, <1>5, <1>6, <1>7

LEMMA LedBack ==
  ASSUME PlacesTypeOK, NEW gone \in SUBSET SeriesSheet, NEW forgotten, NEW back \in Seq(Place),
         LeaveTo(gone, forgotten, back)
  PROVE  /\ open' \subseteq Dialogs /\ closing' \subseteq SeriesSheet /\ chosen' \in [{"series", "season"} -> Ways]
         /\ closing' = closing \cup {s \in gone : IsOpen(s)}
         /\ \A s : s \notin {"series", "season"} => (IsOpen(s)' <=> s \notin gone /\ IsOpen(s))
         /\ Without(open, gone) = {} => \A e, f \in open' : e = f
         /\ back = <<>> /\ (\A e, f \in open : e = f) => \A e, f \in open' : e = f
<1>1. CASE back # <<>>
  <2>1. Replace(gone, forgotten, DialogAt(back))
    BY <1>1 DEF LeaveTo, Replace
  <2>2. DialogAt(back) \in Dialogs /\ DialogAt(back).sheet \in {"series", "season"}
    BY <1>1, DialogAtTypes
  <2> QED BY <1>1, <2>1, <2>2, Replaced
<1>2. CASE back = <<>>
  <2>1. /\ closing' = closing \cup {s \in gone : IsOpen(s)} /\ open' = Without(open, gone)
        /\ chosen' = Deselecting(chosen, forgotten)
    BY <1>2 DEF LeaveTo
  <2>2. /\ open \subseteq Dialogs /\ closing \subseteq SeriesSheet /\ chosen \in [{"series", "season"} -> Ways]
    BY DEF PlacesTypeOK
  <2>3. chosen' \in [{"series", "season"} -> Ways]
    BY <2>1, <2>2 DEF Deselecting, Ways
  <2>4. open' \subseteq Dialogs /\ ((\A e, f \in open : e = f) => \A e, f \in open' : e = f)
    BY <2>1, <2>2, WithoutTypes
  <2>5. \A s : IsOpen(s)' <=> s \notin gone /\ IsOpen(s)
    <3>1. \A s : (\E e \in Without(open, gone) : e.sheet = s) <=> s \notin gone /\ IsOpen(s)
      BY <2>2, WithoutTypes DEF IsOpen
    <3> QED BY <2>1, <3>1 DEF IsOpen
  <2> QED BY <1>2, <2>1, <2>2, <2>3, <2>4, <2>5
<1> QED BY <1>1, <1>2

(* The sheet the owner taps on.                                               *)
LEMMA TopIsOpen ==
  ASSUME PlacesTypeOK, NEW sheet, TapOn(sheet)
  PROVE  /\ Top \in open /\ Top \in Dialogs /\ Top.sheet = sheet /\ IsOpen(sheet) /\ closing = {}
         /\ Top.season \in Place \cup {NoSeason} /\ Top.back \in Seq(Place)
<1>1. Top \in open /\ Top.sheet = sheet /\ closing = {}
  BY DEF TapOn, On, Top, IsTop
<1> QED BY <1>1 DEF PlacesTypeOK, Dialogs, IsOpen

LEMMA NoneLeft ==
  ASSUME PlacesTypeOK, OneSheet, ~crossedSheets, NEW sheet, TapOn(sheet), NEW gone, sheet \in gone
  PROVE  Without(open, gone) = {}
<1>1. Top \in open /\ Top.sheet = sheet
  BY TopIsOpen
<1>2. \A d \in open : d.sheet = sheet
  BY <1>1 DEF OneSheet
<1> QED BY <1>2 DEF Without

(* A step that opens neither question nor upload, and keeps what they are     *)
(* about.                                                                     *)
LEMMA SheetsStay ==
  ASSUME SheetsInPlace, UNCHANGED <<restart, target, picker>>, NEW gone,
         closing' = closing \cup {s \in gone : IsOpen(s)},
         \A s \in {"upload", "source", "restart"} : IsOpen(s)' => s \notin gone /\ IsOpen(s),
         OneSheet', crossedSheets => crossedSheets'
  PROVE  SheetsInPlace'
<1>1. \A s \in {"upload", "source", "restart"} : IsOpen(s)' => IsOpen(s) /\ (s \in closing' <=> s \in closing)
  OBVIOUS
<1>2. "upload" \in closing' => ~IsOpen("upload")'
  BY <1>1 DEF SheetsInPlace
<1> QED BY <1>1, <1>2 DEF SheetsInPlace, TargetIsThere

(* The owner leaves a sheet for another, or for where it leads back to.       *)
LEMMA OwnerReplaces ==
  ASSUME SeriesInv, NEW sheet \in SeriesSheet, TapOn(sheet), NEW gone \in SUBSET SeriesSheet, sheet \in gone, NEW forgotten,
         NEW d \in Dialogs, Replace(gone, forgotten, d), UNCHANGED crossedSheets
  PROVE  /\ OneSheet' /\ \A s : IsOpen(s)' <=> s = d.sheet \/ (s \notin gone /\ IsOpen(s))
         /\ closing' = closing \cup {s \in gone : IsOpen(s)}
         /\ open' \subseteq Dialogs /\ closing' \subseteq SeriesSheet /\ chosen' \in [{"series", "season"} -> Ways]
<1>1. PlacesTypeOK /\ OneSheet
  BY DEF SeriesInv, SeriesTypeOK, SheetsInPlace
<1>2. ~crossedSheets => Without(open, gone) = {}
  BY <1>1, NoneLeft
<1>3. OneSheet'
  BY <1>1, <1>2, Replaced DEF OneSheet
<1> QED BY <1>1, <1>3, Replaced

LEMMA OwnerLeaves ==
  ASSUME SeriesInv, NEW sheet \in SeriesSheet, TapOn(sheet), NEW gone \in SUBSET SeriesSheet, sheet \in gone, NEW forgotten,
         NEW back \in Seq(Place), LeaveTo(gone, forgotten, back), UNCHANGED crossedSheets
  PROVE  /\ OneSheet' /\ \A s : s \notin {"series", "season"} => (IsOpen(s)' <=> s \notin gone /\ IsOpen(s))
         /\ closing' = closing \cup {s \in gone : IsOpen(s)}
         /\ open' \subseteq Dialogs /\ closing' \subseteq SeriesSheet /\ chosen' \in [{"series", "season"} -> Ways]
<1>1. PlacesTypeOK /\ OneSheet
  BY DEF SeriesInv, SeriesTypeOK, SheetsInPlace
<1>2. ~crossedSheets => Without(open, gone) = {}
  BY <1>1, NoneLeft
<1>3. OneSheet'
  BY <1>1, <1>2, LedBack DEF OneSheet
<1> QED BY <1>1, <1>3, LedBack

uploadState == <<files, transfer, chosenFor, sent, mixed>>
marksState == <<watched, marksShown, seriesAsked, overlapped>>

LEMMA UploadsStay == ASSUME SeriesInv, UNCHANGED uploadState, target' \in {target, NoTarget}
                     PROVE  UploadsTypeOK' /\ FilesBelong'
BY DEF SeriesInv, SeriesTypeOK, UploadsTypeOK, FilesBelong, SentAsChosen, Belongs, uploadState, NoTransfer

LEMMA MarksStay == ASSUME SeriesInv, UNCHANGED marksState PROVE MarksTypeOK' /\ MarksCatchUp'
BY DEF SeriesInv, SeriesTypeOK, MarksTypeOK, MarksCatchUp, Lacks, marksState

(* Steps between the sheets of the series and of its seasons.                 *)
LEMMA ToCard ==
  ASSUME SeriesInv, NEW sheet \in SeriesSheet, TapOn(sheet), NEW gone \in SUBSET SeriesSheet, sheet \in gone, NEW forgotten,
         UNCHANGED Unmoved,
         \/ \E d \in Dialogs : Replace(gone, forgotten, d) /\ d.sheet \notin {"upload", "source", "restart"}
         \/ \E back \in Seq(Place) : LeaveTo(gone, forgotten, back)
  PROVE  SeriesInv'
<1>1. UNCHANGED <<restart, target, picker, crossedSheets>> /\ UNCHANGED uploadState /\ UNCHANGED marksState
  BY DEF Unmoved, seriesGhosts, uploads, uploadState, marksState
<1>2. /\ OneSheet' /\ closing' = closing \cup {s \in gone : IsOpen(s)}
      /\ \A s \in {"upload", "source", "restart"} : IsOpen(s)' => s \notin gone /\ IsOpen(s)
      /\ open' \subseteq Dialogs /\ closing' \subseteq SeriesSheet /\ chosen' \in [{"series", "season"} -> Ways]
  <2>1. CASE \E d \in Dialogs : Replace(gone, forgotten, d) /\ d.sheet \notin {"upload", "source", "restart"}
    BY <1>1, <2>1, OwnerReplaces
  <2>2. CASE \E back \in Seq(Place) : LeaveTo(gone, forgotten, back)
    BY <1>1, <2>2, OwnerLeaves
  <2> QED BY <2>1, <2>2
<1>3. SheetsInPlace'
  BY <1>1, <1>2, SheetsStay DEF SeriesInv
<1>4. PlacesTypeOK'
  BY <1>1, <1>2 DEF SeriesInv, SeriesTypeOK, PlacesTypeOK
<1> QED BY <1>1, <1>3, <1>4, UploadsStay, MarksStay DEF SeriesInv, SeriesTypeOK

LEMMA BetweenCards ==
  ASSUME SeriesInv, OpenSettings \/ OpenMore \/ OpenEpisode \/ LeaveCard \/ LeaveSheet \/ \E s \in Season : OpenSeason(s)
  PROVE  SeriesInv'
<1>1. PlacesTypeOK
  BY DEF SeriesInv, SeriesTypeOK
<1>2. \A p \in Place, back \in Seq(Place) : <<p>> \o back \in Seq(Place)
  OBVIOUS
<1>3. Whole \in Place /\ \A s \in Season : s \in Place
  BY DEF Place
<1>4. ASSUME NEW s \in Season, OpenSeason(s) PROVE SeriesInv'
  <2>1. Top.back \in Seq(Place) /\ TapOn("series")
    BY <1>1, <1>4, TopIsOpen DEF OpenSeason
  <2> DEFINE d == Dialog("season", s, <<Whole>> \o Top.back)
  <2>2. d \in Dialogs /\ d.sheet = "season"
    <3>1. Fits(d) /\ d.sheet = "season"
      BY <1>3 DEF Fits, Dialog
    <3> QED BY <1>2, <1>3, <2>1, <3>1, DialogTypes DEF SeriesSheet
  <2> QED BY <1>4, <2>1, <2>2, ToCard DEF OpenSeason, SeriesSheet
<1>5. CASE OpenSettings
  <2>1. Top.back \in Seq(Place) /\ Top.season \in Season /\ TapOn("season")
    <3>1. TapOn("season")
      BY <1>5 DEF OpenSettings
    <3> QED BY <1>1, <3>1, TopIsOpen DEF Dialogs, Fits
  <2> DEFINE d == Dialog("settings", Top.season, <<Top.season>> \o Top.back)
  <2>2. d \in Dialogs /\ d.sheet = "settings"
    <3>1. Fits(d) /\ d.sheet = "settings"
      BY <1>3, <2>1 DEF Fits, Dialog
    <3> QED BY <1>2, <1>3, <2>1, <3>1, DialogTypes DEF SeriesSheet
  <2> QED BY <1>5, <2>1, <2>2, ToCard DEF OpenSettings, SeriesSheet
<1>6. CASE OpenMore
  <2>1. Top.back \in Seq(Place) /\ TapOn("series")
    BY <1>1, <1>6, TopIsOpen DEF OpenMore
  <2> DEFINE d == Dialog("settings", Whole, <<Whole>> \o Top.back)
  <2>2. d \in Dialogs /\ d.sheet = "settings"
    <3>1. Fits(d) /\ d.sheet = "settings"
      BY <1>3 DEF Fits, Dialog
    <3> QED BY <1>2, <1>3, <2>1, <3>1, DialogTypes DEF SeriesSheet
  <2> QED BY <1>6, <2>1, <2>2, ToCard DEF OpenMore, SeriesSheet
<1>7. CASE OpenEpisode
  <2>1. Top.back \in Seq(Place) /\ Top.season \in Season /\ TapOn("season")
    <3>1. TapOn("season")
      BY <1>7 DEF OpenEpisode
    <3> QED BY <1>1, <3>1, TopIsOpen DEF Dialogs, Fits
  <2> DEFINE d == Dialog("episode", Top.season, <<Top.season>> \o Top.back)
  <2>2. d \in Dialogs /\ d.sheet = "episode"
    <3>1. Fits(d) /\ d.sheet = "episode"
      BY DEF Fits, Dialog
    <3> QED BY <1>2, <1>3, <2>1, <3>1, DialogTypes DEF SeriesSheet
  <2> QED BY <1>7, <2>1, <2>2, ToCard DEF OpenEpisode, SeriesSheet
<1>8. CASE LeaveCard
  <2>1. PICK sheet \in {"series", "season"} : TapOn(sheet)
    BY <1>8 DEF LeaveCard
  <2>2. Top.sheet = sheet /\ Top.back \in Seq(Place) /\ <<>> \in Seq(Place)
    BY <1>1, <2>1, TopIsOpen
  <2>3. PICK way \in {Top.back, <<>>} : LeaveTo(IF way = <<>> THEN {"series", "season"} ELSE {Top.sheet}, {}, way)
    BY <1>8 DEF LeaveCard
  <2> DEFINE gone == IF way = <<>> THEN {"series", "season"} ELSE {Top.sheet}
  <2>4. gone \in SUBSET SeriesSheet /\ sheet \in gone /\ way \in Seq(Place) /\ sheet \in SeriesSheet
    BY <2>2, <2>3 DEF SeriesSheet
  <2> HIDE DEF gone
  <2>5. UNCHANGED Unmoved /\ LeaveTo(gone, {}, way)
    BY <1>8, <2>3 DEF LeaveCard, gone
  <2> QED BY <2>1, <2>4, <2>5, ToCard
<1>9. CASE LeaveSheet
  <2>1. PICK sheet \in {"settings", "episode"} : TapOn(sheet)
    BY <1>9 DEF LeaveSheet
  <2>2. Top.sheet = sheet /\ Top.back \in Seq(Place)
    BY <1>1, <2>1, TopIsOpen
  <2>3. UNCHANGED Unmoved /\ LeaveTo({sheet}, {}, Top.back)
    BY <1>9, <2>2 DEF LeaveSheet
  <2>4. sheet \in SeriesSheet /\ {sheet} \in SUBSET SeriesSheet
    BY DEF SeriesSheet
  <2> QED BY <2>1, <2>2, <2>3, <2>4, ToCard
<1> QED BY <1>4, <1>5, <1>6, <1>7, <1>8, <1>9

LEMMA OpenSeriesInv == ASSUME SeriesInv, OpenSeries PROVE SeriesInv'
<1> DEFINE d == Dialog("series", Whole, <<>>)
<1>1. /\ open = {} /\ Replace({}, {}, d) /\ UNCHANGED <<restart, target, picker, crossedSheets>>
      /\ UNCHANGED uploadState /\ UNCHANGED marksState
  BY DEF OpenSeries, Unmoved, seriesGhosts, uploads, uploadState, marksState
<1>2. PlacesTypeOK
  BY DEF SeriesInv, SeriesTypeOK
<1>3. d \in Dialogs /\ d.sheet = "series"
  <2>1. Fits(d) /\ d.sheet = "series" /\ <<>> \in Seq(Place)
    BY DEF Fits, Dialog
  <2> QED BY <2>1, DialogTypes DEF SeriesSheet, Place
<1> HIDE DEF d
<1>4. Without(open, {}) = {}
  BY <1>1 DEF Without
<1>5. /\ OneSheet' /\ closing' = closing \cup {s \in {} : IsOpen(s)}
      /\ \A s : IsOpen(s)' <=> s = "series" \/ IsOpen(s)
      /\ open' \subseteq Dialogs /\ closing' \subseteq SeriesSheet /\ chosen' \in [{"series", "season"} -> Ways]
  BY <1>1, <1>2, <1>3, <1>4, Replaced DEF OneSheet
<1>6. SheetsInPlace'
  BY <1>1, <1>5, SheetsStay DEF SeriesInv
<1>7. PlacesTypeOK'
  BY <1>1, <1>2, <1>5 DEF PlacesTypeOK
<1> QED BY <1>1, <1>6, <1>7, UploadsStay, MarksStay DEF SeriesInv, SeriesTypeOK

(* A close event finds its upload sheet closed, and keeps the target only for *)
(* the source sheet.                                                          *)
LEMMA CloseEventInv == ASSUME SeriesInv, NEW s \in SeriesSheet, CloseEvent(s) PROVE SeriesInv'
<1>1. /\ s \in closing /\ closing' = closing \ {s} /\ chosen' = Deselecting(chosen, {s})
      /\ target' = (IF s = "upload" /\ ~picker THEN NoTarget ELSE target)
      /\ UNCHANGED <<open, restart, picker, crossedSheets>> /\ UNCHANGED uploadState /\ UNCHANGED marksState
  BY DEF CloseEvent, seriesGhosts, uploads, uploadState, marksState
<1>2. PlacesTypeOK /\ SheetsInPlace
  BY DEF SeriesInv, SeriesTypeOK
<1>3. PlacesTypeOK'
  <2>1. chosen' \in [{"series", "season"} -> Ways]
    BY <1>1, <1>2 DEF PlacesTypeOK, Deselecting, Ways
  <2> QED BY <1>1, <1>2, <2>1 DEF PlacesTypeOK
<1>4. \A x : IsOpen(x)' <=> IsOpen(x)
  BY <1>1 DEF IsOpen
<1>5. SheetsInPlace'
  BY <1>1, <1>2, <1>4 DEF SheetsInPlace, OneSheet, TargetIsThere
<1> QED BY <1>1, <1>3, <1>5, UploadsStay, MarksStay DEF SeriesInv, SeriesTypeOK

-----------------------------------------------------------------------------
(* Questions about the whole series or a season.                              *)
LEMMA WayBackTypes ==
  ASSUME PlacesTypeOK, NEW s \in Place
  PROVE  WayBack(s) \in Seq(Place) /\ WayBack(s) # <<>>
<1>1. \A p \in Place, back \in Seq(Place) : <<p>> \o back \in Seq(Place) /\ <<p>> \o back # <<>>
  OBVIOUS
<1>2. chosen["season"] \in Ways /\ chosen["series"] \in Ways
  BY DEF PlacesTypeOK
<1>3. Whole \in Place /\ <<>> \in Seq(Place)
  BY DEF Place
<1> QED BY <1>1, <1>2, <1>3, WaysLead DEF WayBack

LEMMA AskRestartInv == ASSUME SeriesInv, AskRestart PROVE SeriesInv'
<1> DEFINE gone == {"settings", "season", "series"}
           back == IF Top.season = Whole THEN Top.back ELSE WayBack(Top.season)
           d == Dialog("restart", Top.season, back)
<1>1. /\ TapOn("settings") /\ restart' = Top.season /\ Replace(gone, {"season", "series"}, d)
      /\ UNCHANGED <<target, picker, crossedSheets>> /\ UNCHANGED uploadState /\ UNCHANGED marksState
  BY DEF AskRestart, seriesGhosts, uploads, uploadState, marksState
<1>2. PlacesTypeOK /\ SheetsInPlace
  BY DEF SeriesInv, SeriesTypeOK
<1>3. Top.season \in Place /\ Top.back \in Seq(Place)
  BY <1>1, <1>2, TopIsOpen DEF Dialogs, Fits
<1>4. d \in Dialogs /\ d.sheet = "restart"
  <2>1. back \in Seq(Place)
    BY <1>2, <1>3, WayBackTypes
  <2> HIDE DEF back
  <2>2. Fits(d) /\ d.sheet = "restart"
    BY <1>3 DEF Fits, Dialog
  <2> QED BY <1>3, <2>1, <2>2, DialogTypes DEF SeriesSheet
<1> HIDE DEF d
<1>5. gone \in SUBSET SeriesSheet /\ "settings" \in gone /\ "settings" \in SeriesSheet
  BY DEF SeriesSheet
<1>6. /\ OneSheet' /\ \A s : IsOpen(s)' <=> s = "restart" \/ (s \notin gone /\ IsOpen(s))
      /\ closing' = closing \cup {s \in gone : IsOpen(s)}
      /\ open' \subseteq Dialogs /\ closing' \subseteq SeriesSheet /\ chosen' \in [{"series", "season"} -> Ways]
  BY <1>1, <1>4, <1>5, OwnerReplaces
<1>7. restart' # NoSeason
  BY <1>1, <1>3, SeasonAssumption DEF Place, Whole, NoSeason
<1>8. SheetsInPlace'
  BY <1>1, <1>2, <1>6, <1>7 DEF SheetsInPlace, TargetIsThere
<1>9. PlacesTypeOK'
  BY <1>1, <1>2, <1>3, <1>6 DEF PlacesTypeOK
<1> QED BY <1>1, <1>8, <1>9, UploadsStay, MarksStay DEF SeriesInv, SeriesTypeOK

LEMMA LeaveRestartInv == ASSUME SeriesInv, LeaveRestart PROVE SeriesInv'
<1>1. /\ TapOn("restart") /\ restart' = NoSeason /\ LeaveTo({"restart"}, {}, Top.back)
      /\ UNCHANGED <<target, picker, crossedSheets>> /\ UNCHANGED uploadState /\ UNCHANGED marksState
  BY DEF LeaveRestart, seriesGhosts, uploads, uploadState, marksState
<1>2. PlacesTypeOK /\ SheetsInPlace
  BY DEF SeriesInv, SeriesTypeOK
<1>3. Top.back \in Seq(Place) /\ {"restart"} \in SUBSET SeriesSheet /\ "restart" \in SeriesSheet
  BY <1>1, <1>2, TopIsOpen DEF SeriesSheet
<1>4. /\ OneSheet' /\ \A s : s \notin {"series", "season"} => (IsOpen(s)' <=> s \notin {"restart"} /\ IsOpen(s))
      /\ closing' = closing \cup {s \in {"restart"} : IsOpen(s)}
      /\ open' \subseteq Dialogs /\ closing' \subseteq SeriesSheet /\ chosen' \in [{"series", "season"} -> Ways]
  BY <1>1, <1>3, OwnerLeaves
<1>5. SheetsInPlace'
  BY <1>1, <1>2, <1>4 DEF SheetsInPlace, TargetIsThere
<1>6. PlacesTypeOK'
  BY <1>1, <1>2, <1>4 DEF PlacesTypeOK
<1> QED BY <1>1, <1>5, <1>6, UploadsStay, MarksStay DEF SeriesInv, SeriesTypeOK

LEMMA SheetsUntouched ==
  ASSUME SeriesInv, UNCHANGED <<places, restart, target, picker, crossedSheets>>
  PROVE  PlacesTypeOK' /\ SheetsInPlace'
<1>1. \A x : IsOpen(x)' <=> IsOpen(x)
  BY DEF IsOpen, places
<1> QED BY <1>1 DEF SeriesInv, SeriesTypeOK, PlacesTypeOK, SheetsInPlace, OneSheet, TargetIsThere, places

LEMMA AskOfSeriesInv ==
  ASSUME SeriesInv, NEW r \in MarkRequest, r.at = "sent", AskOfSeries(r), UNCHANGED <<watched, marksShown>>
  PROVE  MarksTypeOK' /\ MarksCatchUp'
<1>1. seriesAsked' = seriesAsked \cup {r} /\ overlapped' = (overlapped \/ SeriesBusy)
  BY DEF AskOfSeries
<1>2. MarksTypeOK'
  BY <1>1 DEF SeriesInv, SeriesTypeOK, MarksTypeOK
<1>3. MarksCatchUp'
  <2> SUFFICES ASSUME ~overlapped' PROVE r \in seriesAsked' /\ seriesAsked' = {r} /\ marksShown' = watched'
    BY <1>1 DEF MarksCatchUp, Lacks
  <2>1. ~overlapped /\ seriesAsked = {}
    BY <1>1 DEF SeriesBusy
  <2> QED BY <1>1, <2>1 DEF SeriesInv, MarksCatchUp
<1> QED BY <1>2, <1>3

LEMMA AsksInv ==
  ASSUME SeriesInv, ConfirmRestart \/ ConfirmMark \/ \E s \in Season : MarkOnCard(s)
  PROVE  SeriesInv'
<1>1. /\ UNCHANGED <<places, restart, target, picker, crossedSheets>> /\ UNCHANGED uploadState
      /\ UNCHANGED <<watched, marksShown>>
  BY DEF ConfirmRestart, ConfirmMark, MarkOnCard, uploads, uploadState
<1>2. PlacesTypeOK /\ \A s \in Season : s \in Place
  BY DEF SeriesInv, SeriesTypeOK, Place
<1>3. SUFFICES \E r \in MarkRequest : r.at = "sent" /\ AskOfSeries(r)
  BY <1>1, AskOfSeriesInv, UploadsStay, SheetsUntouched DEF SeriesInv, SeriesTypeOK
<1>4. CASE ConfirmRestart
  <2> DEFINE r == [what |-> "restart", season |-> restart, to |-> FALSE, at |-> "sent", from |-> "restart", back |-> Top.back]
  <2>1. TapOn("restart") /\ restart # NoSeason /\ AskOfSeries(r)
    BY <1>4 DEF ConfirmRestart
  <2>2. restart \in Place /\ Top.back \in Seq(Place)
    BY <1>2, <2>1, TopIsOpen DEF PlacesTypeOK
  <2>3. r \in MarkRequest /\ r.at = "sent"
    BY <2>2 DEF MarkRequest
  <2> QED BY <2>1, <2>3
<1>5. ASSUME NEW s \in Season, NEW from \in {"season", "card"}, Mark(s, from), Top.back \in Seq(Place)
      PROVE  \E r \in MarkRequest : r.at = "sent" /\ AskOfSeries(r)
  <2> DEFINE r == [what |-> "mark", season |-> s, to |-> s \notin marksShown, at |-> "sent", from |-> from, back |-> Top.back]
  <2>1. AskOfSeries(r)
    BY <1>5 DEF Mark
  <2>2. (s \notin marksShown) \in BOOLEAN
    OBVIOUS
  <2>3. r \in MarkRequest /\ r.at = "sent"
    BY <1>2, <1>5, <2>2 DEF MarkRequest
  <2> QED BY <2>1, <2>3
<1>6. CASE ConfirmMark
  <2>1. TapOn("season") /\ Mark(Top.season, "season")
    BY <1>6 DEF ConfirmMark
  <2>2. Top.season \in Season /\ Top.back \in Seq(Place)
    BY <1>2, <2>1, TopIsOpen DEF Dialogs, Fits
  <2> QED BY <1>5, <2>1, <2>2
<1>7. ASSUME NEW s \in Season, MarkOnCard(s) PROVE \E r \in MarkRequest : r.at = "sent" /\ AskOfSeries(r)
  <2>1. TapOn("series") /\ Mark(s, "card")
    BY <1>7 DEF MarkOnCard
  <2>2. Top.back \in Seq(Place)
    BY <1>2, <2>1, TopIsOpen
  <2> QED BY <1>5, <2>1, <2>2
<1> QED BY <1>4, <1>6, <1>7

LEMMA ButtonsInv == ASSUME SeriesInv, PressMark \/ QuestionTimesOut \/ UNCHANGED seriesVars PROVE SeriesInv'
<1>1. /\ UNCHANGED <<places, restart, target, picker, crossedSheets>> /\ UNCHANGED uploadState /\ UNCHANGED marksState
  BY DEF PressMark, QuestionTimesOut, seriesVars, Unmoved, seriesGhosts, uploads, uploadState, marksState, places
<1> QED BY <1>1, UploadsStay, MarksStay, SheetsUntouched DEF SeriesInv, SeriesTypeOK

-----------------------------------------------------------------------------
(* Answers.  One that opens a sheet over another has crossed.                 *)
LEMMA AnswerOpens ==
  ASSUME SeriesInv, NEW gone \in SUBSET SeriesSheet, NEW forgotten,
         \/ \E d \in Dialogs : Replace(gone, forgotten, d) /\ d.sheet = "season"
         \/ \E back \in Seq(Place) : LeaveTo(gone, forgotten, back),
         Crosses(gone)
  PROVE  /\ OneSheet' /\ crossedSheets' \in BOOLEAN /\ (crossedSheets => crossedSheets')
         /\ closing' = closing \cup {s \in gone : IsOpen(s)}
         /\ \A s \in {"upload", "source", "restart"} : IsOpen(s)' => s \notin gone /\ IsOpen(s)
         /\ open' \subseteq Dialogs /\ closing' \subseteq SeriesSheet /\ chosen' \in [{"series", "season"} -> Ways]
<1>1. PlacesTypeOK /\ crossedSheets \in BOOLEAN
  BY DEF SeriesInv, SeriesTypeOK, PlacesTypeOK
<1>2. crossedSheets' = (crossedSheets \/ Without(open, gone) # {})
  BY DEF Crosses
<1>3. /\ Without(open, gone) = {} => \A e, f \in open' : e = f
      /\ closing' = closing \cup {s \in gone : IsOpen(s)}
      /\ \A s \in {"upload", "source", "restart"} : IsOpen(s)' => s \notin gone /\ IsOpen(s)
      /\ open' \subseteq Dialogs /\ closing' \subseteq SeriesSheet /\ chosen' \in [{"series", "season"} -> Ways]
  <2>1. CASE \E d \in Dialogs : Replace(gone, forgotten, d) /\ d.sheet = "season"
    BY <1>1, <2>1, Replaced
  <2>2. CASE \E back \in Seq(Place) : LeaveTo(gone, forgotten, back)
    BY <1>1, <2>2, LedBack
  <2> QED BY <2>1, <2>2
<1>4. OneSheet'
  BY <1>2, <1>3 DEF OneSheet
<1> QED BY <1>1, <1>2, <1>3, <1>4

LEMMA LoneRequest ==
  ASSUME SeriesInv, NEW r \in seriesAsked, ~overlapped
  PROVE  seriesAsked = {r} /\ Lacks(r) /\ (r.what = "mark" => r.at \in {"sent", "answered", "marked"})
BY DEF SeriesInv, MarksCatchUp

LEMMA RequestTypes ==
  ASSUME SeriesInv, NEW r \in seriesAsked
  PROVE  /\ r \in MarkRequest /\ r.back \in Seq(Place) /\ r.to \in BOOLEAN
         /\ r.what \in {"mark", "restart"} /\ (IF r.what = "mark" THEN r.season \in Season ELSE ~r.to)
         /\ \A at \in {"answered", "marked", "reads", "read"} :
              /\ [r EXCEPT !.at = at] \in MarkRequest /\ [r EXCEPT !.at = at].at = at
              /\ [r EXCEPT !.at = at].what = r.what /\ [r EXCEPT !.at = at].season = r.season
              /\ [r EXCEPT !.at = at].to = r.to
<1>1. r \in MarkRequest
  BY DEF SeriesInv, SeriesTypeOK, MarksTypeOK
<1>2. \A at \in {"answered", "marked", "reads", "read"} :
        /\ [r EXCEPT !.at = at] \in MarkRequest /\ [r EXCEPT !.at = at].at = at
        /\ [r EXCEPT !.at = at].what = r.what /\ [r EXCEPT !.at = at].season = r.season
        /\ [r EXCEPT !.at = at].to = r.to
  BY <1>1 DEF MarkRequest
<1> QED BY <1>1, <1>2 DEF MarkRequest

LEMMA PiAnswersSeriesInv == ASSUME SeriesInv, NEW r \in seriesAsked, PiAnswersSeries(r) PROVE SeriesInv'
<1> DEFINE q == [r EXCEPT !.at = "answered"]
<1>1. /\ r.at = "sent" /\ seriesAsked' = (seriesAsked \ {r}) \cup {q}
      /\ watched' = IF r.to THEN watched \cup {r.season}
                    ELSE IF r.season = Whole THEN {} ELSE watched \ {r.season}
      /\ UNCHANGED <<places, restart, target, picker, crossedSheets, marksShown, overlapped>> /\ UNCHANGED uploadState
  BY DEF PiAnswersSeries, seriesGhosts, uploads, uploadState
<1>2. /\ q \in MarkRequest /\ q.what = r.what /\ q.at = "answered" /\ q.season = r.season /\ q.to = r.to
      /\ r.what = "mark" => r.season \in Season /\ r.season # Whole
      /\ r.what # "mark" => ~r.to
  BY RequestTypes, SeasonAssumption
<1> HIDE DEF q
<1>3. MarksTypeOK'
  BY <1>1, <1>2 DEF SeriesInv, SeriesTypeOK, MarksTypeOK
<1>4. MarksCatchUp'
  <2> SUFFICES ASSUME ~overlapped PROVE seriesAsked' = {q} /\ Lacks(q)'
    BY <1>1, <1>2 DEF MarksCatchUp
  <2>1. seriesAsked = {r} /\ marksShown = watched
    BY <1>1, LoneRequest DEF Lacks
  <2> QED BY <1>1, <1>2, <2>1 DEF Lacks
<1> QED BY <1>1, <1>3, <1>4, UploadsStay, SheetsUntouched DEF SeriesInv, SeriesTypeOK

(* The page goes on after a mark: the sheet may open over whatever is open.   *)
LEMMA MarkOverStays ==
  ASSUME SeriesInv, NEW r \in seriesAsked, MarkOver(r), r.what = "mark"
  PROVE  PlacesTypeOK' /\ SheetsInPlace' /\ UploadsTypeOK' /\ FilesBelong'
<1>1. UNCHANGED <<restart, target, picker>> /\ UNCHANGED uploadState
  BY DEF MarkOver, uploadState
<1>2. r.season \in Season /\ r.back \in Seq(Place)
  BY RequestTypes
<1>3. PlacesTypeOK' /\ SheetsInPlace'
  <2>1. CASE r.from = "season"
    <3> DEFINE d == Dialog("season", r.season, r.back)
    <3>1. Replace({"season"}, {"season"}, d) /\ Crosses({"season"})
      BY <2>1 DEF MarkOver
    <3>2. d \in Dialogs /\ d.sheet = "season"
      <4>1. Fits(d) /\ d.sheet = "season" /\ r.season \in Place
        BY <1>2 DEF Fits, Dialog, Place
      <4> QED BY <1>2, <4>1, DialogTypes DEF SeriesSheet
    <3> HIDE DEF d
    <3>3. {"season"} \in SUBSET SeriesSheet
      BY DEF SeriesSheet
    <3>4. /\ OneSheet' /\ crossedSheets' \in BOOLEAN /\ (crossedSheets => crossedSheets')
          /\ closing' = closing \cup {s \in {"season"} : IsOpen(s)}
          /\ \A s \in {"upload", "source", "restart"} : IsOpen(s)' => s \notin {"season"} /\ IsOpen(s)
          /\ open' \subseteq Dialogs /\ closing' \subseteq SeriesSheet /\ chosen' \in [{"series", "season"} -> Ways]
      BY <3>1, <3>2, <3>3, AnswerOpens
    <3>5. SheetsInPlace'
      BY <1>1, <3>4, SheetsStay DEF SeriesInv
    <3> QED BY <1>1, <3>4, <3>5 DEF SeriesInv, SeriesTypeOK, PlacesTypeOK
  <2>2. CASE r.from # "season"
    <3>1. UNCHANGED <<places, restart, target, picker, crossedSheets>>
      BY <1>1, <2>2 DEF MarkOver
    <3> QED BY <3>1, SheetsUntouched
  <2> QED BY <2>1, <2>2
<1> QED BY <1>1, <1>3, UploadsStay

LEMMA MarkAnswerInv == ASSUME SeriesInv, NEW r \in seriesAsked, MarkAnswer(r) PROVE SeriesInv'
<1> DEFINE q == [r EXCEPT !.at = "marked"]
<1>1. /\ r.what = "mark" /\ r.at = "answered"
      /\ marksShown' = IF r.to THEN marksShown \cup {r.season} ELSE marksShown \ {r.season}
      /\ UNCHANGED <<watched, overlapped>>
  BY DEF MarkAnswer, MarkOver
<1>2. r.season \in Season
  BY <1>1, RequestTypes
<1>3. ~overlapped => seriesAsked = {r} /\ marksShown' = watched'
  BY <1>1, LoneRequest DEF Lacks
<1>4. CASE MarkOver(r)
  <2>1. seriesAsked' = seriesAsked \ {r}
    BY <1>4 DEF MarkOver
  <2>2. MarksTypeOK' /\ MarksCatchUp'
    BY <1>1, <1>2, <1>3, <2>1 DEF SeriesInv, SeriesTypeOK, MarksTypeOK, MarksCatchUp
  <2> QED BY <1>1, <1>4, <2>2, MarkOverStays DEF SeriesInv, SeriesTypeOK
<1>5. CASE ~MarkOver(r)
  <2>1. /\ seriesAsked' = (seriesAsked \ {r}) \cup {q}
        /\ UNCHANGED <<places, restart, target, picker, crossedSheets>> /\ UNCHANGED uploadState
    BY <1>5 DEF MarkAnswer, seriesGhosts, uploads, uploadState
  <2>2. q \in MarkRequest /\ q.what = r.what /\ q.at = "marked"
    BY RequestTypes
  <2> HIDE DEF q
  <2>3. MarksTypeOK'
    BY <1>1, <1>2, <2>1, <2>2 DEF SeriesInv, SeriesTypeOK, MarksTypeOK
  <2>4. MarksCatchUp'
    <3> SUFFICES ASSUME ~overlapped PROVE seriesAsked' = {q} /\ Lacks(q)'
      BY <1>1, <2>2 DEF MarksCatchUp
    <3> QED BY <1>3, <2>1, <2>2 DEF Lacks
  <2> QED BY <2>1, <2>3, <2>4, UploadsStay, SheetsUntouched DEF SeriesInv, SeriesTypeOK
<1> QED BY <1>4, <1>5

LEMMA MarkEndsInv == ASSUME SeriesInv, NEW r \in seriesAsked, MarkEnds(r) PROVE SeriesInv'
<1>1. /\ r.what = "mark" /\ r.at = "marked" /\ MarkOver(r) /\ seriesAsked' = seriesAsked \ {r}
      /\ UNCHANGED <<watched, marksShown, overlapped>>
  BY DEF MarkEnds, MarkOver
<1>2. MarksTypeOK'
  BY <1>1 DEF SeriesInv, SeriesTypeOK, MarksTypeOK
<1>3. MarksCatchUp'
  <2> SUFFICES ASSUME ~overlapped PROVE seriesAsked' = {} /\ marksShown' = watched'
    BY <1>1 DEF MarksCatchUp
  <2> QED BY <1>1, LoneRequest DEF Lacks
<1> QED BY <1>1, <1>2, <1>3, MarkOverStays DEF SeriesInv, SeriesTypeOK

LEMMA RestartAnswerInv == ASSUME SeriesInv, NEW r \in seriesAsked, RestartAnswer(r) PROVE SeriesInv'
<1> DEFINE q == [r EXCEPT !.at = "reads"]
<1>1. /\ r.what = "restart" /\ r.at = "answered" /\ seriesAsked' = (seriesAsked \ {r}) \cup {q}
      /\ restart' = NoSeason /\ LeaveTo({"restart"}, {}, <<>>)
      /\ UNCHANGED <<target, picker, crossedSheets, watched, marksShown, overlapped>> /\ UNCHANGED uploadState
  BY DEF RestartAnswer, AfterRestart, seriesGhosts, uploads, uploadState
<1>2. q \in MarkRequest /\ q.what = r.what /\ q.at = "reads"
  BY RequestTypes
<1> HIDE DEF q
<1>3. PlacesTypeOK /\ SheetsInPlace /\ {"restart"} \in SUBSET SeriesSheet /\ <<>> \in Seq(Place)
  BY DEF SeriesInv, SeriesTypeOK, SeriesSheet
<1>4. MarksTypeOK'
  BY <1>1, <1>2 DEF SeriesInv, SeriesTypeOK, MarksTypeOK
<1>5. MarksCatchUp'
  <2> SUFFICES ASSUME ~overlapped PROVE seriesAsked' = {q} /\ Lacks(q)'
    BY <1>1, <1>2 DEF MarksCatchUp
  <2> QED BY <1>1, <1>2, LoneRequest DEF Lacks
<1>6. /\ open' \subseteq Dialogs /\ closing' \subseteq SeriesSheet /\ chosen' \in [{"series", "season"} -> Ways]
      /\ closing' = closing \cup {s \in {"restart"} : IsOpen(s)}
      /\ \A s : s \notin {"series", "season"} => (IsOpen(s)' <=> s \notin {"restart"} /\ IsOpen(s))
      /\ (\A e, f \in open : e = f) => \A e, f \in open' : e = f
  BY <1>1, <1>3, LedBack
<1>7. OneSheet'
  BY <1>1, <1>3, <1>6 DEF SheetsInPlace, OneSheet
<1>8. SheetsInPlace'
  BY <1>1, <1>3, <1>6, <1>7 DEF SheetsInPlace, TargetIsThere
<1>9. PlacesTypeOK'
  BY <1>1, <1>3, <1>6 DEF PlacesTypeOK
<1> QED BY <1>1, <1>4, <1>5, <1>8, <1>9, UploadsStay DEF SeriesInv, SeriesTypeOK

LEMMA LibraryIsReadInv == ASSUME SeriesInv, NEW r \in seriesAsked, LibraryIsRead(r) PROVE SeriesInv'
<1> DEFINE q == [r EXCEPT !.at = "read"]
<1>1. /\ r.at = "reads" /\ marksShown' = watched /\ seriesAsked' = (seriesAsked \ {r}) \cup {q}
      /\ UNCHANGED <<places, restart, target, picker, crossedSheets, watched, overlapped>> /\ UNCHANGED uploadState
  BY DEF LibraryIsRead, seriesGhosts, uploads, uploadState
<1>2. q \in MarkRequest /\ q.what = r.what /\ q.at = "read"
  BY RequestTypes
<1> HIDE DEF q
<1>3. MarksTypeOK'
  BY <1>1, <1>2 DEF SeriesInv, SeriesTypeOK, MarksTypeOK
<1>4. MarksCatchUp'
  <2> SUFFICES ASSUME ~overlapped PROVE seriesAsked' = {q} /\ Lacks(q)' /\ q.what # "mark"
    BY <1>1, <1>2 DEF MarksCatchUp
  <2> QED BY <1>1, <1>2, LoneRequest DEF Lacks
<1> QED BY <1>1, <1>3, <1>4, UploadsStay, SheetsUntouched DEF SeriesInv, SeriesTypeOK

LEMMA RestartGoesBackInv == ASSUME SeriesInv, NEW r \in seriesAsked, RestartGoesBack(r) PROVE SeriesInv'
<1>1. /\ r.at = "read" /\ seriesAsked' = seriesAsked \ {r} /\ LeaveTo({}, {}, r.back) /\ Crosses({})
      /\ UNCHANGED <<restart, target, picker, watched, marksShown, overlapped>> /\ UNCHANGED uploadState
  BY DEF RestartGoesBack, uploadState
<1>2. r.back \in Seq(Place) /\ {} \in SUBSET SeriesSheet
  BY RequestTypes
<1>3. MarksTypeOK'
  BY <1>1 DEF SeriesInv, SeriesTypeOK, MarksTypeOK
<1>4. MarksCatchUp'
  <2> SUFFICES ASSUME ~overlapped PROVE seriesAsked' = {} /\ marksShown' = watched'
    BY <1>1 DEF MarksCatchUp
  <2> QED BY <1>1, LoneRequest DEF Lacks
<1>5. /\ OneSheet' /\ crossedSheets' \in BOOLEAN /\ (crossedSheets => crossedSheets')
      /\ closing' = closing \cup {s \in {} : IsOpen(s)}
      /\ \A s \in {"upload", "source", "restart"} : IsOpen(s)' => s \notin {} /\ IsOpen(s)
      /\ open' \subseteq Dialogs /\ closing' \subseteq SeriesSheet /\ chosen' \in [{"series", "season"} -> Ways]
  BY <1>1, <1>2, AnswerOpens
<1>6. SheetsInPlace'
  BY <1>1, <1>5, SheetsStay DEF SeriesInv
<1>7. PlacesTypeOK'
  BY <1>1, <1>5 DEF SeriesInv, SeriesTypeOK, PlacesTypeOK
<1> QED BY <1>1, <1>3, <1>4, <1>6, <1>7, UploadsStay DEF SeriesInv, SeriesTypeOK

LEMMA SeriesFailsInv == ASSUME SeriesInv, NEW r \in seriesAsked, SeriesFails(r) PROVE SeriesInv'
<1>1. /\ seriesAsked' = seriesAsked \ {r} /\ overlapped' = (overlapped \/ r.at \notin {"sent", "marked"})
      /\ UNCHANGED <<places, restart, target, picker, crossedSheets, watched, marksShown>> /\ UNCHANGED uploadState
  BY DEF SeriesFails, seriesGhosts, uploads, uploadState
<1>2. MarksTypeOK'
  BY <1>1 DEF SeriesInv, SeriesTypeOK, MarksTypeOK
<1>3. MarksCatchUp'
  <2> SUFFICES ASSUME ~overlapped, r.at \in {"sent", "marked"} PROVE seriesAsked' = {} /\ marksShown' = watched'
    BY <1>1 DEF MarksCatchUp
  <2> QED BY <1>1, LoneRequest DEF Lacks
<1> QED BY <1>1, <1>2, <1>3, UploadsStay, SheetsUntouched DEF SeriesInv, SeriesTypeOK

-----------------------------------------------------------------------------
(* Uploads.                                                                   *)
LEMMA AskUploadInv == ASSUME SeriesInv, AskUpload PROVE SeriesInv'
<1> DEFINE gone == {"settings", "season", "series"}
           back == WayBack(Top.season)
           d == Dialog("upload", NoSeason, back)
<1>1. /\ TapOn("settings") /\ Top.season # Whole /\ target' = [season |-> Top.season, back |-> back]
      /\ files' = {} /\ Replace(gone, {"season", "series"}, d)
      /\ UNCHANGED <<restart, picker, crossedSheets, transfer, chosenFor, sent, mixed>> /\ UNCHANGED marksState
  BY DEF AskUpload, seriesGhosts, uploads, marksState
<1>2. PlacesTypeOK /\ SheetsInPlace
  BY DEF SeriesInv, SeriesTypeOK
<1>3. closing = {} /\ Top.season \in Season /\ Top.season \in Place
  BY <1>1, <1>2, TopIsOpen DEF Dialogs, Fits, Place
<1>4. back \in Seq(Place) /\ back # <<>>
  BY <1>2, <1>3, WayBackTypes
<1> HIDE DEF back
<1>5. d \in Dialogs /\ d.sheet = "upload"
  <2>1. Fits(d) /\ d.sheet = "upload"
    BY DEF Fits, Dialog
  <2> QED BY <1>4, <2>1, DialogTypes DEF SeriesSheet
<1> HIDE DEF d
<1>6. target' \in Target /\ target' # NoTarget
  BY <1>1, <1>3, <1>4 DEF Target, NoTarget
<1>7. gone \in SUBSET SeriesSheet /\ "settings" \in gone /\ "settings" \in SeriesSheet
  BY DEF SeriesSheet
<1>8. /\ OneSheet' /\ \A s : IsOpen(s)' <=> s = "upload" \/ (s \notin gone /\ IsOpen(s))
      /\ closing' = closing \cup {s \in gone : IsOpen(s)}
      /\ open' \subseteq Dialogs /\ closing' \subseteq SeriesSheet /\ chosen' \in [{"series", "season"} -> Ways]
  BY <1>1, <1>5, <1>7, OwnerReplaces
<1>9. SheetsInPlace'
  BY <1>1, <1>2, <1>3, <1>6, <1>8 DEF SheetsInPlace, TargetIsThere
<1>10. PlacesTypeOK'
  BY <1>1, <1>2, <1>6, <1>8 DEF PlacesTypeOK
<1>11. UploadsTypeOK' /\ FilesBelong'
  BY <1>1 DEF SeriesInv, SeriesTypeOK, UploadsTypeOK, FilesBelong, SentAsChosen, Belongs, NoTransfer
<1> QED BY <1>1, <1>9, <1>10, <1>11, MarksStay DEF SeriesInv, SeriesTypeOK

(* The sheet that goes is the only one that was about the target.             *)
LEMMA LeaveUploadInv == ASSUME SeriesInv, LeaveUpload PROVE SeriesInv'
<1>1. /\ TapOn("upload") /\ target' \in {NoTarget, target} /\ LeaveTo({"upload"}, {}, Top.back)
      /\ UNCHANGED <<restart, picker, crossedSheets>> /\ UNCHANGED uploadState /\ UNCHANGED marksState
  BY DEF LeaveUpload, seriesGhosts, uploads, uploadState, marksState
<1>2. PlacesTypeOK /\ SheetsInPlace
  BY DEF SeriesInv, SeriesTypeOK
<1>3. Top.back \in Seq(Place) /\ {"upload"} \in SUBSET SeriesSheet /\ "upload" \in SeriesSheet /\ IsOpen("upload")
  BY <1>1, <1>2, TopIsOpen DEF SeriesSheet
<1>4. /\ OneSheet' /\ \A s : s \notin {"series", "season"} => (IsOpen(s)' <=> s \notin {"upload"} /\ IsOpen(s))
      /\ closing' = closing \cup {s \in {"upload"} : IsOpen(s)}
      /\ open' \subseteq Dialogs /\ closing' \subseteq SeriesSheet /\ chosen' \in [{"series", "season"} -> Ways]
  BY <1>1, <1>3, OwnerLeaves
<1>5. crossedSheets \/ ~IsOpen("source")
  BY <1>2, <1>3 DEF SheetsInPlace, OneSheet, IsOpen
<1>6. SheetsInPlace'
  BY <1>1, <1>2, <1>4, <1>5 DEF SheetsInPlace, TargetIsThere
<1>7. PlacesTypeOK'
  BY <1>1, <1>2, <1>4 DEF PlacesTypeOK
<1> QED BY <1>1, <1>6, <1>7, UploadsStay, MarksStay DEF SeriesInv, SeriesTypeOK

LEMMA ChooseSourceInv == ASSUME SeriesInv, ChooseSource PROVE SeriesInv'
<1> DEFINE d == Dialog("source", NoSeason, Top.back)
<1>1. /\ TapOn("upload") /\ target # NoTarget /\ picker' = TRUE /\ Replace({"upload"}, {}, d)
      /\ UNCHANGED <<restart, target, crossedSheets>> /\ UNCHANGED uploadState /\ UNCHANGED marksState
  BY DEF ChooseSource, seriesGhosts, uploads, uploadState, marksState
<1>2. PlacesTypeOK /\ SheetsInPlace
  BY DEF SeriesInv, SeriesTypeOK
<1>3. Top.back \in Seq(Place) /\ {"upload"} \in SUBSET SeriesSheet /\ "upload" \in SeriesSheet
  BY <1>1, <1>2, TopIsOpen DEF SeriesSheet
<1>4. d \in Dialogs /\ d.sheet = "source"
  <2>1. Fits(d) /\ d.sheet = "source"
    BY DEF Fits, Dialog
  <2> QED BY <1>3, <2>1, DialogTypes DEF SeriesSheet
<1> HIDE DEF d
<1>5. /\ OneSheet' /\ \A s : IsOpen(s)' <=> s = "source" \/ (s \notin {"upload"} /\ IsOpen(s))
      /\ closing' = closing \cup {s \in {"upload"} : IsOpen(s)}
      /\ open' \subseteq Dialogs /\ closing' \subseteq SeriesSheet /\ chosen' \in [{"series", "season"} -> Ways]
  BY <1>1, <1>3, <1>4, OwnerReplaces
<1>6. SheetsInPlace'
  BY <1>1, <1>2, <1>5 DEF SheetsInPlace, TargetIsThere
<1>7. PlacesTypeOK'
  BY <1>1, <1>2, <1>5 DEF PlacesTypeOK
<1> QED BY <1>1, <1>6, <1>7, UploadsStay, MarksStay DEF SeriesInv, SeriesTypeOK

LEMMA LeaveSourceInv == ASSUME SeriesInv, LeaveSource PROVE SeriesInv'
<1> DEFINE back == IF target = NoTarget THEN <<>> ELSE target.back
           d == Dialog("upload", NoSeason, back)
<1>1. /\ TapOn("source") /\ picker' = FALSE /\ Replace({"source"}, {}, d)
      /\ UNCHANGED <<restart, target, crossedSheets, transfer, sent, mixed>> /\ UNCHANGED marksState
  BY DEF LeaveSource, marksState
<1>2. \/ UNCHANGED <<files, chosenFor>>
      \/ \E f \in VideoFile \ files : /\ target # NoTarget /\ files' = files \cup {f}
                                     /\ chosenFor' = [chosenFor EXCEPT ![f] = @ \cup {target.season}]
  BY DEF LeaveSource
<1>3. PlacesTypeOK /\ SheetsInPlace /\ UploadsTypeOK /\ FilesBelong
  BY DEF SeriesInv, SeriesTypeOK
<1>4. {"source"} \in SUBSET SeriesSheet /\ "source" \in SeriesSheet /\ closing = {} /\ IsOpen("source")
  BY <1>1, <1>3, TopIsOpen DEF SeriesSheet
<1>5. d \in Dialogs /\ d.sheet = "upload"
  <2>1. back \in Seq(Place)
    BY <1>3 DEF PlacesTypeOK, Target
  <2> HIDE DEF back
  <2>2. Fits(d) /\ d.sheet = "upload"
    BY DEF Fits, Dialog
  <2> QED BY <2>1, <2>2, DialogTypes DEF SeriesSheet
<1> HIDE DEF d
<1>6. /\ OneSheet' /\ \A s : IsOpen(s)' <=> s = "upload" \/ (s \notin {"source"} /\ IsOpen(s))
      /\ closing' = closing \cup {s \in {"source"} : IsOpen(s)}
      /\ open' \subseteq Dialogs /\ closing' \subseteq SeriesSheet /\ chosen' \in [{"series", "season"} -> Ways]
  BY <1>1, <1>4, <1>5, OwnerReplaces
<1>7. SheetsInPlace'
  BY <1>1, <1>3, <1>4, <1>6 DEF SheetsInPlace, TargetIsThere
<1>8. PlacesTypeOK'
  BY <1>1, <1>3, <1>6 DEF PlacesTypeOK
<1>9. UploadsTypeOK' /\ FilesBelong'
  <2>1. CASE UNCHANGED <<files, chosenFor>>
    BY <1>1, <2>1, UploadsStay DEF uploadState
  <2>2. ASSUME NEW f \in VideoFile \ files, target # NoTarget, files' = files \cup {f},
               chosenFor' = [chosenFor EXCEPT ![f] = @ \cup {target.season}]
        PROVE  UploadsTypeOK' /\ FilesBelong'
    <3>1. target.season \in Season
      BY <1>3, <2>2 DEF PlacesTypeOK, Target
    <3>2. /\ chosenFor' \in [VideoFile -> SUBSET Season] /\ target.season \in chosenFor'[f]
          /\ \A g \in VideoFile : chosenFor[g] \subseteq chosenFor'[g]
      BY <1>3, <2>2, <3>1 DEF UploadsTypeOK
    <3>3. UploadsTypeOK'
      BY <1>1, <1>3, <2>2, <3>2 DEF UploadsTypeOK, NoTransfer
    <3>4. \A g \in VideoFile : \A x : Belongs(g, x) => Belongs(g, x)'
      BY <1>1, <3>2 DEF Belongs
    <3>5. SentAsChosen'
      BY <1>1, <1>3, <3>2 DEF FilesBelong, SentAsChosen, UploadsTypeOK
    <3>6. transfer' # NoTransfer => \A g \in transfer'.files : Belongs(g, transfer.target.season)'
      BY <1>1, <1>3, <3>4 DEF FilesBelong, UploadsTypeOK
    <3>7. \A g \in files' : Belongs(g, target.season)'
      BY <1>1, <1>3, <2>2, <3>2, <3>4 DEF FilesBelong, UploadsTypeOK, Belongs
    <3> QED BY <1>1, <3>3, <3>5, <3>6, <3>7 DEF FilesBelong
  <2> QED BY <1>2, <2>1, <2>2
<1> QED BY <1>1, <1>7, <1>8, <1>9, MarksStay DEF SeriesInv, SeriesTypeOK

LEMMA ChooseUsbInv == ASSUME SeriesInv, ChooseUsb PROVE SeriesInv'
<1>1. /\ TapOn("source") /\ picker' = FALSE /\ target' = NoTarget /\ LeaveTo({"source"}, {}, <<>>)
      /\ UNCHANGED <<restart, crossedSheets>> /\ UNCHANGED uploadState /\ UNCHANGED marksState
  BY DEF ChooseUsb, seriesGhosts, uploads, uploadState, marksState
<1>2. PlacesTypeOK /\ SheetsInPlace
  BY DEF SeriesInv, SeriesTypeOK
<1>3. <<>> \in Seq(Place) /\ {"source"} \in SUBSET SeriesSheet /\ "source" \in SeriesSheet /\ IsOpen("source")
  BY <1>1, <1>2, TopIsOpen DEF SeriesSheet
<1>4. /\ OneSheet' /\ \A s : s \notin {"series", "season"} => (IsOpen(s)' <=> s \notin {"source"} /\ IsOpen(s))
      /\ closing' = closing \cup {s \in {"source"} : IsOpen(s)}
      /\ open' \subseteq Dialogs /\ closing' \subseteq SeriesSheet /\ chosen' \in [{"series", "season"} -> Ways]
  BY <1>1, <1>3, OwnerLeaves
<1>5. crossedSheets \/ ~IsOpen("upload")
  BY <1>2, <1>3 DEF SheetsInPlace, OneSheet, IsOpen
<1>6. SheetsInPlace'
  BY <1>1, <1>2, <1>4, <1>5 DEF SheetsInPlace, TargetIsThere
<1>7. PlacesTypeOK'
  BY <1>1, <1>2, <1>4 DEF PlacesTypeOK
<1> QED BY <1>1, <1>6, <1>7, UploadsStay, MarksStay DEF SeriesInv, SeriesTypeOK

LEMMA SendFilesInv == ASSUME SeriesInv, SendFiles PROVE SeriesInv'
<1>1. /\ target # NoTarget /\ transfer' = [target |-> target, files |-> files]
      /\ sent' = sent \cup {<<f, target.season>> : f \in files}
      /\ UNCHANGED <<places, restart, target, picker, crossedSheets, files, chosenFor, mixed>> /\ UNCHANGED marksState
  BY DEF SendFiles, marksState
<1>2. PlacesTypeOK /\ UploadsTypeOK /\ FilesBelong /\ target \in Target /\ target.season \in Season
  BY <1>1 DEF SeriesInv, SeriesTypeOK, PlacesTypeOK, Target
<1>3. UploadsTypeOK'
  BY <1>1, <1>2 DEF UploadsTypeOK
<1>4. FilesBelong'
  BY <1>1, <1>2 DEF FilesBelong, SentAsChosen, Belongs
<1> QED BY <1>1, <1>3, <1>4, MarksStay, SheetsUntouched DEF SeriesInv, SeriesTypeOK

(* What failed is selected again, and its season is another's only if it is   *)
(* known to be mixed.                                                         *)
LEMMA EpisodesFailInv ==
  ASSUME SeriesInv, transfer # NoTransfer, transfer' = NoTransfer, NEW failed \in SUBSET transfer.files, files' = failed,
         mixed' = (IF target \in {NoTarget, transfer.target} THEN mixed ELSE mixed \cup failed),
         UNCHANGED <<chosenFor, sent, target>>
  PROVE  UploadsTypeOK' /\ FilesBelong'
<1>1. UploadsTypeOK /\ FilesBelong
  BY DEF SeriesInv, SeriesTypeOK
<1>2. UploadsTypeOK'
  BY <1>1 DEF UploadsTypeOK, NoTransfer
<1>3. SentAsChosen'
  BY <1>1 DEF FilesBelong, SentAsChosen
<1>4. target # NoTarget => \A f \in failed : Belongs(f, target.season)'
  BY <1>1 DEF FilesBelong, Belongs
<1> QED BY <1>2, <1>3, <1>4 DEF FilesBelong

LEMMA UploadEndsInv == ASSUME SeriesInv, UploadEnds PROVE SeriesInv'
<1>1. /\ transfer # NoTransfer /\ transfer' = NoTransfer
      /\ UNCHANGED <<restart, picker, chosenFor, sent>> /\ UNCHANGED marksState
  BY DEF UploadEnds, marksState
<1>2. PlacesTypeOK /\ SheetsInPlace /\ UploadsTypeOK /\ FilesBelong /\ transfer.target \in Target
  BY <1>1 DEF SeriesInv, SeriesTypeOK, UploadsTypeOK
<1>3. ASSUME NEW failed \in SUBSET transfer.files, files' = failed,
             mixed' = (IF target \in {NoTarget, transfer.target} THEN mixed ELSE mixed \cup failed),
             UNCHANGED <<target, crossedSheets, places>>
      PROVE  SeriesInv'
  BY <1>1, <1>3, EpisodesFailInv, MarksStay, SheetsUntouched DEF SeriesInv, SeriesTypeOK
<1> DEFINE back == IF Head(transfer.target.back) = transfer.target.season THEN Tail(transfer.target.back)
                   ELSE transfer.target.back
           d == Dialog("season", transfer.target.season, back)
<1>4. ASSUME files' = {}, target' = NoTarget, Crosses({"upload"}), Replace({"upload"}, {}, d), UNCHANGED mixed
      PROVE  SeriesInv'
  <2>1. back \in Seq(Place) /\ transfer.target.season \in Season
    BY <1>2 DEF Target
  <2> HIDE DEF back
  <2>2. d \in Dialogs /\ d.sheet = "season"
    <3>1. Fits(d) /\ d.sheet = "season" /\ transfer.target.season \in Place
      BY <2>1 DEF Fits, Dialog, Place
    <3> QED BY <2>1, <3>1, DialogTypes DEF SeriesSheet
  <2> HIDE DEF d
  <2>3. {"upload"} \in SUBSET SeriesSheet
    BY DEF SeriesSheet
  <2>4. /\ OneSheet' /\ crossedSheets' \in BOOLEAN /\ (crossedSheets => crossedSheets')
        /\ closing' = closing \cup {s \in {"upload"} : IsOpen(s)}
        /\ \A s \in {"upload", "source", "restart"} : IsOpen(s)' => s \notin {"upload"} /\ IsOpen(s)
        /\ open' \subseteq Dialogs /\ closing' \subseteq SeriesSheet /\ chosen' \in [{"series", "season"} -> Ways]
    BY <1>4, <2>2, <2>3, AnswerOpens
  <2>5. \A s : IsOpen(s)' <=> s = "season" \/ (s \notin {"upload"} /\ IsOpen(s))
    BY <1>2, <1>4, <2>2, <2>3, Replaced
  <2>6. IsOpen("source")' => crossedSheets'
    BY <2>4, <2>5 DEF OneSheet, IsOpen
  <2>7. SheetsInPlace'
    BY <1>1, <1>2, <2>4, <2>6 DEF SheetsInPlace, TargetIsThere
  <2>8. PlacesTypeOK'
    BY <1>1, <1>2, <1>4, <2>4 DEF PlacesTypeOK
  <2>9. UploadsTypeOK' /\ FilesBelong'
    BY <1>1, <1>2, <1>4 DEF UploadsTypeOK, NoTransfer, FilesBelong, SentAsChosen
  <2> QED BY <1>1, <2>7, <2>8, <2>9, MarksStay DEF SeriesInv, SeriesTypeOK
<1> QED BY <1>3, <1>4 DEF UploadEnds

-----------------------------------------------------------------------------
LEMMA SeriesStep == SeriesInv /\ [SeriesNext]_seriesVars => SeriesInv'
<1> SUFFICES ASSUME SeriesInv, [SeriesNext]_seriesVars PROVE SeriesInv'
  OBVIOUS
<1>1. CASE \E s \in SeriesSheet : CloseEvent(s)
  BY <1>1, CloseEventInv
<1>2. CASE OpenSeries
  BY <1>2, OpenSeriesInv
<1>3. CASE OpenSettings \/ OpenMore \/ OpenEpisode \/ LeaveCard \/ LeaveSheet \/ \E s \in Season : OpenSeason(s)
  BY <1>3, BetweenCards
<1>4. CASE ConfirmRestart \/ ConfirmMark \/ \E s \in Season : MarkOnCard(s)
  BY <1>4, AsksInv
<1>5. CASE AskRestart \/ LeaveRestart
  BY <1>5, AskRestartInv, LeaveRestartInv
<1>6. CASE PressMark \/ QuestionTimesOut \/ UNCHANGED seriesVars
  BY <1>6, ButtonsInv
<1>7. CASE \E r \in seriesAsked : PiAnswersSeries(r)
  BY <1>7, PiAnswersSeriesInv
<1>8. CASE \E r \in seriesAsked : MarkAnswer(r) \/ MarkEnds(r)
  BY <1>8, MarkAnswerInv, MarkEndsInv
<1>9. CASE \E r \in seriesAsked : RestartAnswer(r)
  BY <1>9, RestartAnswerInv
<1>10. CASE \E r \in seriesAsked : LibraryIsRead(r)
  BY <1>10, LibraryIsReadInv
<1>11. CASE \E r \in seriesAsked : RestartGoesBack(r)
  BY <1>11, RestartGoesBackInv
<1>12. CASE \E r \in seriesAsked : SeriesFails(r)
  BY <1>12, SeriesFailsInv
<1>13. CASE AskUpload \/ LeaveUpload \/ ChooseSource \/ LeaveSource \/ ChooseUsb \/ SendFiles \/ UploadEnds
  BY <1>13, AskUploadInv, LeaveUploadInv, ChooseSourceInv, LeaveSourceInv, ChooseUsbInv, SendFilesInv, UploadEndsInv
<1> QED BY <1>1, <1>2, <1>3, <1>4, <1>5, <1>6, <1>7, <1>8, <1>9, <1>10, <1>11, <1>12, <1>13 DEF SeriesNext

LEMMA SeriesInvariant == SeriesSpec => []SeriesInv
<1>1. SeriesInit => SeriesInv
  BY SeriesInitInv
<1>2. SeriesInv /\ [SeriesNext]_seriesVars => SeriesInv'
  BY SeriesStep
<1> QED BY <1>1, <1>2, PTL DEF SeriesSpec

(* The sheets, their ways back, the uploads and requests about marks keep     *)
(* their types.                                                               *)
THEOREM SeriesTypeCorrect == SeriesSpec => []SeriesTypeOK
<1>1. SeriesInv => SeriesTypeOK
  BY DEF SeriesInv
<1> QED BY <1>1, SeriesInvariant, PTL

LEMMA SeriesInvImpliesTrue == SeriesInv => SeriesSheetsAreTrue
<1> SUFFICES ASSUME SeriesInv PROVE SeriesSheetsAreTrue
  OBVIOUS
<1>1. SentAsChosen /\ TargetIsThere
  BY DEF SeriesInv, FilesBelong, SheetsInPlace
<1>2. MarksAgree
  BY DEF SeriesInv, MarksCatchUp, MarksAgree, SeriesBusy
<1> QED BY <1>1, <1>2 DEF SeriesSheetsAreTrue

-----------------------------------------------------------------------------
(* However closing sheets, late answers, lost requests and reloads of the     *)
(* library cross, the sheets of a series and of a film act on what they were  *)
(* opened for, and the page settles on what the Pi has.                       *)
THEOREM SheetsStayTrue == SeriesSpec /\ FilmSpec => []SheetsAreTrue
<1>1. SeriesInv /\ FilmInv => SheetsAreTrue
  BY SeriesInvImpliesTrue, FilmInvImpliesShelf DEF SheetsAreTrue
<1> QED BY <1>1, SeriesInvariant, FilmInvariant, PTL
=============================================================================
