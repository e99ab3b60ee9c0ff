-------------------------- MODULE NativeCoreProofs --------------------------
(* Three machines of the native core, for any number of items, titles,        *)
(* positions and moments: a shuffle bag visits every item once a round, the   *)
(* resume writer loses no bookmark, and the timeline of a channel is the      *)
(* picture's.                                                                 *)
EXTENDS ShuffleBagRounds, MyTvResumeWriter, ChannelTimeline, FunctionTheorems,
        FiniteSetTheorems, SequenceTheorems, WellFoundedInduction, TLAPS

(* ------------------------------------------------------------------------ *)
(* The shuffle bag.                                                           *)

USE ItemCountAssumption

(* Every item occurs in a shuffle: n distinct values among n items are all of *)
(* them.                                                                      *)
LEMMA ShuffleIsWhole ==
  ASSUME NEW order \in Shuffles
  PROVE  \A item \in Items : \E i \in 1..ItemCount : order[i] = item
<1>1. order \in Injection(1..ItemCount, Items)
  BY DEF Shuffles, Injection, IsInjective
<1>2. /\ IsFiniteSet(Items) /\ IsFiniteSet(1..ItemCount)
      /\ Cardinality(Items) = Cardinality(1..ItemCount)
  <2>1. IsFiniteSet(0..(ItemCount - 1)) /\ Cardinality(0..(ItemCount - 1)) = ItemCount
    BY FS_Interval, 0 \in Int, ItemCount - 1 \in Int
  <2>2. IsFiniteSet(1..ItemCount) /\ Cardinality(1..ItemCount) = ItemCount
    BY FS_Interval, 1 \in Int, ItemCount \in Int
  <2> QED BY <2>1, <2>2 DEF Items
<1>3. order \in Surjection(1..ItemCount, Items)
  BY <1>1, <1>2, FS_Injection
<1> QED BY <1>3 DEF Surjection

(* Swapping the two ends of a shuffle gives a shuffle (ShuffleBag.cpp:46). *)
LEMMA EndsSwappedIsShuffle ==
  ASSUME NEW order \in Shuffles, ItemCount > 1
  PROVE  EndsSwapped(order) \in Shuffles /\ EndsSwapped(order)[ItemCount] = order[1]
<1> DEFINE swapped == EndsSwapped(order)
<1>1. /\ order \in [1..ItemCount -> Items]
      /\ \A i, j \in 1..ItemCount : i # j => order[i] # order[j]
  BY DEF Shuffles
<1>2. \A i \in 1..ItemCount :
        /\ i = 1 => swapped[i] = order[ItemCount]
        /\ i = ItemCount => swapped[i] = order[1]
        /\ i # 1 /\ i # ItemCount => swapped[i] = order[i]
  BY SMT DEF EndsSwapped
<1>3. swapped \in [1..ItemCount -> Items]
  <2>1. DOMAIN swapped = 1..ItemCount /\ swapped = [i \in 1..ItemCount |-> swapped[i]]
    BY DEF EndsSwapped
  <2>2. \A i \in 1..ItemCount : swapped[i] \in Items
    BY <1>1, <1>2, 1 \in 1..ItemCount, ItemCount \in 1..ItemCount
  <2> QED BY <2>1, <2>2
<1>4. \A i, j \in 1..ItemCount : i # j => swapped[i] # swapped[j]
  <2> TAKE i, j \in 1..ItemCount
  <2> HAVE i # j
  <2>1. 1 \in 1..ItemCount /\ ItemCount \in 1..ItemCount
    OBVIOUS
  <2>2. CASE i = 1
    BY <1>1, <1>2, <2>1, <2>2
  <2>3. CASE i = ItemCount
    BY <1>1, <1>2, <2>1, <2>3
  <2>4. CASE i # 1 /\ i # ItemCount
    BY <1>1, <1>2, <2>1, <2>4
  <2> QED BY <2>2, <2>3, <2>4
<1>5. swapped[ItemCount] = order[1]
  BY <1>2, ItemCount \in 1..ItemCount
<1> QED BY <1>3, <1>4, <1>5 DEF Shuffles

(* A refill is a shuffle and, with more than one item, does not end with the  *)
(* item taken last (ShuffleBag.cpp:39-48).                                    *)
LEMMA RefillIsShuffle ==
  ASSUME NEW last, NEW order \in Refills(last)
  PROVE  order \in Shuffles /\ (ItemCount > 1 => order[ItemCount] # last)
<1>1. PICK o \in Shuffles :
        order = IF ItemCount > 1 /\ o[ItemCount] = last THEN EndsSwapped(o) ELSE o
  BY DEF Refills
<1>2. CASE ItemCount > 1 /\ o[ItemCount] = last
  <2>1. order \in Shuffles /\ order[ItemCount] = o[1]
    BY <1>1, <1>2, EndsSwappedIsShuffle
  <2>2. o[1] # o[ItemCount]
    BY <1>2 DEF Shuffles
  <2> QED BY <1>2, <2>1, <2>2
<1>3. CASE ~(ItemCount > 1 /\ o[ItemCount] = last)
  BY <1>1, <1>3
<1> QED BY <1>2, <1>3

LEMMA ShuffleIsOrder ==
  ASSUME NEW order \in Shuffles
  PROVE  /\ order \in Seq(Items) /\ Len(order) = ItemCount
         /\ \A i, j \in 1..Len(order) : i # j => order[i] # order[j]
<1>1. order \in [1..ItemCount -> Items]
  BY DEF Shuffles
<1>2. order \in Seq(Items) /\ Len(order) = ItemCount
  BY <1>1, LenProperties, IsASeq
<1> QED BY <1>2 DEF Shuffles

(* Taking the i-th item of distinct ones leaves a bag with the items below it. *)
LEMMA DrawnIsBag ==
  ASSUME NEW order \in Seq(Items), NEW i \in 1..Len(order),
         \A k, l \in 1..Len(order) : k # l => order[k] # order[l]
  PROVE  LET taken == Drawn(order, i)
         IN  /\ taken.item = order[i] /\ taken.item \in Items
             /\ IsBag(taken.bag) /\ taken.bag.last = order[i]
             /\ Len(taken.bag.remaining) = i - 1
             /\ \A k \in 1..(i - 1) : taken.bag.remaining[k] = order[k]
<1> DEFINE rest == SubSeq(order, 1, i - 1)
<1>1. order[i] \in Items /\ \A k \in 1..(i - 1) : order[k] \in Items
  BY ElementOfSeq
<1>2. /\ rest \in Seq(Items)
      /\ Len(rest) = i - 1
      /\ \A k \in 1..(i - 1) : rest[k] = order[k]
  BY <1>1, SubSeqProperties, 1 \in Int, i - 1 \in Int
<1> HIDE DEF rest
<1>3. \A k, l \in 1..Len(rest) : k # l => rest[k] # rest[l]
  BY <1>2
<1>4. \A k \in 1..Len(rest) : rest[k] # order[i]
  BY <1>2
<1>5. Drawn(order, i) = [item |-> order[i], bag |-> [remaining |-> rest, last |-> order[i]]]
  BY DEF Drawn, rest
<1> QED BY <1>1, <1>2, <1>3, <1>4, <1>5 DEF IsBag

(* One call of take(): from a bag with items left, the last of them; from an  *)
(* empty one, the last of a refill, which is not the item taken before.       *)
LEMMA TakeDraws ==
  ASSUME NEW b, IsBag(b), ItemCount > 0, NEW taken \in Take(b)
  PROVE  \E order \in Seq(Items) :
           /\ Len(order) > 0
           /\ taken = Drawn(order, Len(order))
           /\ \A k, l \in 1..Len(order) : k # l => order[k] # order[l]
           /\ b.remaining # <<>> => order = b.remaining
           /\ b.remaining = <<>> => order \in Refills(b.last)
<1>1. PICK order \in (IF b.remaining = <<>> THEN Refills(b.last) ELSE {b.remaining}) :
        taken = Drawn(order, Len(order))
  BY DEF Take
<1>2. CASE b.remaining = <<>>
  <2>1. order \in Refills(b.last)
    BY <1>1, <1>2
  <2>2. order \in Shuffles
    BY <2>1, RefillIsShuffle
  <2> QED BY <1>1, <1>2, <2>1, <2>2, ShuffleIsOrder
<1>3. CASE b.remaining # <<>>
  <2>1. order = b.remaining /\ order \in Seq(Items) /\ order # <<>>
    BY <1>1, <1>3 DEF IsBag
  <2>2. Len(order) > 0
    BY <2>1, EmptySeq, LenProperties
  <2> QED BY <1>1, <1>3, <2>1, <2>2 DEF IsBag
<1> QED BY <1>2, <1>3

(* A bag is what it is said to be: every item is in it or was drawn in this   *)
(* round, never both.                                                         *)
LEMMA StepTypeOK == RoundsTypeOK /\ [RoundsNext]_roundsVars => RoundsTypeOK'
<1> SUFFICES ASSUME RoundsTypeOK, [RoundsNext]_roundsVars PROVE RoundsTypeOK'
  OBVIOUS
<1>1. CASE UNCHANGED roundsVars
  BY <1>1 DEF roundsVars, RoundsTypeOK
<1>2. CASE RoundsNext /\ ItemCount = 0
  <2>1. Items = {} /\ bag' = bag /\ drawn' \subseteq Items /\ drawn = {}
    <3>1. Items = {}
      BY <1>2 DEF Items
    <3>2. PICK taken \in Take(bag) :
            /\ bag' = taken.bag
            /\ drawn' = (IF bag.remaining = <<>> THEN {} ELSE drawn) \cup ({taken.item} \cap Items)
      BY <1>2 DEF RoundsNext, TakeItem
    <3>3. taken.bag = bag
      BY <1>2, <3>2 DEF Take
    <3> QED BY <3>1, <3>2, <3>3 DEF RoundsTypeOK
  <2> QED BY <2>1 DEF RoundsTypeOK
<1>3. CASE RoundsNext /\ ItemCount > 0
  <2>1. PICK taken \in Take(bag) :
          /\ bag' = taken.bag
          /\ drawn' = (IF bag.remaining = <<>> THEN {} ELSE drawn) \cup ({taken.item} \cap Items)
    BY <1>3 DEF RoundsNext, TakeItem
  <2>2. PICK order \in Seq(Items) :
          /\ Len(order) > 0
          /\ taken = Drawn(order, Len(order))
          /\ \A k, l \in 1..Len(order) : k # l => order[k] # order[l]
          /\ bag.remaining # <<>> => order = bag.remaining
          /\ bag.remaining = <<>> => order \in Refills(bag.last)
    BY <1>3, <2>1, TakeDraws DEF RoundsTypeOK
  <2> DEFINE n == Len(order)
  <2>3. n \in Nat /\ n \in 1..n
    BY <2>2, LenProperties
  <2>4. /\ taken.item = order[n] /\ order[n] \in Items
        /\ IsBag(bag') /\ bag'.last = order[n]
        /\ Len(bag'.remaining) = n - 1
        /\ \A k \in 1..(n - 1) : bag'.remaining[k] = order[k]
    BY <2>1, <2>2, <2>3, DrawnIsBag
  <2> DEFINE before == IF bag.remaining = <<>> THEN {} ELSE drawn
  <2>5. before = Items \ {order[k] : k \in 1..n}
    <3>1. CASE bag.remaining = <<>>
      <4>1. order \in Shuffles
        BY <2>2, <3>1, RefillIsShuffle
      <4>2. n = ItemCount
        BY <4>1, ShuffleIsOrder
      <4> QED BY <3>1, <4>1, <4>2, ShuffleIsWhole
    <3>2. CASE bag.remaining # <<>>
      <4>1. bag # EmptyBag
        BY <3>2 DEF EmptyBag
      <4> QED BY <2>2, <3>2, <4>1 DEF RoundsTypeOK
    <3> QED BY <3>1, <3>2
  <2>6. drawn' = before \cup {order[n]}
    BY <2>1, <2>4
  <2> HIDE DEF before
  <2>7. drawn' = Items \ {bag'.remaining[k] : k \in 1..Len(bag'.remaining)}
    <3>1. {bag'.remaining[k] : k \in 1..Len(bag'.remaining)} = {order[k] : k \in 1..(n - 1)}
      BY <2>3, <2>4
    <3>2. {order[k] : k \in 1..n} = {order[k] : k \in 1..(n - 1)} \cup {order[n]}
      BY <2>3
    <3>3. order[n] \notin {order[k] : k \in 1..(n - 1)}
      BY <2>2, <2>3
    <3> QED BY <2>4, <2>5, <2>6, <3>1, <3>2, <3>3
  <2> QED BY <2>4, <2>7 DEF RoundsTypeOK
<1> QED BY <1>1, <1>2, <1>3, ItemCount > 0 \/ ItemCount = 0

LEMMA InitTypeOK == RoundsInit => RoundsTypeOK
  BY EmptySeq DEF RoundsInit, RoundsTypeOK, IsBag, EmptyBag

(* The bag's contents and what was drawn split the items, for every size.     *)
THEOREM BagTypeCorrect == RoundsSpec => []RoundsTypeOK
  BY InitTypeOK, StepTypeOK, PTL DEF RoundsSpec

(* The two promises of a step, from the invariant. *)
LEMMA StepDraws ==
  ASSUME RoundsTypeOK, [RoundsNext]_roundsVars
  PROVE  /\ (bag.remaining # <<>> => bag'.last \notin drawn) \/ UNCHANGED roundsVars
         /\ (ItemCount > 1 => bag'.last # bag.last) \/ UNCHANGED roundsVars
<1>1. CASE UNCHANGED roundsVars
  BY <1>1
<1>2. CASE RoundsNext /\ ItemCount = 0
  <2>1. Items = {} /\ bag.remaining \in Seq(Items)
    BY <1>2 DEF Items, RoundsTypeOK, IsBag
  <2>2. bag.remaining = <<>>
    <3>1. Len(bag.remaining) \in Nat /\ \A i \in 1..Len(bag.remaining) : bag.remaining[i] \in Items
      BY <2>1, LenProperties, ElementOfSeq
    <3>2. Len(bag.remaining) = 0
      BY <2>1, <3>1
    <3> QED BY <2>1, <3>2, EmptySeq
  <2> QED BY <1>2, <2>2
<1>3. CASE RoundsNext /\ ItemCount > 0
  <2>1. PICK taken \in Take(bag) : bag' = taken.bag
    BY <1>3 DEF RoundsNext, TakeItem
  <2>2. PICK order \in Seq(Items) :
          /\ Len(order) > 0
          /\ taken = Drawn(order, Len(order))
          /\ \A k, l \in 1..Len(order) : k # l => order[k] # order[l]
          /\ bag.remaining # <<>> => order = bag.remaining
          /\ bag.remaining = <<>> => order \in Refills(bag.last)
    BY <1>3, <2>1, TakeDraws DEF RoundsTypeOK
  <2>3. Len(order) \in 1..Len(order)
    BY <2>2, LenProperties
  <2>4. bag'.last = order[Len(order)]
    BY <2>1, <2>2, <2>3, DrawnIsBag
  <2>5. CASE bag.remaining = <<>>
    <3>1. order \in Shuffles /\ (ItemCount > 1 => order[ItemCount] # bag.last)
      BY <2>2, <2>5, RefillIsShuffle
    <3>2. Len(order) = ItemCount
      BY <3>1, ShuffleIsOrder
    <3> QED BY <2>4, <2>5, <3>1, <3>2
  <2>6. CASE bag.remaining # <<>>
    <3>1. order = bag.remaining /\ bag # EmptyBag
      BY <2>2, <2>6 DEF EmptyBag
    <3>2. drawn = Items \ {order[i] : i \in 1..Len(order)}
      BY <3>1 DEF RoundsTypeOK
    <3>3. order[Len(order)] # bag.last
      BY <2>3, <3>1 DEF RoundsTypeOK, IsBag
    <3> QED BY <2>3, <2>4, <3>2, <3>3
  <2> QED BY <2>5, <2>6
<1> QED BY <1>1, <1>2, <1>3, ItemCount > 0 \/ ItemCount = 0

(* No round draws an item twice, for every number of programmes.              *)
THEOREM RoundsDrawOnce == RoundsSpec => OncePerRound
<1>1. RoundsTypeOK /\ [RoundsNext]_roundsVars => [bag.remaining # <<>> => bag'.last \notin drawn]_roundsVars
  BY StepDraws
<1> QED BY <1>1, BagTypeCorrect, PTL DEF RoundsSpec, OncePerRound

(* No item is drawn twice running, for every number of programmes above one.  *)
THEOREM NeverRepeatsAtOnce == RoundsSpec => NoImmediateRepeat
<1>1. RoundsTypeOK /\ [RoundsNext]_roundsVars => [ItemCount > 1 => bag'.last # bag.last]_roundsVars
  BY StepDraws
<1> QED BY <1>1, BagTypeCorrect, PTL DEF RoundsSpec, NoImmediateRepeat

HIDE ItemCountAssumption

(* ------------------------------------------------------------------------ *)
(* The resume writer.                                                         *)

Saving == [title : Title, bookmark : Bookmark,
           result : {"idle", "running", "saved", "failed"}]

(* What holds of every title, for a memory m, rows r, waiting bookmarks q and *)
(* a bookmark in hand s: what waits is the newest, and so is what is in hand  *)
(* unless something waits; a save that succeeded with nothing behind it has   *)
(* brought the row up to date; the row is never ahead of the memory; and a    *)
(* difference between the two is in the writer's hands.                       *)
SoundFor(t, m, r, q, s) ==
  /\ q[t] # NoBookmark => q[t] = m[t]
  /\ s.result # "idle" /\ s.title = t =>
       /\ m[t] # NoBookmark
       /\ s.bookmark.at <= m[t].at
       /\ q[t] = NoBookmark => s.bookmark = m[t]
       /\ q[t] = NoBookmark /\ s.result = "saved" => r[t] = m[t]
  /\ r[t].at <= m[t].at
  /\ m[t] = NoBookmark => r[t] = NoBookmark
  /\ m[t] # r[t] =>
       q[t] = m[t] \/ (s.result # "idle" /\ s.title = t /\ s.bookmark = m[t])

Sound(m, r, q, s) == \A t \in Title : SoundFor(t, m, r, q, s)

IInv ==
  /\ TypeOK
  /\ SomebodySaves
  /\ Sound(memory, row, pending, saving)

-----------------------------------------------------------------------------
(* Types.                                                                    *)

LEMMA BookmarkTypes ==
  /\ NoBookmark \in Bookmark
  /\ Nobody \in [Title -> Bookmark]
  /\ Idle \in Saving
  /\ Idle.result = "idle"
<1>1. NoBookmark \in Bookmark
  BY WriterAssumption DEF NoBookmark, Bookmark
<1>2. (CHOOSE t \in Title : TRUE) \in Title
  BY WriterAssumption
<1> QED BY <1>1, <1>2 DEF Nobody, Idle, Saving

(* A set of waiting titles has a least one (QMap::begin).                    *)
LEMMA FirstWaits ==
  ASSUME NEW queue, Waiting(queue) # {}
  PROVE  First(queue) \in Waiting(queue)
<1> DEFINE S == Waiting(queue)
<1>0. S \subseteq Nat /\ S # {}
  BY WriterAssumption DEF Waiting
<1>1. PICK t \in S : \A u \in S : ~ (<<u, t>> \in OpToRel(<, Nat))
  BY <1>0, NatLessThanWellFounded, WFMin
<1>2. \A u \in S : t <= u
  <2> TAKE u \in S
  <2>1. ~(u < t)
    BY <1>0, <1>1 DEF OpToRel
  <2> QED BY <1>0, <2>1
<1> QED BY <1>2 DEF First

(* start() either leaves all as it is, or takes one waiting bookmark in hand. *)
LEMMA StartOutcome ==
  ASSUME NEW queue \in [Title -> Bookmark], NEW current \in Saving,
         Start(queue, current)
  PROVE  \/ /\ pending' = queue /\ saving' = current
            /\ current.result # "idle" \/ Waiting(queue) = {}
         \/ /\ current.result = "idle"
            /\ \E t \in Title :
                 /\ queue[t] # NoBookmark
                 /\ saving' = [title |-> t, bookmark |-> queue[t], result |-> "running"]
                 /\ pending' = [queue EXCEPT ![t] = NoBookmark]
<1>1. CASE current.result # "idle" \/ Waiting(queue) = {}
  BY <1>1 DEF Start
<1>2. CASE ~(current.result # "idle" \/ Waiting(queue) = {})
  <2>1. First(queue) \in Waiting(queue)
    BY <1>2, FirstWaits
  <2>2. First(queue) \in Title /\ queue[First(queue)] # NoBookmark
    BY <2>1 DEF Waiting
  <2> QED BY <1>2, <2>2 DEF Start
<1> QED BY <1>1, <1>2

LEMMA StartKeepsType ==
  ASSUME NEW queue \in [Title -> Bookmark], NEW current \in Saving,
         Start(queue, current)
  PROVE  pending' \in [Title -> Bookmark] /\ saving' \in Saving
<1>1. CASE pending' = queue /\ saving' = current
  BY <1>1
<1>2. ASSUME NEW t \in Title,
             saving' = [title |-> t, bookmark |-> queue[t], result |-> "running"],
             pending' = [queue EXCEPT ![t] = NoBookmark]
      PROVE  pending' \in [Title -> Bookmark] /\ saving' \in Saving
  BY <1>2, BookmarkTypes DEF Saving
<1> QED BY <1>1, <1>2, StartOutcome

LEMMA StartKeepsSound ==
  ASSUME NEW m \in [Title -> Bookmark], NEW r \in [Title -> Bookmark],
         NEW queue \in [Title -> Bookmark], NEW current \in Saving,
         Sound(m, r, queue, current), Start(queue, current)
  PROVE  /\ Sound(m, r, pending', saving')
         /\ Waiting(pending') # {} => saving'.result # "idle"
<1>1. CASE /\ pending' = queue /\ saving' = current
           /\ current.result # "idle" \/ Waiting(queue) = {}
  BY <1>1
<1>2. ASSUME current.result = "idle",
             NEW t \in Title, queue[t] # NoBookmark,
             saving' = [title |-> t, bookmark |-> queue[t], result |-> "running"],
             pending' = [queue EXCEPT ![t] = NoBookmark]
      PROVE  /\ Sound(m, r, pending', saving')
             /\ Waiting(pending') # {} => saving'.result # "idle"
  <2>1. /\ saving'.title = t /\ saving'.bookmark = queue[t] /\ saving'.result = "running"
        /\ pending'[t] = NoBookmark
        /\ \A u \in Title : u # t => pending'[u] = queue[u]
    BY <1>2
  <2>2. ASSUME NEW u \in Title PROVE SoundFor(u, m, r, pending', saving')
    <3>1. SoundFor(u, m, r, queue, current) /\ SoundFor(t, m, r, queue, current)
      BY DEF Sound
    <3>2. m[t].at \in Nat /\ queue[t] = m[t]
      BY <1>2, <3>1 DEF SoundFor, Bookmark
    <3>3. CASE u = t
      BY <1>2, <2>1, <3>1, <3>2, <3>3 DEF SoundFor
    <3>4. CASE u # t
      BY <1>2, <2>1, <3>1, <3>4 DEF SoundFor
    <3> QED BY <3>3, <3>4
  <2> QED BY <2>1, <2>2 DEF Sound
<1> QED BY <1>1, <1>2, StartOutcome
-----------------------------------------------------------------------------
(* Where the writer puts a bookmark back.                                    *)

LEMMA RequeuedIsSound ==
  ASSUME IInv, saving.result = "failed"
  PROVE  /\ Requeued \in [Title -> Bookmark]
         /\ \A t \in Title : Requeued[t] # NoBookmark => Requeued[t] = memory[t]
         /\ \A t \in Title : memory[t] # row[t] => Requeued[t] = memory[t]
<1>0. /\ saving \in Saving /\ pending \in [Title -> Bookmark]
      /\ saving.title \in Title /\ saving.bookmark \in Bookmark
  BY DEF IInv, TypeOK, Saving
<1>1. \A t \in Title : SoundFor(t, memory, row, pending, saving)
  BY DEF IInv, Sound
<1>2. CASE saving.title \in Waiting(pending)
  <2>1. Requeued = pending /\ pending[saving.title] # NoBookmark
    BY <1>2 DEF Requeued, Waiting
  <2> QED BY <1>0, <1>1, <2>1 DEF SoundFor
<1>3. CASE saving.title \notin Waiting(pending)
  <2>1. /\ Requeued = [pending EXCEPT ![saving.title] = saving.bookmark]
        /\ pending[saving.title] = NoBookmark
    BY <1>0, <1>3 DEF Requeued, Waiting
  <2>2. saving.bookmark = memory[saving.title]
    BY <1>0, <1>1, <2>1 DEF SoundFor
  <2> QED BY <1>0, <1>1, <2>1, <2>2 DEF SoundFor
<1> QED BY <1>2, <1>3

(* flush() alone brings every row up to date: it does not need saveState.    *)
LEMMA FlushedIsMemory ==
  ASSUME IInv, saving.result # "running"
  PROVE  Flushed = memory
<1> DEFINE queue == IF saving.result = "failed" THEN Requeued ELSE pending
<1>0. /\ memory \in [Title -> Bookmark] /\ row \in [Title -> Bookmark]
      /\ pending \in [Title -> Bookmark] /\ saving \in Saving
  BY DEF IInv, TypeOK, Saving
<1>1. \A t \in Title : SoundFor(t, memory, row, pending, saving)
  BY DEF IInv, Sound
<1>2. \A t \in Title : /\ queue[t] # NoBookmark => queue[t] = memory[t]
                       /\ memory[t] # row[t] => queue[t] = memory[t]
  <2>1. CASE saving.result = "failed"
    BY <2>1, RequeuedIsSound
  <2>2. CASE saving.result # "failed"
    <3>1. saving.result \in {"idle", "saved"}
      BY <1>0, <2>2 DEF Saving
    <3>2. queue = pending
      BY <2>2
    <3> QED BY <1>1, <3>1, <3>2 DEF SoundFor
  <2> QED BY <2>1, <2>2
<1>3. ASSUME NEW t \in Title
      PROVE  (IF t \in Waiting(queue) THEN Upserted(row[t], queue[t]) ELSE row[t])
               = memory[t]
  <2>1. SoundFor(t, memory, row, pending, saving)
    BY <1>1
  <2>2. CASE queue[t] # NoBookmark
    <3>1. queue[t] = memory[t] /\ t \in Waiting(queue)
      BY <1>2, <2>2 DEF Waiting
    <3>2. memory[t].at >= row[t].at
      BY <1>0, <2>1 DEF SoundFor, Bookmark
    <3> QED BY <3>1, <3>2 DEF Upserted
  <2>3. CASE queue[t] = NoBookmark
    <3>1. t \notin Waiting(queue)
      BY <2>3 DEF Waiting
    <3>2. row[t] = memory[t]
      BY <1>2, <2>1, <2>3 DEF SoundFor
    <3> QED BY <3>1, <3>2
  <2> QED BY <2>2, <2>3
<1>4. Flushed = [t \in Title |-> IF t \in Waiting(queue)
                                 THEN Upserted(row[t], queue[t]) ELSE row[t]]
  BY DEF Flushed
<1> QED BY <1>0, <1>3, <1>4
-----------------------------------------------------------------------------
(* Every step preserves the invariant.                                       *)

LEMMA IInvTypes ==
  ASSUME IInv
  PROVE  /\ memory \in [Title -> Bookmark] /\ row \in [Title -> Bookmark]
         /\ pending \in [Title -> Bookmark] /\ saving \in Saving
         /\ retrying \in BOOLEAN /\ now \in Nat
         /\ \A t \in Title : memory[t].at <= now
         /\ \A t \in Title : SoundFor(t, memory, row, pending, saving)
BY DEF IInv, TypeOK, Saving, Sound

LEMMA InitIInv == Init => IInv
<1> SUFFICES ASSUME Init PROVE IInv
  OBVIOUS
<1>1. /\ memory = Nobody /\ row = Nobody /\ pending = Nobody
      /\ saving = Idle /\ retrying = FALSE /\ now = 0
  BY DEF Init
<1>2. \A t \in Title : Nobody[t] = NoBookmark /\ Nobody[t].at = 0
  BY DEF Nobody, NoBookmark
<1>3. TypeOK
  <2>1. \A t \in Title : memory[t].at <= now
    <3> TAKE t \in Title
    <3>1. Nobody[t].at = 0
      BY <1>2
    <3>2. memory[t].at = now /\ now \in Nat
      BY <1>1, <3>1
    <3> QED BY <3>2
  <2> QED BY <1>1, <2>1, BookmarkTypes DEF TypeOK, Saving, Busy
<1>4. Waiting(pending) = {}
  BY <1>1, <1>2 DEF Waiting
<1>5. Sound(memory, row, pending, saving)
  <2>1. \A t \in Title : SoundFor(t, Nobody, Nobody, Nobody, Idle)
    <3> TAKE t \in Title
    <3>1. Nobody[t] = NoBookmark /\ Nobody[t].at <= Nobody[t].at
      BY <1>2
    <3> QED BY <3>1, BookmarkTypes DEF SoundFor
  <2> QED BY <1>1, <2>1 DEF Sound
<1> QED BY <1>3, <1>4, <1>5 DEF IInv, SomebodySaves

(* A new bookmark waits, or is taken in hand at once. *)
LEMMA RememberIInv ==
  ASSUME IInv, NEW t \in Title, NEW p \in Position, Remember(t, p)
  PROVE  IInv'
<1>1. PICK at \in {now, now + 1} \cap (1..MaxTime) :
        /\ now' = at
        /\ memory' = [memory EXCEPT ![t] = [position |-> p, at |-> at]]
        /\ IF retrying
           THEN /\ pending' = [pending EXCEPT ![t] = [position |-> p, at |-> at]]
                /\ UNCHANGED saving
           ELSE Start([pending EXCEPT ![t] = [position |-> p, at |-> at]], saving)
  BY DEF Remember
<1> DEFINE taken == [position |-> p, at |-> at]
           queue == [pending EXCEPT ![t] = taken]
<1>2. row' = row /\ retrying' = retrying
  BY DEF Remember
<1>3. /\ taken \in Bookmark /\ taken # NoBookmark /\ taken.at = at
      /\ at \in Nat /\ now <= at
  BY <1>1, IInvTypes DEF Bookmark, NoBookmark
<1> HIDE DEF taken
<1>4. queue \in [Title -> Bookmark] /\ memory' \in [Title -> Bookmark]
  BY <1>1, <1>3, IInvTypes DEF taken
<1>5. /\ queue[t] = taken /\ memory'[t] = taken
      /\ \A u \in Title : u # t => queue[u] = pending[u] /\ memory'[u] = memory[u]
  BY <1>1, IInvTypes DEF taken
<1>6. \A u \in Title : memory'[u].at <= now'
  <2> TAKE u \in Title
  <2>1. memory[u].at <= now /\ memory[u].at \in Nat
    BY IInvTypes DEF Bookmark
  <2> QED BY <1>1, <1>3, <1>5, <2>1, IInvTypes
<1>7. Sound(memory', row', queue, saving)
  <2>1. ASSUME NEW u \in Title PROVE SoundFor(u, memory', row', queue, saving)
    <3>1. SoundFor(u, memory, row, pending, saving)
      BY IInvTypes
    <3>2. /\ memory[u].at <= now /\ memory[u].at \in Nat /\ row[u].at \in Nat
          /\ saving.bookmark.at \in Nat /\ now \in Nat
      BY IInvTypes DEF Bookmark, Saving
    <3>3. CASE u = t
      BY <1>2, <1>3, <1>5, <3>1, <3>2, <3>3 DEF SoundFor
    <3>4. CASE u # t
      BY <1>2, <1>5, <3>1, <3>4 DEF SoundFor
    <3> QED BY <3>3, <3>4
  <2> QED BY <2>1 DEF Sound
<1>8. CASE retrying
  <2>1. pending' = queue /\ saving' = saving
    BY <1>1, <1>8 DEF taken
  <2>2. TypeOK'
    BY <1>1, <1>2, <1>3, <1>4, <1>6, <2>1, IInvTypes DEF IInv, TypeOK, Saving, Busy
  <2> QED BY <1>2, <1>7, <1>8, <2>1, <2>2 DEF IInv, SomebodySaves
<1>9. CASE ~retrying
  <2>1. Start(queue, saving)
    BY <1>1, <1>9 DEF taken
  <2>2. pending' \in [Title -> Bookmark] /\ saving' \in Saving
    BY <1>4, <2>1, IInvTypes, StartKeepsType
  <2>3. /\ Sound(memory', row', pending', saving')
        /\ Waiting(pending') # {} => saving'.result # "idle"
    BY <1>2, <1>4, <1>7, <2>1, IInvTypes, StartKeepsSound
  <2>4. TypeOK'
    BY <1>1, <1>2, <1>3, <1>4, <1>6, <1>9, <2>2, IInvTypes DEF TypeOK, Saving, Busy
  <2> QED BY <2>3, <2>4 DEF IInv, SomebodySaves, Busy, Waiting
<1> QED BY <1>8, <1>9, IInvTypes

(* The writer goes on with the next bookmark: after a save, or after the      *)
(* timer.                                                                     *)
LEMMA StartIInv ==
  ASSUME IInv, NEW current \in Saving,
         Sound(memory, row, pending, current), Start(pending, current),
         UNCHANGED <<memory, row, now>>, retrying' = FALSE
  PROVE  IInv'
<1>1. pending' \in [Title -> Bookmark] /\ saving' \in Saving
  BY IInvTypes, StartKeepsType
<1>2. /\ Sound(memory, row, pending', saving')
      /\ Waiting(pending') # {} => saving'.result # "idle"
  BY IInvTypes, StartKeepsSound
<1>3. TypeOK'
  BY <1>1, IInvTypes DEF TypeOK, Saving, Busy
<1> QED BY <1>2, <1>3 DEF IInv, SomebodySaves, Busy, Waiting

LEMMA SaveFinishedIInv ==
  ASSUME IInv, SaveFinished
  PROVE  IInv'
<1>1. /\ saving.result = "saved" /\ Start(pending, Idle)
      /\ UNCHANGED <<memory, row, retrying, now>>
  BY DEF SaveFinished
<1>2. retrying = FALSE
  BY <1>1 DEF IInv, TypeOK, Busy
<1>3. Sound(memory, row, pending, Idle)
  BY <1>1, IInvTypes, BookmarkTypes DEF Sound, SoundFor
<1> QED BY <1>1, <1>2, <1>3, BookmarkTypes, StartIInv

LEMMA RetryIInv ==
  ASSUME IInv, Retry
  PROVE  IInv'
<1>1. /\ retrying' = FALSE /\ Start(pending, saving)
      /\ UNCHANGED <<memory, row, now>>
  BY DEF Retry
<1> QED BY <1>1, IInvTypes, StartIInv DEF IInv

LEMMA SaveDeferredIInv ==
  ASSUME IInv, SaveDeferred
  PROVE  IInv'
<1>1. /\ saving.result = "failed" /\ pending' = Requeued
      /\ saving' = Idle /\ retrying' = TRUE
      /\ memory' = memory /\ row' = row /\ now' = now
  BY DEF SaveDeferred
<1>2. TypeOK'
  BY <1>1, IInvTypes, RequeuedIsSound, BookmarkTypes DEF TypeOK, Saving, Busy
<1>3. Sound(memory, row, Requeued, Idle)
  BY <1>1, IInvTypes, RequeuedIsSound, BookmarkTypes DEF Sound, SoundFor
<1> QED BY <1>1, <1>2, <1>3 DEF IInv, SomebodySaves

LEMMA SaveStateIInv ==
  ASSUME IInv, SaveState
  PROVE  IInv'
<1>1. /\ row' = memory /\ memory' = memory /\ pending' = pending
      /\ saving' = saving /\ retrying' = retrying /\ now' = now
  BY DEF SaveState
<1>2. TypeOK'
  BY <1>1, IInvTypes DEF IInv, TypeOK, Busy
<1>3. \A t \in Title : memory[t].at \in Nat
  BY IInvTypes DEF Bookmark
<1>4. Sound(memory, memory, pending, saving)
  <2>1. ASSUME NEW t \in Title PROVE SoundFor(t, memory, memory, pending, saving)
    <3>1. SoundFor(t, memory, row, pending, saving) /\ memory[t].at <= memory[t].at
      BY <1>3, IInvTypes
    <3> QED BY <3>1 DEF SoundFor
  <2> QED BY <2>1 DEF Sound
<1> QED BY <1>1, <1>2, <1>4 DEF IInv, SomebodySaves, Busy, Waiting

(* A write that succeeds: with nothing waiting the row catches up, otherwise  *)
(* what waits is still to come.                                               *)
LEMMA WrittenIInv ==
  ASSUME IInv, Written
  PROVE  IInv'
<1> DEFINE t == saving.title
<1>1. /\ saving.result = "running"
      /\ row' = [row EXCEPT ![t] = Upserted(@, saving.bookmark)]
      /\ saving' = [saving EXCEPT !.result = "saved"]
      /\ memory' = memory /\ pending' = pending /\ retrying' = retrying /\ now' = now
  BY DEF Written
<1>2. /\ t \in Title /\ saving.bookmark \in Bookmark
      /\ saving'.title = t /\ saving'.bookmark = saving.bookmark
      /\ saving'.result = "saved" /\ saving' \in Saving
  BY <1>1, IInvTypes DEF Saving
<1>3. /\ row'[t] = Upserted(row[t], saving.bookmark)
      /\ \A u \in Title : u # t => row'[u] = row[u]
  BY <1>1, <1>2, IInvTypes
<1>4. row' \in [Title -> Bookmark]
  BY <1>1, <1>2, IInvTypes DEF Upserted
<1>5. TypeOK'
  BY <1>1, <1>2, <1>4, IInvTypes DEF IInv, TypeOK, Busy, Saving
<1>6. ASSUME NEW u \in Title PROVE SoundFor(u, memory, row', pending, saving')
  <2>1. /\ SoundFor(u, memory, row, pending, saving)
        /\ memory[u].at \in Nat /\ row[u].at \in Nat /\ saving.bookmark.at \in Nat
    BY <1>2, IInvTypes DEF Bookmark
  <2>2. CASE u = t
    BY <1>1, <1>2, <1>3, <2>1, <2>2 DEF SoundFor, Upserted
  <2>3. CASE u # t
    BY <1>1, <1>2, <1>3, <2>1, <2>3 DEF SoundFor
  <2> QED BY <2>2, <2>3
<1>7. Sound(memory, row', pending, saving')
  BY <1>6 DEF Sound
<1> QED BY <1>1, <1>2, <1>5, <1>7 DEF IInv, SomebodySaves, Busy, Waiting

LEMMA WriteFailedIInv ==
  ASSUME IInv, WriteFailed
  PROVE  IInv'
<1>1. /\ saving.result = "running"
      /\ saving' = [saving EXCEPT !.result = "failed"]
      /\ memory' = memory /\ row' = row /\ pending' = pending
      /\ retrying' = retrying /\ now' = now
  BY DEF WriteFailed
<1>2. /\ saving'.title = saving.title /\ saving'.bookmark = saving.bookmark
      /\ saving'.result = "failed" /\ saving' \in Saving
  BY <1>1, IInvTypes DEF Saving
<1>3. TypeOK'
  BY <1>1, <1>2, IInvTypes DEF IInv, TypeOK, Busy, Saving
<1>4. Sound(memory, row, pending, saving')
  BY <1>1, <1>2, IInvTypes DEF Sound, SoundFor
<1> QED BY <1>1, <1>2, <1>3, <1>4 DEF IInv, SomebodySaves, Busy, Waiting

(* After the process has ended, the player remembers what the rows say. *)
LEMMA ForgetIInv ==
  ASSUME IInv, row' \in [Title -> Bookmark],
         \A t \in Title : row'[t].at <= now, Forget
  PROVE  IInv'
<1>1. /\ memory' = row' /\ pending' = Nobody /\ saving' = Idle
      /\ retrying' = FALSE /\ now' = now
  BY DEF Forget
<1>2. \A t \in Title : Nobody[t] = NoBookmark
  BY DEF Nobody
<1>3. TypeOK'
  BY <1>1, IInvTypes, BookmarkTypes DEF TypeOK, Saving, Busy
<1>4. \A t \in Title : row'[t].at \in Nat
  BY DEF Bookmark
<1>5. Sound(row', row', Nobody, Idle)
  BY <1>2, <1>4, BookmarkTypes DEF Sound, SoundFor
<1>6. Waiting(Nobody) = {}
  BY <1>2 DEF Waiting
<1> QED BY <1>1, <1>3, <1>5, <1>6 DEF IInv, SomebodySaves, Waiting

LEMMA RestartIInv ==
  ASSUME IInv, Restart
  PROVE  IInv' /\ memory' = memory /\ row' = memory
<1>1. row' = memory /\ Forget
  BY FlushedIsMemory DEF Restart
<1> QED BY <1>1, IInvTypes, ForgetIInv DEF Forget

LEMMA CrashIInv ==
  ASSUME IInv, Crash
  PROVE  IInv'
<1>1. row' = row /\ Forget
  BY DEF Crash
<1>2. \A t \in Title : row[t].at <= now
  <2> TAKE t \in Title
  <2>1. /\ SoundFor(t, memory, row, pending, saving) /\ memory[t].at <= now
        /\ row[t].at \in Nat /\ memory[t].at \in Nat /\ now \in Nat
    BY IInvTypes DEF Bookmark
  <2> QED BY <2>1 DEF SoundFor
<1> QED BY <1>1, <1>2, IInvTypes, ForgetIInv

LEMMA NextIInv == IInv /\ [PlayerNext]_vars => IInv'
<1> SUFFICES ASSUME IInv, [PlayerNext]_vars PROVE IInv'
  OBVIOUS
<1>1. ASSUME NEW t \in Title, NEW p \in Position, Remember(t, p) PROVE IInv'
  BY <1>1, RememberIInv
<1>2. CASE SaveFinished
  BY <1>2, SaveFinishedIInv
<1>3. CASE SaveDeferred
  BY <1>3, SaveDeferredIInv
<1>4. CASE Retry
  BY <1>4, RetryIInv
<1>5. CASE SaveState
  BY <1>5, SaveStateIInv
<1>6. CASE Written
  BY <1>6, WrittenIInv
<1>7. CASE WriteFailed
  BY <1>7, WriteFailedIInv
<1>8. CASE Restart
  BY <1>8, RestartIInv
<1>9. CASE Crash
  BY <1>9, CrashIInv
<1>10. CASE UNCHANGED vars
  BY <1>10 DEF vars, IInv, TypeOK, SomebodySaves, Busy, Waiting
<1> QED BY <1>1, <1>2, <1>3, <1>4, <1>5, <1>6, <1>7, <1>8, <1>9, <1>10 DEF PlayerNext

LEMMA WriterIInv == Spec => []IInv
BY InitIInv, NextIInv, PTL DEF Spec
-----------------------------------------------------------------------------
(* The player, the rows and the writer always hold values of their types, and *)
(* the retry timer never runs beside a save (MyTvResumeWriter.cpp:12-21).     *)
THEOREM WriterTypeCorrect == Spec => []TypeOK
<1>1. IInv => TypeOK
  BY DEF IInv
<1> QED BY <1>1, WriterIInv, PTL

(* The last bookmark of a title is in its row or in the writer's hands,       *)
(* whatever fails in between (MyTvResumeWriter.cpp:17, :37).                  *)
THEOREM WriterKeepsLastBookmark == Spec => []LastBookmarkIsKept
<1>1. IInv => LastBookmarkIsKept
  BY DEF IInv, Sound, SoundFor, LastBookmarkIsKept, InHand, Busy
<1> QED BY <1>1, WriterIInv, PTL

(* No bookmark waits without a write or a timer to come back for it. *)
THEOREM WriterNeverSleepsOnWork == Spec => []SomebodySaves
<1>1. IInv => SomebodySaves
  BY DEF IInv
<1> QED BY <1>1, WriterIInv, PTL

(* An orderly restart forgets no bookmark, although only one of its two saves *)
(* succeeds (MyTvResumeWriter.cpp:52-66, TvController.cpp:128-132).           *)
THEOREM RestartForgetsNothing == Spec => RestartKeepsBookmarks
<1>1. IInv /\ [PlayerNext]_vars => [Restart => memory' = memory]_vars
  BY RestartIInv
<1> QED BY <1>1, WriterIInv, PTL DEF Spec, RestartKeepsBookmarks

(* No step brings back an older row (StateDatabase.cpp:162).                 *)
THEOREM RowsNeverGoBack == Spec => BookmarkNeverGoesBack
<1>1. IInv /\ [PlayerNext]_vars => [\A t \in Title : row'[t].at >= row[t].at]_vars
  <2> SUFFICES ASSUME IInv, PlayerNext
               PROVE  \A t \in Title : row'[t].at >= row[t].at
    OBVIOUS
  <2>0. \A t \in Title : row[t].at \in Nat /\ memory[t].at \in Nat /\ row[t].at <= memory[t].at
    BY IInvTypes DEF Bookmark, SoundFor
  <2>1. CASE row' = row
    BY <2>0, <2>1
  <2>2. CASE row' = memory
    BY <2>0, <2>2
  <2>3. CASE Written
    <3> TAKE t \in Title
    <3>1. row'[t] \in {row[t], Upserted(row[t], saving.bookmark)}
      BY <2>3, IInvTypes DEF Written
    <3>2. saving.bookmark.at \in Nat
      BY IInvTypes DEF Saving, Bookmark
    <3> QED BY <2>0, <3>1, <3>2 DEF Upserted
  <2>4. CASE Restart
    BY <2>2, <2>4, RestartIInv
  <2> QED BY <2>1, <2>2, <2>3, <2>4
          DEF PlayerNext, Remember, SaveFinished, SaveDeferred, Retry, SaveState,
              WriteFailed, Crash
<1> QED BY <1>1, WriterIInv, PTL DEF Spec, BookmarkNeverGoesBack

(* ------------------------------------------------------------------------ *)
(* The channel timeline.                                                      *)

(* Every non-empty set of naturals has a least element. *)
LEMMA LeastOf ==
  ASSUME NEW T \in SUBSET Nat, T # {}
  PROVE  \E n \in T : \A m \in T : n <= m
<1> DEFINE Less == {ss \in Nat \X Nat : ss[1] < ss[2]}
<1>1. IsWellFoundedOn(Less, Nat)
  BY NatLessThanWellFounded, Zenon DEF OpToRel
<1>2. \A R, S, U : IsWellFoundedOn(R, S) /\ U \subseteq S /\ U # {} =>
        \E x \in U : \A y \in U : <<y, x>> \notin R
  BY WFMin
<1>3. PICK n \in T : \A m \in T : <<m, n>> \notin Less
  <2> HIDE DEF Less
  <2> QED BY <1>1, <1>2, Zenon
<1>4. ASSUME NEW m \in T PROVE n <= m
  <2>1. m \in Nat /\ n \in Nat /\ <<m, n>> \notin Less
    BY <1>3
  <2>2. <<m, n>> \in Nat \X Nat /\ <<m, n>>[1] = m /\ <<m, n>>[2] = n
    BY <2>1
  <2>3. ~(m < n)
    BY <2>1, <2>2
  <2> QED BY <2>1, <2>3
<1> QED BY <1>4

(* Induction, of a set: tlapm cannot instantiate the library's theorem about  *)
(* a predicate.                                                               *)
LEMMA SetInduction ==
  ASSUME NEW S, 0 \in S, \A n \in Nat : n \in S => n + 1 \in S
  PROVE  Nat \subseteq S
<1> SUFFICES ASSUME Nat \ S # {} PROVE FALSE
  OBVIOUS
<1>1. PICK n \in Nat \ S : \A m \in Nat \ S : n <= m
  BY LeastOf
<1>2. n # 0 /\ n - 1 \in Nat
  BY <1>1
<1>3. n - 1 \in S
  BY <1>1, <1>2
<1> QED BY <1>1, <1>2, <1>3

(* The runs of a recursion over 0..n: the k-th value is step[<<the one before, k>>]. *)
Runs(n, S, base, step) ==
  {f \in [0..n -> S] : f[0] = base /\ \A k \in 1..n : f[k] = step[<<f[k - 1], k>>]}

(* A recursive function over 0..n that stays in S exists.                     *)
LEMMA RecursionExists ==
  ASSUME NEW n \in Nat, NEW S, NEW base \in S, NEW step, \A x \in S, k \in Nat : step[<<x, k>>] \in S
  PROVE  Runs(n, S, base, step) # {}
<1> DEFINE Ns == {m \in Nat : Runs(m, S, base, step) # {}}
<1>1. 0 \in Ns
  <2> DEFINE f == [k \in 0..0 |-> base]
  <2>1. f \in [0..0 -> S] /\ f[0] = base
    OBVIOUS
  <2> HIDE DEF f
  <2>2. f \in Runs(0, S, base, step)
    BY <2>1 DEF Runs
  <2> QED BY <2>2
<1>2. ASSUME NEW m \in Nat, m \in Ns PROVE m + 1 \in Ns
  <2>1. PICK f \in [0..m -> S] : f[0] = base /\ \A k \in 1..m : f[k] = step[<<f[k - 1], k>>]
    BY <1>2 DEF Runs
  <2> DEFINE last == step[<<f[m], m + 1>>]
             g == [k \in 0..(m + 1) |-> IF k = m + 1 THEN last ELSE f[k]]
  <2>2. f[m] \in S /\ last \in S
    BY m \in 0..m, m + 1 \in Nat
  <2>3. g \in [0..(m + 1) -> S]
    BY <2>2
  <2>4. g[0] = base
    BY <2>1
  <2>5. ASSUME NEW k \in 1..(m + 1) PROVE g[k] = step[<<g[k - 1], k>>]
    <3>1. CASE k = m + 1
      <4>1. g[k] = last /\ g[k - 1] = f[m]
        BY <3>1
      <4> QED BY <3>1, <4>1
    <3>2. CASE k # m + 1
      BY <3>2, <2>1
    <3> QED BY <3>1, <3>2
  <2> HIDE DEF g
  <2>6. g \in Runs(m + 1, S, base, step)
    BY <2>3, <2>4, <2>5 DEF Runs
  <2> QED BY <2>6
<1> HIDE DEF Ns
<1>3. Nat \subseteq Ns
  BY <1>1, <1>2, SetInduction
<1> QED BY <1>3 DEF Ns

LEMMA LeastIsMin ==
  ASSUME NEW T \in SUBSET Nat, T # {}
  PROVE  Min(T) \in T /\ \A m \in T : Min(T) <= m
BY LeastOf DEF Min

LEMMA MinOfTwo ==
  ASSUME NEW a \in Int, NEW b \in Int
  PROVE  Min({a, b}) = IF a <= b THEN a ELSE b
<1>1. \E x \in {a, b} : \A y \in {a, b} : x <= y
  OBVIOUS
<1>2. Min({a, b}) \in {a, b} /\ \A y \in {a, b} : Min({a, b}) <= y
  BY <1>1 DEF Min
<1> QED BY <1>2

USE ItemCountAssumption, ConstantsAssumption

LEMMA DurationIsNat == \A i \in Items : Duration[i] \in Nat
BY DEF Items

(* The loop that adds up lengths comes to a natural number. *)
LEMMA TotalIsNat ==
  ASSUME NEW programmes
  PROVE  TotalDuration(programmes) \in Nat
<1> DEFINE length == [k \in Nat |-> IF k - 1 \in programmes /\ k - 1 \in Items THEN Duration[k - 1] ELSE 0]
           step == [p \in Nat \X Nat |-> p[1] + length[p[2]]]
           sum[k \in 0..ItemCount] ==
             IF k = 0 THEN 0 ELSE sum[k - 1] + IF k - 1 \in programmes THEN Duration[k - 1] ELSE 0
<1>1. TotalDuration(programmes) = sum[ItemCount]
  BY DEF TotalDuration
<1>2. length \in [Nat -> Nat]
  BY DurationIsNat
<1>3. \A x \in Nat, k \in Nat : step[<<x, k>>] \in Nat
  <2> HIDE DEF length
  <2> QED BY <1>2
<1>4. PICK f \in [0..ItemCount -> Nat] : f[0] = 0 /\ \A k \in 1..ItemCount : f[k] = step[<<f[k - 1], k>>]
  <2> HIDE DEF step
  <2>1. Runs(ItemCount, Nat, 0, step) # {}
    BY <1>3, RecursionExists, 0 \in Nat
  <2> QED BY <2>1 DEF Runs
<1>5. ASSUME NEW k \in 0..ItemCount, k # 0
      PROVE  step[<<f[k - 1], k>>] = f[k - 1] + IF k - 1 \in programmes THEN Duration[k - 1] ELSE 0
  <2>1. <<f[k - 1], k>> \in Nat \X Nat /\ k - 1 \in Items
    BY <1>5 DEF Items
  <2> QED BY <2>1
<1>6. f = [k \in 0..ItemCount |->
             IF k = 0 THEN 0 ELSE f[k - 1] + IF k - 1 \in programmes THEN Duration[k - 1] ELSE 0]
  <2> HIDE DEF step
  <2>1. ASSUME NEW k \in 0..ItemCount
        PROVE  f[k] = IF k = 0 THEN 0 ELSE f[k - 1] + IF k - 1 \in programmes THEN Duration[k - 1] ELSE 0
    <3>1. CASE k = 0
      BY <1>4, <3>1
    <3>2. CASE k # 0
      <4>1. k \in 1..ItemCount
        BY <3>2
      <4> QED BY <1>4, <1>5, <3>2, <4>1
    <3> QED BY <3>1, <3>2
  <2> QED BY <2>1
<1>7. sum = [k \in 0..ItemCount |->
             IF k = 0 THEN 0 ELSE sum[k - 1] + IF k - 1 \in programmes THEN Duration[k - 1] ELSE 0]
  BY <1>6
<1> DEFINE Ns == {k \in Nat : k <= ItemCount => sum[k] \in Nat}
<1> HIDE DEF sum
<1>8. 0 \in Ns
  BY <1>7
<1>9. ASSUME NEW k \in Nat, k \in Ns PROVE k + 1 \in Ns
  <2> SUFFICES ASSUME k + 1 <= ItemCount PROVE sum[k + 1] \in Nat
    OBVIOUS
  <2>1. sum[k] \in Nat /\ k \in Items /\ k + 1 \in 0..ItemCount
    BY <1>9 DEF Items
  <2>2. sum[k + 1] = sum[k] + IF k \in programmes THEN Duration[k] ELSE 0
    BY <1>7, <2>1
  <2> QED BY <2>1, <2>2, DurationIsNat
<1> HIDE DEF Ns
<1>10. Nat \subseteq Ns
  BY <1>8, <1>9, SetInduction
<1> QED BY <1>1, <1>10 DEF Ns

-----------------------------------------------------------------------------
LEMMA ItemsFinite ==
  /\ IsFiniteSet(Items) /\ Cardinality(Items) = ItemCount
  /\ \A S \in SUBSET Items : IsFiniteSet(S)
<1>1. IsFiniteSet(0..(ItemCount - 1)) /\ Cardinality(0..(ItemCount - 1)) = ItemCount
  BY FS_Interval, 0 \in Int, ItemCount - 1 \in Int
<1>2. IsFiniteSet(Items) /\ Cardinality(Items) = ItemCount
  BY <1>1 DEF Items
<1> QED BY <1>2, FS_Subset

LEMMA UsableAreItems == \A r : Usable(r) \in SUBSET Items /\ (\A i : IsUsable(r, i) <=> i \in Usable(r))
BY DEF Usable, IsUsable

LEMMA NothingIsNoItem == Nothing \notin Items /\ Nothing \in Int /\ \A r : Nothing \notin Usable(r)
BY DEF Nothing, Items, Usable

(* The searches in filename order find a usable programme, or nothing.        *)
LEMMA SearchesFindUsable ==
  ASSUME NEW r, NEW from
  PROVE  /\ NextUsable(r, from) \in Usable(r) \cup {Nothing}
         /\ PreviousUsable(r, from) \in Usable(r) \cup {Nothing}
<1>1. NextUsable(r, from) \in Usable(r) \cup {Nothing}
  <2> DEFINE after(k) == (from + k) % ItemCount
             steps == {k \in 1..ItemCount : IsUsable(r, after(k))}
  <2>1. NextUsable(r, from) = IF steps = {} THEN Nothing ELSE after(Min(steps))
    BY DEF NextUsable
  <2>2. steps \in SUBSET Nat /\ \A k \in steps : after(k) \in Usable(r)
    BY UsableAreItems
  <2> HIDE DEF steps, after
  <2>3. steps # {} => Min(steps) \in steps
    BY <2>2, LeastIsMin
  <2> QED BY <2>1, <2>2, <2>3
<1>2. PreviousUsable(r, from) \in Usable(r) \cup {Nothing}
  <2> DEFINE before(k) == (from - k + ItemCount) % ItemCount
             steps == {k \in 1..ItemCount : IsUsable(r, before(k))}
  <2>1. PreviousUsable(r, from) = IF steps = {} THEN Nothing ELSE before(Min(steps))
    BY DEF PreviousUsable
  <2>2. steps \in SUBSET Nat /\ \A k \in steps : before(k) \in Usable(r)
    BY UsableAreItems
  <2> HIDE DEF steps, before
  <2>3. steps # {} => Min(steps) \in steps
    BY <2>2, LeastIsMin
  <2> QED BY <2>1, <2>2, <2>3
<1> QED BY <1>1, <1>2

LEMMA AdjacentIsUsable ==
  ASSUME NEW r, NEW direction
  PROVE  AdjacentUsable(r, direction) \in Usable(r) \cup {Nothing}
BY SearchesFindUsable DEF AdjacentUsable

(* Going round the channel passes every programme.                            *)
LEMMA NextPassesAll ==
  ASSUME NEW from \in Items \cup {Nothing}, NEW i \in Items
  PROVE  \E k \in 1..ItemCount : (from + k) % ItemCount = i
<1>1. from \in -1..(ItemCount - 1) /\ i \in 0..(ItemCount - 1) /\ ItemCount > 0
  BY DEF Items, Nothing
<1>2. CASE i > from
  <2>1. i - from \in 1..ItemCount /\ from + (i - from) = i
    BY <1>1, <1>2
  <2>2. i % ItemCount = i
    BY <1>1
  <2> QED BY <2>1, <2>2
<1>3. CASE i <= from
  <2>1. i - from + ItemCount \in 1..ItemCount /\ from + (i - from + ItemCount) = i + ItemCount
    BY <1>1, <1>3
  <2>2. (i + ItemCount) % ItemCount = i
    BY <1>1
  <2> QED BY <2>1, <2>2
<1> QED BY <1>1, <1>2, <1>3

LEMMA NextFinds ==
  ASSUME NEW r, NEW from \in Items \cup {Nothing}, NextUsable(r, from) = Nothing
  PROVE  Usable(r) = {}
<1> SUFFICES ASSUME NEW i \in Usable(r) PROVE FALSE
  OBVIOUS
<1> DEFINE after(k) == (from + k) % ItemCount
           steps == {k \in 1..ItemCount : IsUsable(r, after(k))}
<1>1. NextUsable(r, from) = IF steps = {} THEN Nothing ELSE after(Min(steps))
  BY DEF NextUsable
<1>2. PICK k \in 1..ItemCount : after(k) = i
  BY NextPassesAll, UsableAreItems
<1>3. k \in steps
  BY <1>2, UsableAreItems
<1>4. steps \in SUBSET Nat /\ \A l \in steps : after(l) \in Usable(r)
  BY UsableAreItems
<1> HIDE DEF steps, after
<1>5. after(Min(steps)) \in Usable(r)
  BY <1>3, <1>4, LeastIsMin
<1> QED BY <1>1, <1>3, <1>5, NothingIsNoItem

-----------------------------------------------------------------------------
Bags == {b \in [remaining : Seq(Items), last : Items \cup {Nothing}] : IsBag(b)}

(* What a shuffled channel may run past: at most half of its programmes.      *)
Outnumbered(usable) == ItemCount > 2 /\ Cardinality(usable) <= Cardinality(Items \ usable)

LEMMA BagFits ==
  ASSUME NEW b \in Bags
  PROVE  Len(b.remaining) \in 0..ItemCount
<1> DEFINE rest == b.remaining
<1>1. /\ rest \in Seq(Items) /\ Len(rest) \in Nat
      /\ \A i, j \in 1..Len(rest) : i # j => rest[i] # rest[j]
  BY LenProperties DEF Bags, IsBag
<1> HIDE DEF rest
<1>2. rest \in Injection(1..Len(rest), Items)
  <2>1. rest \in [1..Len(rest) -> Items]
    BY <1>1, LenProperties
  <2> QED BY <1>1, <2>1 DEF Injection, IsInjective
<1>3. Cardinality(1..Len(rest)) <= Cardinality(Items)
  BY <1>2, ItemsFinite, FS_Injection
<1>4. Cardinality(1..Len(rest)) = Len(rest)
  <2>1. Cardinality(1..Len(rest)) = IF 1 > Len(rest) THEN 0 ELSE Len(rest) - 1 + 1
    BY <1>1, FS_Interval
  <2> QED BY <1>1, <2>1
<1>5. Len(rest) \in 0..ItemCount
  BY <1>1, <1>3, <1>4, ItemsFinite
<1> QED BY <1>5 DEF rest

LEMMA DrawnGivesBag ==
  ASSUME NEW order \in Seq(Items), NEW i \in 1..Len(order),
         \A k, l \in 1..Len(order) : k # l => order[k] # order[l]
  PROVE  Drawn(order, i).item = order[i] /\ Drawn(order, i).bag \in Bags
<1>1. Drawn(order, i).item = order[i] /\ order[i] \in Items /\ IsBag(Drawn(order, i).bag)
  BY DrawnIsBag
<1>2. Drawn(order, i).bag = [remaining |-> SubSeq(order, 1, i - 1), last |-> order[i]]
  BY DEF Drawn
<1>3. SubSeq(order, 1, i - 1) \in Seq(Items)
  BY <1>1, <1>2 DEF IsBag
<1> QED BY <1>1, <1>2, <1>3 DEF Bags

(* The rest of a refill that was drawn from in vain is a bag.                 *)
LEMMA RestIsBag ==
  ASSUME NEW order \in Seq(Items), NEW left \in Nat, left < Len(order),
         \A k, l \in 1..Len(order) : k # l => order[k] # order[l]
  PROVE  [remaining |-> SubSeq(order, 1, left), last |-> order[left + 1]] \in Bags
<1>1. left + 1 \in 1..Len(order) /\ (left + 1) - 1 = left
  BY LenProperties
<1>2. Drawn(order, left + 1).bag \in Bags
  BY <1>1, DrawnGivesBag
<1>3. Drawn(order, left + 1).bag = [remaining |-> SubSeq(order, 1, left), last |-> order[left + 1]]
  BY <1>1 DEF Drawn
<1> QED BY <1>2, <1>3

LEMMA LastUsableIsUsable ==
  ASSUME NEW order \in Seq(Items), NEW from \in Nat \ {0}, NEW usable
  PROVE  /\ \A i \in LastUsable(order, from, usable) : i \in 1..Len(order) /\ order[i] \in usable
         /\ LastUsable(order, from, usable) = {} => \A i \in from..Len(order) : order[i] \notin usable
<1>1. Len(order) \in Nat
  BY LenProperties
<1>2. \A i \in LastUsable(order, from, usable) : i \in 1..Len(order) /\ order[i] \in usable
  BY <1>1 DEF LastUsable
<1>3. ASSUME NEW i \in from..Len(order), order[i] \in usable
      PROVE  LastUsable(order, from, usable) # {}
  <2> DEFINE below == {n \in Nat : Len(order) - n \in from..Len(order) /\ order[Len(order) - n] \in usable}
  <2>1. Len(order) - i \in below
    BY <1>1, <1>3
  <2>2. PICK n \in below : \A m \in below : n <= m
    BY <2>1, LeastOf
  <2>3. Len(order) - n \in from..Len(order) /\ order[Len(order) - n] \in usable
    BY <2>2
  <2>4. ASSUME NEW j \in (Len(order) - n + 1)..Len(order), order[j] \in usable PROVE FALSE
    <3>1. Len(order) - j \in Nat /\ Len(order) - j < n /\ j \in from..Len(order)
      BY <1>1, <2>3
    <3>2. Len(order) - (Len(order) - j) = j
      BY <1>1
    <3>3. Len(order) - j \in below
      BY <2>4, <3>1, <3>2
    <3>4. n \in Nat
      BY <2>2
    <3> HIDE DEF below
    <3>5. n <= Len(order) - j
      BY <2>2, <3>3
    <3> QED BY <3>1, <3>4, <3>5
  <2> QED BY <2>3, <2>4 DEF LastUsable
<1> QED BY <1>2, <1>3

(* A refill whose part within reach has nothing usable, after a bag that had  *)
(* nothing usable either: for each programme left behind, one of the bag's is lost. *)
LEMMA MissedAreOutnumbered ==
  ASSUME NEW b \in Bags, NEW usable \in SUBSET Items, usable # {},
         NEW left, left = Len(b.remaining), left < ItemCount,
         \A i \in 1..left : b.remaining[i] \notin usable,
         NEW order \in Refills(IF left > 0 THEN b.remaining[1] ELSE b.last),
         \A i \in (left + 1)..ItemCount : order[i] \notin usable
  PROVE  Outnumbered(usable)
<1> DEFINE rest == b.remaining
<1>1. /\ order \in Shuffles /\ order \in [1..ItemCount -> Items]
      /\ ItemCount > 1 => order[ItemCount] # (IF left > 0 THEN rest[1] ELSE b.last)
  BY RefillIsShuffle DEF Shuffles
<1>2. /\ rest \in [1..left -> Items] /\ left \in Nat
      /\ \A i, j \in 1..left : i # j => rest[i] # rest[j]
  BY LenProperties DEF Bags, IsBag
<1> HIDE DEF rest
<1>3. \A u \in usable : \E p \in 1..left : order[p] = u
  <2> TAKE u \in usable
  <2>1. PICK p \in 1..ItemCount : order[p] = u
    BY <1>1, ShuffleIsWhole
  <2>2. p \notin (left + 1)..ItemCount
    BY <2>1
  <2> QED BY <1>2, <2>1, <2>2
<1>4. ItemCount > 2
  <2>1. PICK u \in usable : TRUE
    OBVIOUS
  <2>2. left > 0 /\ ItemCount > 1
    BY <1>2, <1>3, <2>1
  <2>3. rest[1] \in Items \ usable /\ order[ItemCount] \in Items \ usable /\ order[ItemCount] # rest[1]
    BY <1>1, <1>2, <2>2 DEF rest
  <2>4. u \in Items /\ u # rest[1] /\ u # order[ItemCount]
    BY <2>1, <2>3
  <2>5. ItemCount # 2
    <3> SUFFICES ASSUME ItemCount = 2 PROVE FALSE
      OBVIOUS
    <3>1. u \in 0..1 /\ rest[1] \in 0..1 /\ order[ItemCount] \in 0..1
      BY <2>3, <2>4 DEF Items
    <3> QED BY <2>3, <2>4, <3>1
  <2> QED BY <2>2, <2>5
<1> DEFINE place == [u \in usable |-> CHOOSE p \in 1..left : order[p] = u]
           lost == [u \in usable |-> rest[place[u]]]
<1>5. \A u \in usable : place[u] \in 1..left /\ order[place[u]] = u
  BY <1>3
<1> HIDE DEF place
<1>6. lost \in [usable -> Items \ usable]
  BY <1>2, <1>5 DEF rest
<1>7. \A u, v \in usable : lost[u] = lost[v] => u = v
  BY <1>2, <1>5
<1>8. lost \in Injection(usable, Items \ usable)
  BY <1>6, <1>7 DEF Injection, IsInjective
<1>9. IsFiniteSet(Items \ usable)
  BY ItemsFinite
<1>10. Cardinality(usable) <= Cardinality(Items \ usable)
  <2> HIDE DEF lost
  <2> QED BY <1>8, <1>9, FS_Injection
<1> QED BY <1>4, <1>10 DEF Outnumbered

(* Drawing until something is usable finds it, or all there is can be missed. *)
LEMMA TakesUsable ==
  ASSUME NEW b \in Bags, NEW usable \in SUBSET Items, NEW t \in TakeUntil(b, usable)
  PROVE  /\ t.bag \in Bags /\ t.item \in usable \cup {Nothing}
         /\ t.item = Nothing => usable = {} \/ Outnumbered(usable)
<1> DEFINE left == Len(b.remaining)
           emptied == IF left > 0 THEN b.remaining[1] ELSE b.last
           here == LastUsable(b.remaining, 1, usable)
<1>1. /\ left \in 0..ItemCount /\ b.remaining \in Seq(Items) /\ b.last \in Items \cup {Nothing}
      /\ \A i, j \in 1..left : i # j => b.remaining[i] # b.remaining[j]
  BY BagFits DEF Bags, IsBag
<1>2. /\ \A i \in here : i \in 1..left /\ b.remaining[i] \in usable
      /\ here = {} => \A i \in 1..left : b.remaining[i] \notin usable
  <2>1. 1 \in Nat \ {0} /\ \A i \in 1..left : i \in 1..Len(b.remaining)
    OBVIOUS
  <2> QED BY <1>1, <2>1, LastUsableIsUsable
<1>3. Nothing \notin usable
  BY NothingIsNoItem
<1>4. CASE here # {}
  <2>1. PICK i \in here : t = Drawn(b.remaining, i)
    BY <1>4 DEF TakeUntil
  <2>2. t.item = b.remaining[i] /\ t.bag \in Bags
    BY <1>1, <1>2, <2>1, DrawnGivesBag
  <2> QED BY <1>2, <1>3, <2>1, <2>2
<1>5. CASE here = {} /\ left = ItemCount
  <2>1. t = [item |-> Nothing, bag |-> [remaining |-> <<>>, last |-> emptied]]
    BY <1>5 DEF TakeUntil
  <2>2. b.remaining \in Shuffles
    <3>1. b.remaining \in [1..ItemCount -> Items]
      BY <1>1, <1>5, LenProperties
    <3> QED BY <1>1, <1>5, <3>1 DEF Shuffles
  <2>3. usable = {}
    BY <1>2, <1>5, <2>2, ShuffleIsWhole
  <2>4. emptied \in Items \cup {Nothing}
    BY <1>1, ElementOfSeq
  <2>5. [remaining |-> <<>>, last |-> emptied] \in Bags
    <3> DEFINE bare == [remaining |-> <<>>, last |-> emptied]
    <3> HIDE DEF emptied
    <3>1. bare.remaining = <<>> /\ bare.last = emptied /\ 1..Len(bare.remaining) = {}
      BY EmptySeq
    <3>2. bare \in [remaining : Seq(Items), last : Items \cup {Nothing}]
      BY <2>4, EmptySeq
    <3> QED BY <2>4, <3>1, <3>2, EmptySeq DEF Bags, IsBag
  <2> QED BY <2>1, <2>3, <2>5
<1>6. CASE here = {} /\ left # ItemCount
  <2>1. PICK order \in Refills(emptied) : t \in FromRefill(order, left, usable)
    BY <1>6 DEF TakeUntil
  <2>2. /\ order \in Seq(Items) /\ Len(order) = ItemCount
        /\ \A k, l \in 1..Len(order) : k # l => order[k] # order[l]
    BY <2>1, RefillIsShuffle, ShuffleIsOrder
  <2> DEFINE hit == LastUsable(order, left + 1, usable)
  <2>3. /\ \A i \in hit : i \in 1..Len(order) /\ order[i] \in usable
        /\ hit = {} => \A i \in (left + 1)..Len(order) : order[i] \notin usable
    <3> DEFINE first == left + 1
    <3>1. first \in Nat \ {0}
      BY <1>1
    <3> HIDE DEF first
    <3>2. /\ \A i \in LastUsable(order, first, usable) : i \in 1..Len(order) /\ order[i] \in usable
          /\ LastUsable(order, first, usable) = {} => \A i \in first..Len(order) : order[i] \notin usable
      BY <2>2, <3>1, LastUsableIsUsable
    <3> QED BY <3>2 DEF first
  <2>4. CASE hit # {}
    <3>1. PICK i \in hit : t = Drawn(order, i)
      BY <2>1, <2>4 DEF FromRefill
    <3>2. t.item = order[i] /\ t.bag \in Bags
      BY <2>2, <2>3, <3>1, DrawnGivesBag
    <3> QED BY <1>3, <2>3, <3>1, <3>2
  <2>5. CASE hit = {}
    <3>1. t = [item |-> Nothing, bag |-> [remaining |-> SubSeq(order, 1, left), last |-> order[left + 1]]]
      BY <2>1, <2>5 DEF FromRefill
    <3>2. t.bag \in Bags
      <4>1. left \in Nat /\ left < Len(order)
        BY <1>1, <1>6, <2>2
      <4> HIDE DEF left
      <4> QED BY <2>2, <3>1, <4>1, RestIsBag
    <3>3. ASSUME usable # {} PROVE Outnumbered(usable)
      <4>1. left < ItemCount /\ \A i \in 1..left : b.remaining[i] \notin usable
        BY <1>1, <1>2, <1>6
      <4>2. \A i \in (left + 1)..ItemCount : order[i] \notin usable
        BY <2>2, <2>3, <2>5
      <4> QED BY <2>1, <3>3, <4>1, <4>2, MissedAreOutnumbered
    <3> QED BY <3>1, <3>2, <3>3
  <2> QED BY <2>4, <2>5
<1> QED BY <1>4, <1>5, <1>6

-----------------------------------------------------------------------------
Runtime ==
  [films : BOOLEAN, bag : Bags, current : Items \cup {Nothing},
   failed : SUBSET Items, disabled : SUBSET Items, stored : [Items -> Nat],
   anchor : Nat, idle : Nat, left : [Items -> Nat \cup {-1}]]

(* Nothing of the channel can be played, or a shuffled order runs past it.    *)
Lost(r) == Usable(r) = {} \/ (~Guide /\ Outnumbered(Usable(r)))

(* A later runtime of the same channel, of the same programmes.               *)
SameChannel(r, q) == q \in Runtime /\ q.failed = r.failed /\ q.disabled = r.disabled

LEMMA SameUsable ==
  ASSUME NEW r, NEW q, SameChannel(r, q)
  PROVE  Usable(q) = Usable(r) /\ Lost(q) = Lost(r) /\ \A i : IsUsable(q, i) = IsUsable(r, i)
BY DEF SameChannel, Usable, IsUsable, Lost

LEMMA PositionsAreNat ==
  ASSUME NEW r, NEW i, NEW position \in Nat
  PROVE  Sanitised(r, i, position) \in Nat /\ Clamped(r, i, position) \in Nat
<1>1. CASE IsUsable(r, i) /\ Duration[i] > 0
  <2>1. Duration[i] \in Nat
    BY <1>1, UsableAreItems, DurationIsNat
  <2>2. Min({position, Duration[i] - 1}) = IF position <= Duration[i] - 1 THEN position ELSE Duration[i] - 1
    BY <2>1, MinOfTwo, Duration[i] - 1 \in Int
  <2> QED BY <1>1, <2>1, <2>2 DEF Sanitised, Clamped
<1>2. CASE ~(IsUsable(r, i) /\ Duration[i] > 0)
  BY <1>2 DEF Sanitised, Clamped
<1> QED BY <1>1, <1>2

LEMMA StoredAtKeeps ==
  ASSUME NEW r \in Runtime, NEW position \in Nat
  PROVE  LET q == StoredAt(r, position)
         IN  SameChannel(r, q) /\ q.current = r.current /\ q.anchor = position /\ q.idle = 0
BY DEF StoredAt, Runtime, SameChannel

LEMMA FreezeKeeps ==
  ASSUME NEW r \in Runtime
  PROVE  LET q == Freeze(r)
         IN  /\ SameChannel(r, q) /\ q.current = r.current /\ q.idle = 0
             /\ q.anchor = IF paused /\ tuned THEN r.anchor ELSE r.anchor + r.idle
<1>1. r.anchor \in Nat /\ r.idle \in Nat
  BY DEF Runtime
<1>2. (IF paused /\ tuned THEN r.anchor ELSE r.anchor + r.idle) \in Nat
  BY <1>1
<1> QED BY <1>2, StoredAtKeeps DEF Freeze

LEMMA MarkLeftKeeps ==
  ASSUME NEW r \in Runtime
  PROVE  LET q == MarkLeft(r)
         IN  SameChannel(r, q) /\ q.current = r.current /\ q.anchor = r.anchor /\ q.idle = r.idle
<1>1. MarkLeft(r) = IF IsUsable(r, r.current) THEN [r EXCEPT !.left[r.current] = 0] ELSE r
  BY DEF MarkLeft
<1> QED BY <1>1 DEF Runtime, SameChannel

LEMMA PrepareKeeps ==
  ASSUME NEW r \in Runtime
  PROVE  LET q == Prepare(r)
         IN  SameChannel(r, q) /\ q.current = r.current /\ q.idle = r.idle
<1>1. CASE ~IsUsable(r, r.current)
  BY <1>1 DEF Prepare, SameChannel
<1>2. CASE IsUsable(r, r.current)
  <2> DEFINE expired == mode = "resume" /\ ~r.films /\ ResetAfter > 0 /\ r.left[r.current] >= ResetAfter
             old == r.stored[r.current]
             position == IF expired THEN 0 ELSE old
             anchor == IF expired THEN 0 ELSE r.anchor
  <2>1. old \in Nat /\ r.current \in Items /\ r.anchor \in Nat
    BY <1>2, UsableAreItems DEF Runtime
  <2>2. position \in Nat /\ anchor \in Nat
    BY <2>1
  <2>3. Prepare(r) = [r EXCEPT !.stored[r.current] = position, !.anchor = anchor, !.left[r.current] = -1]
    BY <1>2 DEF Prepare
  <2> HIDE DEF position, anchor
  <2>4. [r.stored EXCEPT ![r.current] = position] \in [Items -> Nat]
    BY <2>1, <2>2 DEF Runtime
  <2>5. [r.left EXCEPT ![r.current] = -1] \in [Items -> Nat \cup {-1}]
    BY <2>1 DEF Runtime
  <2>6. Prepare(r) \in Runtime
    BY <2>2, <2>3, <2>4, <2>5 DEF Runtime
  <2> QED BY <2>3, <2>6 DEF Runtime, SameChannel
<1> QED BY <1>1, <1>2

LEMMA AtStoredKeeps ==
  ASSUME NEW r \in Runtime
  PROVE  LET q == AtStored(r)
         IN  SameChannel(r, q) /\ q.current = r.current /\ q.idle = 0
<1> DEFINE anchor == IF r.current = Nothing THEN 0 ELSE r.stored[r.current]
<1>1. anchor \in Nat
  BY DEF Runtime
<1>2. AtStored(r) = [r EXCEPT !.idle = 0, !.anchor = anchor]
  BY DEF AtStored
<1> HIDE DEF anchor
<1>3. [r EXCEPT !.idle = 0, !.anchor = anchor] \in Runtime
  BY <1>1, 0 \in Nat DEF Runtime
<1> QED BY <1>2, <1>3 DEF Runtime, SameChannel

LEMMA VisitKeeps ==
  ASSUME NEW r \in Runtime
  PROVE  SameChannel(r, Visit(r)) /\ Visit(r).current = r.current
BY PrepareKeeps, AtStoredKeeps DEF Visit, SameChannel

(* takeUsableEpisode takes a usable programme, or there may be none.          *)
LEMMA TakeUsableKeeps ==
  ASSUME NEW r \in Runtime, NEW q \in TakeUsable(r)
  PROVE  /\ SameChannel(r, q) /\ q.current \in Usable(r) \cup {Nothing}
         /\ q.current = Nothing => Lost(r)
<1>1. CASE Guide
  <2>1. q = [r EXCEPT !.current = NextUsable(r, r.current)]
    BY <1>1 DEF TakeUsable
  <2>2. NextUsable(r, r.current) \in Usable(r) \cup {Nothing} /\ Usable(r) \subseteq Items
    BY SearchesFindUsable, UsableAreItems
  <2>3. r.current \in Items \cup {Nothing} /\ (NextUsable(r, r.current) = Nothing => Usable(r) = {})
    BY NextFinds DEF Runtime
  <2>4. SameChannel(r, q) /\ q.current = NextUsable(r, r.current)
    BY <2>1, <2>2 DEF Runtime, SameChannel
  <2> QED BY <2>2, <2>3, <2>4 DEF Lost
<1>2. CASE ~Guide
  <2>1. PICK t \in TakeUntil(r.bag, Usable(r)) : q = [r EXCEPT !.current = t.item, !.bag = t.bag]
    BY <1>2 DEF TakeUsable
  <2>2. /\ t.bag \in Bags /\ t.item \in Usable(r) \cup {Nothing}
        /\ t.item = Nothing => Usable(r) = {} \/ Outnumbered(Usable(r))
    BY <2>1, TakesUsable, UsableAreItems DEF Runtime
  <2>3. SameChannel(r, q) /\ q.current = t.item
    BY <2>1, <2>2, UsableAreItems DEF Runtime, SameChannel
  <2> QED BY <1>2, <2>2, <2>3 DEF Lost
<1> QED BY <1>1, <1>2

LEMMA TakeNextKeeps ==
  ASSUME NEW r \in Runtime, NEW q \in TakeNext(r)
  PROVE  /\ SameChannel(r, q) /\ q.current \in Usable(r) \cup {Nothing}
         /\ q.current = Nothing => Lost(r)
<1>1. PICK p \in TakeUsable(r) : q = Visit(p)
  BY DEF TakeNext
<1>2. p \in Runtime
  BY <1>1, TakeUsableKeeps DEF SameChannel
<1> QED BY <1>1, <1>2, TakeUsableKeeps, VisitKeeps DEF SameChannel

-----------------------------------------------------------------------------
(* The walk through the broadcast.                                            *)
Walks(r) ==
  {w \in [rt : Runtime, position : Nat, done : BOOLEAN] :
     /\ SameChannel(r, w.rt) /\ w.rt.current \in Usable(r) \cup {Nothing}
     /\ w.rt.current = Nothing => Lost(r)}

LEMMA TakenAfterLeft ==
  ASSUME NEW r \in Runtime, NEW p, SameChannel(r, p), NEW q \in TakeUsable(MarkLeft(p))
  PROVE  LET n == Prepare(q)
         IN  /\ SameChannel(r, q) /\ q.current \in Usable(r) \cup {Nothing}
             /\ q.current = Nothing => Lost(r)
             /\ SameChannel(r, n) /\ n.current = q.current
<1> DEFINE m == MarkLeft(p)
<1>1. SameChannel(r, m) /\ m \in Runtime
  BY MarkLeftKeeps DEF SameChannel
<1> HIDE DEF m
<1>2. SameChannel(m, q) /\ q.current \in Usable(m) \cup {Nothing} /\ (q.current = Nothing => Lost(m))
  BY <1>1, TakeUsableKeeps DEF m
<1>3. SameChannel(r, q) /\ q \in Runtime
  BY <1>1, <1>2 DEF SameChannel
<1>4. Usable(m) = Usable(r) /\ Lost(m) = Lost(r)
  BY <1>1, SameUsable
<1>5. SameChannel(q, Prepare(q)) /\ Prepare(q).current = q.current
  BY <1>3, PrepareKeeps
<1> QED BY <1>2, <1>3, <1>4, <1>5 DEF SameChannel

LEMMA WalkStepKeeps ==
  ASSUME NEW r \in Runtime, NEW w \in Walks(r), NEW v \in WalkStep(w)
  PROVE  v \in Walks(r)
<1>1. /\ w \in [rt : Runtime, position : Nat, done : BOOLEAN]
      /\ SameChannel(r, w.rt) /\ w.rt.current \in Usable(r) \cup {Nothing}
      /\ w.rt.current = Nothing => Lost(r)
  BY DEF Walks
<1>2. CASE v \in {w, [w EXCEPT !.done = TRUE], [w EXCEPT !.done = TRUE, !.position = 0]}
  <2> DEFINE Shape == [rt : Runtime, position : Nat, done : BOOLEAN]
  <2>1. [w EXCEPT !.done = TRUE] \in Shape /\ [w EXCEPT !.done = TRUE].rt = w.rt
    BY <1>1
  <2>2. /\ [w EXCEPT !.done = TRUE, !.position = 0] \in Shape
        /\ [w EXCEPT !.done = TRUE, !.position = 0].rt = w.rt
    BY <1>1, 0 \in Nat
  <2>3. w \in Shape
    BY <1>1
  <2> HIDE DEF Shape
  <2>4. v \in Shape /\ v.rt = w.rt
    BY <1>2, <2>1, <2>2, <2>3
  <2> USE DEF Shape
  <2> QED BY <1>1, <2>4 DEF Walks
<1>3. CASE /\ w.rt.current # Nothing /\ ~(w.position < Duration[w.rt.current])
           /\ \E q \in TakeUsable(MarkLeft(w.rt)) :
                v = IF q.current = Nothing
                    THEN [rt |-> q, position |-> 0, done |-> TRUE]
                    ELSE [rt |-> Prepare(q), position |-> w.position - Duration[w.rt.current], done |-> FALSE]
  <2>1. PICK q \in TakeUsable(MarkLeft(w.rt)) :
           v = IF q.current = Nothing
               THEN [rt |-> q, position |-> 0, done |-> TRUE]
               ELSE [rt |-> Prepare(q), position |-> w.position - Duration[w.rt.current], done |-> FALSE]
    BY <1>3
  <2>2. Duration[w.rt.current] \in Nat /\ w.position - Duration[w.rt.current] \in Nat
    BY <1>1, <1>3, UsableAreItems, DurationIsNat
  <2>3. /\ SameChannel(r, q) /\ q.current \in Usable(r) \cup {Nothing} /\ (q.current = Nothing => Lost(r))
        /\ SameChannel(r, Prepare(q)) /\ Prepare(q).current = q.current
    BY <1>1, TakenAfterLeft
  <2>4. q \in Runtime /\ Prepare(q) \in Runtime
    BY <2>3 DEF SameChannel
  <2> QED BY <2>1, <2>2, <2>3, <2>4 DEF Walks
<1>4. \/ v \in {w, [w EXCEPT !.done = TRUE], [w EXCEPT !.done = TRUE, !.position = 0]}
      \/ /\ w.rt.current # Nothing /\ ~(w.position < Duration[w.rt.current])
         /\ \E q \in TakeUsable(MarkLeft(w.rt)) :
              v = IF q.current = Nothing
                  THEN [rt |-> q, position |-> 0, done |-> TRUE]
                  ELSE [rt |-> Prepare(q), position |-> w.position - Duration[w.rt.current], done |-> FALSE]
  BY DEF WalkStep
<1> QED BY <1>2, <1>3, <1>4

LEMMA CollapsedKeeps ==
  ASSUME NEW r \in Runtime, r.current \in Usable(r)
  PROVE  Collapsed(r) \in SUBSET Walks(r)
<1> SUFFICES ASSUME NEW w \in Collapsed(r) PROVE w \in Walks(r)
  OBVIOUS
<1> DEFINE round == RoundDuration(r)
           position == r.anchor + r.idle
<1>1. round \in Nat /\ position \in Nat
  BY TotalIsNat DEF RoundDuration, Runtime
<1>2. CASE round > 0 /\ position >= 2 * round
  <2>1. PICK q \in TakeUsable(MarkLeft(r)) :
           w = [rt |-> Prepare(q), position |-> position % round, done |-> FALSE]
    BY <1>2 DEF Collapsed
  <2> HIDE DEF round, position
  <2>2. position % round \in Nat
    BY <1>1, <1>2
  <2>3. /\ q.current \in Usable(r) \cup {Nothing} /\ (q.current = Nothing => Lost(r))
        /\ SameChannel(r, Prepare(q)) /\ Prepare(q).current = q.current
    BY <2>1, TakenAfterLeft DEF SameChannel
  <2>4. Prepare(q) \in Runtime
    BY <2>3 DEF SameChannel
  <2> QED BY <2>1, <2>2, <2>3, <2>4 DEF Walks
<1>3. CASE ~(round > 0 /\ position >= 2 * round)
  <2>1. w = [rt |-> r, position |-> position, done |-> FALSE]
    BY <1>3 DEF Collapsed
  <2>2. SameChannel(r, r) /\ r.current # Nothing
    BY NothingIsNoItem DEF SameChannel
  <2> HIDE DEF round, position
  <2> QED BY <1>1, <2>1, <2>2 DEF Walks
<1> QED BY <1>2, <1>3

LEMMA MaxOfTwo ==
  ASSUME NEW a \in Int, NEW b \in Int
  PROVE  Max({a, b}) = IF a >= b THEN a ELSE b
<1>1. \E x \in {a, b} : \A y \in {a, b} : x >= y
  OBVIOUS
<1>2. Max({a, b}) \in {a, b} /\ \A y \in {a, b} : Max({a, b}) >= y
  BY <1>1 DEF Max
<1> QED BY <1>2

LEMMA WalkedKeeps ==
  ASSUME NEW r \in Runtime, r.current \in Usable(r), NEW w \in Walked(r)
  PROVE  w \in Walks(r)
<1> DEFINE M == Max({1, 2 * ItemCount})
           walk[k \in 0..M] == IF k = 0 THEN Collapsed(r) ELSE UNION {WalkStep(v) : v \in walk[k - 1]}
           step == [p \in (SUBSET Walks(r)) \X Nat |-> UNION {WalkStep(v) : v \in p[1]}]
<1>1. Walked(r) = walk[M]
  BY DEF Walked
<1>2. M \in Nat
  BY MaxOfTwo
<1> HIDE DEF M
<1>3. \A x \in SUBSET Walks(r), k \in Nat :
        step[<<x, k>>] = UNION {WalkStep(v) : v \in x} /\ step[<<x, k>>] \in SUBSET Walks(r)
  <2> TAKE x \in SUBSET Walks(r), k \in Nat
  <2>1. step[<<x, k>>] = UNION {WalkStep(v) : v \in x}
    OBVIOUS
  <2> QED BY <2>1, WalkStepKeeps
<1> HIDE DEF step
<1>4. PICK f \in [0..M -> SUBSET Walks(r)] :
        f[0] = Collapsed(r) /\ \A k \in 1..M : f[k] = step[<<f[k - 1], k>>]
  <2>1. Runs(M, SUBSET Walks(r), Collapsed(r), step) # {}
    BY <1>2, <1>3, CollapsedKeeps, RecursionExists
  <2> QED BY <2>1 DEF Runs
<1>5. f = [k \in 0..M |-> IF k = 0 THEN Collapsed(r) ELSE UNION {WalkStep(v) : v \in f[k - 1]}]
  <2>1. ASSUME NEW k \in 0..M
        PROVE  f[k] = IF k = 0 THEN Collapsed(r) ELSE UNION {WalkStep(v) : v \in f[k - 1]}
    <3>1. CASE k = 0
      BY <1>4, <3>1
    <3>2. CASE k # 0
      <4>1. k \in 1..M /\ k - 1 \in 0..M /\ k \in Nat
        BY <1>2, <3>2
      <4>2. f[k - 1] \in SUBSET Walks(r)
        BY <4>1
      <4> QED BY <1>3, <1>4, <3>2, <4>1, <4>2
    <3> QED BY <3>1, <3>2
  <2> QED BY <2>1
<1>6. walk = [k \in 0..M |-> IF k = 0 THEN Collapsed(r) ELSE UNION {WalkStep(v) : v \in walk[k - 1]}]
  BY <1>5
<1> DEFINE Ns == {k \in Nat : k <= M => walk[k] \in SUBSET Walks(r)}
<1> HIDE DEF walk
<1>7. 0 \in Ns
  BY <1>2, <1>6, CollapsedKeeps
<1>8. ASSUME NEW k \in Nat, k \in Ns PROVE k + 1 \in Ns
  <2> SUFFICES ASSUME k + 1 <= M PROVE walk[k + 1] \in SUBSET Walks(r)
    OBVIOUS
  <2>1. walk[k] \in SUBSET Walks(r) /\ k + 1 \in 0..M /\ k + 1 # 0 /\ (k + 1) - 1 = k
    BY <1>2, <1>8
  <2>2. walk[k + 1] = UNION {WalkStep(v) : v \in walk[k]}
    BY <1>6, <2>1
  <2> QED BY <2>1, <2>2, WalkStepKeeps
<1> HIDE DEF Ns
<1>9. Nat \subseteq Ns
  BY <1>7, <1>8, SetInduction
<1>10. walk[M] \in SUBSET Walks(r)
  BY <1>2, <1>9 DEF Ns
<1> QED BY <1>1, <1>10

LEMMA ResolvedKeeps ==
  ASSUME NEW r \in Runtime, NEW q \in Resolved(r)
  PROVE  /\ SameChannel(r, q) /\ q.current \in Usable(r) \cup {Nothing}
         /\ q.current = Nothing => Lost(r)
         /\ q.current # Nothing => q.idle = 0
<1> DEFINE chosen == IF IsUsable(r, r.current) THEN {r} ELSE TakeNext(r)
<1>1. PICK p \in chosen :
        q \in IF p.current = Nothing THEN {p}
              ELSE IF mode = "resume" THEN {Resumed(p)}
              ELSE {StoredAt(w.rt, w.position) : w \in Walked(p)}
  BY DEF Resolved
<1>2. /\ SameChannel(r, p) /\ p.current \in Usable(r) \cup {Nothing}
      /\ p.current = Nothing => Lost(r)
  <2>1. CASE IsUsable(r, r.current)
    BY <1>1, <2>1, UsableAreItems, NothingIsNoItem DEF SameChannel
  <2>2. CASE ~IsUsable(r, r.current)
    BY <1>1, <2>2, TakeNextKeeps
  <2> QED BY <2>1, <2>2
<1> HIDE DEF chosen
<1>3. p \in Runtime /\ Usable(p) = Usable(r) /\ Lost(p) = Lost(r)
  BY <1>2, SameUsable DEF SameChannel
<1>4. CASE p.current = Nothing
  BY <1>1, <1>2, <1>4
<1>5. CASE p.current # Nothing /\ mode = "resume"
  <2>1. q = StoredAt(p, Sanitised(p, p.current, p.anchor))
    BY <1>1, <1>5 DEF Resumed
  <2>2. Sanitised(p, p.current, p.anchor) \in Nat
    BY <1>3, PositionsAreNat DEF Runtime
  <2>3. SameChannel(p, q) /\ q.current = p.current /\ q.idle = 0
    BY <1>3, <2>1, <2>2, StoredAtKeeps
  <2> QED BY <1>2, <2>3 DEF SameChannel
<1>6. CASE p.current # Nothing /\ mode # "resume"
  <2>1. PICK w \in Walked(p) : q = StoredAt(w.rt, w.position)
    BY <1>1, <1>6
  <2>2. p.current \in Usable(p)
    BY <1>2, <1>3, <1>6
  <2>3. /\ w.position \in Nat /\ w.rt \in Runtime
        /\ SameChannel(p, w.rt) /\ w.rt.current \in Usable(p) \cup {Nothing}
        /\ w.rt.current = Nothing => Lost(p)
    BY <1>3, <2>2, WalkedKeeps DEF Walks
  <2>4. SameChannel(w.rt, q) /\ q.current = w.rt.current /\ q.idle = 0
    BY <2>1, <2>3, StoredAtKeeps
  <2> QED BY <1>2, <1>3, <2>3, <2>4 DEF SameChannel
<1> QED BY <1>4, <1>5, <1>6

LEMMA SeededKeeps ==
  ASSUME NEW r \in Runtime, NEW q \in Seeded(r)
  PROVE  SameChannel(r, q)
<1> DEFINE total == TotalDuration(Items \ r.disabled)
<1>1. total \in Nat
  BY TotalIsNat
<1>2. PICK p \in TakeUsable(r) :
        q \in IF mode = "continuous" /\ total > 0
              THEN {[AtStored(p) EXCEPT !.anchor = clock] : clock \in 0..(total - 1)}
              ELSE {AtStored(p)}
  BY DEF Seeded
<1> HIDE DEF total
<1>3. SameChannel(r, p) /\ p \in Runtime
  BY <1>2, TakeUsableKeeps DEF SameChannel
<1>4. SameChannel(r, AtStored(p)) /\ AtStored(p) \in Runtime
  BY <1>3, AtStoredKeeps DEF SameChannel
<1>5. CASE q = AtStored(p)
  BY <1>4, <1>5
<1>6. CASE q # AtStored(p)
  <2>1. PICK clock \in 0..(total - 1) : q = [AtStored(p) EXCEPT !.anchor = clock]
    BY <1>2, <1>6
  <2>2. clock \in Nat
    BY <1>1
  <2>3. [AtStored(p) EXCEPT !.anchor = clock] \in Runtime
    BY <1>4, <2>2 DEF Runtime
  <2> QED BY <1>4, <2>1, <2>3 DEF Runtime, SameChannel
<1> QED BY <1>5, <1>6

LEMMA CappedIsAge ==
  ASSUME setting \in Setting, NEW age \in Nat \cup {-1}
  PROVE  Capped(age) \in Nat \cup {-1} /\ (age \in Nat => Capped(age) \in Nat)
<1>1. ResetAfter \in Nat
  BY DEF ResetAfter, Setting
<1>2. CASE age = -1
  BY <1>2 DEF Capped
<1>3. CASE age # -1
  <2>1. Min({age, ResetAfter}) = IF age <= ResetAfter THEN age ELSE ResetAfter
    BY <1>1, MinOfTwo
  <2> QED BY <1>1, <1>3, <2>1 DEF Capped
<1> QED BY <1>2, <1>3

LEMMA EmptyBagIsBag == EmptyBag \in Bags
<1>1. EmptyBag.remaining = <<>> /\ EmptyBag.last = Nothing /\ 1..Len(EmptyBag.remaining) = {}
  BY EmptySeq DEF EmptyBag
<1>2. EmptyBag \in [remaining : Seq(Items), last : Items \cup {Nothing}]
  BY EmptySeq DEF EmptyBag
<1> QED BY <1>1, <1>2, EmptySeq DEF Bags, IsBag

LEMMA LoadedKeeps ==
  ASSUME setting \in Setting, NEW r \in Runtime, NEW away \in Nat, NEW sameBoot \in BOOLEAN,
         NEW q \in Loaded(r, away, sameBoot)
  PROVE  /\ SameChannel(r, q)
         /\ IsUsable(r, r.current) =>
              /\ q.current = r.current /\ q.idle = 0
              /\ q.anchor = Sanitised(r, r.current, SavedPosition(r) + IF mode = "continuous" THEN away ELSE 0)
<1> DEFINE position == SavedPosition(r)
           offline == IF mode = "continuous" THEN away ELSE 0
           saved == [i \in Items |-> IF i = r.current THEN position ELSE r.stored[i]]
           stored == [i \in Items |-> Sanitised(r, i, saved[i])]
           left == [i \in Items |-> IF ~sameBoot \/ r.left[i] = -1 THEN -1 ELSE Capped(r.left[i] + away)]
           empty == [r EXCEPT !.bag = EmptyBag, !.current = Nothing, !.anchor = 0, !.idle = 0,
                              !.stored = stored, !.left = left]
<1>1. Loaded(r, away, sameBoot) =
        IF IsUsable(r, r.current)
        THEN {StoredAt([empty EXCEPT !.current = r.current, !.bag = t.bag],
                       Sanitised(r, r.current, position + offline)) : t \in TakeUntil(EmptyBag, {r.current})}
        ELSE Seeded(empty)
  BY DEF Loaded
<1>2. position \in Nat /\ offline \in Nat /\ position + offline \in Nat
  <2>1. r.anchor \in Nat /\ r.idle \in Nat
    BY DEF Runtime
  <2> QED BY <2>1 DEF SavedPosition
<1>3. stored \in [Items -> Nat]
  <2> HIDE DEF position
  <2>1. \A i \in Items : saved[i] \in Nat
    BY <1>2 DEF Runtime
  <2> HIDE DEF saved
  <2> QED BY <2>1, PositionsAreNat
<1>4. left \in [Items -> Nat \cup {-1}]
  <2> SUFFICES ASSUME NEW i \in Items
               PROVE  (IF ~sameBoot \/ r.left[i] = -1 THEN -1 ELSE Capped(r.left[i] + away))
                        \in Nat \cup {-1}
    OBVIOUS
  <2>1. r.left[i] \in Nat \cup {-1}
    BY DEF Runtime
  <2>2. r.left[i] # -1 => r.left[i] + away \in Nat
    BY <2>1
  <2> QED BY <2>2, CappedIsAge
<1> HIDE DEF position, offline, stored, left
<1>5. empty \in Runtime /\ empty.failed = r.failed /\ empty.disabled = r.disabled
  BY <1>3, <1>4, EmptyBagIsBag, 0 \in Nat DEF Runtime
<1> HIDE DEF empty
<1>6. CASE IsUsable(r, r.current)
  <2>1. PICK t \in TakeUntil(EmptyBag, {r.current}) :
          q = StoredAt([empty EXCEPT !.current = r.current, !.bag = t.bag],
                       Sanitised(r, r.current, position + offline))
    BY <1>1, <1>6
  <2>2. r.current \in Items /\ {r.current} \in SUBSET Items
    BY <1>6, UsableAreItems
  <2>3. t.bag \in Bags
    BY <2>1, <2>2, EmptyBagIsBag, TakesUsable
  <2> DEFINE p == [empty EXCEPT !.current = r.current, !.bag = t.bag]
  <2>4. p \in Runtime /\ p.failed = r.failed /\ p.disabled = r.disabled /\ p.current = r.current
    BY <1>5, <2>2, <2>3 DEF Runtime
  <2> HIDE DEF p
  <2>5. Sanitised(r, r.current, position + offline) \in Nat
    BY <1>2, PositionsAreNat
  <2>6. q = StoredAt(p, Sanitised(r, r.current, position + offline))
    BY <2>1 DEF p
  <2>7. /\ SameChannel(p, q) /\ q.current = r.current /\ q.idle = 0
        /\ q.anchor = Sanitised(r, r.current, position + offline)
    BY <2>4, <2>5, <2>6, StoredAtKeeps
  <2> QED BY <2>4, <2>7 DEF SameChannel, position, offline
<1>7. CASE ~IsUsable(r, r.current)
  <2>1. SameChannel(empty, q)
    BY <1>1, <1>5, <1>7, SeededKeeps
  <2> QED BY <1>5, <1>7, <2>1 DEF SameChannel
<1> QED BY <1>6, <1>7

-----------------------------------------------------------------------------
Pictures == {"tuning", "noSignal", "playing", "stopped", "black"}

(* The type invariant of the timeline. *)
TimelineTypeOK ==
  /\ setting \in Settings /\ rt \in Runtime
  /\ tuned \in BOOLEAN /\ standby \in BOOLEAN /\ paused \in BOOLEAN
  /\ picture \in Pictures /\ mode \in {"continuous", "resume"} /\ real \in Nat
  /\ seen \in [Items -> [at : Nat, ago : Nat]] /\ asked \in Items \cup {Nothing}

(* A TV that sleeps or shows another channel shows no picture of this one.    *)
OffIsStopped == standby \/ ~tuned => picture = "stopped"

(* What plays is a programme of the channel that may be played.               *)
PlaysUsable == picture = "playing" => IsUsable(rt, rt.current)

TimelineInv == TimelineTypeOK /\ OffIsStopped /\ PlaysUsable /\ PictureIsTrue

(* What a step that shows neither a picture nor its absence has to keep.      *)
LEMMA QuietKeeps ==
  ASSUME TimelineInv, setting' = setting, rt' \in Runtime,
         tuned' \in BOOLEAN, standby' \in BOOLEAN, paused' \in BOOLEAN,
         picture' \in Pictures \ {"noSignal", "playing"}, standby' \/ ~tuned' => picture' = "stopped",
         mode' \in {"continuous", "resume"}, real' \in Nat,
         seen' \in [Items -> [at : Nat, ago : Nat]], asked' \in Items \cup {Nothing}
  PROVE  TimelineInv'
<1>1. TimelineTypeOK'
  BY DEF TimelineInv, TimelineTypeOK
<1>2. OffIsStopped' /\ PlaysUsable'
  BY DEF OffIsStopped, PlaysUsable
<1>3. PictureIsTrue'
  BY DEF PictureIsTrue, EstimateIsPicture, NoSignalMeansNothingUsable
<1> QED BY <1>1, <1>2, <1>3 DEF TimelineInv

(* Tuning any runtime of the channel. *)
LEMMA TuneToKeeps ==
  ASSUME TimelineInv, setting' = setting, NEW r \in Runtime, TuneTo(r), standby' = FALSE,
         mode' = mode, seen' \in [Items -> [at : Nat, ago : Nat]], asked' \in Items \cup {Nothing}
  PROVE  TimelineInv'
<1>1. [r EXCEPT !.idle = 0] \in Runtime
  BY 0 \in Nat DEF Runtime
<1>2. rt' \in Runtime
  BY <1>1 DEF TuneTo
<1>3. mode' \in {"continuous", "resume"}
  BY DEF TimelineInv, TimelineTypeOK
<1>4. tuned' = TRUE /\ paused' = FALSE /\ picture' = "tuning" /\ real' = 0
  BY DEF TuneTo
<1>5. /\ tuned' \in BOOLEAN /\ standby' \in BOOLEAN /\ paused' \in BOOLEAN /\ real' \in Nat
      /\ picture' \in Pictures \ {"noSignal", "playing"} /\ (standby' \/ ~tuned' => picture' = "stopped")
  BY <1>4 DEF Pictures
<1> QED BY <1>2, <1>3, <1>5, QuietKeeps

LEMMA TuneToCurrent ==
  ASSUME NEW r \in Runtime, TuneTo(r)
  PROVE  rt'.current \in Items \cup {Nothing}
BY DEF TuneTo, Runtime

(* A step that leaves the picture alone, and what can be played.              *)
LEMMA SamePictureKeeps ==
  ASSUME TimelineInv, setting' = setting, SameChannel(rt, rt'), rt'.current = rt.current,
         paused' \in BOOLEAN, mode' \in {"continuous", "resume"},
         UNCHANGED <<tuned, standby, picture, real>>,
         seen' \in [Items -> [at : Nat, ago : Nat]], asked' \in Items \cup {Nothing},
         EstimateIsPicture'
  PROVE  TimelineInv'
<1>1. TimelineTypeOK'
  BY DEF TimelineInv, TimelineTypeOK, SameChannel
<1>2. OffIsStopped'
  BY DEF TimelineInv, OffIsStopped
<1>3. PlaysUsable'
  BY DEF TimelineInv, PlaysUsable, IsUsable, Usable, SameChannel
<1>4. NoSignalMeansNothingUsable'
  BY DEF TimelineInv, PictureIsTrue, NoSignalMeansNothingUsable, Usable, SameChannel, Guide
<1> QED BY <1>1, <1>2, <1>3, <1>4 DEF TimelineInv, PictureIsTrue

LEMMA InvFacts ==
  ASSUME TimelineInv
  PROVE  /\ setting \in Setting /\ rt \in Runtime /\ real \in Nat
         /\ tuned \in BOOLEAN /\ standby \in BOOLEAN /\ paused \in BOOLEAN
         /\ picture \in Pictures /\ mode \in {"continuous", "resume"}
         /\ seen \in [Items -> [at : Nat, ago : Nat]] /\ asked \in Items \cup {Nothing}
         /\ rt.current \in Items \cup {Nothing} /\ rt.anchor \in Nat /\ rt.idle \in Nat
         /\ rt.films \in BOOLEAN
         /\ OffIsStopped /\ PlaysUsable /\ EstimateIsPicture /\ NoSignalMeansNothingUsable
<1>1. setting \in Setting /\ rt \in Runtime
  BY DEF TimelineInv, TimelineTypeOK
<1>2. /\ rt.current \in Items \cup {Nothing} /\ rt.anchor \in Nat /\ rt.idle \in Nat /\ rt.films \in BOOLEAN
  BY <1>1 DEF Runtime
<1> QED BY <1>1, <1>2 DEF TimelineInv, TimelineTypeOK, PictureIsTrue

LEMMA NothingIsChoice == Nothing \in Items \cup {Nothing}
OBVIOUS

LEMMA FinishTuneKeeps ==
  ASSUME TimelineInv, setting' = setting, FinishTune
  PROVE  TimelineInv'
<1> DEFINE from == IF mode = "resume" THEN [rt EXCEPT !.idle = 0] ELSE rt
<1>1. from \in Runtime /\ from.failed = rt.failed /\ from.disabled = rt.disabled
  BY InvFacts, 0 \in Nat DEF Runtime
<1>2. PICK r \in Resolved(from) :
        /\ rt' = r
        /\ IF IsUsable(r, r.current)
           THEN /\ picture' = "playing" /\ real' = r.anchor
                /\ SeenNow([seen EXCEPT ![r.current] = [at |-> r.anchor, ago |-> 0]])
           ELSE picture' = "noSignal" /\ UNCHANGED <<real, seen>>
  BY DEF FinishTune
<1>3. picture = "tuning" /\ asked' = Nothing /\ UNCHANGED <<tuned, standby, paused, mode>>
  BY DEF FinishTune
<1> HIDE DEF from
<1>4. /\ SameChannel(from, r) /\ r.current \in Usable(from) \cup {Nothing}
      /\ r.current = Nothing => Lost(from)
      /\ r.current # Nothing => r.idle = 0
  BY <1>1, <1>2, ResolvedKeeps
<1>5. r \in Runtime /\ Usable(r) = Usable(from) /\ Lost(r) = Lost(from) /\ r.anchor \in Nat
  BY <1>4, SameUsable DEF SameChannel, Runtime
<1>6. OffIsStopped'
  BY <1>3, InvFacts DEF OffIsStopped
<1>7. CASE IsUsable(r, r.current)
  <2>1. picture' = "playing" /\ real' = r.anchor /\ rt' = r
    BY <1>2, <1>7
  <2>2. seen' \in [Items -> [at : Nat, ago : Nat]]
    <3>1. [at |-> r.anchor, ago |-> 0] \in [at : Nat, ago : Nat]
      BY <1>5
    <3> QED BY <1>2, <1>7, <3>1, InvFacts DEF SeenNow
  <2>3. TimelineTypeOK'
    BY <1>3, <1>5, <2>1, <2>2, InvFacts DEF TimelineTypeOK, Pictures, TimelineInv
  <2>4. PlaysUsable'
    BY <1>7, <2>1 DEF PlaysUsable, IsUsable, Usable
  <2>5. r.idle = 0
    BY <1>4, <1>7, UsableAreItems, NothingIsNoItem
  <2>6. EstimateIsPicture'
    BY <1>5, <2>1, <2>5 DEF EstimateIsPicture
  <2>7. NoSignalMeansNothingUsable'
    BY <2>1 DEF NoSignalMeansNothingUsable
  <2> QED BY <1>6, <2>3, <2>4, <2>6, <2>7 DEF TimelineInv, PictureIsTrue
<1>8. CASE ~IsUsable(r, r.current)
  <2>1. picture' = "noSignal" /\ rt' = r /\ real' = real /\ seen' = seen
    BY <1>2, <1>8
  <2>2. TimelineTypeOK'
    BY <1>3, <1>5, <2>1, InvFacts DEF TimelineTypeOK, Pictures, TimelineInv
  <2>3. Lost(r)
    BY <1>4, <1>5, <1>8, UsableAreItems
  <2>4. NoSignalMeansNothingUsable'
    BY <2>1, <2>3 DEF NoSignalMeansNothingUsable, Lost, Outnumbered, Usable, Guide
  <2>5. EstimateIsPicture' /\ PlaysUsable'
    BY <2>1 DEF EstimateIsPicture, PlaysUsable
  <2> QED BY <1>6, <2>2, <2>4, <2>5 DEF TimelineInv, PictureIsTrue
<1> QED BY <1>7, <1>8

LEMMA LeaveChannelKeeps ==
  ASSUME TimelineInv, setting' = setting, LeaveChannel
  PROVE  TimelineInv'
<1> DEFINE r == IF mode = "resume" THEN Freeze(rt) ELSE rt
<1>1. r \in Runtime
  BY InvFacts, FreezeKeeps DEF SameChannel
<1>2. rt' = MarkLeft(r) /\ tuned' = FALSE /\ Stop /\ ByRemote
  BY DEF LeaveChannel
<1> HIDE DEF r
<1>3. rt' \in Runtime
  BY <1>1, <1>2, MarkLeftKeeps DEF SameChannel
<1>4. picture' = "stopped" /\ real' = 0 /\ paused' = FALSE /\ standby' = standby /\ mode' = mode
      /\ seen' = seen /\ asked' = Nothing
  BY <1>2 DEF Stop, ByRemote
<1>5. "stopped" \in Pictures \ {"noSignal", "playing"} /\ 0 \in Nat
  BY DEF Pictures
<1> QED BY <1>2, <1>3, <1>4, <1>5, InvFacts, QuietKeeps

LEMMA ReturnToChannelKeeps ==
  ASSUME TimelineInv, setting' = setting, ReturnToChannel
  PROVE  TimelineInv'
<1>1. Prepare(rt) \in Runtime
  BY InvFacts, PrepareKeeps DEF SameChannel
<1>2. TuneTo(Prepare(rt)) /\ standby' = FALSE /\ mode' = mode /\ seen' = seen /\ asked' = Nothing
  BY InvFacts DEF ReturnToChannel, ByRemote
<1> QED BY <1>1, <1>2, InvFacts, TuneToKeeps, NothingIsChoice

LEMMA RetuneChannelKeeps ==
  ASSUME TimelineInv, setting' = setting, RetuneChannel
  PROVE  TimelineInv'
<1>1. TuneTo(rt) /\ standby' = FALSE /\ mode' = mode /\ seen' = seen /\ asked' = Nothing
  BY InvFacts DEF RetuneChannel, ByRemote, Watching
<1> QED BY <1>1, InvFacts, TuneToKeeps, NothingIsChoice

(* The runtime that a change of programme starts from.                        *)
LEMMA LeftKeeps ==
  ASSUME TimelineInv
  PROVE  LET r == MarkLeft(Freeze(rt))
         IN  /\ r \in Runtime /\ SameChannel(rt, r) /\ r.current = rt.current /\ r.idle = 0
             /\ r.anchor = IF paused /\ tuned THEN rt.anchor ELSE rt.anchor + rt.idle
<1> DEFINE f == Freeze(rt)
<1>1. /\ SameChannel(rt, f) /\ f.current = rt.current /\ f.idle = 0 /\ f \in Runtime
      /\ f.anchor = IF paused /\ tuned THEN rt.anchor ELSE rt.anchor + rt.idle
  BY InvFacts, FreezeKeeps DEF SameChannel
<1> HIDE DEF f
<1>2. /\ SameChannel(f, MarkLeft(f)) /\ MarkLeft(f).current = f.current
      /\ MarkLeft(f).anchor = f.anchor /\ MarkLeft(f).idle = f.idle
  BY <1>1, MarkLeftKeeps
<1>3. SameChannel(rt, MarkLeft(f)) /\ MarkLeft(f) \in Runtime
  BY <1>1, <1>2 DEF SameChannel
<1> QED BY <1>1, <1>2, <1>3 DEF f

(* A programme put at the head of the channel. *)
LEMMA WithCurrent ==
  ASSUME NEW r \in Runtime, NEW i \in Items
  PROVE  /\ [r EXCEPT !.current = i] \in Runtime /\ Visit([r EXCEPT !.current = i]) \in Runtime
         /\ SameChannel(r, [r EXCEPT !.current = i])
<1>1. [r EXCEPT !.current = i] \in Runtime /\ SameChannel(r, [r EXCEPT !.current = i])
  BY DEF Runtime, SameChannel
<1> QED BY <1>1, VisitKeeps DEF SameChannel

(* The position that a frozen runtime keeps is the picture's.                 *)
LEMMA FrozenIsPicture ==
  ASSUME TimelineInv, picture' = picture, paused' = paused, real' = real, rt'.current = rt.current,
         rt'.idle = 0, rt'.anchor = IF paused /\ tuned THEN rt.anchor ELSE rt.anchor + rt.idle
  PROVE  EstimateIsPicture'
<1> SUFFICES ASSUME picture' = "playing", ~paused'
             PROVE  \/ rt'.anchor + rt'.idle = real'
                    \/ /\ Duration[rt'.current] > 0 /\ real' >= Duration[rt'.current]
                       /\ rt'.anchor + rt'.idle \in {0, Duration[rt'.current] - 1}
  BY DEF EstimateIsPicture
<1>1. rt.anchor + rt.idle \in Nat /\ rt'.anchor + rt'.idle = rt.anchor + rt.idle
  BY InvFacts
<1>2. \/ rt.anchor + rt.idle = real
      \/ /\ Duration[rt.current] > 0 /\ real >= Duration[rt.current]
         /\ rt.anchor + rt.idle \in {0, Duration[rt.current] - 1}
  BY InvFacts DEF EstimateIsPicture
<1> QED BY <1>1, <1>2

LEMMA ChangeProgrammeKeeps ==
  ASSUME TimelineInv, setting' = setting, ChangeProgramme
  PROVE  TimelineInv'
<1> DEFINE r == MarkLeft(Freeze(rt))
<1>1. /\ r \in Runtime /\ SameChannel(rt, r) /\ r.current = rt.current /\ r.idle = 0
      /\ r.anchor = IF paused /\ tuned THEN rt.anchor ELSE rt.anchor + rt.idle
  BY LeftKeeps
<1>2. PICK direction \in {1, -1} :
        IF AdjacentUsable(r, direction) = Nothing
        THEN rt' = r /\ UNCHANGED <<tuned, picture, paused, real>>
        ELSE TuneTo(Visit([r EXCEPT !.current = AdjacentUsable(r, direction)]))
  BY DEF ChangeProgramme
<1>3. standby = FALSE /\ standby' = standby /\ mode' = mode /\ seen' = seen /\ asked' = rt'.current
  BY InvFacts DEF ChangeProgramme, Watching, Chosen
<1> HIDE DEF r
<1>4. CASE AdjacentUsable(r, direction) = Nothing
  <2>1. rt' = r /\ UNCHANGED <<tuned, picture, paused, real>>
    BY <1>2, <1>4
  <2>2. EstimateIsPicture'
    BY <1>1, <2>1, FrozenIsPicture
  <2>3. asked' \in Items \cup {Nothing}
    BY <1>1, <1>3, <2>1, InvFacts
  <2> QED BY <1>1, <1>3, <2>1, <2>2, <2>3, InvFacts, SamePictureKeeps
<1>5. CASE AdjacentUsable(r, direction) # Nothing
  <2>1. AdjacentUsable(r, direction) \in Items
    BY <1>5, AdjacentIsUsable, UsableAreItems
  <2>2. Visit([r EXCEPT !.current = AdjacentUsable(r, direction)]) \in Runtime
    BY <1>1, <2>1, WithCurrent
  <2>3. TuneTo(Visit([r EXCEPT !.current = AdjacentUsable(r, direction)]))
    BY <1>2, <1>5
  <2>4. asked' \in Items \cup {Nothing}
    BY <1>3, <2>2, <2>3, TuneToCurrent
  <2> QED BY <1>3, <2>2, <2>3, <2>4, InvFacts, TuneToKeeps
<1> QED BY <1>4, <1>5

(* Moving on to a next programme: by the remote, or at the end of one.        *)
LEMMA MovingOnKeeps ==
  ASSUME TimelineInv, setting' = setting, standby = FALSE,
         NEW r \in TakeNext(MarkLeft(Freeze(rt))), TuneTo(r), Chosen
  PROVE  TimelineInv'
<1>1. r \in Runtime
  BY LeftKeeps, TakeNextKeeps DEF SameChannel
<1>2. standby' = FALSE /\ mode' = mode /\ seen' = seen /\ asked' \in Items \cup {Nothing}
  BY <1>1, TuneToCurrent DEF Chosen
<1> QED BY <1>1, <1>2, InvFacts, TuneToKeeps

LEMMA PlayingIsOn ==
  ASSUME TimelineInv, picture # "stopped"
  PROVE  tuned = TRUE /\ standby = FALSE
BY InvFacts DEF OffIsStopped

LEMMA RandomEpisodeKeeps ==
  ASSUME TimelineInv, setting' = setting, RandomEpisode
  PROVE  TimelineInv'
<1>1. PICK r \in TakeNext(MarkLeft(Freeze(rt))) : TuneTo(r)
  BY DEF RandomEpisode
<1> QED BY <1>1, MovingOnKeeps, PlayingIsOn DEF RandomEpisode, Watching

LEMMA PlaybackEndedKeeps ==
  ASSUME TimelineInv, setting' = setting, PlaybackEnded
  PROVE  TimelineInv'
<1>1. PICK r \in TakeNext(MarkLeft(Freeze(rt))) : TuneTo(r)
  BY DEF PlaybackEnded
<1> QED BY <1>1, MovingOnKeeps, PlayingIsOn DEF PlaybackEnded

LEMMA RestartProgrammeKeeps ==
  ASSUME TimelineInv, setting' = setting, RestartProgramme
  PROVE  TimelineInv'
<1> DEFINE r == [StoredAt(rt, 0) EXCEPT !.left[rt.current] = -1]
<1>1. StoredAt(rt, 0) \in Runtime
  BY InvFacts, StoredAtKeeps, 0 \in Nat DEF SameChannel
<1>2. r \in Runtime
  BY <1>1 DEF Runtime
<1>3. /\ TuneTo(r) /\ standby = FALSE /\ standby' = standby /\ mode' = mode /\ asked' = Nothing
      /\ SeenNow([seen EXCEPT ![rt.current].at = 0]) /\ IsUsable(rt, rt.current)
  BY InvFacts DEF RestartProgramme, Watching
<1> HIDE DEF r
<1>4. seen' \in [Items -> [at : Nat, ago : Nat]]
  <2>1. rt.current \in Items
    BY <1>3, UsableAreItems
  <2>2. [seen EXCEPT ![rt.current].at = 0] \in [Items -> [at : Nat, ago : Nat]]
    BY <2>1, InvFacts, 0 \in Nat
  <2> QED BY <1>3, <2>2, InvFacts DEF SeenNow
<1> QED BY <1>2, <1>3, <1>4, InvFacts, TuneToKeeps, NothingIsChoice

LEMMA PlayPortalProgrammeKeeps ==
  ASSUME TimelineInv, setting' = setting, PlayPortalProgramme
  PROVE  TimelineInv'
<1>1. PICK i \in Items, bookmark \in 0..(IF rt.films THEN MaxPosition ELSE 0) :
        LET r  == [rt EXCEPT !.failed = @ \ {i}, !.current = i]
            at == IF rt.films THEN Clamped(r, i, bookmark) ELSE 0
        IN  /\ rt' = StoredAt(r, at)
            /\ SeenNow([seen EXCEPT ![i].at = at])
            /\ asked' = i
  BY DEF PlayPortalProgramme
<1> DEFINE r == [rt EXCEPT !.failed = @ \ {i}, !.current = i]
           at == IF rt.films THEN Clamped(r, i, bookmark) ELSE 0
<1>2. r \in Runtime
  BY InvFacts DEF Runtime
<1>3. at \in Nat
  <2> HIDE DEF r
  <2>1. bookmark \in Nat
    OBVIOUS
  <2> QED BY <2>1, PositionsAreNat, 0 \in Nat
<1>4. rt' = StoredAt(r, at) /\ SeenNow([seen EXCEPT ![i].at = at]) /\ asked' = i
  BY <1>1
<1> HIDE DEF r, at
<1>5. rt' \in Runtime
  BY <1>2, <1>3, <1>4, StoredAtKeeps DEF SameChannel
<1>6. seen' \in [Items -> [at : Nat, ago : Nat]]
  <2>1. [seen EXCEPT ![i].at = at] \in [Items -> [at : Nat, ago : Nat]]
    BY <1>3, InvFacts
  <2> QED BY <1>4, <2>1, InvFacts DEF SeenNow
<1>7. /\ standby' = standby /\ standby = FALSE /\ mode' = mode
      /\ tuned' = TRUE /\ picture' = "tuning" /\ real' = 0 /\ paused' = FALSE
  BY InvFacts DEF PlayPortalProgramme
<1>8. picture' \in Pictures \ {"noSignal", "playing"} /\ real' \in Nat
  BY <1>7 DEF Pictures
<1> QED BY <1>4, <1>5, <1>6, <1>7, <1>8, InvFacts, QuietKeeps

LEMMA ToggleProgrammeKeeps ==
  ASSUME TimelineInv, setting' = setting, ToggleProgramme
  PROVE  TimelineInv'
<1>1. PICK i \in Items :
       LET enabling == i \in rt.disabled
           r  == [rt EXCEPT !.disabled = IF enabling THEN @ \ {i} ELSE @ \cup {i}]
           on == ~enabling /\ rt.current = i
           q  == IF on THEN MarkLeft(Freeze(r)) ELSE r
       IN  IF tuned /\ (on \/ picture = "noSignal")
           THEN \E next \in IF enabling THEN {[q EXCEPT !.current = i]} ELSE TakeUsable(q) :
                  TuneTo(Visit(next))
           ELSE rt' = r /\ UNCHANGED <<tuned, picture, paused, real>>
  BY DEF ToggleProgramme
<1> DEFINE enabling == i \in rt.disabled
           r  == [rt EXCEPT !.disabled = IF enabling THEN @ \ {i} ELSE @ \cup {i}]
           on == ~enabling /\ rt.current = i
           q  == IF on THEN MarkLeft(Freeze(r)) ELSE r
<1>2. standby' = standby /\ standby = FALSE /\ mode' = mode /\ seen' = seen /\ asked' = Nothing
  BY InvFacts DEF ToggleProgramme, ByRemote
<1>3. /\ r \in Runtime /\ r.failed = rt.failed /\ r.current = rt.current
      /\ r.anchor = rt.anchor /\ r.idle = rt.idle
      /\ r.disabled = IF enabling THEN rt.disabled \ {i} ELSE rt.disabled \cup {i}
  BY InvFacts DEF Runtime
<1> HIDE DEF r
<1>4. q \in Runtime
  <2>1. Freeze(r) \in Runtime
    BY <1>3, FreezeKeeps DEF SameChannel
  <2>2. MarkLeft(Freeze(r)) \in Runtime
    BY <2>1, MarkLeftKeeps DEF SameChannel
  <2> QED BY <1>3, <2>2
<1>5. CASE tuned /\ (on \/ picture = "noSignal")
  <2> HIDE DEF q
  <2>1. PICK next \in IF enabling THEN {[q EXCEPT !.current = i]} ELSE TakeUsable(q) : TuneTo(Visit(next))
    BY <1>1, <1>5 DEF q, r
  <2>2. next \in Runtime
    BY <1>4, <2>1, WithCurrent, TakeUsableKeeps DEF SameChannel
  <2>3. Visit(next) \in Runtime
    BY <2>2, VisitKeeps DEF SameChannel
  <2> QED BY <1>2, <2>1, <2>3, InvFacts, TuneToKeeps, NothingIsChoice
<1>6. CASE ~(tuned /\ (on \/ picture = "noSignal"))
  <2>1. rt' = r /\ UNCHANGED <<tuned, picture, paused, real>>
    BY <1>1, <1>6 DEF r
  <2>2. picture # "noSignal"
    BY <1>6, PlayingIsOn
  <2>3. TimelineTypeOK'
    BY <1>2, <1>3, <2>1, InvFacts DEF TimelineTypeOK, TimelineInv
  <2>4. OffIsStopped'
    BY <1>2, <2>1, InvFacts DEF OffIsStopped
  <2>5. PlaysUsable'
    <3> SUFFICES ASSUME picture = "playing" PROVE IsUsable(r, r.current)
      BY <2>1 DEF PlaysUsable, IsUsable, Usable
    <3>1. tuned = TRUE /\ ~on
      BY <1>6, PlayingIsOn
    <3>2. rt.current \in Items /\ rt.current \notin rt.failed \cup rt.disabled
      BY InvFacts DEF PlaysUsable, IsUsable, Usable
    <3> QED BY <1>3, <3>1, <3>2 DEF IsUsable, Usable
  <2>6. EstimateIsPicture'
    BY <1>3, <2>1, InvFacts DEF EstimateIsPicture
  <2>7. NoSignalMeansNothingUsable'
    BY <2>1, <2>2 DEF NoSignalMeansNothingUsable
  <2> QED BY <2>3, <2>4, <2>5, <2>6, <2>7 DEF TimelineInv, PictureIsTrue
<1> QED BY <1>5, <1>6

LEMMA PlaybackFailedKeeps ==
  ASSUME TimelineInv, setting' = setting, PlaybackFailed
  PROVE  TimelineInv'
<1> DEFINE m == MarkLeft(rt)
           r == [m EXCEPT !.failed = @ \cup {rt.current}]
<1>1. m \in Runtime /\ m.current = rt.current
  BY InvFacts, MarkLeftKeeps DEF SameChannel
<1>2. picture = "playing" /\ rt.current \in Items /\ standby = FALSE /\ tuned = TRUE
  BY InvFacts, UsableAreItems, PlayingIsOn DEF PlaybackFailed, PlaysUsable
<1>3. PICK q \in TakeUsable(r) :
        IF q.current = Nothing
        THEN /\ rt' = [q EXCEPT !.current = r.current]
             /\ picture' = "noSignal" /\ real' = 0
             /\ UNCHANGED <<tuned, paused>>
        ELSE TuneTo(Visit(q))
  BY DEF PlaybackFailed
<1>4. standby' = FALSE /\ mode' = mode /\ seen' = seen /\ asked' = Nothing
  BY <1>2 DEF PlaybackFailed, ByRemote
<1> HIDE DEF m
<1>5. r \in Runtime /\ r.current = rt.current
  BY <1>1, <1>2 DEF Runtime
<1> HIDE DEF r
<1>6. SameChannel(r, q) /\ q \in Runtime /\ (q.current = Nothing => Lost(r))
  BY <1>3, <1>5, TakeUsableKeeps DEF SameChannel
<1>7. CASE q.current = Nothing
  <2>1. /\ rt' = [q EXCEPT !.current = rt.current] /\ picture' = "noSignal" /\ real' = 0
        /\ UNCHANGED <<tuned, paused>>
    BY <1>3, <1>5, <1>7
  <2>2. SameChannel(q, rt')
    BY <1>2, <1>6, <2>1, WithCurrent
  <2>3. rt' \in Runtime /\ Lost(rt')
    BY <1>5, <1>6, <1>7, <2>2, SameUsable DEF SameChannel
  <2>4. TimelineTypeOK'
    BY <1>4, <2>1, <2>3, InvFacts DEF TimelineTypeOK, Pictures, TimelineInv
  <2>5. OffIsStopped' /\ PlaysUsable' /\ EstimateIsPicture'
    BY <1>2, <1>4, <2>1 DEF OffIsStopped, PlaysUsable, EstimateIsPicture
  <2>6. NoSignalMeansNothingUsable'
    BY <2>3 DEF NoSignalMeansNothingUsable, Lost, Outnumbered, Usable, Guide
  <2> QED BY <2>4, <2>5, <2>6 DEF TimelineInv, PictureIsTrue
<1>8. CASE q.current # Nothing
  <2>1. TuneTo(Visit(q)) /\ Visit(q) \in Runtime
    BY <1>3, <1>6, <1>8, VisitKeeps DEF SameChannel
  <2> QED BY <1>4, <2>1, InvFacts, TuneToKeeps, NothingIsChoice
<1> QED BY <1>7, <1>8

(* The picture tells the timeline where it is.                                *)
LEMMA ReportedKeeps ==
  ASSUME TimelineInv, picture = "playing"
  PROVE  /\ SameChannel(rt, Reported(rt)) /\ Reported(rt) \in Runtime /\ Reported(rt).current = rt.current
         /\ Reported(rt).idle = 0
         /\ \/ Reported(rt).anchor = real
            \/ /\ Duration[rt.current] > 0 /\ real >= Duration[rt.current]
               /\ Reported(rt).anchor = Duration[rt.current] - 1
<1> DEFINE at == Clamped(rt, rt.current, real)
<1>1. at \in Nat
  BY InvFacts, PositionsAreNat
<1>2. IsUsable(rt, rt.current)
  BY InvFacts DEF PlaysUsable
<1>3. Duration[rt.current] \in Nat /\ real \in Nat
  BY <1>2, InvFacts, UsableAreItems, DurationIsNat
<1>4. \/ at = real
      \/ Duration[rt.current] > 0 /\ real >= Duration[rt.current] /\ at = Duration[rt.current] - 1
  <2>1. CASE Duration[rt.current] > 0
    <3>1. at = Min({real, Duration[rt.current] - 1})
      BY <1>2, <2>1 DEF Clamped
    <3>2. Min({real, Duration[rt.current] - 1})
            = IF real <= Duration[rt.current] - 1 THEN real ELSE Duration[rt.current] - 1
      BY <1>3, MinOfTwo, Duration[rt.current] - 1 \in Int
    <3> QED BY <1>3, <2>1, <3>1, <3>2
  <2>2. CASE ~(Duration[rt.current] > 0)
    BY <2>2 DEF Clamped
  <2> QED BY <2>1, <2>2
<1>5. Reported(rt) = StoredAt(rt, at)
  BY DEF Reported
<1> HIDE DEF at
<1>6. /\ SameChannel(rt, Reported(rt)) /\ Reported(rt).current = rt.current
      /\ Reported(rt).anchor = at /\ Reported(rt).idle = 0
  BY <1>1, <1>5, InvFacts, StoredAtKeeps
<1> QED BY <1>4, <1>6 DEF SameChannel

LEMMA ReportedIsPicture ==
  ASSUME TimelineInv, picture = "playing", rt' = Reported(rt), real' = real
  PROVE  EstimateIsPicture'
<1> SUFFICES \/ rt'.anchor + rt'.idle = real'
             \/ /\ Duration[rt'.current] > 0 /\ real' >= Duration[rt'.current]
                /\ rt'.anchor + rt'.idle \in {0, Duration[rt'.current] - 1}
  BY DEF EstimateIsPicture
<1>1. /\ rt'.current = rt.current /\ rt'.idle = 0
      /\ \/ rt'.anchor = real
         \/ /\ Duration[rt.current] > 0 /\ real >= Duration[rt.current]
            /\ rt'.anchor = Duration[rt.current] - 1
  BY ReportedKeeps
<1>2. rt'.anchor \in Nat
  BY ReportedKeeps DEF Runtime
<1>3. rt'.anchor + rt'.idle = rt'.anchor
  BY <1>1, <1>2
<1> QED BY <1>1, <1>3

LEMMA ReportPositionKeeps ==
  ASSUME TimelineInv, setting' = setting, ReportPosition \/ TogglePause
  PROVE  TimelineInv'
<1>1. /\ picture = "playing" /\ rt' = Reported(rt)
      /\ UNCHANGED <<tuned, standby, picture, mode, real, seen, asked>>
      /\ paused' \in BOOLEAN
  BY InvFacts DEF ReportPosition, TogglePause
<1>2. SameChannel(rt, rt') /\ rt'.current = rt.current
  BY <1>1, ReportedKeeps
<1>3. EstimateIsPicture'
  BY <1>1, ReportedIsPicture
<1> QED BY <1>1, <1>2, <1>3, InvFacts, SamePictureKeeps

LEMMA CyclePlaybackModeKeeps ==
  ASSUME TimelineInv, setting' = setting, CyclePlaybackMode
  PROVE  TimelineInv'
<1>1. /\ rt' = Freeze(rt) /\ mode' \in {"continuous", "resume"}
      /\ UNCHANGED <<tuned, standby, picture, paused, real, seen, asked>>
  BY DEF CyclePlaybackMode
<1>2. /\ SameChannel(rt, rt') /\ rt'.current = rt.current /\ rt'.idle = 0
      /\ rt'.anchor = IF paused /\ tuned THEN rt.anchor ELSE rt.anchor + rt.idle
  BY <1>1, InvFacts, FreezeKeeps
<1>3. EstimateIsPicture'
  BY <1>1, <1>2, FrozenIsPicture
<1> QED BY <1>1, <1>2, <1>3, InvFacts, SamePictureKeeps

LEMMA TurnOffKeeps ==
  ASSUME TimelineInv, setting' = setting, TurnOff
  PROVE  TimelineInv'
<1>1. rt' \in Runtime
  BY LeftKeeps DEF TurnOff
<1>2. /\ standby' = TRUE /\ picture' = "stopped" /\ real' = 0 /\ paused' = FALSE
      /\ tuned' = tuned /\ mode' = mode /\ seen' = seen /\ asked' = Nothing
  BY DEF TurnOff, Stop
<1>3. "stopped" \in Pictures \ {"noSignal", "playing"} /\ 0 \in Nat
  BY DEF Pictures
<1> QED BY <1>1, <1>2, <1>3, InvFacts, QuietKeeps

LEMMA TurnOnKeeps ==
  ASSUME TimelineInv, setting' = setting, TurnOn
  PROVE  TimelineInv'
<1>1. /\ standby' = FALSE /\ picture = "stopped"
      /\ UNCHANGED <<rt, tuned, picture, paused, mode, real, seen, asked>>
  BY InvFacts DEF TurnOn, OffIsStopped
<1>2. "stopped" \in Pictures \ {"noSignal", "playing"}
  BY DEF Pictures
<1> QED BY <1>1, <1>2, InvFacts, QuietKeeps

LEMMA EnterMyTvKeeps ==
  ASSUME TimelineInv, setting' = setting, EnterMyTv
  PROVE  TimelineInv'
<1>1. /\ rt' = Reported(rt) /\ picture = "playing" /\ picture' = "stopped" /\ real' = 0
      /\ UNCHANGED <<tuned, standby, paused, mode, seen, asked>>
  BY DEF EnterMyTv
<1>2. rt' \in Runtime
  BY <1>1, ReportedKeeps
<1>3. "stopped" \in Pictures \ {"noSignal", "playing"} /\ 0 \in Nat
  BY DEF Pictures
<1> QED BY <1>1, <1>2, <1>3, InvFacts, QuietKeeps

LEMMA ResumePictureKeeps ==
  ASSUME TimelineInv, setting' = setting, ResumePicture
  PROVE  TimelineInv'
<1>1. Prepare(rt) \in Runtime
  BY InvFacts, PrepareKeeps DEF SameChannel
<1>2. [Prepare(rt) EXCEPT !.idle = 0] \in Runtime
  BY <1>1, 0 \in Nat DEF Runtime
<1>3. /\ TuneTo([Prepare(rt) EXCEPT !.idle = 0]) /\ standby' = FALSE /\ mode' = mode
      /\ seen' = seen /\ asked' = Nothing
  BY InvFacts DEF ResumePicture, ByRemote
<1> QED BY <1>2, <1>3, InvFacts, TuneToKeeps, NothingIsChoice

LEMMA StartedAgainKeeps ==
  ASSUME TimelineInv, setting' = setting, NEW r \in Runtime, NEW away \in Nat, NEW sameBoot \in BOOLEAN,
         StartedAgain(r, away, sameBoot)
  PROVE  TimelineInv'
<1>1. PICK q \in Loaded(r, away, sameBoot) :
        IF tuned THEN TuneTo(Prepare(q))
        ELSE rt' = q /\ paused' = FALSE /\ UNCHANGED <<tuned, picture, real>>
  BY DEF StartedAgain
<1>2. /\ SeenNow([i \in Items |-> [seen[i] EXCEPT !.ago = Capped(@ + away)]])
      /\ standby' = FALSE /\ asked' = Nothing /\ mode' = mode
  BY DEF StartedAgain
<1>3. q \in Runtime /\ Prepare(q) \in Runtime
  BY <1>1, InvFacts, LoadedKeeps, PrepareKeeps DEF SameChannel
<1>4. seen' \in [Items -> [at : Nat, ago : Nat]]
  <2>1. ASSUME NEW i \in Items
        PROVE  [seen[i] EXCEPT !.ago = Capped(@ + away)] \in [at : Nat, ago : Nat]
    <3>1. seen[i] \in [at : Nat, ago : Nat] /\ seen[i].ago + away \in Nat
      BY InvFacts
    <3>2. Capped(seen[i].ago + away) \in Nat
      BY <3>1, InvFacts, CappedIsAge
    <3> QED BY <3>1, <3>2
  <2>2. [i \in Items |-> [seen[i] EXCEPT !.ago = Capped(@ + away)]] \in [Items -> [at : Nat, ago : Nat]]
    BY <2>1
  <2> QED BY <1>2, <2>2, InvFacts DEF SeenNow
<1>5. CASE tuned
  BY <1>1, <1>2, <1>3, <1>4, <1>5, TuneToKeeps, NothingIsChoice
<1>6. CASE ~tuned
  <2>1. picture = "stopped"
    BY <1>6, InvFacts DEF OffIsStopped
  <2>2. rt' = q /\ paused' = FALSE /\ UNCHANGED <<tuned, picture, real>>
    BY <1>1, <1>6
  <2>3. "stopped" \in Pictures \ {"noSignal", "playing"}
    BY DEF Pictures
  <2> QED BY <1>2, <1>3, <1>4, <2>1, <2>2, <2>3, InvFacts, QuietKeeps
<1> QED BY <1>5, <1>6

LEMMA RestartProcessKeeps ==
  ASSUME TimelineInv, setting' = setting, RestartProcess
  PROVE  TimelineInv'
<1>1. PICK away \in 0..MaxAway, sameBoot \in BOOLEAN : StartedAgain(rt, away, sameBoot)
  BY DEF RestartProcess
<1>2. away \in Nat
  OBVIOUS
<1> QED BY <1>1, <1>2, InvFacts, StartedAgainKeeps

LEMMA WatchdogRestartKeeps ==
  ASSUME TimelineInv, setting' = setting, WatchdogRestart
  PROVE  TimelineInv'
<1> DEFINE r == MarkLeft(rt)
           next == AdjacentUsable(r, 1)
<1>1. r \in Runtime
  BY InvFacts, MarkLeftKeeps DEF SameChannel
<1>2. StartedAgain(Visit([r EXCEPT !.current = next]), 0, TRUE)
  BY DEF WatchdogRestart
<1>3. next \in Items \cup {Nothing}
  BY AdjacentIsUsable, UsableAreItems
<1> HIDE DEF r, next
<1>4. [r EXCEPT !.current = next] \in Runtime
  BY <1>1, <1>3 DEF Runtime
<1>5. Visit([r EXCEPT !.current = next]) \in Runtime
  BY <1>4, VisitKeeps DEF SameChannel
<1>6. 0 \in Nat /\ TRUE \in BOOLEAN
  OBVIOUS
<1> QED BY <1>2, <1>5, <1>6, StartedAgainKeeps

LEMMA ReloadLibraryKeeps ==
  ASSUME TimelineInv, setting' = setting, ReloadLibrary
  PROVE  TimelineInv'
<1>1. PICK q \in Loaded(rt, 0, TRUE) :
       IF tuned /\ ~standby /\ rt.current # Nothing
       THEN /\ rt' = [q EXCEPT !.current = rt.current]
            /\ picture' = IF picture \in {"playing", "stopped"} THEN picture ELSE "black"
            /\ UNCHANGED <<tuned, paused, real>>
       ELSE IF tuned /\ ~standby THEN TuneTo(Prepare(q))
       ELSE rt' = q /\ tuned' = FALSE /\ UNCHANGED <<picture, paused, real>>
  BY DEF ReloadLibrary
<1>2. asked' = Nothing /\ UNCHANGED <<standby, mode, seen>>
  BY DEF ReloadLibrary
<1>3. 0 \in Nat /\ TRUE \in BOOLEAN
  OBVIOUS
<1>4. /\ SameChannel(rt, q)
      /\ IsUsable(rt, rt.current) =>
           /\ q.current = rt.current /\ q.idle = 0
           /\ q.anchor = Sanitised(rt, rt.current, SavedPosition(rt) + IF mode = "continuous" THEN 0 ELSE 0)
  BY <1>1, <1>3, InvFacts, LoadedKeeps
<1>5. q \in Runtime /\ Prepare(q) \in Runtime
  BY <1>4, PrepareKeeps DEF SameChannel
<1>6. CASE tuned /\ ~standby /\ rt.current # Nothing
  <2>1. /\ rt' = [q EXCEPT !.current = rt.current]
        /\ picture' = IF picture \in {"playing", "stopped"} THEN picture ELSE "black"
        /\ UNCHANGED <<tuned, paused, real>>
    BY <1>1, <1>6
  <2>2. /\ rt' \in Runtime /\ SameChannel(rt, rt') /\ rt'.current = rt.current
        /\ rt'.anchor = q.anchor /\ rt'.idle = q.idle
    <3>1. rt.current \in Items /\ rt.current \in Items \cup {Nothing}
      BY <1>6, InvFacts
    <3>2. rt' \in Runtime /\ SameChannel(q, rt')
      BY <1>5, <2>1, <3>1, WithCurrent
    <3> QED BY <1>4, <1>5, <2>1, <3>2 DEF SameChannel, Runtime
  <2>3. CASE picture # "playing"
    <3>1. picture' \in Pictures \ {"noSignal", "playing"}
      BY <2>1, <2>3, InvFacts DEF Pictures
    <3>2. standby' \/ ~tuned' => picture' = "stopped"
      BY <1>2, <1>6, <2>1
    <3> QED BY <1>2, <2>1, <2>2, <3>1, <3>2, InvFacts, QuietKeeps, NothingIsChoice
  <2>4. CASE picture = "playing"
    <3>1. IsUsable(rt, rt.current) /\ Duration[rt.current] \in Nat
      BY <2>4, InvFacts, UsableAreItems, DurationIsNat DEF PlaysUsable
    <3>2. EstimateIsPicture'
      <4> SUFFICES ASSUME ~paused
                   PROVE  \/ rt'.anchor + rt'.idle = real
                          \/ /\ Duration[rt.current] > 0 /\ real >= Duration[rt.current]
                             /\ rt'.anchor + rt'.idle \in {0, Duration[rt.current] - 1}
        BY <2>1, <2>2 DEF EstimateIsPicture
      <4> DEFINE position == rt.anchor + rt.idle
                 kept == Sanitised(rt, rt.current, position)
      <4>1. position \in Nat
        BY InvFacts
      <4>2. SavedPosition(rt) + (IF mode = "continuous" THEN 0 ELSE 0) = position
        BY <1>6, <4>1 DEF SavedPosition
      <4>3. \/ position = real
            \/ /\ Duration[rt.current] > 0 /\ real >= Duration[rt.current]
               /\ position \in {0, Duration[rt.current] - 1}
        BY <2>4, InvFacts DEF EstimateIsPicture
      <4> HIDE DEF position
      <4>4. q.anchor = kept /\ q.idle = 0
        BY <1>4, <3>1, <4>2
      <4>5. kept = IF Duration[rt.current] > 0 /\ position >= Duration[rt.current] THEN 0 ELSE position
        BY <3>1 DEF Sanitised
      <4>6. rt'.anchor + rt'.idle = kept
        BY <2>2, <4>1, <4>4, <4>5
      <4> HIDE DEF kept
      <4>7. real \in Nat
        BY InvFacts
      <4> QED BY <3>1, <4>1, <4>3, <4>5, <4>6, <4>7
    <3>3. picture' = picture
      BY <2>1, <2>4
    <3> QED BY <1>2, <2>1, <2>2, <3>2, <3>3, InvFacts, SamePictureKeeps, NothingIsChoice
  <2> QED BY <2>3, <2>4
<1>7. CASE tuned /\ ~standby /\ rt.current = Nothing
  <2>1. TuneTo(Prepare(q)) /\ standby' = FALSE
    BY <1>1, <1>2, <1>7, InvFacts
  <2> QED BY <1>2, <1>5, <2>1, InvFacts, TuneToKeeps, NothingIsChoice
<1>8. CASE ~(tuned /\ ~standby)
  <2>1. rt' = q /\ tuned' = FALSE /\ UNCHANGED <<picture, paused, real>>
    BY <1>1, <1>8
  <2>2. picture = "stopped"
    BY <1>8, InvFacts DEF OffIsStopped
  <2>3. "stopped" \in Pictures \ {"noSignal", "playing"}
    BY DEF Pictures
  <2> QED BY <1>2, <1>5, <2>1, <2>2, <2>3, InvFacts, QuietKeeps, NothingIsChoice
<1> QED BY <1>6, <1>7, <1>8

LEMMA TickKeeps ==
  ASSUME TimelineInv, setting' = setting, Tick
  PROVE  TimelineInv'
<1> DEFINE left == [i \in Items |-> IF rt.left[i] = -1 THEN -1 ELSE Capped(rt.left[i] + 1)]
<1>1. /\ rt' = [rt EXCEPT !.idle = @ + 1, !.left = left]
      /\ real' = IF picture = "playing" /\ ~paused THEN real + 1 ELSE real
      /\ SeenNow([i \in Items |->
           IF OnScreen(i) THEN [at |-> real', ago |-> 0] ELSE [seen[i] EXCEPT !.ago = Capped(@ + 1)]])
      /\ UNCHANGED <<tuned, standby, picture, paused, mode, asked>>
  BY DEF Tick
<1>2. left \in [Items -> Nat \cup {-1}]
  <2> SUFFICES ASSUME NEW i \in Items
               PROVE  (IF rt.left[i] = -1 THEN -1 ELSE Capped(rt.left[i] + 1)) \in Nat \cup {-1}
    OBVIOUS
  <2>1. rt.left[i] \in Nat \cup {-1}
    BY InvFacts DEF Runtime
  <2>2. rt.left[i] # -1 => rt.left[i] + 1 \in Nat
    BY <2>1
  <2> QED BY <2>2, InvFacts, CappedIsAge
<1> HIDE DEF left
<1>3. SameChannel(rt, rt') /\ rt'.current = rt.current /\ rt'.anchor = rt.anchor /\ rt'.idle = rt.idle + 1
  <2>1. rt.idle + 1 \in Nat /\ rt \in Runtime /\ rt' = [rt EXCEPT !.idle = rt.idle + 1, !.left = left]
    BY <1>1, InvFacts
  <2> QED BY <1>2, <2>1 DEF Runtime, SameChannel
<1>4. real' \in Nat
  BY <1>1, InvFacts
<1>5. seen' \in [Items -> [at : Nat, ago : Nat]]
  <2> DEFINE history == [i \in Items |->
               IF OnScreen(i) THEN [at |-> real', ago |-> 0] ELSE [seen[i] EXCEPT !.ago = Capped(@ + 1)]]
  <2>1. ASSUME NEW i \in Items
        PROVE  history[i] \in [at : Nat, ago : Nat]
    <3>1. seen[i] \in [at : Nat, ago : Nat] /\ seen[i].ago + 1 \in Nat
      BY InvFacts
    <3>2. Capped(seen[i].ago + 1) \in Nat
      BY <3>1, InvFacts, CappedIsAge
    <3>3. [at |-> real', ago |-> 0] \in [at : Nat, ago : Nat]
      BY <1>4, 0 \in Nat
    <3>4. [seen[i] EXCEPT !.ago = Capped(@ + 1)] \in [at : Nat, ago : Nat]
      BY <3>1, <3>2
    <3>5. history[i] = IF OnScreen(i) THEN [at |-> real', ago |-> 0]
                       ELSE [seen[i] EXCEPT !.ago = Capped(@ + 1)]
      OBVIOUS
    <3> HIDE DEF history
    <3> QED BY <3>3, <3>4, <3>5
  <2>2. history \in [Items -> [at : Nat, ago : Nat]]
    BY <2>1
  <2>3. SeenNow(history)
    BY <1>1
  <2> HIDE DEF history
  <2> QED BY <2>2, <2>3, InvFacts DEF SeenNow
<1>6. TimelineTypeOK'
  BY <1>1, <1>3, <1>4, <1>5, InvFacts DEF TimelineTypeOK, TimelineInv, SameChannel
<1>7. OffIsStopped'
  BY <1>1, InvFacts DEF OffIsStopped
<1>8. PlaysUsable'
  BY <1>1, <1>3, InvFacts DEF PlaysUsable, IsUsable, Usable, SameChannel
<1>9. NoSignalMeansNothingUsable'
  BY <1>1, <1>3, InvFacts DEF NoSignalMeansNothingUsable, Usable, SameChannel, Guide
<1>10. EstimateIsPicture'
  <2> SUFFICES ASSUME picture = "playing", ~paused PROVE rt'.anchor + rt'.idle = real'
    BY <1>1 DEF EstimateIsPicture
  <2>1. \/ rt.anchor + rt.idle = real
        \/ Duration[rt.current] > 0 /\ real >= Duration[rt.current]
    BY InvFacts DEF EstimateIsPicture
  <2>2. Duration[rt.current] > 0 => real < Duration[rt.current]
    BY DEF Tick
  <2>3. Duration[rt.current] \in Nat
    BY InvFacts, UsableAreItems, DurationIsNat DEF PlaysUsable
  <2>4. rt.anchor + rt.idle = real
    BY <2>1, <2>2, <2>3, InvFacts
  <2> QED BY <1>1, <1>3, <2>4, InvFacts
<1> QED BY <1>6, <1>7, <1>8, <1>9, <1>10 DEF TimelineInv, PictureIsTrue

LEMMA FreshIsRuntime ==
  ASSUME NEW films \in BOOLEAN
  PROVE  Fresh(films) \in Runtime
<1>1. [i \in Items |-> 0] \in [Items -> Nat] /\ [i \in Items |-> -1] \in [Items -> Nat \cup {-1}]
  OBVIOUS
<1> QED BY <1>1, EmptyBagIsBag, 0 \in Nat DEF Fresh, Runtime

LEMMA TimelineInitHolds == TimelineInit => TimelineInv
<1> SUFFICES ASSUME TimelineInit PROVE TimelineInv
  OBVIOUS
<1>1. setting \in Setting /\ setting.films \in BOOLEAN /\ mode \in {"continuous", "resume"}
  BY DEF TimelineInit, Setting
<1>2. PICK r \in Seeded(Fresh(setting.films)) : rt = Prepare(r)
  BY DEF TimelineInit
<1>3. rt \in Runtime
  BY <1>1, <1>2, FreshIsRuntime, SeededKeeps, PrepareKeeps DEF SameChannel
<1>4. seen \in [Items -> [at : Nat, ago : Nat]]
  BY 0 \in Nat DEF TimelineInit
<1>5. TimelineTypeOK
  BY <1>1, <1>3, <1>4, 0 \in Nat DEF TimelineInit, TimelineTypeOK, Pictures
<1>6. OffIsStopped /\ PlaysUsable /\ PictureIsTrue
  BY DEF TimelineInit, OffIsStopped, PlaysUsable, PictureIsTrue, EstimateIsPicture,
     NoSignalMeansNothingUsable
<1> QED BY <1>5, <1>6 DEF TimelineInv

LEMMA TimelineStepHolds == TimelineInv /\ [TimelineNext]_timelineVars => TimelineInv'
<1> SUFFICES ASSUME TimelineInv, [TimelineNext]_timelineVars PROVE TimelineInv'
  OBVIOUS
<1>1. CASE TimelineNext
  <2>1. setting' = setting
    BY <1>1 DEF TimelineNext
  <2> QED
    BY <1>1, <2>1, FinishTuneKeeps, LeaveChannelKeeps, ReturnToChannelKeeps, RetuneChannelKeeps,
       ChangeProgrammeKeeps, RandomEpisodeKeeps, RestartProgrammeKeeps, PlayPortalProgrammeKeeps,
       ToggleProgrammeKeeps, PlaybackEndedKeeps, PlaybackFailedKeeps, ReportPositionKeeps,
       CyclePlaybackModeKeeps, TurnOffKeeps, TurnOnKeeps, EnterMyTvKeeps, ResumePictureKeeps,
       RestartProcessKeeps, WatchdogRestartKeeps, ReloadLibraryKeeps, TickKeeps
    DEF TimelineNext
<1>2. CASE UNCHANGED timelineVars
  <2>1. UNCHANGED <<setting, rt, tuned, standby, picture, paused, mode, real, seen, asked>>
    BY <1>2 DEF timelineVars
  <2>2. SameChannel(rt, rt') /\ EstimateIsPicture'
    BY <2>1, InvFacts DEF SameChannel, EstimateIsPicture
  <2> QED BY <2>1, <2>2, InvFacts, SamePictureKeeps
<1> QED BY <1>1, <1>2

(* What the player remembers of a channel is always a timeline: a bag of the  *)
(* channel's own programmes, positions and ages that are numbers, and a       *)
(* current programme that is one of them or none (ChannelRuntime).            *)
THEOREM TimelineTypeCorrect == TimelineSpec => []TimelineTypeOK
<1>1. TimelineInv => TimelineTypeOK
  BY DEF TimelineInv
<1> QED BY <1>1, TimelineInitHolds, TimelineStepHolds, PTL DEF TimelineSpec

(* Whatever the setting, the lengths of the programmes and the interruptions, *)
(* the position the TV counts on while it plays is the decoder's, and "no     *)
(* signal" is shown only when nothing of the channel can be played - or, with *)
(* the guide off, when at least half of its three or more programmes cannot.  *)
THEOREM PictureStaysTrue == TimelineSpec => []PictureIsTrue
<1>1. TimelineInv => PictureIsTrue
  BY DEF TimelineInv
<1> QED BY <1>1, TimelineInitHolds, TimelineStepHolds, PTL DEF TimelineSpec
=============================================================================
