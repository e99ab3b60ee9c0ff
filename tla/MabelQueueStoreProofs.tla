--------------------- MODULE MabelQueueStoreProofs ---------------------
(* What every transaction preserves, for any number of programmes, streams
   and entries. *)
EXTENDS MabelQueueStore, FiniteSetTheorems, SequenceTheorems,
        WellFoundedInduction, TLAPS

(* ---------------------------------------------------------------------- *)
(* Sets of positions and tables of rows.                                    *)

\* A non-empty set of naturals has a least element.
LEMMA LeastNatural ==
  ASSUME NEW S, S \subseteq Nat, S # {}
  PROVE  /\ Min(S) \in S
         /\ \A x \in S : Min(S) <= x
<1>1. PICK m \in S : \A y \in S : ~ (<<y, m>> \in OpToRel(<, Nat))
  BY NatLessThanWellFounded, WFMin
<1>2. \A y \in S : m <= y
  <2> TAKE y \in S
  <2>1. ~(y < m)
    BY <1>1 DEF OpToRel
  <2> QED BY <2>1
<1>3. \E x \in S : \A y \in S : x =< y
  BY <1>2
<1> QED BY <1>3 DEF Min

\* A non-empty bounded set of naturals has a greatest element.
LEMMA GreatestNatural ==
  ASSUME NEW n \in Nat, NEW S, S \subseteq 0..n, S # {}
  PROVE  /\ Max(S) \in S
         /\ \A x \in S : x <= Max(S)
<1> DEFINE Bounds == {b \in Nat : \A x \in S : x <= b}
<1>1. Bounds \subseteq Nat /\ n \in Bounds
  OBVIOUS
<1>2. PICK b \in Bounds : \A c \in Bounds : b <= c
  <2>1. Min(Bounds) \in Bounds /\ \A c \in Bounds : Min(Bounds) <= c
    BY <1>1, LeastNatural
  <2> QED BY <2>1
<1>3. b \in S
  <2> SUFFICES ASSUME b \notin S PROVE FALSE
    OBVIOUS
  <2>1. \A x \in S : x \in Nat /\ x < b
    BY <1>2
  <2>2. b \in Nat /\ b > 0
    <3>1. PICK x \in S : TRUE
      OBVIOUS
    <3> QED BY <3>1, <2>1
  <2>3. b - 1 \in Bounds
    BY <2>1, <2>2
  <2> QED BY <2>3, <2>2, <1>2
<1>4. \A y \in S : b >= y
  BY <1>2
<1> QED BY <1>3, <1>4 DEF Max

\* NextAfter is a natural beyond every element.
LEMMA NextAfterType ==
  ASSUME NEW n \in Nat, NEW S, S \subseteq 0..n
  PROVE  /\ NextAfter(S) \in 0..(n + 1)
         /\ \A x \in S : x < NextAfter(S)
<1>1. CASE S = {}
  BY <1>1 DEF NextAfter
<1>2. CASE S # {}
  <2>1. Max(S) \in S /\ \A x \in S : x <= Max(S)
    BY <1>2, GreatestNatural
  <2>2. Max(S) \in 0..n /\ NextAfter(S) = Max(S) + 1
    BY <2>1, <1>2 DEF NextAfter
  <2>3. \A x \in S : x \in 0..n /\ x < NextAfter(S)
    BY <2>1, <2>2
  <2> QED BY <2>2, <2>3
<1> QED BY <1>1, <1>2

\* A table over the identities below n, with positions below n.
IsTable(rows, n) == DOMAIN rows \subseteq Id(n) /\ rows \in [DOMAIN rows -> Row(n)]

\* The same before ranking, when a position may run ahead.
IsUnranked(rows, n) ==
  /\ DOMAIN rows \subseteq Id(n)
  /\ rows \in [DOMAIN rows -> [position : Nat, prog : Programme]]

LEMMA PositionsBounded ==
  ASSUME NEW n \in Nat \ {0}, NEW rows, IsTable(rows, n)
  PROVE  /\ Positions(rows) \subseteq 0..(n - 1)
         /\ NextAfter(Positions(rows)) \in 0..n
         /\ \A i \in DOMAIN rows : rows[i].position < NextAfter(Positions(rows))
<1>1. Positions(rows) \subseteq 0..(n - 1)
  BY DEF Positions, IsTable, Row
<1>2. n - 1 \in Nat /\ (n - 1) + 1 = n
  OBVIOUS
<1>3. /\ NextAfter(Positions(rows)) \in 0..n
      /\ \A x \in Positions(rows) : x < NextAfter(Positions(rows))
  BY <1>1, <1>2, NextAfterType
<1> QED BY <1>1, <1>3 DEF Positions

LEMMA FirstIsEntry ==
  ASSUME NEW n \in Nat \ {0}, NEW rows, IsTable(rows, n), DOMAIN rows # {}
  PROVE  /\ First(rows) \in DOMAIN rows
         /\ \A i \in DOMAIN rows : rows[First(rows)].position <= rows[i].position
<1>1. Positions(rows) \subseteq Nat /\ Positions(rows) # {}
  BY DEF Positions, IsTable, Row
<1>2. Min(Positions(rows)) \in Positions(rows)
      /\ \A x \in Positions(rows) : Min(Positions(rows)) <= x
  BY <1>1, LeastNatural
<1>3. \E i \in DOMAIN rows : rows[i].position = Min(Positions(rows))
  BY <1>2 DEF Positions
<1> QED BY <1>2, <1>3 DEF First, Positions

\* Fewer rows stand before a row than there are identities.
LEMMA RankBounded ==
  ASSUME NEW n \in Nat \ {0}, NEW rows, IsUnranked(rows, n), NEW i \in DOMAIN rows,
         NEW S \in SUBSET Before(rows, i)
  PROVE  IsFiniteSet(S) /\ Cardinality(S) \in 0..(n - 2)
<1>1. i \in Id(n) /\ i \in Nat /\ n - 1 \in Nat
  BY DEF IsUnranked, Id
<1>2. IsFiniteSet(Id(n)) /\ Cardinality(Id(n)) = n - 1
  BY <1>1, FS_Interval DEF Id
<1>3. IsFiniteSet(Id(n) \ {i}) /\ Cardinality(Id(n) \ {i}) = n - 2
  BY <1>1, <1>2, FS_RemoveElement
<1>4. S \subseteq Id(n) \ {i}
  BY DEF Before, IsUnranked, Id
<1>5. IsFiniteSet(S) /\ Cardinality(S) <= n - 2
  BY <1>3, <1>4, FS_Subset
<1> QED BY <1>5, FS_CardinalityType

LEMMA RankedIsTable ==
  ASSUME NEW n \in Nat \ {0}, NEW rows, IsUnranked(rows, n)
  PROVE  IsTable(Ranked(rows), n) /\ DOMAIN Ranked(rows) = DOMAIN rows
<1>1. ASSUME NEW i \in DOMAIN rows
      PROVE  Cardinality(Before(rows, i)) \in 0..(n - 1)
  BY RankBounded
<1> QED BY <1>1 DEF Ranked, IsTable, IsUnranked, Row

LEMMA ToFrontIsTable ==
  ASSUME NEW n \in Nat \ {0}, NEW rows, IsUnranked(rows, n), NEW id
  PROVE  IsTable(ToFront(rows, id), n) /\ DOMAIN ToFront(rows, id) = DOMAIN rows
<1>1. ASSUME NEW i \in DOMAIN rows
      PROVE  1 + Cardinality(Before(rows, i) \ {id}) \in 0..(n - 1)
  <2>1. Cardinality(Before(rows, i) \ {id}) \in 0..(n - 2)
    BY RankBounded
  <2> QED BY <2>1
<1> QED BY <1>1 DEF ToFront, IsTable, IsUnranked, Row
(* ---------------------------------------------------------------------- *)
(* Every transaction maps databases to databases.                           *)

LEMMA EmptyIsTable ==
  /\ DOMAIN Empty = {}
  /\ \A n : IsTable(Empty, n)
  /\ Empty \in [DOMAIN Empty -> Programme]
BY DEF Empty, IsTable

LEMMA EntriesTable ==
  ASSUME NEW d, IsDatabase(d)
  PROVE  IsTable(d.entries, d.nextId) /\ d.nextId \in Nat \ {0}
BY DEF IsDatabase, IsTable

\* The tables of a database may be replaced by tables of a later identity.
LEMMA TablesReplaced ==
  ASSUME NEW d, IsDatabase(d), NEW n \in Nat, n >= d.nextId,
         NEW rows, IsTable(rows, n)
  PROVE  IsDatabase([d EXCEPT !.entries = rows, !.nextId = n])
<1>1. Id(d.nextId) \subseteq Id(n) /\ n \in Nat \ {0}
  BY DEF Id, IsDatabase
<1>2. d.history \in Seq([id : Id(n), prog : Programme])
  <2> DEFINE Old == [id : Id(d.nextId), prog : Programme]
             New == [id : Id(n), prog : Programme]
  <2>1. d.history \in Seq(Old)
    BY DEF IsDatabase
  <2>2. Old \subseteq New
    BY <1>1
  <2> HIDE DEF Old, New
  <2>3. d.history \in Seq(New)
    BY <2>1, <2>2, SeqMonotonic
  <2> QED BY <2>3 DEF New
<1>3. DOMAIN d.cycle \subseteq 0..(n - 1)
  BY <1>1 DEF IsDatabase
<1> QED BY <1>1, <1>2, <1>3 DEF IsDatabase, IsTable

LEMMA RefillType ==
  ASSUME NEW d, IsDatabase(d)
  PROVE  IsDatabase(Refill(d))
<1> DEFINE n == d.nextId + NextAfter(DOMAIN d.cycle)
           rows == [i \in {d.nextId + p : p \in DOMAIN d.cycle} |->
                      [position |-> i - d.nextId, prog |-> d.cycle[i - d.nextId]]]
<1>1. d.nextId \in Nat \ {0} /\ DOMAIN d.cycle \subseteq 0..(d.nextId - 1)
      /\ d.cycle \in [DOMAIN d.cycle -> Programme]
  BY DEF IsDatabase
<1>2. NextAfter(DOMAIN d.cycle) \in Nat
      /\ \A p \in DOMAIN d.cycle : p < NextAfter(DOMAIN d.cycle)
  BY <1>1, NextAfterType
<1>3. IsTable(rows, n)
  BY <1>1, <1>2 DEF IsTable, Id, Row
<1>4. n \in Nat /\ n >= d.nextId
  BY <1>1, <1>2
<1> HIDE DEF rows, n
<1>5. IsDatabase([d EXCEPT !.entries = rows, !.nextId = n])
  BY <1>3, <1>4, TablesReplaced
<1> QED BY <1>5 DEF Refill, rows, n

LEMMA DeleteEntryType ==
  ASSUME NEW d, IsDatabase(d), NEW id
  PROVE  IsDatabase(DeleteEntry(d, id))
<1> DEFINE left == Ids(d) \ {id}
           kept == [d EXCEPT !.entries = Restrict(d.entries, left)]
<1>1. IsDatabase(kept)
  BY DEF IsDatabase, Ids, Restrict
<1>2. IsDatabase(Refill(kept))
  BY <1>1, RefillType
<1> QED BY <1>1, <1>2 DEF DeleteEntry

LEMMA WithHistoryType ==
  ASSUME NEW d, IsDatabase(d), NEW id
  PROVE  IsDatabase(WithHistory(d, id)) /\ WithHistory(d, id).entries = d.entries
<1> DEFINE Entry == [id : Id(d.nextId), prog : Programme]
           rows == IF id \in Ids(d)
                   THEN Append(d.history, [id |-> id, prog |-> d.entries[id].prog])
                   ELSE d.history
           extra == IF Len(rows) > HistoryLimit THEN Len(rows) - HistoryLimit ELSE 0
<1>1. d.history \in Seq(Entry)
  BY DEF IsDatabase
<1>2. id \in Ids(d) => [id |-> id, prog |-> d.entries[id].prog] \in Entry
  BY DEF IsDatabase, Ids, Row
<1> HIDE DEF Entry
<1>3. rows \in Seq(Entry)
  BY <1>1, <1>2, AppendProperties
<1>4. extra \in Nat /\ extra <= Len(rows) /\ Len(rows) - extra <= HistoryLimit
  BY <1>3, StoreAssumption
<1> HIDE DEF rows, extra
<1>5. /\ SubSeq(rows, extra + 1, Len(rows)) \in Seq(Entry)
      /\ Len(SubSeq(rows, extra + 1, Len(rows))) <= HistoryLimit
  BY <1>3, <1>4, SubSeqProperties, LenProperties, StoreAssumption
<1>6. IsDatabase([d EXCEPT !.history = SubSeq(rows, extra + 1, Len(rows))])
  BY <1>5 DEF IsDatabase, Entry
<1> QED BY <1>6 DEF WithHistory, rows, extra, IsDatabase

LEMMA ConsumeType ==
  ASSUME NEW d, IsDatabase(d)
  PROVE  IsDatabase(Consume(d))
BY WithHistoryType, DeleteEntryType DEF Consume

LEMMA ReserveType ==
  ASSUME NEW d, IsDatabase(d), NEW id \in Ids(d)
  PROVE  IsDatabase(Reserve(d, id))
BY DEF Reserve, IsDatabase, Ids, Owner

LEMMA ReleasedType ==
  ASSUME NEW d, IsDatabase(d)
  PROVE  IsDatabase(Released(d))
BY DEF Released, IsDatabase, Owner
LEMMA NextItemType ==
  ASSUME NEW d, IsDatabase(d), NEW start \in BOOLEAN
  PROVE  /\ IsDatabase(AfterFinish(d, start))
         /\ NextItem(d, start) # NoEntry => NextItem(d, start) \in Ids(AfterFinish(d, start))
         /\ NextItem(d, start) = NoEntry => Ids(AfterFinish(d, start)) = {}
<1> DEFINE base == AfterFinish(d, start)
<1>1. IsDatabase(base)
  <2>1. IsDatabase(Consume(d))
    BY ConsumeType
  <2> DEFINE c == Consume(d)
  <2> HIDE DEF c
  <2>2. IsDatabase(c) => IsDatabase([c EXCEPT !.active = FALSE, !.current = NoEntry,
                            !.phase = "waiting", !.position = NoProgramme])
    BY DEF IsDatabase
  <2> QED BY <2>1, <2>2 DEF AfterFinish, c
<1>2. Ids(base) # {} => First(base.entries) \in Ids(base)
  BY <1>1, EntriesTable, FirstIsEntry DEF Ids
<1>3. NoEntry \notin Ids(base)
  BY <1>1 DEF IsDatabase, Ids, Id, NoEntry
<1> HIDE DEF base
<1>4. Ids(base) = DOMAIN base.entries
  BY DEF Ids
<1> QED BY <1>1, <1>2, <1>3, <1>4 DEF NextItem, base

LEMMA AdvanceType ==
  ASSUME NEW d, IsDatabase(d), NEW start \in BOOLEAN
  PROVE  IsDatabase(Advance(d, start))
<1> DEFINE base == AfterFinish(d, start)
           next == NextItem(d, start)
<1>1. IsDatabase(base) /\ (next # NoEntry => next \in Ids(base))
  BY NextItemType
<1> HIDE DEF base, next
<1>2. next # NoEntry => IsDatabase(Reserve(base, next))
  BY <1>1, ReserveType
<1>3. IsDatabase([base EXCEPT !.owner = "free"])
      /\ IsDatabase([base EXCEPT !.completed = (d.ending = "all_done"), !.owner = "free"])
  BY <1>1 DEF IsDatabase, Owner
<1> QED BY <1>1, <1>2, <1>3 DEF Advance, base, next

LEMMA PreviousType ==
  ASSUME NEW d, IsDatabase(d)
  PROVE  IsDatabase(Previous(d))
<1> SUFFICES ASSUME PreviousOutcome(d) = "item"
             PROVE  IsDatabase(Previous(d))
  BY DEF Previous
<1> DEFINE n == d.nextId
           Entry == [id : Id(n), prog : Programme]
           last == d.history[Len(d.history)]
           row == [position |-> NextAfter(Positions(d.entries)), prog |-> last.prog]
           rows == IF last.id \in Ids(d) THEN d.entries
                   ELSE [i \in Ids(d) \cup {last.id} |->
                           IF i = last.id THEN row ELSE d.entries[i]]
           kept == SubSeq(d.history, 1, Len(d.history) - 1)
<1>1. d.history \in Seq(Entry) /\ d.history # <<>>
  BY DEF IsDatabase, PreviousOutcome
<1>2. last \in Entry /\ Len(d.history) \in Nat \ {0}
  <2> HIDE DEF Entry
  <2>1. Len(d.history) \in Nat \ {0}
    BY <1>1, EmptySeq
  <2>2. Len(d.history) \in 1..Len(d.history)
    BY <2>1
  <2> QED BY <1>1, <2>1, <2>2, ElementOfSeq
<1>3. kept \in Seq(Entry) /\ Len(kept) <= HistoryLimit
  <2> HIDE DEF Entry
  <2>1. \A k \in 1..(Len(d.history) - 1) : d.history[k] \in Entry
    BY <1>1, <1>2, ElementOfSeq
  <2>2. Len(d.history) <= HistoryLimit /\ HistoryLimit \in Nat
    BY StoreAssumption DEF IsDatabase
  <2> QED BY <1>1, <1>2, <2>1, <2>2, SubSeqProperties
<1>4. /\ IsTable(d.entries, n) /\ n \in Nat \ {0}
      /\ NextAfter(Positions(d.entries)) \in 0..n
  BY EntriesTable, PositionsBounded
<1>5. IsUnranked(rows, n) /\ last.id \in DOMAIN rows
  BY <1>2, <1>4 DEF IsUnranked, IsTable, Ids, Row
<1>6. IsTable(ToFront(rows, last.id), n) /\ DOMAIN ToFront(rows, last.id) = DOMAIN rows
  BY <1>4, <1>5, ToFrontIsTable
<1> DEFINE moved == ToFront(rows, last.id)
           base == [d EXCEPT !.entries = moved, !.history = kept]
<1> HIDE DEF moved, kept, rows
<1>7. IsDatabase(base) /\ last.id \in Ids(base)
  BY <1>3, <1>5, <1>6 DEF IsDatabase, IsTable, Ids, moved
<1>8. IsDatabase(Reserve(base, last.id))
  BY <1>7, ReserveType
<1> QED BY <1>8 DEF Previous, moved, kept, rows
LEMMA FlagsType ==
  ASSUME NEW d, IsDatabase(d), NEW p \in Programme, NEW e \in {"all_done", "keep_playing"}
  PROVE  /\ IsDatabase(MarkPlaying(d, p))
         /\ IsDatabase(SavePosition(d, p))
         /\ IsDatabase([d EXCEPT !.position = p])
         /\ IsDatabase(Stop(d))
         /\ IsDatabase(Fail(d))
         /\ IsDatabase(Started(d))
         /\ IsDatabase(SetEnding(d, e))
<1>1. IsDatabase(MarkPlaying(d, p))
  BY DEF MarkPlaying, IsDatabase
<1>2. IsDatabase(SavePosition(d, p))
  BY DEF SavePosition, IsDatabase
<1>3. IsDatabase([d EXCEPT !.position = p])
  BY DEF IsDatabase
<1>4. IsDatabase(Stop(d)) /\ IsDatabase(Fail(d))
  BY ReleasedType DEF Stop, Fail
<1>5. IsDatabase(Started(d))
  BY DEF Started, IsDatabase
<1>6. IsDatabase(SetEnding(d, e))
  BY DEF SetEnding, IsDatabase, Empty
<1> QED BY <1>1, <1>2, <1>3, <1>4, <1>5, <1>6

LEMMA SelectType ==
  ASSUME NEW d, IsDatabase(d), NEW id \in Ids(d), NEW owner \in Owner
  PROVE  IsDatabase(Select(d, id, owner))
<1> DEFINE rows == ToFront(d.entries, id)
<1>1. IsTable(rows, d.nextId) /\ DOMAIN rows = Ids(d)
  <2>1. IsUnranked(d.entries, d.nextId) /\ d.nextId \in Nat \ {0}
    BY DEF IsDatabase, IsUnranked, Row
  <2> QED BY <2>1, ToFrontIsTable DEF Ids
<1> HIDE DEF rows
<1>2. IsDatabase([d EXCEPT !.entries = rows, !.current = id, !.owner = owner,
            !.active = FALSE, !.completed = FALSE, !.paused = FALSE,
            !.phase = "starting",
            !.position = IF d.current = id THEN d.position ELSE NoProgramme])
  BY <1>1 DEF IsDatabase, IsTable, Ids
<1> QED BY <1>2 DEF Select, rows

LEMMA FinishType ==
  ASSUME NEW d, IsDatabase(d)
  PROVE  IsDatabase(Finish(d))
<1> DEFINE base == Consume(d)
           next == First(base.entries)
<1>1. IsDatabase(base)
  BY ConsumeType
<1> HIDE DEF base
<1>2. Ids(base) # {} => next \in Ids(base)
  BY <1>1, EntriesTable, FirstIsEntry DEF Ids
<1> HIDE DEF next
<1>3. Ids(base) # {} =>
        IsDatabase([base EXCEPT !.current = next, !.active = FALSE,
                                !.phase = "starting", !.position = NoProgramme])
  BY <1>1, <1>2 DEF IsDatabase, Ids
<1> DEFINE done == ~d.paused /\ d.ending = "all_done"
<1>4. done \in BOOLEAN
  OBVIOUS
<1> HIDE DEF done
<1>5. IsDatabase([base EXCEPT !.current = NoEntry, !.owner = "free", !.active = FALSE,
                              !.phase = "waiting", !.position = NoProgramme,
                              !.completed = done])
  BY <1>1, <1>4 DEF IsDatabase, Owner
<1> QED BY <1>3, <1>5 DEF Finish, base, next, done

\* Fresh rows go behind the last one and keep the database a database.
LEMMA InsertedType ==
  ASSUME NEW d, IsDatabase(d), NEW items \in Seq(Programme)
  PROVE  /\ IsDatabase(Inserted(d, items))
         /\ Ids(Inserted(d, items)) = Ids(d) \cup {d.nextId + k - 1 : k \in DOMAIN items}
<1> DEFINE n == d.nextId + Len(items)
           fresh == {d.nextId + k - 1 : k \in DOMAIN items}
           end == NextAfter(Positions(d.entries))
           rows == [i \in Ids(d) \cup fresh |->
                       IF i \in fresh
                       THEN [position |-> end + i - d.nextId,
                             prog |-> items[i - d.nextId + 1]]
                       ELSE d.entries[i]]
<1>1. /\ Len(items) \in Nat /\ DOMAIN items = 1..Len(items)
      /\ \A k \in 1..Len(items) : items[k] \in Programme
  BY LenProperties, ElementOfSeq
<1>2. d.nextId \in Nat \ {0} /\ end \in 0..d.nextId /\ IsTable(d.entries, d.nextId)
  BY EntriesTable, PositionsBounded
<1>3. n \in Nat /\ n >= d.nextId
  BY <1>1, <1>2
<1> HIDE DEF end
<1>4. IsTable(rows, n)
  <2>1. \A i \in fresh : /\ i \in Id(n) /\ i - d.nextId + 1 \in 1..Len(items)
                         /\ end + i - d.nextId \in 0..(n - 1)
    BY <1>1, <1>2 DEF Id
  <2>2. \A i \in Ids(d) : i \in Id(n) /\ d.entries[i] \in Row(n)
    BY <1>2, <1>3 DEF IsTable, Ids, Id, Row
  <2>3. \A i \in fresh : [position |-> end + i - d.nextId,
                          prog |-> items[i - d.nextId + 1]] \in Row(n)
    BY <1>1, <2>1 DEF Row
  <2> HIDE DEF fresh, n
  <2> QED BY <2>1, <2>2, <2>3 DEF IsTable
<1> HIDE DEF rows, n
<1>5. IsDatabase([d EXCEPT !.entries = rows, !.nextId = n])
  BY <1>3, <1>4, TablesReplaced
<1>6. IsDatabase([d EXCEPT !.entries = rows, !.nextId = n, !.completed = FALSE])
  <2> DEFINE e == [d EXCEPT !.entries = rows, !.nextId = n]
  <2>1. [d EXCEPT !.entries = rows, !.nextId = n, !.completed = FALSE]
          = [e EXCEPT !.completed = FALSE]
    BY DEF IsDatabase
  <2> HIDE DEF e
  <2>2. IsDatabase([e EXCEPT !.completed = FALSE])
    BY <1>5 DEF IsDatabase, e
  <2> QED BY <2>1, <2>2
<1>7. DOMAIN rows = Ids(d) \cup fresh
  BY DEF rows
<1> QED BY <1>6, <1>7 DEF Inserted, rows, n, end, Ids, IsDatabase
LEMMA AddType ==
  ASSUME NEW d, IsDatabase(d), NEW p \in Programme
  PROVE  IsDatabase(Add(d, p))
<1> DEFINE full == Inserted(d, <<p>>)
           pausedAfter == IF Ids(d) = {} THEN FALSE ELSE d.paused
<1>1. IsDatabase(full)
  <2>1. <<p>> \in Seq(Programme)
    OBVIOUS
  <2> QED BY <2>1, InsertedType
<1>2. pausedAfter \in BOOLEAN
  BY DEF IsDatabase
<1> HIDE DEF full, pausedAfter
<1>3. IsDatabase([full EXCEPT !.paused = pausedAfter])
  BY <1>1, <1>2 DEF IsDatabase
<1> QED BY <1>3 DEF Add, full, pausedAfter

LEMMA RemoveType ==
  ASSUME NEW d, IsDatabase(d), NEW id
  PROVE  IsDatabase(Remove(d, id))
<1> DEFINE left == DeleteEntry(d, id)
           rows == Ranked(left.entries)
           cur == IF id = d.current THEN NoEntry ELSE d.current
           pos == IF id = d.current THEN NoProgramme ELSE d.position
<1>1. IsDatabase(left) /\ left.nextId >= d.nextId /\ left.nextId \in Nat \ {0}
  <2>1. IsDatabase(left)
    BY DeleteEntryType
  <2>2. DOMAIN d.cycle \subseteq 0..(d.nextId - 1) /\ d.nextId \in Nat \ {0}
    BY DEF IsDatabase
  <2>3. NextAfter(DOMAIN d.cycle) \in Nat
    BY <2>2, NextAfterType
  <2>4. left.nextId \in {d.nextId, d.nextId + NextAfter(DOMAIN d.cycle)}
    BY DEF DeleteEntry, Refill, IsDatabase
  <2> QED BY <2>1, <2>2, <2>3, <2>4 DEF IsDatabase
<1>2. cur \in Id(left.nextId) \cup {NoEntry} /\ pos \in Programme \cup {NoProgramme}
  BY <1>1 DEF IsDatabase, Id
<1> HIDE DEF left
<1>3. IsTable(rows, left.nextId)
  <2>1. IsUnranked(left.entries, left.nextId)
    BY <1>1 DEF IsDatabase, IsUnranked, Row
  <2> QED BY <1>1, <2>1, RankedIsTable
<1> HIDE DEF rows, cur, pos
<1>4. IsDatabase([left EXCEPT !.entries = rows, !.current = cur, !.position = pos])
  BY <1>1, <1>2, <1>3 DEF IsDatabase, IsTable
<1> QED BY <1>4 DEF Remove, left, rows, cur, pos

LEMMA MoveType ==
  ASSUME NEW d, IsDatabase(d), NEW a \in Ids(d), NEW b \in Ids(d)
  PROVE  IsDatabase(Move(d, a, b))
<1> DEFINE ranked == Ranked(d.entries)
           rows == Swapped(ranked, a, b)
<1>1. IsTable(ranked, d.nextId) /\ DOMAIN ranked = Ids(d)
  <2>1. IsUnranked(d.entries, d.nextId) /\ d.nextId \in Nat \ {0}
    BY DEF IsDatabase, IsUnranked, Row
  <2> QED BY <2>1, RankedIsTable DEF Ids
<1> HIDE DEF ranked
<1>2. IsTable(rows, d.nextId)
  BY <1>1 DEF Swapped, IsTable, Row
<1> HIDE DEF rows
<1>3. IsDatabase([d EXCEPT !.entries = rows])
  BY <1>2 DEF IsDatabase, IsTable
<1> QED BY <1>3 DEF Move, rows, ranked

LEMMA ClearType ==
  ASSUME NEW d, IsDatabase(d)
  PROVE  IsDatabase(Clear(d))
<1> DEFINE base == [d EXCEPT !.repeat = FALSE, !.cycle = Empty]
           kept == Restrict(d.entries, Ids(d) \cap {d.current})
<1>1. IsDatabase(base) /\ base.nextId = d.nextId
  BY EmptyIsTable DEF IsDatabase
<1>2. IsTable(kept, base.nextId)
  BY <1>1 DEF IsDatabase, IsTable, Restrict, Ids
<1> HIDE DEF kept, base
<1>3. IsDatabase([base EXCEPT !.entries = kept, !.paused = TRUE, !.completed = FALSE])
  BY <1>1, <1>2 DEF IsDatabase, IsTable
<1>4. IsTable(Empty, base.nextId)
  BY EmptyIsTable
<1>5. IsDatabase([base EXCEPT !.entries = Empty, !.active = FALSE, !.completed = FALSE,
                      !.current = NoEntry, !.owner = "free", !.paused = FALSE,
                      !.phase = "waiting", !.position = NoProgramme])
  BY <1>1, <1>4 DEF IsDatabase, IsTable, Owner
<1> QED BY <1>3, <1>5 DEF Clear, base, kept

LEMMA SnapshotType ==
  ASSUME NEW n \in Nat \ {0}, NEW rows, IsTable(rows, n)
  PROVE  /\ DOMAIN Snapshot(rows) \subseteq 0..(n - 1)
         /\ Snapshot(rows) \in [DOMAIN Snapshot(rows) -> Programme]
BY DEF Snapshot, IsTable, Row

LEMMA CopyType ==
  ASSUME NEW d, IsDatabase(d), NEW items \in Seq(Programme),
         NEW replace \in BOOLEAN, NEW repeat \in BOOLEAN
  PROVE  IsDatabase(Copy(d, items, replace, repeat))
<1> DEFINE wiped == [d EXCEPT !.entries = Empty, !.cycle = Empty, !.history = <<>>,
                             !.active = FALSE, !.current = NoEntry,
                             !.owner = "free", !.paused = FALSE,
                             !.phase = "waiting", !.position = NoProgramme,
                             !.repeat = repeat]
           base == IF replace THEN wiped ELSE d
           full == Inserted(base, items)
           snap == Snapshot(full.entries)
<1>1. IsDatabase(wiped)
  <2>1. << >> \in Seq([id : Id(d.nextId), prog : Programme]) /\ Len(<< >>) <= HistoryLimit
    BY EmptySeq, StoreAssumption
  <2>2. IsTable(Empty, d.nextId)
    BY EmptyIsTable
  <2> QED BY <2>1, <2>2, EmptyIsTable DEF IsDatabase, IsTable, Owner
<1>2. IsDatabase(base)
  BY <1>1
<1> HIDE DEF base
<1>3. IsDatabase(full)
  BY <1>2, InsertedType
<1> HIDE DEF full
<1>4. /\ DOMAIN snap \subseteq 0..(full.nextId - 1)
      /\ snap \in [DOMAIN snap -> Programme]
  BY <1>3, EntriesTable, SnapshotType
<1> HIDE DEF snap
<1>5. IsDatabase([full EXCEPT !.cycle = snap])
  BY <1>3, <1>4 DEF IsDatabase
<1> QED BY <1>3, <1>5 DEF Copy, base, full, snap

LEMMA DeleteChannelType ==
  ASSUME NEW d, IsDatabase(d), NEW p, NEW last
  PROVE  IsDatabase(DeleteChannel(d, p, last))
<1> DEFINE gone == {i \in Ids(d) : d.entries[i].prog = p}
           kept == [d EXCEPT
                 !.channels = d.channels \ {p},
                 !.cycle = Restrict(d.cycle, {q \in DOMAIN d.cycle : d.cycle[q] # p}),
                 !.entries = Restrict(d.entries, Ids(d) \ gone)]
<1>1. IsDatabase(kept)
  BY DEF IsDatabase, Ids, Restrict
<1>2. IsDatabase(Refill(kept))
  BY <1>1, RefillType
<1> QED BY <1>1, <1>2 DEF DeleteChannel
(* ---------------------------------------------------------------------- *)
(* The columns agree.  Sound is the inductive strengthening: the three state *)
(* row invariants, CurrentIsQueued and RepeatNeverCompletes need each other, *)
(* and the last needs to know that a repeating queue still has a snapshot.   *)

Sound(d) ==
  /\ d.owner = "free" <=> d.phase = "waiting"
  /\ d.active <=> d.phase = "playing"
  /\ d.owner # "free" => d.current # NoEntry
  /\ d.completed => d.owner = "free" /\ d.current = NoEntry /\ Ids(d) = {}
  /\ d.paused /\ d.owner # "free" => d.phase = "playing" /\ ~d.repeat
  /\ d.current # NoEntry => d.current \in Ids(d) \/ d.channels # Programme
  /\ d.repeat => d.channels # Programme \/ DOMAIN d.cycle # {}
  /\ d.repeat /\ d.completed => d.channels # Programme

\* Consuming an entry touches only the entries, the history and the identities.
SameRow(c, d) ==
  /\ c.owner = d.owner /\ c.phase = d.phase /\ c.active = d.active
  /\ c.current = d.current /\ c.completed = d.completed /\ c.paused = d.paused
  /\ c.repeat = d.repeat /\ c.channels = d.channels /\ c.cycle = d.cycle
  /\ c.ending = d.ending /\ c.position = d.position

LEMMA RefillEffect ==
  ASSUME NEW d, IsDatabase(d)
  PROVE  /\ SameRow(Refill(d), d)
         /\ Ids(Refill(d)) = {d.nextId + p : p \in DOMAIN d.cycle}
         /\ Refill(d).history = d.history
BY DEF Refill, SameRow, Ids, IsDatabase

LEMMA DeleteEntryEffect ==
  ASSUME NEW d, IsDatabase(d), NEW id
  PROVE  /\ SameRow(DeleteEntry(d, id), d)
         /\ DeleteEntry(d, id).history = d.history
         /\ id \notin Ids(d) \/ ~RefillsOn(d, Ids(d) \ {id}, id)
              => Ids(DeleteEntry(d, id)) = Ids(d) \ {id}
         /\ id \in Ids(d) /\ RefillsOn(d, Ids(d) \ {id}, id)
              => Ids(DeleteEntry(d, id)) = {d.nextId + p : p \in DOMAIN d.cycle}
<1> DEFINE left == Ids(d) \ {id}
           kept == [d EXCEPT !.entries = Restrict(d.entries, left)]
<1>1. IsDatabase(kept) /\ SameRow(kept, d) /\ Ids(kept) = left
      /\ kept.history = d.history /\ kept.nextId = d.nextId
  BY DEF IsDatabase, SameRow, Ids, Restrict
<1>2. /\ SameRow(Refill(kept), kept) /\ Refill(kept).history = kept.history
      /\ Ids(Refill(kept)) = {kept.nextId + p : p \in DOMAIN kept.cycle}
  BY <1>1, RefillEffect
<1> HIDE DEF kept
<1>3. DeleteEntry(d, id) = IF id \in Ids(d) /\ RefillsOn(d, left, id)
                           THEN Refill(kept) ELSE kept
  BY DEF DeleteEntry, kept
<1> QED BY <1>1, <1>2, <1>3 DEF SameRow

LEMMA WithHistoryEffect ==
  ASSUME NEW d, IsDatabase(d), NEW id
  PROVE  /\ IsDatabase(WithHistory(d, id))
         /\ Ids(WithHistory(d, id)) = Ids(d)
         /\ SameRow(WithHistory(d, id), d)
<1>1. PICK h : WithHistory(d, id) = [d EXCEPT !.history = h]
  BY DEF WithHistory
<1>2. SameRow([d EXCEPT !.history = h], d)
  BY DEF SameRow, IsDatabase
<1> QED BY <1>1, <1>2, WithHistoryType DEF Ids

LEMMA ConsumeEffect ==
  ASSUME NEW d, IsDatabase(d)
  PROVE  /\ SameRow(Consume(d), d)
         /\ Ids(d) \ {d.current} # {} => Ids(Consume(d)) = Ids(d) \ {d.current}
         /\ Ids(d) \ {d.current} = {} /\ d.current \in Ids(d) /\ d.repeat
            /\ d.phase = "playing" /\ ~d.paused /\ DOMAIN d.cycle # {}
              => Ids(Consume(d)) # {}
<1> DEFINE w == WithHistory(d, d.current)
<1>1. IsDatabase(w) /\ Ids(w) = Ids(d) /\ SameRow(w, d)
  BY WithHistoryEffect
<1> HIDE DEF w
<1>2. /\ SameRow(DeleteEntry(w, w.current), w)
      /\ w.current \in Ids(w) /\ RefillsOn(w, Ids(w) \ {w.current}, w.current)
              => Ids(DeleteEntry(w, w.current)) = {w.nextId + p : p \in DOMAIN w.cycle}
      /\ ~RefillsOn(w, Ids(w) \ {w.current}, w.current)
              => Ids(DeleteEntry(w, w.current)) = Ids(w) \ {w.current}
  BY <1>1, DeleteEntryEffect
<1>3. Consume(d) = DeleteEntry(w, w.current)
  BY <1>1 DEF Consume, w, SameRow
<1>4. SameRow(Consume(d), d)
  BY <1>1, <1>2, <1>3 DEF SameRow
<1>5. Ids(d) \ {d.current} # {} => Ids(Consume(d)) = Ids(d) \ {d.current}
  BY <1>1, <1>2, <1>3 DEF SameRow, RefillsOn
<1>6. Ids(d) \ {d.current} = {} /\ d.current \in Ids(d) /\ d.repeat
        /\ d.phase = "playing" /\ ~d.paused /\ DOMAIN d.cycle # {}
          => Ids(Consume(d)) # {}
  BY <1>1, <1>2, <1>3 DEF SameRow, RefillsOn
<1> QED BY <1>4, <1>5, <1>6

LEMMA ReserveSound ==
  ASSUME NEW d, IsDatabase(d), NEW id \in Ids(d),
         d.repeat => d.channels # Programme \/ DOMAIN d.cycle # {}
  PROVE  Sound(Reserve(d, id))
<1>1. id # NoEntry
  BY DEF IsDatabase, Ids, Id, NoEntry
<1> QED BY <1>1 DEF Sound, Reserve, Ids, IsDatabase

LEMMA ReleasedSound ==
  ASSUME NEW d, IsDatabase(d), Sound(d), ~d.completed
  PROVE  Sound(Released(d))
BY DEF Sound, Released, Ids, IsDatabase
LEMMA AdvanceSound ==
  ASSUME NEW d, IsDatabase(d), Sound(d), NEW start \in BOOLEAN
  PROVE  Sound(Advance(d, start))
<1> DEFINE c == Consume(d)
           base == AfterFinish(d, start)
           next == NextItem(d, start)
           finished == FinishedBy(d, start)
<1>1. /\ IsDatabase(base) /\ IsDatabase(c)
      /\ next # NoEntry => next \in Ids(base)
      /\ next = NoEntry => Ids(base) = {}
  BY NextItemType, ConsumeType
<1>2. /\ SameRow(c, d)
      /\ Ids(d) \ {d.current} = {} /\ d.current \in Ids(d) /\ d.repeat
         /\ d.phase = "playing" /\ ~d.paused /\ DOMAIN d.cycle # {} => Ids(c) # {}
  BY ConsumeEffect
<1> HIDE DEF c
<1>3. ~finished => base = d
  BY DEF AfterFinish
<1>4. finished => /\ base.current = NoEntry /\ base.phase = "waiting" /\ ~base.active
                  /\ base.owner = "tv" /\ ~base.completed /\ base.paused = d.paused
                  /\ base.repeat = d.repeat /\ base.channels = d.channels
                  /\ base.cycle = d.cycle /\ Ids(base) = Ids(c)
  <2> SUFFICES ASSUME finished
               PROVE  /\ base.current = NoEntry /\ base.phase = "waiting" /\ ~base.active
                      /\ base.owner = "tv" /\ ~base.completed /\ base.paused = d.paused
                      /\ base.repeat = d.repeat /\ base.channels = d.channels
                      /\ base.cycle = d.cycle /\ Ids(base) = Ids(c)
    OBVIOUS
  <2>1. base = [c EXCEPT !.active = FALSE, !.current = NoEntry,
                         !.phase = "waiting", !.position = NoProgramme]
    BY DEF AfterFinish, c
  <2>2. c.owner = "tv" /\ ~c.completed
    BY <1>2 DEF FinishedBy, SameRow, Sound
  <2> HIDE DEF base, finished
  <2>3. /\ base.current = NoEntry /\ base.phase = "waiting" /\ ~base.active
        /\ base.owner = c.owner /\ base.completed = c.completed /\ base.paused = c.paused
        /\ base.repeat = c.repeat /\ base.channels = c.channels
        /\ base.cycle = c.cycle /\ base.entries = c.entries
    BY <1>1, <2>1 DEF IsDatabase
  <2> QED BY <1>2, <2>2, <2>3 DEF SameRow, Ids
<1>5. finished => d.phase = "playing" /\ d.owner = "tv" /\ d.current # NoEntry /\ ~start
  BY DEF FinishedBy, Sound
<1>6. finished /\ ~d.paused /\ Ids(base) = {} /\ d.repeat => d.channels # Programme
  <2> SUFFICES ASSUME finished, ~d.paused, Ids(base) = {}, d.repeat, d.channels = Programme
               PROVE  FALSE
    OBVIOUS
  <2>1. d.current \in Ids(d) /\ DOMAIN d.cycle # {}
    BY <1>5 DEF Sound
  <2>2. Ids(c) = {}
    BY <1>4
  <2>3. Ids(d) \ {d.current} = {}
    BY <2>2, ConsumeEffect DEF c
  <2> QED BY <1>2, <1>5, <2>1, <2>2, <2>3
<1> HIDE DEF base, next, finished
<1>7. CASE d.owner \notin {"free", "tv"}
  BY <1>7 DEF Advance
<1>8. CASE d.owner \in {"free", "tv"} /\ ~start /\ d.paused
  <2>1. CASE finished
    <3>1. Advance(d, start) = [base EXCEPT !.owner = "free"]
      BY <1>8, <2>1 DEF Advance, base, finished
    <3> QED BY <1>1, <1>4, <2>1, <3>1 DEF Sound, IsDatabase, Ids
  <2>2. CASE ~finished
    BY <1>8, <1>3, <2>2 DEF Advance, base, finished
  <2> QED BY <2>1, <2>2
<1>9. CASE d.owner \in {"free", "tv"} /\ ~(~start /\ d.paused) /\ next # NoEntry
  <2>1. Advance(d, start) = Reserve(base, next)
    BY <1>9 DEF Advance, base, next
  <2>2. base.repeat => base.channels # Programme \/ DOMAIN base.cycle # {}
    BY <1>3, <1>4 DEF Sound
  <2> QED BY <1>1, <1>9, <2>1, <2>2, ReserveSound
<1>10. CASE d.owner \in {"free", "tv"} /\ ~(~start /\ d.paused) /\ next = NoEntry
  <2>1. CASE finished
    <3> DEFINE done == d.ending = "all_done"
    <3>1. Advance(d, start) = [base EXCEPT !.completed = done, !.owner = "free"]
      BY <1>10, <2>1 DEF Advance, base, finished, next
    <3>2. done \in BOOLEAN /\ ~d.paused
      BY <1>5, <1>10, <2>1
    <3> HIDE DEF done
    <3>3. base.repeat /\ done => base.channels # Programme
      BY <1>1, <1>4, <1>6, <1>10, <2>1, <3>2
    <3> QED BY <1>1, <1>4, <1>10, <2>1, <3>1, <3>2, <3>3 DEF Sound, IsDatabase, Ids
  <2>2. CASE ~finished
    BY <1>10, <1>3, <2>2 DEF Advance, base, finished, next
  <2> QED BY <2>1, <2>2
<1> QED BY <1>7, <1>8, <1>9, <1>10
LEMMA PreviousSound ==
  ASSUME NEW d, IsDatabase(d), Sound(d)
  PROVE  Sound(Previous(d))
<1> SUFFICES ASSUME PreviousOutcome(d) = "item"
             PROVE  Sound(Previous(d))
  BY DEF Previous
<1> DEFINE last == d.history[Len(d.history)]
           moved == Previous(d).entries
           kept == SubSeq(d.history, 1, Len(d.history) - 1)
           base == [d EXCEPT !.entries = moved, !.history = kept]
<1>1. IsDatabase(Previous(d))
  BY PreviousType
<1>2. Previous(d) = Reserve(base, last.id)
  BY DEF Previous, Reserve, IsDatabase
<1>3. Previous(d).current = last.id /\ last.id # NoEntry
  <2>1. d.history \in Seq([id : Id(d.nextId), prog : Programme]) /\ d.history # << >>
    BY DEF IsDatabase, PreviousOutcome
  <2> DEFINE Entry == [id : Id(d.nextId), prog : Programme]
  <2>2. last \in Entry
    <3>1. d.history \in Seq(Entry)
      BY <2>1
    <3> HIDE DEF Entry
    <3>2. Len(d.history) \in 1..Len(d.history)
      BY <3>1, <2>1, EmptySeq
    <3> QED BY <3>1, <3>2, ElementOfSeq
  <2>3. last.id # NoEntry
    BY <2>2 DEF Id, NoEntry
  <2> HIDE DEF moved, last, kept
  <2> QED BY <1>2, <2>3 DEF Reserve, IsDatabase
<1>4. last.id \in DOMAIN moved
  <2> DEFINE rows == IF last.id \in Ids(d) THEN d.entries
                     ELSE [i \in Ids(d) \cup {last.id} |->
                        IF i = last.id
                        THEN [position |-> NextAfter(Positions(d.entries)), prog |-> last.prog]
                        ELSE d.entries[i]]
  <2>1. last.id \in DOMAIN rows
    BY DEF Ids
  <2>2. moved = ToFront(rows, last.id)
    BY DEF Previous, Reserve, IsDatabase
  <2> HIDE DEF rows, moved
  <2> QED BY <2>1, <2>2 DEF ToFront
<1> HIDE DEF moved, last, kept
<1> QED BY <1>2, <1>3, <1>4 DEF Sound, Reserve, Ids, IsDatabase

LEMMA FlagsSound ==
  ASSUME NEW d, IsDatabase(d), Sound(d), NEW p \in Programme,
         NEW e \in {"all_done", "keep_playing"}
  PROVE  /\ Sound(MarkPlaying(d, p))
         /\ Sound(SavePosition(d, p))
         /\ Sound([d EXCEPT !.position = p])
         /\ Sound(Stop(d))
         /\ Sound(Fail(d))
         /\ d.owner # "free" => Sound(Started(d)) /\ Sound(Released(d))
         /\ Sound(SetEnding(d, e))
<1>1. Sound(MarkPlaying(d, p))
  BY DEF MarkPlaying, Sound, IsDatabase, Ids
<1>2. Sound(SavePosition(d, p))
  BY DEF SavePosition, Sound, IsDatabase, Ids
<1>3. Sound([d EXCEPT !.position = p])
  BY DEF Sound, IsDatabase, Ids
<1>4. Ids(d) # {} \/ d.owner # "free" => ~d.completed
  BY DEF Sound
<1>5. ~d.completed => Sound(Released(d))
  BY ReleasedSound
<1>6. Sound(Stop(d)) /\ Sound(Fail(d))
  BY <1>4, <1>5 DEF Stop, Fail, FailClaimed
<1>7. d.owner # "free" => Sound(Started(d))
  BY DEF Started, Sound, IsDatabase, Ids
<1>8. Sound(SetEnding(d, e))
  BY DEF SetEnding, Sound, IsDatabase, Ids
<1> QED BY <1>1, <1>2, <1>3, <1>4, <1>5, <1>6, <1>7, <1>8

LEMMA SelectSound ==
  ASSUME NEW d, IsDatabase(d), Sound(d), NEW id \in Ids(d),
         NEW owner \in Owner \ {"free"}
  PROVE  Sound(Select(d, id, owner))
<1> DEFINE rows == ToFront(d.entries, id)
<1>1. id # NoEntry /\ DOMAIN rows = Ids(d)
  BY DEF IsDatabase, Ids, Id, NoEntry, ToFront
<1> HIDE DEF rows
<1>2. Select(d, id, owner) = [d EXCEPT !.entries = rows, !.current = id, !.owner = owner,
            !.active = FALSE, !.completed = FALSE, !.paused = FALSE,
            !.phase = "starting",
            !.position = IF d.current = id THEN d.position ELSE NoProgramme]
  BY DEF Select, rows
<1> QED BY <1>1, <1>2 DEF Sound, IsDatabase, Ids

LEMMA FinishSound ==
  ASSUME NEW d, IsDatabase(d), Sound(d), d.owner # "free", d.phase = "playing"
  PROVE  Sound(Finish(d))
<1> DEFINE base == Consume(d)
           next == First(base.entries)
<1>1. IsDatabase(base) /\ SameRow(base, d)
  BY ConsumeType, ConsumeEffect
<1>2. ~d.paused /\ Ids(base) = {} /\ d.repeat => d.channels # Programme
  BY ConsumeEffect DEF Sound
<1> HIDE DEF base
<1>3. Ids(base) # {} => next \in Ids(base) /\ next # NoEntry
  <2>1. Ids(base) # {} => next \in Ids(base)
    BY <1>1, EntriesTable, FirstIsEntry DEF Ids
  <2>2. NoEntry \notin Ids(base)
    BY <1>1 DEF IsDatabase, Ids, Id, NoEntry
  <2> QED BY <2>1, <2>2
<1> HIDE DEF next
<1>4. ~d.completed /\ base.repeat = d.repeat /\ base.channels = d.channels
      /\ base.cycle = d.cycle /\ base.owner = d.owner /\ base.paused = d.paused
      /\ base.completed = d.completed
  BY <1>1 DEF Sound, SameRow
<1>5. CASE Ids(base) # {} /\ ~d.paused
  <2>1. Finish(d) = [base EXCEPT !.current = next, !.active = FALSE,
                       !.phase = "starting", !.position = NoProgramme]
    BY <1>5 DEF Finish, base, next
  <2> QED BY <1>1, <1>3, <1>4, <1>5, <2>1 DEF Sound, IsDatabase, Ids
<1>6. CASE ~(Ids(base) # {} /\ ~d.paused)
  <2> DEFINE done == ~d.paused /\ d.ending = "all_done"
  <2>1. Finish(d) = [base EXCEPT !.current = NoEntry, !.owner = "free", !.active = FALSE,
                       !.phase = "waiting", !.position = NoProgramme,
                       !.completed = done]
    BY <1>6 DEF Finish, base
  <2>2. done \in BOOLEAN /\ (done => ~d.paused /\ Ids(base) = {})
    BY <1>6
  <2> HIDE DEF done
  <2>3. base.repeat /\ done => base.channels # Programme
    BY <1>2, <1>4, <2>2
  <2> QED BY <1>1, <1>4, <2>1, <2>2, <2>3 DEF Sound, IsDatabase, Ids
<1> QED BY <1>5, <1>6
LEMMA InsertedEffect ==
  ASSUME NEW d, IsDatabase(d), NEW items \in Seq(Programme), items # << >>
  PROVE  /\ Ids(Inserted(d, items)) # {}
         /\ Ids(d) \subseteq Ids(Inserted(d, items))
         /\ ~Inserted(d, items).completed
         /\ Inserted(d, items).cycle = d.cycle
         /\ SameRow([Inserted(d, items) EXCEPT !.completed = d.completed], d)
<1>1. 1 \in DOMAIN items
  BY EmptySeq
<1>2. Ids(Inserted(d, items)) = Ids(d) \cup {d.nextId + k - 1 : k \in DOMAIN items}
  BY InsertedType
<1>3. PICK rows, n : Inserted(d, items) =
                       [d EXCEPT !.entries = rows, !.nextId = n, !.completed = FALSE]
  BY DEF Inserted
<1>4. /\ ~Inserted(d, items).completed /\ Inserted(d, items).cycle = d.cycle
      /\ SameRow([Inserted(d, items) EXCEPT !.completed = d.completed], d)
  BY <1>3 DEF SameRow, IsDatabase
<1> QED BY <1>1, <1>2, <1>4

LEMMA AddSound ==
  ASSUME NEW d, IsDatabase(d), Sound(d), NEW p \in Programme
  PROVE  Sound(Add(d, p))
<1> DEFINE full == Inserted(d, <<p>>)
           pausedAfter == IF Ids(d) = {} THEN FALSE ELSE d.paused
<1>1. <<p>> \in Seq(Programme) /\ <<p>> # << >>
  OBVIOUS
<1>2. /\ IsDatabase(full) /\ Ids(d) \subseteq Ids(full)
      /\ ~full.completed
      /\ SameRow([full EXCEPT !.completed = d.completed], d)
  BY <1>1, InsertedType, InsertedEffect
<1>3. pausedAfter \in BOOLEAN /\ (pausedAfter => d.paused)
  BY DEF IsDatabase
<1>4. Add(d, p) = [full EXCEPT !.paused = pausedAfter]
  BY DEF Add
<1> HIDE DEF full, pausedAfter
<1>5. /\ full.owner = d.owner /\ full.phase = d.phase /\ full.active = d.active
      /\ full.current = d.current /\ full.repeat = d.repeat
      /\ full.channels = d.channels /\ full.cycle = d.cycle
  BY <1>2 DEF SameRow, IsDatabase
<1> QED BY <1>2, <1>3, <1>4, <1>5 DEF Sound, IsDatabase, Ids

LEMMA RemoveSound ==
  ASSUME NEW d, IsDatabase(d), Sound(d), NEW id, RemoveOk(d, id)
  PROVE  Sound(Remove(d, id))
<1> DEFINE left == DeleteEntry(d, id)
           rows == Ranked(left.entries)
           cur == IF id = d.current THEN NoEntry ELSE d.current
           pos == IF id = d.current THEN NoProgramme ELSE d.position
<1>1. ~RefillsOn(d, Ids(d) \ {id}, id) /\ id \in Ids(d)
      /\ (id = d.current => d.phase = "waiting")
  BY DEF RemoveOk, Protected, RefillsOn, IsDatabase
<1>2. IsDatabase(left) /\ SameRow(left, d) /\ Ids(left) = Ids(d) \ {id}
  BY <1>1, DeleteEntryType, DeleteEntryEffect
<1> HIDE DEF left
<1>3. DOMAIN rows = Ids(d) \ {id}
  BY <1>2 DEF Ranked, Ids
<1>4. Remove(d, id) = [left EXCEPT !.entries = rows, !.current = cur, !.position = pos]
  BY DEF Remove, left
<1> HIDE DEF rows, pos
<1>5. /\ left.owner = d.owner /\ left.phase = d.phase /\ left.active = d.active
      /\ left.completed = d.completed /\ left.paused = d.paused
      /\ left.repeat = d.repeat /\ left.channels = d.channels /\ left.cycle = d.cycle
  BY <1>2 DEF SameRow
<1>6. ~d.completed /\ (cur # NoEntry => cur = d.current /\ cur # id)
      /\ (d.phase # "waiting" => cur = d.current)
  BY <1>1 DEF Sound
<1> HIDE DEF cur
<1> QED BY <1>2, <1>3, <1>4, <1>5, <1>6 DEF Sound, IsDatabase, Ids

LEMMA MoveSound ==
  ASSUME NEW d, IsDatabase(d), Sound(d), NEW a \in Ids(d), NEW b \in Ids(d)
  PROVE  Sound(Move(d, a, b))
<1> DEFINE rows == Swapped(Ranked(d.entries), a, b)
<1>1. DOMAIN rows = Ids(d)
  BY DEF Swapped, Ranked, Ids
<1>2. Move(d, a, b) = [d EXCEPT !.entries = rows]
  BY DEF Move
<1> HIDE DEF rows
<1> QED BY <1>1, <1>2 DEF Sound, IsDatabase, Ids

LEMMA ClearSound ==
  ASSUME NEW d, IsDatabase(d), Sound(d)
  PROVE  Sound(Clear(d))
<1> DEFINE kept == Restrict(d.entries, Ids(d) \cap {d.current})
<1>1. CASE d.phase = "playing"
  <2>1. Clear(d) = [d EXCEPT !.repeat = FALSE, !.cycle = Empty, !.entries = kept,
                             !.paused = TRUE, !.completed = FALSE]
    BY <1>1 DEF Clear, IsDatabase
  <2>2. DOMAIN kept = Ids(d) \cap {d.current}
    BY DEF Restrict
  <2> HIDE DEF kept
  <2> QED BY <1>1, <2>1, <2>2 DEF Sound, IsDatabase, Ids
<1>2. CASE d.phase # "playing"
  <2>1. Clear(d) = [d EXCEPT !.repeat = FALSE, !.cycle = Empty, !.entries = Empty,
                      !.active = FALSE, !.completed = FALSE,
                      !.current = NoEntry, !.owner = "free", !.paused = FALSE,
                      !.phase = "waiting", !.position = NoProgramme]
    BY <1>2 DEF Clear, IsDatabase
  <2> QED BY <2>1 DEF Sound, IsDatabase, Ids
<1> QED BY <1>1, <1>2

LEMMA CopySound ==
  ASSUME NEW d, IsDatabase(d), Sound(d), NEW items \in Seq(Programme), items # << >>,
         NEW replace \in BOOLEAN, NEW repeat \in BOOLEAN
  PROVE  Sound(Copy(d, items, replace, repeat))
<1> DEFINE wiped == [d EXCEPT !.entries = Empty, !.cycle = Empty, !.history = <<>>,
                             !.active = FALSE, !.current = NoEntry,
                             !.owner = "free", !.paused = FALSE,
                             !.phase = "waiting", !.position = NoProgramme,
                             !.repeat = repeat]
           base == IF replace THEN wiped ELSE d
           full == Inserted(base, items)
           snap == Snapshot(full.entries)
<1>1. IsDatabase(wiped)
  <2>1. << >> \in Seq([id : Id(d.nextId), prog : Programme]) /\ Len(<< >>) <= HistoryLimit
    BY EmptySeq, StoreAssumption
  <2>2. IsTable(Empty, d.nextId)
    BY EmptyIsTable
  <2> QED BY <2>1, <2>2, EmptyIsTable DEF IsDatabase, IsTable, Owner
<1>2. IsDatabase(base)
  BY <1>1
<1>3. /\ base.owner = "free" <=> base.phase = "waiting"
      /\ base.active <=> base.phase = "playing"
      /\ base.owner # "free" => base.current # NoEntry
      /\ base.paused /\ base.owner # "free" => base.phase = "playing" /\ ~base.repeat
      /\ base.current # NoEntry => base.current \in Ids(base) \/ base.channels # Programme
  <2>1. CASE replace
    BY <2>1 DEF Sound, IsDatabase, Ids
  <2>2. CASE ~replace
    BY <2>2 DEF Sound
  <2> QED BY <2>1, <2>2
<1> HIDE DEF base
<1>4. /\ IsDatabase(full) /\ Ids(full) # {} /\ Ids(base) \subseteq Ids(full)
      /\ ~full.completed
      /\ SameRow([full EXCEPT !.completed = base.completed], base)
  BY <1>2, InsertedType, InsertedEffect
<1>5. Copy(d, items, replace, repeat) =
        IF full.repeat THEN [full EXCEPT !.cycle = snap] ELSE full
  BY DEF Copy, base
<1> HIDE DEF full
<1>6. DOMAIN snap # {}
  BY <1>4 DEF Snapshot, Ids
<1> HIDE DEF snap
<1>7. /\ full.owner = base.owner /\ full.phase = base.phase
      /\ full.active = base.active /\ full.current = base.current
      /\ full.paused = base.paused /\ full.channels = base.channels
      /\ full.repeat = base.repeat
  BY <1>4 DEF SameRow, IsDatabase
<1> QED BY <1>3, <1>4, <1>5, <1>6, <1>7 DEF Sound, IsDatabase, Ids

LEMMA DeleteChannelSound ==
  ASSUME NEW d, IsDatabase(d), Sound(d), NEW p \in d.channels, NEW last
  PROVE  Sound(DeleteChannel(d, p, last))
<1> DEFINE gone == {i \in Ids(d) : d.entries[i].prog = p}
           rest == Restrict(d.cycle, {q \in DOMAIN d.cycle : d.cycle[q] # p})
           rows == Restrict(d.entries, Ids(d) \ gone)
           kept == [d EXCEPT !.channels = d.channels \ {p}, !.cycle = rest,
                             !.entries = rows]
<1>1. IsDatabase(kept)
  BY DEF IsDatabase, Ids, Restrict
<1>2. kept.channels # Programme /\ Ids(kept) = Ids(d) \ gone
  BY DEF IsDatabase, Ids, Restrict
<1>3. DeleteChannel(d, p, last) =
        IF gone # {} /\ RefillsOn(d, Ids(d) \ gone, last) THEN Refill(kept) ELSE kept
  BY DEF DeleteChannel
<1>4. gone \subseteq Ids(d)
  OBVIOUS
<1> HIDE DEF gone, rest, rows
<1>5. Sound(kept)
  BY <1>1, <1>2 DEF Sound, IsDatabase, Ids
<1>6. gone # {} => ~kept.completed
  BY <1>4 DEF Sound, IsDatabase
<1> HIDE DEF kept
<1>7. gone # {} => Sound(Refill(kept))
  BY <1>1, <1>2, <1>5, <1>6, RefillEffect DEF Sound, SameRow
<1> QED BY <1>3, <1>5, <1>7
(* ---------------------------------------------------------------------- *)
(* The specification.                                                       *)

IInv == TypeOK /\ Sound(db)

LEMMA InitIInv == StoreInit => IInv
<1> SUFFICES ASSUME StoreInit PROVE IInv
  OBVIOUS
<1>1. IsDatabase(Fresh)
  <2>1. << >> \in Seq([id : Id(1), prog : Programme]) /\ Len(<< >>) = 0
    BY EmptySeq
  <2>2. DOMAIN Empty = {} /\ Empty \in [{} -> Row(1)] /\ Empty \in [{} -> Programme]
    BY DEF Empty
  <2> QED BY <2>1, <2>2, StoreAssumption DEF Fresh, IsDatabase, Owner
<1>2. PICK items \in Playlists \cup {<< >>} : db = Inserted(Fresh, items)
  BY DEF StoreInit
<1>3. items \in Seq(Programme)
  BY StoreAssumption, EmptySeq
<1>4. IsDatabase(db)
  BY <1>1, <1>2, <1>3, InsertedType
<1>5. PICK rows, n : db = [Fresh EXCEPT !.entries = rows, !.nextId = n, !.completed = FALSE]
  BY <1>2 DEF Inserted
<1>6. Sound(db)
  BY <1>5 DEF Fresh, Sound, Ids
<1> QED BY <1>4, <1>6 DEF IInv, TypeOK

LEMMA NextIInv ==
  ASSUME IInv, [StoreNext]_db
  PROVE  IInv'
<1> USE DEF IInv, TypeOK
<1> DEFINE Good(d) == IsDatabase(d) /\ Sound(d)
<1>0. Good(db)
  OBVIOUS
<1>1. ASSUME PlayerAdvance PROVE Good(db')
  BY <1>1, <1>0, AdvanceType, AdvanceSound DEF PlayerAdvance, Commit
<1>2. ASSUME PlayerPrevious PROVE Good(db')
  BY <1>2, <1>0, PreviousType, PreviousSound DEF PlayerPrevious, Commit
<1>3. ASSUME PlayerMarkPlaying PROVE Good(db')
  BY <1>3, <1>0, FlagsType, FlagsSound DEF PlayerMarkPlaying, Commit
<1>4. ASSUME PlayerSavePosition PROVE Good(db')
  BY <1>4, <1>0, FlagsType, FlagsSound DEF PlayerSavePosition, Commit
<1>5. ASSUME PlayerStop PROVE Good(db')
  <2>1. IsDatabase(Stop(db))
    BY <1>0, ReleasedType DEF Stop
  <2>2. Sound(Stop(db))
    BY <1>0, ReleasedSound DEF Stop, Sound
  <2> QED BY <1>5, <2>1, <2>2 DEF PlayerStop, Commit
<1>6. ASSUME PlayerFail PROVE Good(db')
  <2>1. IsDatabase(Fail(db))
    BY <1>0, ReleasedType DEF Fail
  <2>2. Sound(Fail(db))
    BY <1>0, ReleasedSound DEF Fail, FailClaimed, Sound
  <2> QED BY <1>6, <2>1, <2>2 DEF PlayerFail, Commit
<1>7. ASSUME ServiceSelect PROVE Good(db')
  BY <1>7, <1>0, SelectType, SelectSound DEF ServiceSelect, Commit
<1>8. ASSUME ServiceEvent PROVE Good(db')
  <2>1. db.owner # "free"
    BY <1>8 DEF ServiceEvent, EventOk
  <2>2. IsDatabase(Started(db)) /\ IsDatabase(Released(db)) /\ IsDatabase(Finish(db))
    BY <1>0, FinishType, ReleasedType DEF Started, IsDatabase
  <2>3. Sound(Started(db))
    BY <1>0, <2>1 DEF Started, Sound, IsDatabase, Ids
  <2>4. Sound(Released(db))
    BY <1>0, <2>1, ReleasedSound DEF Sound
  <2>5. db.phase = "playing" => Sound(Finish(db))
    BY <1>0, <2>1, FinishSound
  <2>6. \A p \in Programme : Good([db EXCEPT !.position = p])
    BY <1>0 DEF Sound, IsDatabase, Ids
  <2> QED BY <1>8, <2>2, <2>3, <2>4, <2>5, <2>6 DEF ServiceEvent, Commit
<1>9. ASSUME ServiceChange PROVE Good(db')
  <2>1. ASSUME NEW p \in Programme, AddOk(db, p), Commit(Add(db, p)) PROVE Good(db')
    BY <2>1, <1>0, AddType, AddSound DEF Commit
  <2>2. ASSUME NEW id \in Ids(db), RemoveOk(db, id), Commit(Remove(db, id)) PROVE Good(db')
    BY <2>2, <1>0, RemoveType, RemoveSound DEF Commit
  <2>3. ASSUME NEW a \in Ids(db), NEW b \in Ids(db), Commit(Move(db, a, b)) PROVE Good(db')
    BY <2>3, <1>0, MoveType, MoveSound DEF Commit
  <2>4. ASSUME NEW e \in {"all_done", "keep_playing"}, Commit(SetEnding(db, e))
        PROVE  Good(db')
    <3>1. IsDatabase(SetEnding(db, e))
      BY <1>0 DEF SetEnding, IsDatabase, Empty
    <3>2. Sound(SetEnding(db, e))
      BY <1>0 DEF SetEnding, Sound, IsDatabase, Ids
    <3> QED BY <2>4, <3>1, <3>2 DEF Commit
  <2>5. ASSUME Commit(Clear(db)) PROVE Good(db')
    BY <2>5, <1>0, ClearType, ClearSound DEF Commit
  <2> QED BY <1>9, <2>1, <2>2, <2>3, <2>4, <2>5 DEF ServiceChange
<1>10. ASSUME PlaylistCopy PROVE Good(db')
  BY <1>10, <1>0, StoreAssumption, CopyType, CopySound DEF PlaylistCopy, CopyOk, Commit
<1>11. ASSUME ChannelDeletion PROVE Good(db')
  BY <1>11, <1>0, DeleteChannelType, DeleteChannelSound DEF ChannelDeletion, Commit
<1>12. ASSUME UNCHANGED db PROVE Good(db')
  BY <1>12, <1>0
<1> QED BY <1>1, <1>2, <1>3, <1>4, <1>5, <1>6, <1>7, <1>8, <1>9, <1>10, <1>11, <1>12
        DEF StoreNext

\* The inductive invariant holds of every behaviour.
LEMMA StoreIInv == StoreSpec => []IInv
<1>1. StoreInit => IInv
  BY InitIInv
<1>2. IInv /\ [StoreNext]_db => IInv'
  BY NextIInv
<1> QED BY <1>1, <1>2, PTL DEF StoreSpec

\* Every transaction of the player and of the service leaves every table and
\* column with a value of its type, however many programmes and streams exist.
THEOREM StoreTypeCorrect == StoreSpec => []TypeOK
<1>1. IInv => TypeOK
  BY DEF IInv
<1> QED BY <1>1, StoreIInv, PTL

\* Owner, phase, active flag, current entry, the pause flag and "all done" agree
\* after every transaction of the player and of the service.
THEOREM StoreStateRowAgrees == StoreSpec => []StateRowAgrees
<1>1. IInv => StateRowAgrees
  BY DEF IInv, Sound, StateRowAgrees
<1> QED BY <1>1, StoreIInv, PTL

\* The current entry stays in Up Next unless a channel was deleted.
THEOREM StoreCurrentIsQueued == StoreSpec => []CurrentIsQueued
<1>1. IInv => CurrentIsQueued
  BY DEF IInv, Sound, CurrentIsQueued
<1> QED BY <1>1, StoreIInv, PTL

\* A repeating playlist never ends in "all done" unless a channel was deleted.
THEOREM StoreRepeatNeverCompletes == StoreSpec => []RepeatNeverCompletes
<1>1. IInv => RepeatNeverCompletes
  BY DEF IInv, Sound, RepeatNeverCompletes
<1> QED BY <1>1, StoreIInv, PTL

(* ---------------------------------------------------------------------- *)
(* The rows of Up Next and of its history: what every transaction keeps of  *)
(* their identities, positions and programmes.                              *)

(* ---------------------------------------------------------------------- *)
(* Positions stay distinct.                                                 *)

Distinct(rows) ==
  \A i, j \in DOMAIN rows : rows[i].position = rows[j].position => i = j

\* A row that stands before another one has fewer rows before it, also when
\* a third one is not counted.
LEMMA RankIsStrict ==
  ASSUME NEW n \in Nat \ {0}, NEW rows, IsUnranked(rows, n), NEW id,
         NEW i \in DOMAIN rows, NEW j \in DOMAIN rows, i # id,
         rows[i].position < rows[j].position
  PROVE  Cardinality(Before(rows, i) \ {id}) < Cardinality(Before(rows, j) \ {id})
<1> DEFINE S == Before(rows, i) \ {id}
           T == Before(rows, j) \ {id}
<1>1. \A k \in DOMAIN rows : rows[k].position \in Nat
  BY DEF IsUnranked
<1>2. S \subseteq T /\ i \in T /\ i \notin S
  BY <1>1 DEF Before
<1>3. IsFiniteSet(T) /\ Cardinality(T) \in Nat /\ Cardinality(S) \in Nat
  BY RankBounded
<1> HIDE DEF S, T
<1>4. Cardinality(S) <= Cardinality(T) /\ (Cardinality(T) = Cardinality(S) => T = S)
  BY <1>2, <1>3, FS_Subset
<1> QED BY <1>2, <1>3, <1>4 DEF S, T

LEMMA RankedDistinct ==
  ASSUME NEW n \in Nat \ {0}, NEW rows, IsUnranked(rows, n), Distinct(rows)
  PROVE  Distinct(Ranked(rows))
<1> SUFFICES ASSUME NEW i \in DOMAIN rows, NEW j \in DOMAIN rows, i # j
             PROVE  Ranked(rows)[i].position # Ranked(rows)[j].position
  BY DEF Distinct, Ranked
<1>1. /\ rows[i].position \in Nat /\ rows[j].position \in Nat
      /\ rows[i].position # rows[j].position
  BY DEF IsUnranked, Distinct
<1>2. NoEntry \notin DOMAIN rows
  BY DEF IsUnranked, Id, NoEntry
<1>3. Before(rows, i) \ {NoEntry} = Before(rows, i)
      /\ Before(rows, j) \ {NoEntry} = Before(rows, j)
  BY <1>2 DEF Before
<1>4. Cardinality(Before(rows, i)) \in Nat /\ Cardinality(Before(rows, j)) \in Nat
  BY RankBounded
<1>5. Cardinality(Before(rows, i)) # Cardinality(Before(rows, j))
  <2>1. CASE rows[i].position < rows[j].position
    <3>1. Cardinality(Before(rows, i)) < Cardinality(Before(rows, j))
      BY <1>2, <1>3, <2>1, RankIsStrict
    <3> QED BY <1>4, <3>1
  <2>2. CASE rows[j].position < rows[i].position
    <3>1. Cardinality(Before(rows, j)) < Cardinality(Before(rows, i))
      BY <1>2, <1>3, <2>2, RankIsStrict
    <3> QED BY <1>4, <3>1
  <2> QED BY <1>1, <2>1, <2>2
<1>6. \A k \in DOMAIN rows : Ranked(rows)[k].position = Cardinality(Before(rows, k))
  BY DEF Ranked, IsUnranked
<1> QED BY <1>5, <1>6

LEMMA ToFrontDistinct ==
  ASSUME NEW n \in Nat \ {0}, NEW rows, IsUnranked(rows, n), Distinct(rows), NEW id
  PROVE  Distinct(ToFront(rows, id))
<1> DEFINE rank(k) == Cardinality(Before(rows, k) \ {id})
<1>1. \A k \in DOMAIN rows : rank(k) \in Nat
  BY RankBounded
<1>2. \A k \in DOMAIN rows :
        ToFront(rows, id)[k].position = IF k = id THEN 0 ELSE 1 + rank(k)
  BY DEF ToFront, IsUnranked
<1>3. ASSUME NEW i \in DOMAIN rows, NEW j \in DOMAIN rows, i # j, i # id, j # id
      PROVE  rank(i) # rank(j)
  <2>1. /\ rows[i].position \in Nat /\ rows[j].position \in Nat
        /\ rows[i].position # rows[j].position
    BY <1>3 DEF IsUnranked, Distinct
  <2>2. rows[i].position < rows[j].position => rank(i) < rank(j)
    BY <1>3, RankIsStrict
  <2>3. rows[j].position < rows[i].position => rank(j) < rank(i)
    BY <1>3, RankIsStrict
  <2> HIDE DEF rank
  <2> QED BY <1>1, <2>1, <2>2, <2>3
<1> HIDE DEF rank
<1>4. ASSUME NEW i \in DOMAIN rows, NEW j \in DOMAIN rows,
             ToFront(rows, id)[i].position = ToFront(rows, id)[j].position
      PROVE  i = j
  BY <1>1, <1>2, <1>3, <1>4
<1>5. DOMAIN ToFront(rows, id) = DOMAIN rows
  BY DEF ToFront
<1> QED BY <1>4, <1>5 DEF Distinct

LEMMA SwappedDistinct ==
  ASSUME NEW n \in Nat \ {0}, NEW rows, IsTable(rows, n), Distinct(rows),
         NEW a \in DOMAIN rows, NEW b \in DOMAIN rows
  PROVE  Distinct(Swapped(rows, a, b))
<1>1. /\ DOMAIN Swapped(rows, a, b) = DOMAIN rows
      /\ \A i \in DOMAIN rows : Swapped(rows, a, b)[i].position =
           IF i = b THEN rows[a].position
           ELSE IF i = a THEN rows[b].position ELSE rows[i].position
  BY DEF Swapped, IsTable, Row
<1> QED BY <1>1 DEF Distinct

(* ---------------------------------------------------------------------- *)
(* What a transaction keeps of the rows it found.                           *)

Unrepeated(h) == \A k, m \in DOMAIN h : h[k].id = h[m].id => k = m

RowsSound(d) ==
  /\ Distinct(d.entries)
  /\ Unrepeated(d.history)
  /\ \A k \in DOMAIN d.history : d.history[k].id \notin Ids(d)

\* An entry of c was one of d, is fresh, or comes back from the history of d,
\* and keeps its programme.
EntriesKept(c, d) ==
  \A i \in Ids(c) :
    \/ i \in Ids(d) /\ c.entries[i].prog = d.entries[i].prog
    \/ i >= d.nextId
    \/ \E k \in DOMAIN d.history :
         d.history[k].id = i /\ d.history[k].prog = c.entries[i].prog

\* A history row of c was one of d, or is the entry d was playing.
HistoryKept(c, d) ==
  \A k \in DOMAIN c.history :
    \/ \E m \in DOMAIN d.history : d.history[m] = c.history[k]
    \/ /\ d.phase = "playing" /\ d.current \in Ids(d) /\ c.current # d.current
       /\ c.history[k] = [id |-> d.current, prog |-> d.entries[d.current].prog]

Kept(c, d) ==
  /\ RowsSound(c)
  /\ c.nextId >= d.nextId
  /\ EntriesKept(c, d)
  /\ HistoryKept(c, d)
  /\ c.current # d.current => c.position = NoProgramme

LEMMA HistoryIds ==
  ASSUME NEW d, IsDatabase(d)
  PROVE  /\ DOMAIN d.history = 1..Len(d.history) /\ Len(d.history) \in Nat
         /\ \A k \in DOMAIN d.history :
              d.history[k] \in [id : Id(d.nextId), prog : Programme]
<1> DEFINE Entry == [id : Id(d.nextId), prog : Programme]
<1>1. d.history \in Seq(Entry)
  BY DEF IsDatabase
<1> HIDE DEF Entry
<1>2. DOMAIN d.history = 1..Len(d.history) /\ Len(d.history) \in Nat
      /\ \A k \in 1..Len(d.history) : d.history[k] \in Entry
  BY <1>1, LenProperties, ElementOfSeq
<1> QED BY <1>2 DEF Entry

\* A transaction that only renumbers, drops or adds fresh rows.
LEMMA RowsKept ==
  ASSUME NEW d, IsDatabase(d), RowsSound(d), NEW c,
         Distinct(c.entries), c.nextId >= d.nextId,
         \A i \in Ids(c) :
           (i \in Ids(d) /\ c.entries[i].prog = d.entries[i].prog) \/ i >= d.nextId,
         c.history = d.history \/ c.history = << >>,
         c.current # d.current => c.position = NoProgramme
  PROVE  Kept(c, d)
<1>1. \A k \in DOMAIN d.history : d.history[k].id \in Id(d.nextId)
  BY HistoryIds
<1>2. \A k \in DOMAIN d.history : ~(d.history[k].id >= d.nextId)
  BY <1>1 DEF Id, IsDatabase
<1>3. c.history = << >> => DOMAIN c.history = {}
  OBVIOUS
<1>4. RowsSound(c)
  BY <1>2, <1>3 DEF RowsSound, Unrepeated
<1>5. EntriesKept(c, d) /\ HistoryKept(c, d)
  BY <1>3 DEF EntriesKept, HistoryKept
<1> QED BY <1>4, <1>5 DEF Kept

\* A transaction that leaves every row alone.
LEMMA FlagsKept ==
  ASSUME NEW d, IsDatabase(d), RowsSound(d), NEW c,
         c.entries = d.entries, c.history = d.history, c.nextId = d.nextId,
         c.current # d.current => c.position = NoProgramme
  PROVE  Kept(c, d)
<1>1. d.nextId >= d.nextId
  BY DEF IsDatabase
<1>2. \A i \in Ids(c) : i \in Ids(d) /\ c.entries[i].prog = d.entries[i].prog
  BY DEF Ids
<1>3. Distinct(c.entries)
  BY DEF RowsSound
<1> QED BY <1>1, <1>2, <1>3, RowsKept

\* A repeat brings fresh rows only.
LEMMA RefillRows ==
  ASSUME NEW d, IsDatabase(d)
  PROVE  /\ Distinct(Refill(d).entries)
         /\ Refill(d).nextId >= d.nextId
         /\ Refill(d).history = d.history
         /\ \A i \in Ids(Refill(d)) : i >= d.nextId
<1>1. d.nextId \in Nat \ {0} /\ DOMAIN d.cycle \subseteq 0..(d.nextId - 1)
      /\ d.nextId - 1 \in Nat
  BY DEF IsDatabase
<1>2. NextAfter(DOMAIN d.cycle) \in Nat
  BY <1>1, NextAfterType
<1>3. /\ Refill(d).nextId = d.nextId + NextAfter(DOMAIN d.cycle)
      /\ Refill(d).history = d.history
      /\ Refill(d).entries = [i \in {d.nextId + p : p \in DOMAIN d.cycle} |->
                    [position |-> i - d.nextId, prog |-> d.cycle[i - d.nextId]]]
  BY DEF Refill, IsDatabase
<1>4. Distinct(Refill(d).entries)
  BY <1>1, <1>3 DEF Distinct
<1>5. \A i \in Ids(Refill(d)) : i >= d.nextId
  BY <1>1, <1>3 DEF Ids
<1> QED BY <1>1, <1>2, <1>3, <1>4, <1>5

LEMMA RestrictRows ==
  ASSUME NEW rows, NEW S
  PROVE  /\ DOMAIN Restrict(rows, S) = S
         /\ \A i \in S : Restrict(rows, S)[i] = rows[i]
         /\ S \subseteq DOMAIN rows /\ Distinct(rows) => Distinct(Restrict(rows, S))
BY DEF Restrict, Distinct

\* One row more at the end of a history, and none but the newest rows.
LEMMA AppendedRows ==
  ASSUME NEW S, NEW h \in Seq(S), NEW e \in S
  PROVE  /\ Append(h, e) \in Seq(S)
         /\ \A k \in DOMAIN Append(h, e) :
              \/ k \in DOMAIN h /\ Append(h, e)[k] = h[k]
              \/ k = Len(h) + 1 /\ Append(h, e)[k] = e
<1>1. /\ Append(h, e) \in Seq(S) /\ Len(Append(h, e)) = Len(h) + 1
      /\ \A k \in 1..Len(h) : Append(h, e)[k] = h[k]
      /\ Append(h, e)[Len(h) + 1] = e
  BY AppendProperties
<1>2. DOMAIN Append(h, e) = 1..(Len(h) + 1) /\ DOMAIN h = 1..Len(h) /\ Len(h) \in Nat
  BY <1>1, LenProperties
<1> QED BY <1>1, <1>2

LEMMA NewestRows ==
  ASSUME NEW S, NEW h \in Seq(S), NEW n \in Nat, n <= Len(h)
  PROVE  \A k \in DOMAIN SubSeq(h, n + 1, Len(h)) :
           /\ k \in Nat /\ n + k \in DOMAIN h
           /\ SubSeq(h, n + 1, Len(h))[k] = h[n + k]
<1> DEFINE t == SubSeq(h, n + 1, Len(h))
<1>1. Len(h) \in Nat /\ DOMAIN h = 1..Len(h)
  BY LenProperties
<1>2. \A k \in (n + 1)..Len(h) : h[k] \in S
  BY <1>1, ElementOfSeq
<1>3. /\ t \in Seq(S)
      /\ Len(t) = IF n + 1 <= Len(h) THEN Len(h) - (n + 1) + 1 ELSE 0
      /\ \A k \in 1..(Len(h) - (n + 1) + 1) : t[k] = h[n + 1 + k - 1]
  BY <1>1, <1>2, SubSeqProperties
<1> HIDE DEF t
<1>4. DOMAIN t = 1..(Len(h) - n)
  <2>1. Len(t) = Len(h) - n
    <3>1. CASE n + 1 <= Len(h)
      BY <1>1, <1>3, <3>1
    <3>2. CASE ~(n + 1 <= Len(h))
      <4>1. \A m \in Nat : n <= m /\ ~(n + 1 <= m) => m - n = 0
        OBVIOUS
      <4>2. Len(h) - n = 0
        BY <1>1, <3>2, <4>1
      <4> QED BY <1>3, <3>2, <4>2
    <3> QED BY <3>1, <3>2
  <2>2. DOMAIN t = 1..Len(t)
    BY <1>3, LenProperties
  <2> QED BY <2>1, <2>2
<1>5. \A k \in 1..(Len(h) - n) : t[k] = h[n + k]
  <2> TAKE k \in 1..(Len(h) - n)
  <2>1. k \in 1..(Len(h) - (n + 1) + 1) /\ n + 1 + k - 1 = n + k
    BY <1>1
  <2> QED BY <1>3, <2>1
<1> QED BY <1>1, <1>4, <1>5 DEF t

\* The history gains at most the row of an entry, and loses its oldest rows.
LEMMA WithHistoryRows ==
  ASSUME NEW d, IsDatabase(d), RowsSound(d), NEW id
  PROVE  LET w == WithHistory(d, id)
         IN  /\ w.entries = d.entries /\ w.nextId = d.nextId
             /\ Unrepeated(w.history)
             /\ \A k \in DOMAIN w.history :
                  \/ \E m \in DOMAIN d.history : d.history[m] = w.history[k]
                  \/ /\ id \in Ids(d)
                     /\ w.history[k] = [id |-> id, prog |-> d.entries[id].prog]
<1> DEFINE Entry == [id : Id(d.nextId), prog : Programme]
           row == [id |-> id, prog |-> d.entries[id].prog]
           rows == IF id \in Ids(d) THEN Append(d.history, row) ELSE d.history
           extra == IF Len(rows) > HistoryLimit THEN Len(rows) - HistoryLimit ELSE 0
           h == SubSeq(rows, extra + 1, Len(rows))
<1>1. d.history \in Seq(Entry)
  BY DEF IsDatabase
<1>2. id \in Ids(d) => row \in Entry
  BY DEF IsDatabase, Ids, Row
<1>3. WithHistory(d, id) = [d EXCEPT !.history = h]
  BY DEF WithHistory
<1>4. row.id = id
  OBVIOUS
<1> HIDE DEF Entry, row
<1>5. rows \in Seq(Entry)
  BY <1>1, <1>2, AppendedRows
<1>6. \A k \in DOMAIN rows :
        \/ k \in DOMAIN d.history /\ rows[k] = d.history[k]
        \/ k = Len(d.history) + 1 /\ id \in Ids(d) /\ rows[k] = row
  BY <1>1, <1>2, AppendedRows
<1>7. extra \in Nat /\ extra <= Len(rows)
  <2> HIDE DEF rows
  <2>1. Len(rows) \in Nat
    BY <1>5, LenProperties
  <2> QED BY <2>1, StoreAssumption
<1> HIDE DEF rows, extra
<1>8. \A k \in DOMAIN h : k \in Nat /\ extra + k \in DOMAIN rows /\ h[k] = rows[extra + k]
  BY <1>5, <1>7, NewestRows
<1> HIDE DEF h
<1>9. Unrepeated(rows)
  <2> SUFFICES ASSUME NEW k \in DOMAIN rows, NEW m \in DOMAIN rows,
                      rows[k].id = rows[m].id
               PROVE  k = m
    BY DEF Unrepeated
  <2>1. CASE k \in DOMAIN d.history /\ rows[k] = d.history[k]
             /\ m \in DOMAIN d.history /\ rows[m] = d.history[m]
    BY <2>1 DEF RowsSound, Unrepeated
  <2>2. CASE k \in DOMAIN d.history /\ rows[k] = d.history[k]
             /\ id \in Ids(d) /\ rows[m] = row
    BY <2>2, <1>4 DEF RowsSound
  <2>3. CASE id \in Ids(d) /\ rows[k] = row
             /\ m \in DOMAIN d.history /\ rows[m] = d.history[m]
    BY <2>3, <1>4 DEF RowsSound
  <2>4. CASE k = Len(d.history) + 1 /\ m = Len(d.history) + 1
    BY <2>4
  <2> QED BY <1>6, <2>1, <2>2, <2>3, <2>4
<1>10. Unrepeated(h)
  <2> SUFFICES ASSUME NEW k \in DOMAIN h, NEW m \in DOMAIN h, h[k].id = h[m].id
               PROVE  k = m
    BY DEF Unrepeated
  <2>1. extra + k = extra + m
    BY <1>8, <1>9 DEF Unrepeated
  <2>2. k \in Nat /\ m \in Nat
    BY <1>8
  <2> QED BY <1>7, <2>1, <2>2
<1>11. \A k \in DOMAIN h : \/ \E m \in DOMAIN d.history : d.history[m] = h[k]
                           \/ id \in Ids(d) /\ h[k] = row
  BY <1>6, <1>8
<1>12. /\ WithHistory(d, id).history = h /\ WithHistory(d, id).entries = d.entries
       /\ WithHistory(d, id).nextId = d.nextId
  BY <1>3 DEF IsDatabase
<1> QED BY <1>10, <1>11, <1>12 DEF row

LEMMA DeleteEntryRows ==
  ASSUME NEW d, IsDatabase(d), Distinct(d.entries), NEW id
  PROVE  LET c == DeleteEntry(d, id)
         IN  /\ Distinct(c.entries) /\ c.nextId >= d.nextId /\ c.history = d.history
             /\ \A i \in Ids(c) :
                  \/ i \in Ids(d) \ {id} /\ c.entries[i].prog = d.entries[i].prog
                  \/ i >= d.nextId
<1> DEFINE left == Ids(d) \ {id}
           kept == [d EXCEPT !.entries = Restrict(d.entries, left)]
<1>1. IsDatabase(kept)
  BY DEF IsDatabase, Ids, Restrict
<1>2. /\ kept.nextId = d.nextId /\ kept.history = d.history
      /\ kept.entries = Restrict(d.entries, left) /\ d.nextId >= d.nextId
  BY DEF IsDatabase
<1>3. /\ Distinct(kept.entries)
      /\ \A i \in Ids(kept) : i \in left /\ kept.entries[i].prog = d.entries[i].prog
  BY <1>2, RestrictRows DEF Ids
<1>4. DeleteEntry(d, id) \in {Refill(kept), kept}
  BY DEF DeleteEntry
<1> HIDE DEF kept
<1>5. CASE DeleteEntry(d, id) = Refill(kept)
  BY <1>1, <1>2, <1>5, RefillRows
<1>6. CASE DeleteEntry(d, id) = kept
  BY <1>2, <1>3, <1>6
<1> QED BY <1>4, <1>5, <1>6

\* The current entry leaves Up Next for the history; nothing else moves.
LEMMA ConsumeRows ==
  ASSUME NEW d, IsDatabase(d), RowsSound(d)
  PROVE  LET c == Consume(d)
         IN  /\ IsDatabase(c) /\ SameRow(c, d) /\ RowsSound(c)
             /\ c.nextId >= d.nextId
             /\ \A i \in Ids(c) :
                  \/ i \in Ids(d) \ {d.current} /\ c.entries[i].prog = d.entries[i].prog
                  \/ i >= d.nextId
             /\ \A k \in DOMAIN c.history :
                  \/ \E m \in DOMAIN d.history : d.history[m] = c.history[k]
                  \/ /\ d.current \in Ids(d)
                     /\ c.history[k] = [id |-> d.current, prog |-> d.entries[d.current].prog]
<1> DEFINE w == WithHistory(d, d.current)
           c == Consume(d)
<1>1. IsDatabase(w) /\ SameRow(w, d)
  BY WithHistoryEffect
<1>2. /\ w.entries = d.entries /\ w.nextId = d.nextId
      /\ Unrepeated(w.history)
      /\ \A k \in DOMAIN w.history :
           \/ \E m \in DOMAIN d.history : d.history[m] = w.history[k]
           \/ /\ d.current \in Ids(d)
              /\ w.history[k] = [id |-> d.current, prog |-> d.entries[d.current].prog]
  BY WithHistoryRows
<1>3. c = DeleteEntry(w, d.current) /\ Ids(w) = Ids(d)
  BY <1>2 DEF Consume, Ids
<1> HIDE DEF w
<1>4. /\ Distinct(c.entries) /\ c.nextId >= d.nextId /\ c.history = w.history
      /\ \A i \in Ids(c) :
           \/ i \in Ids(d) \ {d.current} /\ c.entries[i].prog = d.entries[i].prog
           \/ i >= d.nextId
  <2>1. Distinct(w.entries)
    BY <1>2 DEF RowsSound
  <2> QED BY <1>1, <1>2, <1>3, <2>1, DeleteEntryRows
<1>5. \A k \in DOMAIN d.history : d.history[k].id \notin Ids(d)
                                  /\ ~(d.history[k].id >= d.nextId)
  <2>1. \A k \in DOMAIN d.history : d.history[k].id \in Id(d.nextId)
    BY HistoryIds
  <2> QED BY <2>1 DEF RowsSound, Id, IsDatabase
<1>6. d.current \in Ids(d) => ~(d.current >= d.nextId)
  BY DEF IsDatabase, Ids, Id
<1> HIDE DEF c
<1>7. \A k \in DOMAIN c.history : c.history[k].id \notin Ids(c)
  BY <1>2, <1>4, <1>5, <1>6
<1>8. RowsSound(c)
  BY <1>2, <1>4, <1>7 DEF RowsSound
<1>9. IsDatabase(c) /\ SameRow(c, d)
  BY ConsumeType, ConsumeEffect DEF c
<1> QED BY <1>2, <1>4, <1>8, <1>9 DEF c

(* ---------------------------------------------------------------------- *)
(* The player's transactions.                                               *)

\* A consumed queue whose state row then names another entry.
LEMMA ConsumedKept ==
  ASSUME NEW d, IsDatabase(d), RowsSound(d), d.phase = "playing", NEW c,
         c.entries = Consume(d).entries, c.history = Consume(d).history,
         c.nextId = Consume(d).nextId,
         c.current \in Ids(c) \cup {NoEntry}, c.position = NoProgramme
  PROVE  Kept(c, d)
<1> DEFINE b == Consume(d)
<1>1. /\ IsDatabase(b) /\ RowsSound(b) /\ b.nextId >= d.nextId
      /\ \A i \in Ids(b) :
           \/ i \in Ids(d) \ {d.current} /\ b.entries[i].prog = d.entries[i].prog
           \/ i >= d.nextId
      /\ \A k \in DOMAIN b.history :
           \/ \E m \in DOMAIN d.history : d.history[m] = b.history[k]
           \/ /\ d.current \in Ids(d)
              /\ b.history[k] = [id |-> d.current, prog |-> d.entries[d.current].prog]
  BY ConsumeRows
<1> HIDE DEF b
<1>2. c.entries = b.entries /\ c.history = b.history /\ c.nextId = b.nextId
      /\ Ids(c) = Ids(b)
  BY DEF b, Ids
<1>3. d.current \in Ids(d) => c.current # d.current
  <2> SUFFICES ASSUME d.current \in Ids(d), c.current = d.current PROVE FALSE
    OBVIOUS
  <2>1. d.current # NoEntry /\ ~(d.current >= d.nextId)
    BY DEF IsDatabase, Ids, Id, NoEntry
  <2> QED BY <1>1, <1>2, <2>1
<1>4. RowsSound(c)
  BY <1>1, <1>2 DEF RowsSound
<1>5. EntriesKept(c, d)
  BY <1>1, <1>2 DEF EntriesKept
<1>6. HistoryKept(c, d)
  BY <1>1, <1>2, <1>3 DEF HistoryKept
<1> QED BY <1>1, <1>2, <1>4, <1>5, <1>6 DEF Kept

LEMMA AdvanceKept ==
  ASSUME NEW d, IsDatabase(d), RowsSound(d), NEW start \in BOOLEAN
  PROVE  Kept(Advance(d, start), d)
<1> DEFINE base == AfterFinish(d, start)
           next == NextItem(d, start)
           c == Advance(d, start)
<1>1. /\ IsDatabase(base)
      /\ next # NoEntry => next \in Ids(base)
  BY NextItemType
<1>2. CASE FinishedBy(d, start)
  <2> DEFINE b == Consume(d)
  <2>1. IsDatabase(b)
    BY ConsumeType
  <2>2. base = [b EXCEPT !.active = FALSE, !.current = NoEntry,
                         !.phase = "waiting", !.position = NoProgramme]
    BY <1>2 DEF AfterFinish
  <2> HIDE DEF b, base, next
  <2>3. /\ base.entries = b.entries /\ base.history = b.history
        /\ base.nextId = b.nextId /\ base.current = NoEntry
        /\ base.position = NoProgramme
    BY <2>1, <2>2 DEF IsDatabase
  <2>4. /\ Reserve(base, next).entries = base.entries
        /\ Reserve(base, next).history = base.history
        /\ Reserve(base, next).nextId = base.nextId
        /\ Reserve(base, next).current = next
        /\ Reserve(base, next).position = NoProgramme
    BY <1>1, <2>3 DEF Reserve, IsDatabase
  <2>5. d.phase = "playing" /\ d.owner = "tv"
    BY <1>2 DEF FinishedBy
  <2>6. c = IF ~start /\ d.paused THEN [base EXCEPT !.owner = "free"]
            ELSE IF next # NoEntry THEN Reserve(base, next)
            ELSE [base EXCEPT !.completed = (d.ending = "all_done"), !.owner = "free"]
    BY <1>2, <2>5 DEF Advance, base, next
  <2> HIDE DEF c
  <2>7. /\ c.entries = b.entries /\ c.history = b.history /\ c.nextId = b.nextId
        /\ c.position = NoProgramme
        /\ c.current \in Ids(c) \cup {NoEntry}
    <3>1. CASE ~start /\ d.paused
      BY <1>1, <2>3, <2>6, <3>1 DEF IsDatabase
    <3>2. CASE ~(~start /\ d.paused) /\ next # NoEntry
      BY <1>1, <2>3, <2>4, <2>6, <3>2 DEF Ids
    <3>3. CASE ~(~start /\ d.paused) /\ next = NoEntry
      BY <1>1, <2>3, <2>6, <3>3 DEF IsDatabase
    <3> QED BY <3>1, <3>2, <3>3
  <2> QED BY <2>5, <2>7, ConsumedKept DEF b, c
<1>3. CASE ~FinishedBy(d, start)
  <2>1. base = d
    BY <1>3 DEF AfterFinish
  <2>2. c = d \/ c = Reserve(d, next)
    BY <1>3, <2>1 DEF Advance
  <2>3. /\ Reserve(d, next).entries = d.entries
        /\ Reserve(d, next).history = d.history
        /\ Reserve(d, next).nextId = d.nextId
        /\ Reserve(d, next).current = next
        /\ d.current # next => Reserve(d, next).position = NoProgramme
    BY DEF Reserve, IsDatabase
  <2> HIDE DEF c
  <2>4. Kept(c, d)
    BY <2>2, <2>3, FlagsKept
  <2> QED BY <2>4 DEF c
<1> QED BY <1>2, <1>3

LEMMA PreviousKept ==
  ASSUME NEW d, IsDatabase(d), RowsSound(d), PreviousOutcome(d) = "item"
  PROVE  Kept(Previous(d), d)
<1> DEFINE n == d.nextId
           Entry == [id : Id(n), prog : Programme]
           end == Len(d.history)
           last == d.history[end]
           row == [position |-> NextAfter(Positions(d.entries)), prog |-> last.prog]
           rows == [i \in Ids(d) \cup {last.id} |->
                      IF i = last.id THEN row ELSE d.entries[i]]
           h == SubSeq(d.history, 1, end - 1)
           moved == ToFront(rows, last.id)
           c == Previous(d)
<1>1. /\ d.history \in Seq(Entry) /\ d.history # << >>
      /\ end \in Nat \ {0} /\ DOMAIN d.history = 1..end
      /\ \A k \in 1..end : d.history[k] \in Entry
  <2>1. d.history \in Seq(Entry) /\ d.history # << >>
    BY DEF IsDatabase, PreviousOutcome
  <2> HIDE DEF Entry
  <2>2. end \in Nat \ {0}
    BY <2>1, EmptySeq
  <2> QED BY <2>1, <2>2, LenProperties, ElementOfSeq
<1>2. last \in Entry /\ last.id \notin Ids(d) /\ end \in DOMAIN d.history
  BY <1>1 DEF RowsSound
<1>3. /\ IsTable(d.entries, n) /\ n \in Nat \ {0}
      /\ NextAfter(Positions(d.entries)) \in 0..n
      /\ \A i \in Ids(d) : d.entries[i].position < NextAfter(Positions(d.entries))
  BY EntriesTable, PositionsBounded DEF Ids
<1>4. IsUnranked(rows, n) /\ DOMAIN rows = Ids(d) \cup {last.id}
  BY <1>2, <1>3 DEF IsUnranked, IsTable, Ids, Row
<1>5. Distinct(rows)
  <2>1. /\ rows[last.id].position = NextAfter(Positions(d.entries))
        /\ \A i \in Ids(d) : rows[i] = d.entries[i]
    BY <1>2
  <2>2. \A i \in Ids(d) : d.entries[i].position \in Nat
    BY <1>3 DEF IsTable, Row, Ids
  <2> HIDE DEF rows
  <2>3. \A i \in Ids(d) : rows[i].position # rows[last.id].position
    BY <1>3, <2>1, <2>2
  <2> QED BY <1>4, <2>1, <2>3 DEF Distinct, RowsSound, Ids
<1>6. /\ DOMAIN moved = DOMAIN rows /\ Distinct(moved)
      /\ \A i \in DOMAIN rows : moved[i].prog = rows[i].prog
  <2>1. DOMAIN moved = DOMAIN rows /\ Distinct(moved)
    BY <1>3, <1>4, <1>5, ToFrontIsTable, ToFrontDistinct
  <2>2. \A i \in DOMAIN rows : moved[i].prog = rows[i].prog
    BY <1>4 DEF ToFront, IsUnranked
  <2> QED BY <2>1, <2>2
<1>7. /\ \A i \in Ids(d) : rows[i].prog = d.entries[i].prog
      /\ rows[last.id].prog = last.prog
  BY <1>2
<1>8. /\ DOMAIN h = 1..(end - 1)
      /\ \A k \in 1..(end - 1) : k \in DOMAIN d.history /\ h[k] = d.history[k]
  <2>1. \A k \in 1..(end - 1) : k \in 1..end /\ d.history[k] \in Entry
    BY <1>1
  <2>2. end - 1 \in Nat
    BY <1>1
  <2> HIDE DEF Entry
  <2>3. /\ h \in Seq(Entry)
        /\ Len(h) = IF 1 <= end - 1 THEN end - 1 - 1 + 1 ELSE 0
        /\ \A k \in 1..(end - 1 - 1 + 1) : h[k] = d.history[1 + k - 1]
    BY <2>1, <2>2, SubSeqProperties
  <2>4. \A m \in Nat : (IF 1 <= m THEN m - 1 + 1 ELSE 0) = m /\ m - 1 + 1 = m
                       /\ 1 + m - 1 = m
    OBVIOUS
  <2> HIDE DEF h, end
  <2>5. Len(h) = end - 1
    BY <2>2, <2>3, <2>4
  <2>6. \A k \in 1..(end - 1) : h[k] = d.history[k]
    BY <2>2, <2>3, <2>4
  <2> QED BY <1>1, <2>1, <2>3, <2>5, <2>6, LenProperties
<1>9. /\ c.entries = moved /\ c.history = h /\ c.nextId = d.nextId
      /\ c.current = last.id
      /\ d.current # last.id => c.position = NoProgramme
  <2> DEFINE base == [d EXCEPT !.entries = moved, !.history = h]
  <2>1. c = Reserve(base, last.id)
    BY <1>2 DEF Previous
  <2> HIDE DEF moved, h, last, c
  <2> QED BY <2>1 DEF Reserve, IsDatabase
<1> HIDE DEF rows, moved, h, c, last
<1>10. RowsSound(c)
  <2>1. \A k \in DOMAIN h : k # end
    BY <1>1, <1>8
  <2>2. \A k \in DOMAIN h : h[k].id # last.id
    BY <1>2, <1>8, <2>1 DEF RowsSound, Unrepeated, last
  <2>3. \A k \in DOMAIN h : h[k].id \notin Ids(d)
    BY <1>8 DEF RowsSound
  <2>4. Unrepeated(h)
    BY <1>8 DEF RowsSound, Unrepeated
  <2>5. Ids(c) = Ids(d) \cup {last.id}
    BY <1>4, <1>6, <1>9 DEF Ids
  <2> QED BY <1>6, <1>9, <2>2, <2>3, <2>4, <2>5 DEF RowsSound
<1>11. EntriesKept(c, d)
  <2>1. Ids(c) = Ids(d) \cup {last.id}
    BY <1>4, <1>6, <1>9 DEF Ids
  <2>2. \A i \in Ids(c) : c.entries[i].prog = rows[i].prog
    BY <1>4, <1>6, <1>9, <2>1
  <2>3. d.history[end].id = last.id /\ d.history[end].prog = last.prog
    BY DEF last
  <2> QED BY <1>2, <1>7, <2>1, <2>2, <2>3 DEF EntriesKept
<1>12. HistoryKept(c, d)
  BY <1>8, <1>9 DEF HistoryKept
<1>13. c.nextId >= d.nextId
  BY <1>9 DEF IsDatabase
<1> QED BY <1>9, <1>10, <1>11, <1>12, <1>13 DEF Kept, c

(* ---------------------------------------------------------------------- *)
(* The service's transactions.                                              *)

LEMMA FinishKept ==
  ASSUME NEW d, IsDatabase(d), RowsSound(d), d.phase = "playing"
  PROVE  Kept(Finish(d), d)
<1> DEFINE b == Consume(d)
           next == First(b.entries)
           c == Finish(d)
<1>1. IsDatabase(b)
  BY ConsumeType
<1> HIDE DEF b
<1>2. Ids(b) # {} => next \in Ids(b)
  BY <1>1, EntriesTable, FirstIsEntry DEF Ids
<1> DEFINE done == ~d.paused /\ d.ending = "all_done"
<1>3. \/ /\ Ids(b) # {}
         /\ c = [b EXCEPT !.current = next, !.active = FALSE,
                          !.phase = "starting", !.position = NoProgramme]
      \/ c = [b EXCEPT !.current = NoEntry, !.owner = "free", !.active = FALSE,
                       !.phase = "waiting", !.position = NoProgramme,
                       !.completed = done]
  BY DEF Finish, b
<1> HIDE DEF c, next, done
<1>4. /\ c.entries = b.entries /\ c.history = b.history /\ c.nextId = b.nextId
      /\ c.position = NoProgramme
      /\ c.current = NoEntry \/ (Ids(b) # {} /\ c.current = next)
  BY <1>1, <1>3 DEF IsDatabase
<1>5. c.current \in Ids(c) \cup {NoEntry}
  BY <1>2, <1>4 DEF Ids
<1> QED BY <1>4, <1>5, ConsumedKept DEF b, c

LEMMA SelectKept ==
  ASSUME NEW d, IsDatabase(d), RowsSound(d), NEW id \in Ids(d), NEW owner \in Owner
  PROVE  Kept(Select(d, id, owner), d)
<1> DEFINE rows == ToFront(d.entries, id)
           c == Select(d, id, owner)
<1>1. IsUnranked(d.entries, d.nextId) /\ d.nextId \in Nat \ {0}
      /\ d.nextId >= d.nextId
  BY DEF IsDatabase, IsUnranked, Row
<1>2. DOMAIN rows = Ids(d) /\ Distinct(rows)
  BY <1>1, ToFrontIsTable, ToFrontDistinct DEF RowsSound, Ids
<1>3. \A i \in Ids(d) : rows[i].prog = d.entries[i].prog
  BY <1>1 DEF ToFront, IsUnranked, Ids
<1> HIDE DEF rows
<1>4. /\ c.entries = rows /\ c.history = d.history /\ c.nextId = d.nextId
      /\ c.current = id /\ (d.current # id => c.position = NoProgramme)
  BY DEF Select, rows, IsDatabase
<1> HIDE DEF c
<1>5. \A i \in Ids(c) : i \in Ids(d) /\ c.entries[i].prog = d.entries[i].prog
  BY <1>2, <1>3, <1>4 DEF Ids
<1>6. Kept(c, d)
  BY <1>1, <1>2, <1>4, <1>5, RowsKept
<1> QED BY <1>6 DEF c

\* New rows stand behind the others, at positions of their own.
LEMMA InsertedRows ==
  ASSUME NEW d, IsDatabase(d), Distinct(d.entries), NEW items \in Seq(Programme)
  PROVE  LET c == Inserted(d, items)
         IN  /\ Distinct(c.entries) /\ c.nextId >= d.nextId
             /\ c.history = d.history /\ c.current = d.current
             /\ c.position = d.position
             /\ \A i \in Ids(c) :
                  \/ i \in Ids(d) /\ c.entries[i].prog = d.entries[i].prog
                  \/ i >= d.nextId
<1> DEFINE fresh == {d.nextId + k - 1 : k \in DOMAIN items}
           end == NextAfter(Positions(d.entries))
           rows == [i \in Ids(d) \cup fresh |->
                       IF i \in fresh
                       THEN [position |-> end + i - d.nextId,
                             prog |-> items[i - d.nextId + 1]]
                       ELSE d.entries[i]]
           c == Inserted(d, items)
<1>1. Len(items) \in Nat /\ DOMAIN items = 1..Len(items)
  BY LenProperties
<1>2. /\ IsTable(d.entries, d.nextId) /\ d.nextId \in Nat \ {0}
      /\ end \in 0..d.nextId
      /\ \A i \in Ids(d) : d.entries[i].position < end
  BY EntriesTable, PositionsBounded DEF Ids
<1>3. /\ c.entries = rows /\ c.nextId = d.nextId + Len(items)
      /\ c.history = d.history /\ c.current = d.current /\ c.position = d.position
  BY DEF Inserted, IsDatabase
<1> HIDE DEF c, end
<1>4. \A i \in fresh : i \in Nat /\ i >= d.nextId /\ i \notin Ids(d)
  BY <1>1, <1>2 DEF IsTable, Ids, Id
<1>5. /\ \A i \in fresh : rows[i].position = end + i - d.nextId
      /\ \A i \in Ids(d) : rows[i] = d.entries[i]
      /\ DOMAIN rows = Ids(d) \cup fresh
  BY <1>4
<1>6. \A i \in Ids(d) : d.entries[i].position \in Nat
  BY <1>2 DEF IsTable, Row, Ids
<1> HIDE DEF rows, fresh
<1>7. ASSUME NEW i \in DOMAIN rows, NEW j \in DOMAIN rows,
             rows[i].position = rows[j].position
      PROVE  i = j
  <2>1. CASE i \in Ids(d) /\ j \in Ids(d)
    BY <1>5, <1>7, <2>1 DEF Distinct, Ids
  <2>2. CASE i \in fresh /\ j \in fresh
    BY <1>2, <1>4, <1>5, <1>7, <2>2
  <2>3. CASE i \in Ids(d) /\ j \in fresh
    <3>1. rows[j].position >= end /\ rows[i].position < end
      BY <1>2, <1>4, <1>5, <2>3
    <3>2. rows[i].position \in Nat
      BY <1>5, <1>6, <2>3
    <3> QED BY <1>2, <1>7, <3>1, <3>2
  <2>4. CASE i \in fresh /\ j \in Ids(d)
    <3>1. rows[i].position >= end /\ rows[j].position < end
      BY <1>2, <1>4, <1>5, <2>4
    <3>2. rows[j].position \in Nat
      BY <1>5, <1>6, <2>4
    <3> QED BY <1>2, <1>7, <3>1, <3>2
  <2> QED BY <1>5, <2>1, <2>2, <2>3, <2>4
<1>8. Distinct(rows)
  BY <1>7 DEF Distinct
<1>9. c.nextId >= d.nextId
  BY <1>1, <1>2, <1>3
<1>10. \A i \in Ids(c) :
         (i \in Ids(d) /\ c.entries[i].prog = d.entries[i].prog) \/ i >= d.nextId
  BY <1>3, <1>4, <1>5 DEF Ids
<1> QED BY <1>3, <1>8, <1>9, <1>10 DEF c

LEMMA AddKept ==
  ASSUME NEW d, IsDatabase(d), RowsSound(d), NEW p \in Programme
  PROVE  Kept(Add(d, p), d)
<1> DEFINE full == Inserted(d, <<p>>)
           c == Add(d, p)
<1>1. <<p>> \in Seq(Programme)
  OBVIOUS
<1>2. /\ IsDatabase(full)
      /\ Distinct(full.entries) /\ full.nextId >= d.nextId
      /\ full.history = d.history /\ full.current = d.current
      /\ \A i \in Ids(full) :
           (i \in Ids(d) /\ full.entries[i].prog = d.entries[i].prog) \/ i >= d.nextId
  BY <1>1, InsertedType, InsertedRows DEF RowsSound
<1> DEFINE pausedAfter == IF Ids(d) = {} THEN FALSE ELSE d.paused
<1>3. c = [full EXCEPT !.paused = pausedAfter]
  BY DEF Add
<1> HIDE DEF full, c, pausedAfter
<1>4. /\ c.entries = full.entries /\ c.nextId = full.nextId
      /\ c.history = full.history /\ c.current = full.current
  BY <1>2, <1>3 DEF IsDatabase
<1>5. Kept(c, d)
  BY <1>2, <1>4, RowsKept DEF Ids
<1> QED BY <1>5 DEF c

LEMMA RemoveKept ==
  ASSUME NEW d, IsDatabase(d), RowsSound(d), NEW id
  PROVE  Kept(Remove(d, id), d)
<1> DEFINE left == DeleteEntry(d, id)
           rows == Ranked(left.entries)
           c == Remove(d, id)
<1>1. /\ IsDatabase(left) /\ Distinct(left.entries) /\ left.nextId >= d.nextId
      /\ left.history = d.history /\ left.current = d.current
      /\ \A i \in Ids(left) :
           (i \in Ids(d) /\ left.entries[i].prog = d.entries[i].prog) \/ i >= d.nextId
  BY DeleteEntryType, DeleteEntryRows, DeleteEntryEffect DEF RowsSound, SameRow
<1> HIDE DEF left
<1>2. IsUnranked(left.entries, left.nextId) /\ left.nextId \in Nat \ {0}
  BY <1>1 DEF IsDatabase, IsUnranked, Row
<1>3. /\ DOMAIN rows = Ids(left) /\ Distinct(rows)
      /\ \A i \in Ids(left) : rows[i].prog = left.entries[i].prog
  <2>1. DOMAIN rows = Ids(left) /\ Distinct(rows)
    BY <1>1, <1>2, RankedIsTable, RankedDistinct DEF Ids
  <2>2. \A i \in Ids(left) : rows[i].prog = left.entries[i].prog
    BY <1>2 DEF Ranked, IsUnranked, Ids
  <2> QED BY <2>1, <2>2
<1> DEFINE cur == IF id = d.current THEN NoEntry ELSE d.current
           pos == IF id = d.current THEN NoProgramme ELSE d.position
<1>4. c = [left EXCEPT !.entries = rows, !.current = cur, !.position = pos]
  BY DEF Remove, left
<1>5. cur # d.current => pos = NoProgramme
  OBVIOUS
<1> HIDE DEF c, rows, cur, pos
<1>6. /\ c.entries = rows /\ c.nextId = left.nextId /\ c.history = d.history
      /\ c.current = cur /\ c.position = pos
  BY <1>1, <1>4 DEF IsDatabase
<1>7. \A i \in Ids(c) :
        (i \in Ids(d) /\ c.entries[i].prog = d.entries[i].prog) \/ i >= d.nextId
  BY <1>1, <1>3, <1>6 DEF Ids
<1>8. Kept(c, d)
  BY <1>1, <1>3, <1>5, <1>6, <1>7, RowsKept
<1> QED BY <1>8 DEF c

LEMMA MoveKept ==
  ASSUME NEW d, IsDatabase(d), RowsSound(d), NEW a \in Ids(d), NEW b \in Ids(d)
  PROVE  Kept(Move(d, a, b), d)
<1> DEFINE ranked == Ranked(d.entries)
           rows == Swapped(ranked, a, b)
           c == Move(d, a, b)
<1>1. IsUnranked(d.entries, d.nextId) /\ d.nextId \in Nat \ {0} /\ d.nextId >= d.nextId
  BY DEF IsDatabase, IsUnranked, Row
<1>2. IsTable(ranked, d.nextId) /\ DOMAIN ranked = Ids(d) /\ Distinct(ranked)
  BY <1>1, RankedIsTable, RankedDistinct DEF RowsSound, Ids
<1>3. \A i \in Ids(d) : ranked[i].prog = d.entries[i].prog
  BY <1>1 DEF Ranked, IsUnranked, Ids
<1> HIDE DEF ranked
<1>4. Distinct(rows)
  BY <1>1, <1>2, SwappedDistinct
<1>5. DOMAIN rows = Ids(d) /\ \A i \in Ids(d) : rows[i].prog = ranked[i].prog
  BY <1>2 DEF Swapped, IsTable, Row
<1> HIDE DEF rows
<1>6. /\ c.entries = rows /\ c.nextId = d.nextId /\ c.history = d.history
      /\ c.current = d.current
  BY DEF Move, rows, ranked, IsDatabase
<1> HIDE DEF c
<1>7. \A i \in Ids(c) : i \in Ids(d) /\ c.entries[i].prog = d.entries[i].prog
  BY <1>3, <1>5, <1>6 DEF Ids
<1>8. Kept(c, d)
  BY <1>1, <1>4, <1>6, <1>7, RowsKept
<1> QED BY <1>8 DEF c

LEMMA ClearKept ==
  ASSUME NEW d, IsDatabase(d), RowsSound(d)
  PROVE  Kept(Clear(d), d)
<1> DEFINE kept == Restrict(d.entries, Ids(d) \cap {d.current})
           c == Clear(d)
<1>1. /\ c.nextId = d.nextId /\ c.history = d.history /\ d.nextId >= d.nextId
      /\ \/ c.entries = kept /\ c.current = d.current
         \/ c.entries = Empty /\ c.position = NoProgramme
  BY DEF Clear, IsDatabase
<1>2. /\ DOMAIN kept = Ids(d) \cap {d.current}
      /\ \A i \in DOMAIN kept : kept[i] = d.entries[i]
      /\ Distinct(kept)
  BY RestrictRows DEF RowsSound, Ids
<1>3. DOMAIN Empty = {} /\ Distinct(Empty)
  BY DEF Empty, Distinct
<1> HIDE DEF c, kept
<1>4. \A i \in Ids(c) : i \in Ids(d) /\ c.entries[i].prog = d.entries[i].prog
  BY <1>1, <1>2, <1>3 DEF Ids
<1>5. Kept(c, d)
  BY <1>1, <1>2, <1>3, <1>4, RowsKept
<1> QED BY <1>5 DEF c

LEMMA CopyKept ==
  ASSUME NEW d, IsDatabase(d), RowsSound(d), NEW items \in Seq(Programme),
         NEW replace \in BOOLEAN, NEW repeat \in BOOLEAN
  PROVE  Kept(Copy(d, items, replace, repeat), d)
<1> DEFINE wiped == [d EXCEPT !.entries = Empty, !.cycle = Empty, !.history = <<>>,
                             !.active = FALSE, !.current = NoEntry,
                             !.owner = "free", !.paused = FALSE,
                             !.phase = "waiting", !.position = NoProgramme,
                             !.repeat = repeat]
           base == IF replace THEN wiped ELSE d
           full == Inserted(base, items)
           c == Copy(d, items, replace, repeat)
<1>1. /\ IsDatabase(wiped) /\ wiped.entries = Empty /\ wiped.history = << >>
      /\ wiped.nextId = d.nextId /\ wiped.position = NoProgramme
  <2>1. << >> \in Seq([id : Id(d.nextId), prog : Programme]) /\ Len(<< >>) <= HistoryLimit
    BY EmptySeq, StoreAssumption
  <2>2. IsTable(Empty, d.nextId)
    BY EmptyIsTable
  <2> QED BY <2>1, <2>2, EmptyIsTable DEF IsDatabase, IsTable, Owner
<1>2. DOMAIN Empty = {} /\ Distinct(Empty)
  BY DEF Empty, Distinct
<1> HIDE DEF wiped
<1>3. /\ IsDatabase(base) /\ Distinct(base.entries) /\ base.nextId = d.nextId
      /\ base.history = d.history \/ base.history = << >>
      /\ base.current # d.current => base.position = NoProgramme
      /\ \A i \in Ids(base) : i \in Ids(d) /\ base.entries[i] = d.entries[i]
  BY <1>1, <1>2 DEF RowsSound, Ids
<1> HIDE DEF base
<1>4. /\ IsDatabase(full) /\ Distinct(full.entries) /\ full.nextId >= base.nextId
      /\ full.history = base.history /\ full.current = base.current
      /\ full.position = base.position
      /\ \A i \in Ids(full) :
           \/ i \in Ids(base) /\ full.entries[i].prog = base.entries[i].prog
           \/ i >= base.nextId
  BY <1>3, InsertedType, InsertedRows
<1>5. c = full \/ c = [full EXCEPT !.cycle = Snapshot(full.entries)]
  BY DEF Copy, full, base, wiped
<1> HIDE DEF full, c
<1>6. /\ c.entries = full.entries /\ c.nextId = full.nextId
      /\ c.history = full.history /\ c.current = full.current
      /\ c.position = full.position
  BY <1>4, <1>5 DEF IsDatabase
<1>7. \A i \in Ids(c) :
        (i \in Ids(d) /\ c.entries[i].prog = d.entries[i].prog) \/ i >= d.nextId
  BY <1>3, <1>4, <1>6 DEF Ids
<1>8. Kept(c, d)
  BY <1>3, <1>4, <1>6, <1>7, RowsKept
<1> QED BY <1>8 DEF c

LEMMA DeleteChannelKept ==
  ASSUME NEW d, IsDatabase(d), RowsSound(d), NEW p, NEW last
  PROVE  Kept(DeleteChannel(d, p, last), d)
<1> DEFINE gone == {i \in Ids(d) : d.entries[i].prog = p}
           rows == Restrict(d.entries, Ids(d) \ gone)
           kept == [d EXCEPT
                 !.channels = d.channels \ {p},
                 !.cycle = Restrict(d.cycle, {q \in DOMAIN d.cycle : d.cycle[q] # p}),
                 !.entries = rows]
           c == DeleteChannel(d, p, last)
<1>1. IsDatabase(kept)
  BY DEF IsDatabase, Ids, Restrict
<1>2. /\ kept.entries = rows /\ kept.history = d.history /\ kept.nextId = d.nextId
      /\ kept.current = d.current /\ d.nextId >= d.nextId
  BY DEF IsDatabase
<1>3. /\ DOMAIN rows = Ids(d) \ gone /\ Distinct(rows)
      /\ \A i \in DOMAIN rows : rows[i] = d.entries[i]
  BY RestrictRows DEF RowsSound, Ids
<1>4. c = Refill(kept) \/ c = kept
  BY DEF DeleteChannel
<1> HIDE DEF kept, rows, c
<1>5. CASE c = kept
  <2>1. \A i \in Ids(c) : i \in Ids(d) /\ c.entries[i].prog = d.entries[i].prog
    BY <1>2, <1>3, <1>5 DEF Ids
  <2>2. Kept(c, d)
    BY <1>2, <1>3, <1>5, <2>1, RowsKept
  <2> QED BY <2>2 DEF c
<1>6. CASE c = Refill(kept)
  <2>1. /\ Distinct(c.entries) /\ c.nextId >= d.nextId /\ c.history = d.history
        /\ \A i \in Ids(c) : i >= d.nextId
        /\ c.current = d.current
    BY <1>1, <1>2, <1>6, RefillRows, RefillEffect DEF SameRow
  <2>2. Kept(c, d)
    BY <2>1, RowsKept
  <2> QED BY <2>2 DEF c
<1> QED BY <1>4, <1>5, <1>6

(* ---------------------------------------------------------------------- *)
(* The specification.                                                       *)

RInv == IInv /\ RowsSound(db)

LEMMA InitRows == StoreInit => RowsSound(db)
<1> SUFFICES ASSUME StoreInit PROVE RowsSound(db)
  OBVIOUS
<1>1. PICK items \in Playlists \cup {<< >>} : db = Inserted(Fresh, items)
  BY DEF StoreInit
<1>2. items \in Seq(Programme)
  BY StoreAssumption, EmptySeq
<1>3. IsDatabase(Fresh) /\ Fresh.history = << >> /\ Distinct(Fresh.entries)
  <2>1. << >> \in Seq([id : Id(1), prog : Programme]) /\ Len(<< >>) = 0
    BY EmptySeq
  <2>2. DOMAIN Empty = {} /\ Empty \in [{} -> Row(1)] /\ Empty \in [{} -> Programme]
    BY DEF Empty
  <2>3. IsDatabase(Fresh)
    BY <2>1, <2>2, StoreAssumption DEF Fresh, IsDatabase, Owner
  <2> QED BY <2>2, <2>3 DEF Fresh, Distinct
<1>4. Distinct(db.entries) /\ db.history = << >>
  BY <1>1, <1>2, <1>3, InsertedRows
<1>5. DOMAIN db.history = {}
  BY <1>4
<1> QED BY <1>4, <1>5 DEF RowsSound, Unrepeated

\* Every transaction, and every step that leaves the queue alone.
LEMMA NextKept ==
  ASSUME RInv, [StoreNext]_db
  PROVE  Kept(db', db)
<1>0. IsDatabase(db) /\ Sound(db) /\ RowsSound(db)
  BY DEF RInv, IInv, TypeOK
<1>1. ASSUME PlayerAdvance PROVE Kept(db', db)
  BY <1>0, <1>1, AdvanceKept DEF PlayerAdvance, Commit
<1>2. ASSUME PlayerPrevious PROVE Kept(db', db)
  BY <1>0, <1>2, PreviousKept DEF PlayerPrevious, Commit
<1>3. ASSUME PlayerMarkPlaying PROVE Kept(db', db)
  <2>1. PICK p \in Programme : db' = MarkPlaying(db, p)
    BY <1>3 DEF PlayerMarkPlaying, Commit
  <2>2. /\ db'.entries = db.entries /\ db'.history = db.history
        /\ db'.nextId = db.nextId /\ db'.current = db.current
    BY <1>0, <2>1 DEF MarkPlaying, IsDatabase
  <2> QED BY <1>0, <2>2, FlagsKept
<1>4. ASSUME PlayerSavePosition PROVE Kept(db', db)
  <2>1. PICK p \in Programme : db' = SavePosition(db, p)
    BY <1>4 DEF PlayerSavePosition, Commit
  <2>2. /\ db'.entries = db.entries /\ db'.history = db.history
        /\ db'.nextId = db.nextId /\ db'.current = db.current
    BY <1>0, <2>1 DEF SavePosition, IsDatabase
  <2> QED BY <1>0, <2>2, FlagsKept
<1>5. /\ Released(db).entries = db.entries /\ Released(db).history = db.history
      /\ Released(db).nextId = db.nextId /\ Released(db).current = db.current
  BY <1>0 DEF Released, IsDatabase
<1>6. ASSUME PlayerStop \/ PlayerFail PROVE Kept(db', db)
  <2>1. db' = db \/ db' = Released(db)
    BY <1>6 DEF PlayerStop, PlayerFail, Stop, Fail, Commit
  <2> QED BY <1>0, <1>5, <2>1, FlagsKept
<1>7. ASSUME ServiceSelect PROVE Kept(db', db)
  BY <1>0, <1>7, SelectKept DEF ServiceSelect, Commit
<1>8. ASSUME ServiceEvent PROVE Kept(db', db)
  <2>1. CASE db' = Started(db)
    <3>1. /\ db'.entries = db.entries /\ db'.history = db.history
          /\ db'.nextId = db.nextId /\ db'.current = db.current
      BY <1>0, <2>1 DEF Started, IsDatabase
    <3> QED BY <1>0, <3>1, FlagsKept
  <2>2. ASSUME NEW p \in Programme, db' = [db EXCEPT !.position = p]
        PROVE  Kept(db', db)
    <3>1. /\ db'.entries = db.entries /\ db'.history = db.history
          /\ db'.nextId = db.nextId /\ db'.current = db.current
      BY <1>0, <2>2 DEF IsDatabase
    <3> QED BY <1>0, <3>1, FlagsKept
  <2>3. CASE db' = Released(db)
    BY <1>0, <1>5, <2>3, FlagsKept
  <2>4. CASE db.phase = "playing" /\ db' = Finish(db)
    BY <1>0, <2>4, FinishKept
  <2> QED BY <1>8, <2>1, <2>2, <2>3, <2>4 DEF ServiceEvent, Commit
<1>9. ASSUME ServiceChange PROVE Kept(db', db)
  <2>1. ASSUME NEW p \in Programme, db' = Add(db, p) PROVE Kept(db', db)
    BY <1>0, <2>1, AddKept
  <2>2. ASSUME NEW id \in Ids(db), db' = Remove(db, id) PROVE Kept(db', db)
    BY <1>0, <2>2, RemoveKept
  <2>3. ASSUME NEW a \in Ids(db), NEW b \in Ids(db), db' = Move(db, a, b)
        PROVE  Kept(db', db)
    BY <1>0, <2>3, MoveKept
  <2>4. ASSUME NEW e, db' = SetEnding(db, e) PROVE Kept(db', db)
    <3>1. /\ db'.entries = db.entries /\ db'.history = db.history
          /\ db'.nextId = db.nextId /\ db'.current = db.current
      BY <1>0, <2>4 DEF SetEnding, IsDatabase
    <3> QED BY <1>0, <3>1, FlagsKept
  <2>5. CASE db' = Clear(db)
    BY <1>0, <2>5, ClearKept
  <2> QED BY <1>9, <2>1, <2>2, <2>3, <2>4, <2>5 DEF ServiceChange, Commit
<1>10. ASSUME PlaylistCopy PROVE Kept(db', db)
  BY <1>0, <1>10, StoreAssumption, CopyKept DEF PlaylistCopy, Commit
<1>11. ASSUME ChannelDeletion PROVE Kept(db', db)
  BY <1>0, <1>11, DeleteChannelKept DEF ChannelDeletion, Commit
<1>12. ASSUME UNCHANGED db PROVE Kept(db', db)
  BY <1>0, <1>12, FlagsKept
<1> QED BY <1>1, <1>2, <1>3, <1>4, <1>6, <1>7, <1>8, <1>9, <1>10, <1>11, <1>12
        DEF StoreNext

LEMMA NextRInv ==
  ASSUME RInv, [StoreNext]_db
  PROVE  RInv'
<1>1. IInv'
  BY NextIInv DEF RInv
<1>2. RowsSound(db')
  BY NextKept DEF Kept
<1> QED BY <1>1, <1>2 DEF RInv

LEMMA StoreRInv == StoreSpec => []RInv
<1>1. StoreInit => RInv
  BY InitIInv, InitRows DEF RInv
<1>2. RInv /\ [StoreNext]_db => RInv'
  BY NextRInv
<1> QED BY <1>1, <1>2, PTL DEF StoreSpec

\* What Kept says of the two tables.
EndsWithItsPlayback ==
  /\ \A i \in Ids(db) :
       (\E k \in DOMAIN db'.history : db'.history[k].id = i) =>
         db.phase = "playing" /\ db.current = i /\ db'.current # i
  /\ db'.current # db.current => db'.position = NoProgramme

LEMMA KeptEndsWithItsPlayback ==
  ASSUME RInv, Kept(db', db)
  PROVE  EndsWithItsPlayback
<1>1. RowsSound(db)
  BY DEF RInv
<1>2. ASSUME NEW i \in Ids(db), NEW k \in DOMAIN db'.history, db'.history[k].id = i
      PROVE  db.phase = "playing" /\ db.current = i /\ db'.current # i
  BY <1>1, <1>2 DEF Kept, HistoryKept, RowsSound
<1> QED BY <1>2 DEF EndsWithItsPlayback, Kept

\* No transaction of the player or of the service ever violates a UNIQUE
\* constraint of the queue's tables, and an entry is in Up Next or in the
\* history, never in both and never twice, however many entries, programmes
\* and streams there are.
THEOREM StoreRowsAreUnique == StoreSpec => []RowsAreUnique
<1>1. RInv => RowsAreUnique
  BY DEF RInv, RowsSound, Distinct, Unrepeated, RowsAreUnique, Ids
<1> QED BY <1>1, StoreRInv, PTL

\* An entry reaches the history only as the confirmed current entry that is
\* given up with it, and a resume position dies with the entry it was saved for.
THEOREM StoreEntryEndsWithItsPlayback == StoreSpec => EntryEndsWithItsPlayback
<1>1. RInv /\ [StoreNext]_db => [EndsWithItsPlayback]_db
  BY NextKept, KeptEndsWithItsPlayback
<1>2. [EndsWithItsPlayback]_db =>
        [\A i \in Ids(db) :
           (\E k \in DOMAIN db'.history : db'.history[k].id = i) =>
             db.phase = "playing" /\ db.current = i /\ db'.current # i]_db
  BY DEF EndsWithItsPlayback
<1>3. [EndsWithItsPlayback]_db =>
        [db'.current # db.current => db'.position = NoProgramme]_db
  BY DEF EndsWithItsPlayback
<1>4. StoreSpec => OnlyPlayingIsConsumed
  BY <1>1, <1>2, StoreRInv, PTL DEF StoreSpec, OnlyPlayingIsConsumed
<1>5. StoreSpec => PositionDiesWithEntry
  BY <1>1, <1>3, StoreRInv, PTL DEF StoreSpec, PositionDiesWithEntry
<1> QED BY <1>4, <1>5 DEF EntryEndsWithItsPlayback
=============================================================================
