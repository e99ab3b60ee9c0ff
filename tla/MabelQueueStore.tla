------------------------- MODULE MabelQueueStore -------------------------
(* The shared Up Next queue of Mabel TV: the four tables mabel_queue_entries,
   mabel_queue_state, mabel_queue_history and mabel_queue_cycle, their
   trigger, and every transaction the native player (MabelQueueState.cpp)
   and the Library service (repositories/mabel_queue.py, playlists.py) run on
   them.  Each transaction is BEGIN IMMEDIATE ... COMMIT, so it is one step:
   an operator from the database before it to the database after it.

   The specification below is the most general client: any player or portal
   request may commit any transaction, in any order, at any time.  What is
   proved of it therefore holds under every scheduling of the real callers. *)
EXTENDS Naturals, Sequences, FiniteSets, Functions, FiniteSetsExt

CONSTANTS
  Programme,     \* channel programmes; one programme stands for its channel
  Device,        \* stream tokens the Library service hands to browsers
  QueueLimit,    \* most entries the portal accepts (100 in the code)
  HistoryLimit,  \* most history rows kept (20 in the code)
  Playlists,     \* the saved playlists a parent can copy (item sequences)
  MaxId,         \* bound: entry identities (UUIDs) ever created
  NoProgramme    \* the resume position is the beginning of the programme

ASSUME StoreAssumption ==
  /\ "free" \notin Device
  /\ "tv" \notin Device
  /\ NoProgramme \notin Programme
  /\ QueueLimit \in Nat
  /\ HistoryLimit \in Nat \ {0}
  /\ MaxId \in Nat
  /\ Playlists \subseteq Seq(Programme)

VARIABLE db

NoEntry == 0                        \* current_id = ''
Owner == {"free", "tv"} \cup Device \* owner = '', 'tv' or 'device:<token>'

Id(n) == 1..(n - 1)                 \* identities handed out before the nth
Row(n) == [position : 0..(n - 1), prog : Programme]

\* The columns of one database value; its two tables are partial functions,
\* from identities to rows and from snapshot positions to programmes.
IsDatabase(d) ==
  /\ d \in [entries : {d.entries}, cycle : {d.cycle},
             history : Seq([id : Id(d.nextId), prog : Programme]),
             channels : SUBSET Programme, nextId : Nat \ {0},
             current : Id(d.nextId) \cup {NoEntry},
             owner : Owner, phase : {"waiting", "starting", "playing"},
             active : BOOLEAN, paused : BOOLEAN, completed : BOOLEAN,
             ending : {"all_done", "keep_playing"}, repeat : BOOLEAN,
             position : Programme \cup {NoProgramme}]
  /\ DOMAIN d.entries \subseteq Id(d.nextId)
  /\ d.entries \in [DOMAIN d.entries -> Row(d.nextId)]
  /\ DOMAIN d.cycle \subseteq 0..(d.nextId - 1)
  /\ d.cycle \in [DOMAIN d.cycle -> Programme]
  /\ Len(d.history) <= HistoryLimit

Empty == [i \in {} |-> i]

-----------------------------------------------------------------------------
(* The entry table.  A row has an identity and a unique position.

   Operators named ...Mutant are plausible mistakes in the operator they stand
   before.  Nothing uses them: each shows that a property notices the mistake. *)

Ids(d) == DOMAIN d.entries

Positions(rows) == {rows[i].position : i \in DOMAIN rows}

\* ORDER BY position LIMIT 1
First(rows) == CHOOSE i \in DOMAIN rows : rows[i].position = Min(Positions(rows))

\* COALESCE(MAX(position), -1) + 1
NextAfter(positions) == IF positions = {} THEN 0 ELSE Max(positions) + 1

Before(rows, i) == {j \in DOMAIN rows : rows[j].position < rows[i].position}

\* Positions 0, 1, 2, ... in the present order (_queue_order).
Ranked(rows) ==
  [i \in DOMAIN rows |-> [rows[i] EXCEPT !.position = Cardinality(Before(rows, i))]]

\* The rows behind the moved one are numbered from 0 instead of 1.
ToFrontMutant(rows, id) ==
  [i \in DOMAIN rows |->
     [rows[i] EXCEPT !.position =
        IF i = id THEN 0 ELSE Cardinality(Before(rows, i) \ {id})]]

\* The same, with one row moved to position 0 and the others behind it.
ToFront(rows, id) ==
  [i \in DOMAIN rows |->
     [rows[i] EXCEPT !.position =
        IF i = id THEN 0 ELSE 1 + Cardinality(Before(rows, i) \ {id})]]

Swapped(rows, a, b) ==
  [rows EXCEPT ![a].position = rows[b].position, ![b].position = rows[a].position]

\* Trigger mabel_playlist_repeat: fresh rows for the snapshot of the playlist.
Refill(d) ==
  [d EXCEPT
     !.entries = [i \in {d.nextId + p : p \in DOMAIN d.cycle} |->
                    [position |-> i - d.nextId, prog |-> d.cycle[i - d.nextId]]],
     !.nextId = d.nextId + NextAfter(DOMAIN d.cycle)]

RefillsOn(d, left, id) ==
  left = {} /\ d.repeat /\ d.phase = "playing" /\ d.current = id /\ ~d.paused

\* DELETE FROM mabel_queue_entries WHERE id = ?, with the trigger.
DeleteEntry(d, id) ==
  LET left == Ids(d) \ {id}
      kept == [d EXCEPT !.entries = Restrict(d.entries, left)]
  IN IF id \in Ids(d) /\ RefillsOn(d, left, id) THEN Refill(kept) ELSE kept

\* INSERT INTO mabel_queue_history ... SELECT, and the trim to the newest rows.
WithHistory(d, id) ==
  LET rows == IF id \in Ids(d)
              THEN Append(d.history, [id |-> id, prog |-> d.entries[id].prog])
              ELSE d.history
      extra == IF Len(rows) > HistoryLimit THEN Len(rows) - HistoryLimit ELSE 0
  IN [d EXCEPT !.history = SubSeq(rows, extra + 1, Len(rows))]

\* The current entry moves from the queue to the history.
Consume(d) == DeleteEntry(WithHistory(d, d.current), d.current)

-----------------------------------------------------------------------------
(* The native player's transactions. *)

\* The queue is released without giving up its owner.
ReleasedMutant(d) == [d EXCEPT !.active = FALSE, !.phase = "waiting", !.paused = TRUE]

Released(d) == [d EXCEPT !.active = FALSE, !.phase = "waiting", !.paused = TRUE,
                         !.owner = "free"]

\* reserve: the TV takes an entry; a resume position survives only its own entry.
Reserve(d, id) ==
  [d EXCEPT !.current = id, !.owner = "tv", !.phase = "starting",
            !.active = FALSE, !.completed = FALSE, !.paused = FALSE,
            !.position = IF d.current = id THEN d.position ELSE NoProgramme]

\* The end of any programme finishes a merely reserved entry.
FinishedByMutant(d, start) == ~start /\ d.owner = "tv"

FinishedBy(d, start) == ~start /\ d.phase = "playing" /\ d.owner = "tv"

\* What advanceMabelQueue has done when it looks for the next item.
AfterFinish(d, start) ==
  IF FinishedBy(d, start)
  THEN [Consume(d) EXCEPT !.active = FALSE, !.current = NoEntry,
                          !.phase = "waiting", !.position = NoProgramme]
  ELSE d

NextItem(d, start) ==
  LET rows == AfterFinish(d, start).entries
  IN CASE start /\ d.current \in DOMAIN rows -> d.current
       [] ~(start /\ d.current \in DOMAIN rows) /\ DOMAIN rows # {} -> First(rows)
       [] DOMAIN rows = {} -> NoEntry

\* The answer of advanceMabelQueue: an item to play, the end of the queue, or
\* "unclaimed" when the player carries on with its own channel.
AdvanceOutcome(d, start) ==
  CASE d.owner \notin {"free", "tv"} \/ (~start /\ d.paused) -> "unclaimed"
    [] d.owner \in {"free", "tv"} /\ ~(~start /\ d.paused)
       /\ NextItem(d, start) # NoEntry -> "item"
    [] d.owner \in {"free", "tv"} /\ ~(~start /\ d.paused)
       /\ NextItem(d, start) = NoEntry ->
         IF FinishedBy(d, start) /\ d.ending = "all_done" THEN "all_done"
         ELSE "unclaimed"

Advance(d, start) ==
  LET base == AfterFinish(d, start)
      next == NextItem(d, start)
      finished == FinishedBy(d, start)
  IN IF d.owner \notin {"free", "tv"} THEN d
     ELSE IF ~start /\ d.paused
          THEN IF finished THEN [base EXCEPT !.owner = "free"] ELSE base
     ELSE IF next # NoEntry THEN Reserve(base, next)
     ELSE IF finished
          THEN [base EXCEPT !.completed = (d.ending = "all_done"), !.owner = "free"]
     ELSE base

\* previousMabelQueue: the newest history row returns to the front of the queue.
PreviousOutcome(d) ==
  IF d.owner # "tv" \/ d.current = NoEntry \/ d.history = <<>> THEN "unclaimed"
  ELSE IF d.history[Len(d.history)].id \notin Ids(d)
          /\ d.history[Len(d.history)].prog \notin d.channels
       THEN "error"     \* the foreign key refuses the row: rolled back
  ELSE "item"

Previous(d) ==
  LET last == d.history[Len(d.history)]
      row == [position |-> NextAfter(Positions(d.entries)), prog |-> last.prog]
      rows == IF last.id \in Ids(d) THEN d.entries
              ELSE [i \in Ids(d) \cup {last.id} |->
                      IF i = last.id THEN row ELSE d.entries[i]]
  IN IF PreviousOutcome(d) # "item" THEN d
     ELSE Reserve([d EXCEPT !.entries = ToFront(rows, last.id),
                            !.history = SubSeq(d.history, 1, Len(d.history) - 1)],
                  last.id)

\* markMabelQueuePlaying: the decoder's Playing signal for one channel file.
\* Any Playing signal confirms the reservation.
MarkPlayingMutant(d, prog) ==
  IF d.owner = "tv" /\ d.phase = "starting" /\ d.current \in Ids(d)
  THEN [d EXCEPT !.phase = "playing", !.active = TRUE]
  ELSE d

MarkPlaying(d, prog) ==
  IF d.owner = "tv" /\ d.phase = "starting" /\ d.current \in Ids(d)
     /\ d.entries[d.current].prog = prog
  THEN [d EXCEPT !.phase = "playing", !.active = TRUE]
  ELSE d

\* Positions are taken before playback is confirmed.
SavePositionMutant(d, prog) == IF d.owner = "tv" THEN [d EXCEPT !.position = prog] ELSE d

SavePosition(d, prog) ==
  IF d.owner = "tv" /\ d.phase = "playing" THEN [d EXCEPT !.position = prog] ELSE d

Stop(d) ==
  IF d.owner \in {"free", "tv"} /\ Ids(d) # {} THEN Released(d) ELSE d

FailClaimed(d) == d.owner = "tv" /\ d.current # NoEntry

Fail(d) == IF FailClaimed(d) THEN Released(d) ELSE d

-----------------------------------------------------------------------------
(* The Library service's transactions.  "...Ok" is the check whose failure
   raises ValueError and leaves the database alone. *)

\* The next entry starts by itself whoever plays.
SelectOkMutant(d, id, automatic, expected) == (automatic => ~d.paused) /\ id \in Ids(d)

SelectOk(d, id, automatic, expected) ==
  /\ automatic => ~d.paused /\ d.owner \in {"free", expected}
  /\ id \in Ids(d)

Select(d, id, owner) ==
  [d EXCEPT !.entries = ToFront(d.entries, id), !.current = id, !.owner = owner,
            !.active = FALSE, !.completed = FALSE, !.paused = FALSE,
            !.phase = "starting",
            !.position = IF d.current = id THEN d.position ELSE NoProgramme]

EventOk(d, owner, id) == d.owner = owner /\ d.current = id

Started(d) == [d EXCEPT !.active = TRUE, !.phase = "playing"]

Finish(d) ==
  LET base == Consume(d)
  IN IF Ids(base) # {} /\ ~d.paused
     THEN [base EXCEPT !.current = First(base.entries), !.active = FALSE,
                       !.phase = "starting", !.position = NoProgramme]
     ELSE [base EXCEPT !.current = NoEntry, !.owner = "free", !.active = FALSE,
                       !.phase = "waiting", !.position = NoProgramme,
                       !.completed = ~d.paused /\ d.ending = "all_done"]

\* INSERT of fresh entries, in order, behind the last one.
Inserted(d, items) ==
  LET fresh == {d.nextId + k - 1 : k \in DOMAIN items}
      end == NextAfter(Positions(d.entries))
  IN [d EXCEPT
        !.entries = [i \in Ids(d) \cup fresh |->
                       IF i \in fresh
                       THEN [position |-> end + i - d.nextId,
                             prog |-> items[i - d.nextId + 1]]
                       ELSE d.entries[i]],
        !.nextId = d.nextId + Len(items),
        !.completed = FALSE]

\* The database the programs open: fresh from the migration, or with entries a
\* parent queued before.
Fresh ==
  [entries |-> Empty, history |-> <<>>, cycle |-> Empty, channels |-> Programme,
   nextId |-> 1, current |-> NoEntry, owner |-> "free", phase |-> "waiting",
   active |-> FALSE, paused |-> FALSE, completed |-> FALSE, ending |-> "all_done",
   repeat |-> FALSE, position |-> NoProgramme]

StoreInit == \E items \in Playlists \cup {<<>>} : db = Inserted(Fresh, items)

AddOk(d, prog) == Cardinality(Ids(d)) < QueueLimit /\ prog \in d.channels

Add(d, prog) ==
  [Inserted(d, <<prog>>) EXCEPT !.paused = IF Ids(d) = {} THEN FALSE ELSE d.paused]

\* The entry the portal may not touch: the one starting or playing now.
Protected(d) == IF d.phase \in {"starting", "playing"} THEN d.current ELSE NoEntry

RemoveOk(d, id) == id \in Ids(d) /\ id # Protected(d)

\* The removed entry leaves its resume position behind.
RemovePositionMutant(d, id) ==
  LET left == DeleteEntry(d, id)
  IN [left EXCEPT !.entries = Ranked(left.entries),
                  !.current = IF id = d.current THEN NoEntry ELSE d.current]

Remove(d, id) ==
  LET left == DeleteEntry(d, id)
  IN [left EXCEPT !.entries = Ranked(left.entries),
                  !.current = IF id = d.current THEN NoEntry ELSE d.current,
                  !.position = IF id = d.current THEN NoProgramme ELSE d.position]

\* "down" moves a over its successor b, "up" moves b over its predecessor a.
MoveOk(d, a, b) ==
  /\ a \in Ids(d) /\ b \in Ids(d)
  /\ Cardinality(Before(d.entries, b)) = Cardinality(Before(d.entries, a)) + 1
  /\ Protected(d) \notin {a, b}

Move(d, a, b) == [d EXCEPT !.entries = Swapped(Ranked(d.entries), a, b)]

SetEnding(d, ending) ==
  [d EXCEPT !.ending = ending, !.repeat = FALSE, !.cycle = Empty]

Clear(d) ==
  LET base == [d EXCEPT !.repeat = FALSE, !.cycle = Empty]
  IN IF d.phase = "playing"
     THEN [base EXCEPT !.entries = Restrict(d.entries, Ids(d) \cap {d.current}),
                       !.paused = TRUE, !.completed = FALSE]
     ELSE [base EXCEPT !.entries = Empty, !.active = FALSE, !.completed = FALSE,
                       !.current = NoEntry, !.owner = "free", !.paused = FALSE,
                       !.phase = "waiting", !.position = NoProgramme]

\* INSERT INTO mabel_queue_cycle ... SELECT position, ... FROM mabel_queue_entries
Snapshot(rows) ==
  [p \in {rows[i].position : i \in DOMAIN rows} |->
     rows[CHOOSE i \in DOMAIN rows : rows[i].position = p].prog]

\* playlist_copy_to_queue: a saved playlist replaces the queue or joins its end.
CopyOk(d, items, replace) ==
  /\ items # <<>>
  /\ \A k \in DOMAIN items : items[k] \in d.channels
  /\ Len(items) + (IF replace THEN 0 ELSE Cardinality(Ids(d))) <= QueueLimit

Copy(d, items, replace, repeat) ==
  LET base == IF replace
              THEN [d EXCEPT !.entries = Empty, !.cycle = Empty, !.history = <<>>,
                             !.active = FALSE, !.current = NoEntry,
                             !.owner = "free", !.paused = FALSE,
                             !.phase = "waiting", !.position = NoProgramme,
                             !.repeat = repeat]
              ELSE d
      full == Inserted(base, items)
  IN IF full.repeat THEN [full EXCEPT !.cycle = Snapshot(full.entries)] ELSE full

\* Deleting a channel cascades to the cycle, then to the entries; the trigger
\* sees the rows go one by one, "last" being the last of them.
DeleteChannel(d, prog, last) ==
  LET gone == {i \in Ids(d) : d.entries[i].prog = prog}
      kept == [d EXCEPT
                 !.channels = d.channels \ {prog},
                 !.cycle = Restrict(d.cycle, {p \in DOMAIN d.cycle : d.cycle[p] # prog}),
                 !.entries = Restrict(d.entries, Ids(d) \ gone)]
  IN IF gone # {} /\ RefillsOn(d, Ids(d) \ gone, last) THEN Refill(kept) ELSE kept
-----------------------------------------------------------------------------
(* The most general client. *)

Commit(d) == d.nextId <= MaxId + 1 /\ db' = d

PlayerAdvance == \E start \in BOOLEAN : Commit(Advance(db, start))
PlayerPrevious == PreviousOutcome(db) = "item" /\ Commit(Previous(db))
PlayerMarkPlaying == \E p \in Programme : Commit(MarkPlaying(db, p))
PlayerSavePosition == \E p \in Programme : Commit(SavePosition(db, p))
PlayerStop == Commit(Stop(db))
PlayerFail == FailClaimed(db) /\ Commit(Fail(db))

ServiceSelect ==
  \E id \in Ids(db), owner \in Owner \ {"free"}, automatic \in BOOLEAN :
    /\ SelectOk(db, id, automatic, owner)
    /\ Commit(Select(db, id, owner))

ServiceEvent ==
  \E owner \in Owner \ {"free"} :
    /\ EventOk(db, owner, db.current)
    /\ \/ Commit(Started(db))
       \/ \E p \in Programme : Commit([db EXCEPT !.position = p])
       \/ Commit(Released(db))
       \/ db.phase = "playing" /\ Commit(Finish(db))

ServiceChange ==
  \/ \E p \in Programme : AddOk(db, p) /\ Commit(Add(db, p))
  \/ \E id \in Ids(db) : RemoveOk(db, id) /\ Commit(Remove(db, id))
  \/ \E a, b \in Ids(db) : MoveOk(db, a, b) /\ Commit(Move(db, a, b))
  \/ \E e \in {"all_done", "keep_playing"} : Commit(SetEnding(db, e))
  \/ Commit(Clear(db))

PlaylistCopy ==
  \E items \in Playlists, replace, repeat \in BOOLEAN :
    CopyOk(db, items, replace) /\ Commit(Copy(db, items, replace, repeat))

ChannelDeletion ==
  \E p \in db.channels, last \in Ids(db) \cup {NoEntry} :
    /\ db.channels # {p}
    /\ IF last = NoEntry THEN \A i \in Ids(db) : db.entries[i].prog # p
                         ELSE db.entries[last].prog = p
    /\ Commit(DeleteChannel(db, p, last))

StoreNext ==
  \/ PlayerAdvance \/ PlayerPrevious \/ PlayerMarkPlaying \/ PlayerSavePosition
  \/ PlayerStop \/ PlayerFail \/ ServiceSelect \/ ServiceEvent \/ ServiceChange
  \/ PlaylistCopy \/ ChannelDeletion

StoreSpec == StoreInit /\ [][StoreNext]_db
-----------------------------------------------------------------------------
(* Properties. *)

\* Every table and column holds a value of its declared type (the schema in
\* database_schema.py with its CHECK constraints), no identity or position runs
\* ahead of the identities handed out so far, and the history stays trimmed.
TypeOK == IsDatabase(db)

\* The state row's columns agree after every transaction of either program: a
\* player owns the queue exactly while an entry starts or plays, active is set
\* exactly while it plays, and an owner always names the entry it holds; "all
\* done" is announced only of an empty queue nobody holds; and a queue that is
\* paused while it plays (after "clear") never repeats a playlist, so that its
\* end cannot refill it.
StateRowAgrees ==
  /\ db.owner = "free" <=> db.phase = "waiting"
  /\ db.active <=> db.phase = "playing"
  /\ db.owner # "free" => db.current # NoEntry
  /\ db.completed => db.owner = "free" /\ db.current = NoEntry /\ Ids(db) = {}
  /\ db.paused /\ db.owner # "free" => db.phase = "playing" /\ ~db.repeat

\* The UNIQUE constraints never abort a transaction, and an entry is in Up Next
\* or in the history, never both and never twice: the rows inserted by add, by
\* playlist copies, by "previous" and by the repeat trigger never collide.
RowsAreUnique ==
  /\ \A i, j \in Ids(db) : db.entries[i].position = db.entries[j].position => i = j
  /\ \A k, m \in DOMAIN db.history : db.history[k].id = db.history[m].id => k = m
  /\ \A k \in DOMAIN db.history : db.history[k].id \notin Ids(db)

\* The entry a player starts or plays, or that waits to be resumed, is still in
\* Up Next (position, history and protection all refer to it), unless its whole
\* channel was deleted.
CurrentIsQueued ==
  db.current # NoEntry => db.current \in Ids(db) \/ db.channels # Programme

\* An entry reaches the history only as the confirmed current entry of a player
\* that then gives it up: nobody finishes a waiting, a merely reserved or a
\* neighbouring entry.
OnlyPlayingIsConsumed ==
  [][\A i \in Ids(db) :
       (\E k \in DOMAIN db'.history : db'.history[k].id = i) =>
         db.phase = "playing" /\ db.current = i /\ db'.current # i]_db

\* A resume position is never carried from one entry to another: when the
\* current entry changes, playback of the new one begins at its start.
PositionDiesWithEntry ==
  [][db'.current # db.current => db'.position = NoProgramme]_db

\* An entry ends with its own playback, and takes its resume position with it.
EntryEndsWithItsPlayback == OnlyPlayingIsConsumed /\ PositionDiesWithEntry

\* The repeat trigger refills an exhausted queue at the end of a round, so a
\* repeating playlist never ends in "all done" (unless a deleted channel took
\* the entry that was playing and the trigger with it).
RepeatNeverCompletes ==
  db.repeat /\ db.completed => db.channels # Programme
=============================================================================
