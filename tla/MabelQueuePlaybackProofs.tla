-------------------- MODULE MabelQueuePlaybackProofs --------------------
(* The players of the queue implement its store, and nothing they own is
   confirmed, finished, resumed or taken over behind their back: for any number
   of programmes, browsers and requests. *)
EXTENDS MabelQueuePlayback, MabelQueueStoreProofs

(* ---------------------------------------------------------------------- *)
(* What the store's transactions do to the claim of a player.               *)

\* Nothing is confirmed by the transaction, and no resume position is stored.
Calm(c, d) ==
  /\ c.channels = d.channels
  /\ c.phase = "playing" =>
       d.phase = "playing" /\ c.owner = d.owner /\ c.current = d.current
  /\ c.position \in {d.position, NoProgramme}

\* The transaction gives the queue to nobody else.
Loyal(c, d) == c.owner \in {"free", d.owner}

\* The transaction adds nothing to the history.
NoNewHistory(c, d) == c.history \in {d.history, << >>}

LEMMA ReleasedCalm ==
  ASSUME NEW d, IsDatabase(d)
  PROVE  /\ Calm(Released(d), d) /\ Loyal(Released(d), d)
         /\ NoNewHistory(Released(d), d)
         /\ Released(d).phase = "waiting"
BY DEF Released, Calm, Loyal, NoNewHistory, IsDatabase

LEMMA SameCalm ==
  ASSUME NEW d
  PROVE  Calm(d, d) /\ Loyal(d, d) /\ NoNewHistory(d, d)
BY DEF Calm, Loyal, NoNewHistory

LEMMA ReserveCalm ==
  ASSUME NEW d, IsDatabase(d), NEW id
  PROVE  /\ Reserve(d, id).channels = d.channels /\ Reserve(d, id).phase = "starting"
         /\ Reserve(d, id).position \in {d.position, NoProgramme}
         /\ Reserve(d, id).owner = "tv"
BY DEF Reserve, IsDatabase

LEMMA AdvanceCalm ==
  ASSUME NEW d, IsDatabase(d), NEW start \in BOOLEAN
  PROVE  /\ Calm(Advance(d, start), d)
         /\ d.owner # "free" => Loyal(Advance(d, start), d)
         /\ ~FinishedBy(d, start) => Advance(d, start).history = d.history
<1> DEFINE base == AfterFinish(d, start)
           next == NextItem(d, start)
           c == Advance(d, start)
<1>1. IsDatabase(base)
  BY NextItemType
<1>2. /\ base.channels = d.channels /\ base.owner = d.owner
      /\ base.position \in {d.position, NoProgramme}
      /\ base.phase = "playing" => base = d
      /\ ~FinishedBy(d, start) => base = d
  <2> DEFINE b == Consume(d)
  <2>1. IsDatabase(b) /\ SameRow(b, d)
    BY ConsumeType, ConsumeEffect
  <2>2. CASE FinishedBy(d, start)
    <3>1. base = [b EXCEPT !.active = FALSE, !.current = NoEntry,
                           !.phase = "waiting", !.position = NoProgramme]
      BY <2>2 DEF AfterFinish
    <3> HIDE DEF b, base
    <3> QED BY <2>1, <2>2, <3>1 DEF SameRow, IsDatabase
  <2>3. CASE ~FinishedBy(d, start)
    BY <2>3 DEF AfterFinish
  <2> QED BY <2>2, <2>3
<1> HIDE DEF base, next
<1>3. /\ Reserve(base, next).channels = base.channels
      /\ Reserve(base, next).phase = "starting"
      /\ Reserve(base, next).position \in {base.position, NoProgramme}
      /\ Reserve(base, next).owner = "tv"
      /\ Reserve(base, next).history = base.history
  BY <1>1, ReserveCalm DEF Reserve, IsDatabase
<1>4. \/ c = d
      \/ c = base
      \/ c = [base EXCEPT !.owner = "free"] /\ FinishedBy(d, start)
      \/ d.owner \in {"free", "tv"} /\ c = Reserve(base, next)
      \/ /\ c = [base EXCEPT !.completed = (d.ending = "all_done"), !.owner = "free"]
         /\ FinishedBy(d, start)
  BY DEF Advance, base, next
<1> HIDE DEF c
<1>5. FinishedBy(d, start) => base.phase = "waiting"
  <2> DEFINE b == Consume(d)
  <2>1. IsDatabase(b)
    BY ConsumeType
  <2> HIDE DEF b
  <2> QED BY <2>1 DEF AfterFinish, base, b, IsDatabase
<1>6. CASE c = d
  BY <1>6, SameCalm DEF c
<1>7. CASE c = base
  BY <1>2, <1>7 DEF Calm, Loyal, c
<1>8. CASE c = [base EXCEPT !.owner = "free"] /\ FinishedBy(d, start)
  BY <1>1, <1>2, <1>5, <1>8 DEF Calm, Loyal, c, IsDatabase
<1>9. CASE d.owner \in {"free", "tv"} /\ c = Reserve(base, next)
  BY <1>2, <1>3, <1>9 DEF Calm, Loyal, c
<1>10. CASE /\ c = [base EXCEPT !.completed = (d.ending = "all_done"), !.owner = "free"]
            /\ FinishedBy(d, start)
  <2>1. /\ c.channels = base.channels /\ c.phase = base.phase
        /\ c.position = base.position /\ c.owner = "free"
    BY <1>1, <1>10 DEF IsDatabase
  <2> QED BY <1>2, <1>5, <1>10, <2>1 DEF Calm, Loyal, c
<1> QED BY <1>4, <1>6, <1>7, <1>8, <1>9, <1>10

LEMMA PreviousCalm ==
  ASSUME NEW d, IsDatabase(d), PreviousOutcome(d) = "item"
  PROVE  Calm(Previous(d), d) /\ Loyal(Previous(d), d) /\ d.owner = "tv"
<1>1. PICK rows, h, id : Previous(d) = Reserve([d EXCEPT !.entries = rows, !.history = h], id)
  BY DEF Previous
<1>2. d.owner = "tv"
  BY DEF PreviousOutcome
<1>3. /\ Previous(d).channels = d.channels /\ Previous(d).phase = "starting"
      /\ Previous(d).position \in {d.position, NoProgramme} /\ Previous(d).owner = "tv"
  BY <1>1 DEF Reserve, IsDatabase
<1> QED BY <1>2, <1>3 DEF Calm, Loyal

LEMMA SelectCalm ==
  ASSUME NEW d, IsDatabase(d), NEW id, NEW owner
  PROVE  /\ Calm(Select(d, id, owner), d) /\ NoNewHistory(Select(d, id, owner), d)
         /\ Select(d, id, owner).owner = owner
         /\ Select(d, id, owner).phase = "starting"
BY DEF Select, Calm, NoNewHistory, IsDatabase

LEMMA FinishCalm ==
  ASSUME NEW d, IsDatabase(d), NEW t, d.owner = t
  PROVE  /\ Calm(Finish(d), d) /\ Loyal(Finish(d), d)
         /\ Finish(d).phase # "playing"
<1> DEFINE b == Consume(d)
           next == First(b.entries)
           done == ~d.paused /\ d.ending = "all_done"
           c == Finish(d)
<1>1. IsDatabase(b) /\ SameRow(b, d)
  BY ConsumeType, ConsumeEffect
<1>2. \/ c = [b EXCEPT !.current = next, !.active = FALSE,
                       !.phase = "starting", !.position = NoProgramme]
      \/ c = [b EXCEPT !.current = NoEntry, !.owner = "free", !.active = FALSE,
                       !.phase = "waiting", !.position = NoProgramme,
                       !.completed = done]
  BY DEF Finish
<1> HIDE DEF b, next, done, c
<1>3. /\ c.channels = d.channels /\ c.phase \in {"starting", "waiting"}
      /\ c.position = NoProgramme /\ c.owner \in {"free", d.owner}
  BY <1>1, <1>2 DEF SameRow, IsDatabase
<1> QED BY <1>3 DEF Calm, Loyal, c

LEMMA AddCalm ==
  ASSUME NEW d, IsDatabase(d), NEW p
  PROVE  Calm(Add(d, p), d) /\ Loyal(Add(d, p), d) /\ NoNewHistory(Add(d, p), d)
<1>1. PICK rows, n, q : Add(d, p) = [[d EXCEPT !.entries = rows, !.nextId = n,
                                              !.completed = FALSE] EXCEPT !.paused = q]
  BY DEF Add, Inserted
<1> QED BY <1>1 DEF Calm, Loyal, NoNewHistory, IsDatabase

LEMMA RemoveCalm ==
  ASSUME NEW d, IsDatabase(d), NEW id, RemoveOk(d, id)
  PROVE  Calm(Remove(d, id), d) /\ Loyal(Remove(d, id), d) /\ NoNewHistory(Remove(d, id), d)
<1> DEFINE left == DeleteEntry(d, id)
<1>1. IsDatabase(left) /\ SameRow(left, d) /\ left.history = d.history
  BY DeleteEntryType, DeleteEntryEffect
<1> HIDE DEF left
<1> DEFINE rows == Ranked(left.entries)
           cur == IF id = d.current THEN NoEntry ELSE d.current
           pos == IF id = d.current THEN NoProgramme ELSE d.position
           c == Remove(d, id)
<1>2. c = [left EXCEPT !.entries = rows, !.current = cur, !.position = pos]
  BY DEF Remove, left
<1>3. d.phase = "playing" => cur = d.current
  BY DEF RemoveOk, Protected
<1>4. pos \in {d.position, NoProgramme}
  OBVIOUS
<1> HIDE DEF rows, cur, pos, c
<1>5. /\ c.channels = d.channels /\ c.phase = d.phase /\ c.owner = d.owner
      /\ c.history = d.history /\ c.current = cur /\ c.position = pos
  BY <1>1, <1>2 DEF SameRow, IsDatabase
<1> QED BY <1>3, <1>4, <1>5 DEF Calm, Loyal, NoNewHistory, c

LEMMA EditsCalm ==
  ASSUME NEW d, IsDatabase(d), NEW a, NEW b, NEW e
  PROVE  /\ Calm(Move(d, a, b), d) /\ Loyal(Move(d, a, b), d)
         /\ NoNewHistory(Move(d, a, b), d)
         /\ Calm(SetEnding(d, e), d) /\ Loyal(SetEnding(d, e), d)
         /\ NoNewHistory(SetEnding(d, e), d)
         /\ Calm(Clear(d), d) /\ Loyal(Clear(d), d) /\ NoNewHistory(Clear(d), d)
<1>1. Calm(Move(d, a, b), d) /\ Loyal(Move(d, a, b), d) /\ NoNewHistory(Move(d, a, b), d)
  BY DEF Move, Calm, Loyal, NoNewHistory, IsDatabase
<1>2. Calm(SetEnding(d, e), d) /\ Loyal(SetEnding(d, e), d)
      /\ NoNewHistory(SetEnding(d, e), d)
  BY DEF SetEnding, Calm, Loyal, NoNewHistory, IsDatabase
<1>3. Calm(Clear(d), d) /\ Loyal(Clear(d), d) /\ NoNewHistory(Clear(d), d)
  BY DEF Clear, Calm, Loyal, NoNewHistory, IsDatabase
<1> QED BY <1>1, <1>2, <1>3

LEMMA CopyCalm ==
  ASSUME NEW d, IsDatabase(d), NEW items \in Seq(Programme),
         NEW replace \in BOOLEAN, NEW repeat \in BOOLEAN
  PROVE  /\ Calm(Copy(d, items, replace, repeat), d)
         /\ Loyal(Copy(d, items, replace, repeat), d)
         /\ NoNewHistory(Copy(d, items, replace, repeat), d)
<1> DEFINE wiped == [d EXCEPT !.entries = Empty, !.cycle = Empty, !.history = <<>>,
                             !.active = FALSE, !.current = NoEntry,
                             !.owner = "free", !.paused = FALSE,
                             !.phase = "waiting", !.position = NoProgramme,
                             !.repeat = repeat]
           base == IF replace THEN wiped ELSE d
           full == Inserted(base, items)
           c == Copy(d, items, replace, repeat)
<1>1. /\ IsDatabase(wiped)
      /\ wiped.channels = d.channels /\ wiped.phase = "waiting"
      /\ wiped.owner = "free" /\ wiped.position = NoProgramme
      /\ wiped.history = << >>
  <2>1. << >> \in Seq([id : Id(d.nextId), prog : Programme]) /\ Len(<< >>) <= HistoryLimit
    BY EmptySeq, StoreAssumption
  <2>2. IsTable(Empty, d.nextId)
    BY EmptyIsTable
  <2> QED BY <2>1, <2>2, EmptyIsTable DEF IsDatabase, IsTable, Owner
<1>2. c = full \/ c = [full EXCEPT !.cycle = Snapshot(full.entries)]
  BY DEF Copy
<1> HIDE DEF wiped, c
<1>3. IsDatabase(base)
  BY <1>1
<1> HIDE DEF base
<1>4. /\ full.channels = base.channels /\ full.phase = base.phase
      /\ full.owner = base.owner /\ full.current = base.current
      /\ full.position = base.position /\ full.history = base.history
  BY <1>3 DEF Inserted, IsDatabase
<1>5. IsDatabase(full)
  BY <1>3, InsertedType
<1> HIDE DEF full
<1>6. /\ c.channels = base.channels /\ c.phase = base.phase
      /\ c.owner = base.owner /\ c.current = base.current
      /\ c.position = base.position /\ c.history = base.history
  BY <1>2, <1>4, <1>5 DEF IsDatabase
<1>7. CASE replace
  BY <1>1, <1>6, <1>7 DEF base, Calm, Loyal, NoNewHistory, c
<1>8. CASE ~replace
  BY <1>6, <1>8 DEF base, Calm, Loyal, NoNewHistory, c
<1> QED BY <1>7, <1>8

(* ---------------------------------------------------------------------- *)
(* The inductive invariant.                                                 *)

TvType == [mode : {"mabel", "mytv", "standby", "down"}, prog : Programme, item : Nat,
           video : {"stopped", "tuning", "loading", "playing"},
           pending : BOOLEAN, refused : BOOLEAN]

CommandType == {"start", "transfer", "wake"}
PlayType == {Idle} \cup [step : {"chosen", "selected", "dropped"}, entry : Nat]
OpenType == {Idle} \cup [step : {"select"}, entry : Nat, token : Device,
                         from : Device, auto : BOOLEAN]
SessionType == {NoSession} \cup [token : Device, entry : Nat]
PlayerType == {Unused} \cup [state : Watching \cup {"closed"}, entry : Nat, prog : Programme]

PlayerTypeOK ==
  /\ setting \in Settings
  /\ tv \in TvType
  /\ commands \in Seq(CommandType)
  /\ play \in PlayType
  /\ open \in OpenType
  /\ session \in SessionType
  /\ player \in [Device -> PlayerType]
  /\ requests \in 0..MaxRequests

\* A queue the TV plays is on the TV's screen.
TvIsConfirmed ==
  Undisturbed /\ db.owner = "tv" /\ db.phase = "playing" =>
    tv.mode = "mabel" /\ tv.prog = CurrentProgramme

\* A browser that the queue says is playing has been confirmed, for this entry.
Held == {"confirmed", "ended", "failing", "closed"}

StreamIsConfirmed ==
  db.owner \in Device /\ db.phase = "playing" =>
    player[db.owner].entry = db.current /\ player[db.owner].state \in Held

\* An identity keeps its programme for ever, in Up Next and in the history.
Labelled(d, i, p) ==
  /\ i \in Id(d.nextId)
  /\ i \in Ids(d) => d.entries[i].prog = p
  /\ \A k \in DOMAIN d.history : d.history[k].id = i => d.history[k].prog = p

PlayersLabelled ==
  \A t \in Device :
    player[t].state # "unused" => Labelled(db, player[t].entry, player[t].prog)

\* The browser whose next entry opens by itself plays nothing of the queue.
NextIsUnconfirmed ==
  open # Idle /\ open.auto =>
    /\ player[open.from].state # "unused"
    /\ ~(db.owner = open.from /\ db.phase = "playing")

PInv ==
  /\ RInv
  /\ PlayerTypeOK
  /\ db.channels = Programme
  /\ TvIsConfirmed
  /\ StreamIsConfirmed
  /\ PlayersLabelled
  /\ NextIsUnconfirmed
  /\ ResumePointIsOwn

(* ---------------------------------------------------------------------- *)
(* The native player: its steps are transactions and keep its type.         *)

LEMMA TunedType ==
  ASSUME NEW t \in TvType, NEW p \in Programme, NEW id \in Nat
  PROVE  Tuned(t, p, id) \in TvType
BY DEF Tuned, TvType

LEMMA QuietType ==
  ASSUME NEW t \in TvType
  PROVE  Quiet(t) \in TvType
BY DEF Quiet, TvType

LEMMA OwnProgrammeType ==
  ASSUME NEW t \in TvType
  PROVE  OwnProgramme(t) \subseteq TvType
<1>1. NoEntry \in Nat
  BY DEF NoEntry
<1>2. \A p \in Programme : Tuned(t, p, NoEntry) \in TvType
  BY <1>1, TunedType
<1> QED BY <1>2 DEF OwnProgramme

LEMMA TvUpdates ==
  ASSUME NEW t \in TvType
  PROVE  /\ \A m \in {"mabel", "mytv", "standby", "down"} : [t EXCEPT !.mode = m] \in TvType
         /\ \A v \in {"stopped", "tuning", "loading", "playing"} :
              [t EXCEPT !.video = v] \in TvType
         /\ \A b \in BOOLEAN : /\ [t EXCEPT !.pending = b] \in TvType
                               /\ [t EXCEPT !.refused = b] \in TvType
BY DEF TvType

LEMMA PlayQueuedStep ==
  ASSUME IsDatabase(db), NEW t \in TvType, NEW start \in BOOLEAN,
         NEW unclaimed \in SUBSET TvType, PlayQueued(t, start, unclaimed)
  PROVE  /\ PlayerAdvance /\ db' = Advance(db, start)
         /\ tv' \in TvType
<1> DEFINE base == AfterFinish(db, start)
           id == NextItem(db, start)
           outcome == AdvanceOutcome(db, start)
           shown == Tuned(t, base.entries[id].prog, id)
           refused == [t EXCEPT !.refused = TRUE]
           quiet == Quiet(t)
<1>1. PlayerAdvance /\ db' = Advance(db, start)
  BY DEF PlayQueued, PlayerAdvance, Commit
<1>2. \/ outcome = "item" /\ tv' \in {shown, refused}
      \/ tv' = quiet
      \/ tv' \in unclaimed
  BY DEF PlayQueued
<1>3. /\ IsDatabase(base)
      /\ id # NoEntry => id \in Ids(base)
  BY NextItemType
<1>4. outcome = "item" => id # NoEntry
  BY DEF AdvanceOutcome
<1>5. refused \in TvType /\ quiet \in TvType
  BY TvUpdates, QuietType
<1> HIDE DEF base, id, outcome, refused, quiet
<1>6. id # NoEntry => base.entries[id].prog \in Programme /\ id \in Nat
  BY <1>3 DEF IsDatabase, Ids, Row, Id
<1>7. id # NoEntry => shown \in TvType
  BY <1>6, TunedType
<1> HIDE DEF shown
<1>8. tv' \in TvType
  BY <1>2, <1>4, <1>5, <1>7
<1> QED BY <1>1, <1>8

(* ---------------------------------------------------------------------- *)
(* Steps of the native player.                                              *)

\* The TV's own transactions release or reserve the queue: the TV goes on
\* playing only what it does not touch.
TvPlays(d) == d.owner = "tv" /\ d.phase = "playing"

LEMMA TvGivesUp ==
  ASSUME NEW d, IsDatabase(d), Sound(d), d.channels = Programme
  PROVE  /\ \A start \in BOOLEAN : ~TvPlays(Advance(d, start))
         /\ PreviousOutcome(d) = "item" => ~TvPlays(Previous(d))
         /\ ~TvPlays(Stop(d))
         /\ ~TvPlays(Fail(d))
<1>1. TvPlays(d) => d.current # NoEntry /\ d.current \in Ids(d)
  BY DEF TvPlays, Sound, IsDatabase, Owner
<1>2. ~TvPlays(Released(d))
  BY DEF TvPlays, Released, IsDatabase
<1>3. ~TvPlays(Stop(d)) /\ ~TvPlays(Fail(d))
  BY <1>1, <1>2 DEF Stop, Fail, FailClaimed, TvPlays
<1>4. \A base, id : IsDatabase(base) => ~TvPlays(Reserve(base, id))
  BY DEF TvPlays, Reserve, IsDatabase
<1>5. PreviousOutcome(d) = "item" => ~TvPlays(Previous(d))
  <2> SUFFICES ASSUME PreviousOutcome(d) = "item" PROVE Previous(d).phase = "starting"
    BY DEF TvPlays
  <2>1. PICK rows, h, id :
          Previous(d) = Reserve([d EXCEPT !.entries = rows, !.history = h], id)
    BY DEF Previous
  <2> QED BY <2>1 DEF Reserve, IsDatabase
<1>6. ASSUME NEW start \in BOOLEAN PROVE ~TvPlays(Advance(d, start))
  <2> DEFINE base == AfterFinish(d, start)
             next == NextItem(d, start)
             c == Advance(d, start)
  <2>1. IsDatabase(base) /\ ~TvPlays(Reserve(base, next))
    BY <1>4, NextItemType
  <2>2. CASE FinishedBy(d, start)
    <3>1. base.phase = "waiting"
      <4> DEFINE b == Consume(d)
      <4>1. IsDatabase(b)
        BY ConsumeType
      <4> HIDE DEF b
      <4> QED BY <2>2, <4>1 DEF AfterFinish, b, IsDatabase
    <3>2. d.owner = "tv"
      BY <2>2 DEF FinishedBy
    <3>3. \/ c = [base EXCEPT !.owner = "free"]
          \/ c = Reserve(base, next)
          \/ c = [base EXCEPT !.completed = (d.ending = "all_done"), !.owner = "free"]
      BY <2>2, <3>2 DEF Advance
    <3> HIDE DEF base, next, c
    <3>4. CASE c = [base EXCEPT !.owner = "free"]
      BY <2>1, <3>4 DEF TvPlays, IsDatabase, c
    <3>5. CASE c = Reserve(base, next)
      BY <2>1, <3>5 DEF c
    <3>6. CASE c = [base EXCEPT !.completed = (d.ending = "all_done"), !.owner = "free"]
      <4>1. c.owner = "free"
        BY <2>1, <3>6 DEF IsDatabase
      <4> QED BY <4>1 DEF TvPlays, c
    <3> QED BY <3>3, <3>4, <3>5, <3>6
  <2>3. CASE ~FinishedBy(d, start)
    <3>1. base = d
      BY <2>3 DEF AfterFinish
    <3>2. CASE ~TvPlays(d)
      <4>1. c = d \/ c = Reserve(base, next)
        BY <2>3, <3>1 DEF Advance
      <4> HIDE DEF base, next, c
      <4> QED BY <2>1, <3>2, <4>1 DEF c
    <3>3. CASE TvPlays(d)
      <4>1. start
        BY <2>3, <3>3 DEF FinishedBy, TvPlays
      <4>2. next = d.current /\ next # NoEntry
        BY <1>1, <3>1, <3>3, <4>1 DEF NextItem, Ids
      <4>3. c = Reserve(base, next)
        BY <3>3, <4>1, <4>2 DEF Advance, TvPlays
      <4> HIDE DEF base, next, c
      <4> QED BY <2>1, <4>3 DEF c
    <3> QED BY <3>2, <3>3
  <2> QED BY <2>2, <2>3
<1> QED BY <1>3, <1>5, <1>6

\* What a step of the native player may do.
NativeFacts ==
  /\ [StoreNext]_db
  /\ tv' \in TvType /\ commands' \in Seq(CommandType)
  /\ requests' \in 0..MaxRequests
  /\ UNCHANGED service
  /\ \/ Calm(db', db)
     \/ db' = MarkPlaying(db, tv.prog) /\ OnScreen
     \/ db' = SavePosition(db, tv.prog)
  /\ Undisturbed =>
       \/ tv'.prog = tv.prog /\ tv'.mode = tv.mode
       \/ tv.mode # "mabel" /\ UNCHANGED db
       \/ ~TvPlays(db')
  /\ db.owner # "free" => Loyal(db', db)
  /\ (OnScreen /\ db.owner = "tv") \/ NoNewHistory(db', db)

Ready == /\ IsDatabase(db) /\ Sound(db) /\ db.channels = Programme
         /\ tv \in TvType /\ commands \in Seq(CommandType)
         /\ requests \in 0..MaxRequests

LEMMA TailType ==
  ASSUME commands \in Seq(CommandType), commands # << >>
  PROVE  Tail(commands) \in Seq(CommandType)
BY HeadTailProperties

LEMMA RequestType ==
  ASSUME requests \in 0..MaxRequests, Request
  PROVE  requests' \in 0..MaxRequests
BY PlaybackAssumption DEF Request

\* Steps that leave the queue alone.
LEMMA QuietNative ==
  ASSUME Ready, UNCHANGED db, UNCHANGED service,
         tv' \in TvType, commands' \in Seq(CommandType), requests' \in 0..MaxRequests,
         Undisturbed => \/ tv'.prog = tv.prog /\ tv'.mode = tv.mode
                        \/ tv.mode # "mabel"
                        \/ db.owner # "tv"
  PROVE  NativeFacts
<1>1. Calm(db', db) /\ Loyal(db', db) /\ NoNewHistory(db', db)
  BY SameCalm
<1>2. db.owner # "tv" => ~TvPlays(db')
  BY DEF TvPlays
<1> QED BY <1>1, <1>2 DEF NativeFacts

\* Steps that advance the queue.
LEMMA AdvanceNative ==
  ASSUME Ready, UNCHANGED service, OnScreen, NEW t \in TvType, NEW start \in BOOLEAN,
         NEW unclaimed \in SUBSET TvType, PlayQueued(t, start, unclaimed),
         commands' \in Seq(CommandType), requests' \in 0..MaxRequests
  PROVE  NativeFacts
<1>1. PlayerAdvance /\ db' = Advance(db, start) /\ tv' \in TvType
  BY PlayQueuedStep DEF Ready
<1>2. Calm(db', db) /\ (db.owner # "free" => Loyal(db', db)) /\ ~TvPlays(db')
  BY <1>1, AdvanceCalm, TvGivesUp DEF Ready
<1>3. StoreNext
  BY <1>1 DEF StoreNext
<1>4. db.owner = "tv" \/ NoNewHistory(db', db)
  BY <1>1, AdvanceCalm DEF Ready, FinishedBy, NoNewHistory
<1> QED BY <1>1, <1>2, <1>3, <1>4 DEF NativeFacts

\* Steps that stop or fail the queue.
LEMMA StopNative ==
  ASSUME Ready, UNCHANGED service, Commit(Stop(db)) \/ Commit(Fail(db)),
         tv' \in TvType, commands' \in Seq(CommandType), requests' \in 0..MaxRequests
  PROVE  NativeFacts
<1>1. db' = Stop(db) \/ db' = Fail(db)
  BY DEF Commit
<1>2. ~TvPlays(db')
  BY <1>1, TvGivesUp DEF Ready
<1>3. db' = db \/ db' = Released(db)
  BY <1>1 DEF Stop, Fail
<1>4. Calm(db', db) /\ Loyal(db', db) /\ NoNewHistory(db', db)
  BY <1>3, SameCalm, ReleasedCalm DEF Ready
<1>5. [StoreNext]_db
  <2>1. CASE Commit(Stop(db))
    BY <2>1 DEF StoreNext, PlayerStop
  <2>2. CASE Commit(Fail(db)) /\ FailClaimed(db)
    BY <2>2 DEF StoreNext, PlayerFail
  <2>3. CASE Commit(Fail(db)) /\ ~FailClaimed(db)
    BY <2>3 DEF Fail, Commit
  <2> QED BY <2>1, <2>2, <2>3
<1> QED BY <1>2, <1>4, <1>5 DEF NativeFacts

LEMMA WokenUpType ==
  ASSUME NEW t \in TvType, t = tv
  PROVE  WokenUp \subseteq TvType
<1>1. \A u \in OwnProgramme(tv) : [u EXCEPT !.mode = "mabel"] \in TvType
  BY OwnProgrammeType, TvUpdates
<1> QED BY <1>1 DEF WokenUp

LEMMA NativeStep ==
  ASSUME Ready, Native
  PROVE  NativeFacts
<1>0. /\ tv \in TvType /\ commands \in Seq(CommandType) /\ requests \in 0..MaxRequests
      /\ IsDatabase(db) /\ Sound(db)
      /\ OwnProgramme(tv) \subseteq TvType /\ WokenUp \subseteq TvType
      /\ Quiet(tv) \in TvType
      /\ tv.prog \in Programme
      /\ UNCHANGED commands => commands' \in Seq(CommandType)
      /\ UNCHANGED requests => requests' \in 0..MaxRequests
  <2>1. tv \in TvType
    BY DEF Ready
  <2>2. tv.prog \in Programme
    BY <2>1 DEF TvType
  <2> QED BY <2>1, <2>2, OwnProgrammeType, WokenUpType, QuietType DEF Ready
<1>1. ASSUME TvFailRefused PROVE NativeFacts
  <2>1. Quiet([tv EXCEPT !.refused = FALSE]) \in TvType
    BY <1>0, TvUpdates, QuietType
  <2> QED BY <1>0, <1>1, <2>1, StopNative DEF TvFailRefused
<1>2. ASSUME TvStart PROVE NativeFacts
  <2> DEFINE deferred == [tv EXCEPT !.pending = TRUE,
                                    !.mode = IF @ = "mytv" THEN "mabel" ELSE @]
  <2>1. commands' \in Seq(CommandType) /\ requests' \in 0..MaxRequests
        /\ UNCHANGED service
    BY <1>0, <1>2, TailType DEF TvStart
  <2>2. CASE tv' = deferred /\ UNCHANGED db
    <3>1. /\ deferred \in TvType /\ deferred.prog = tv.prog
          /\ tv.mode = "mabel" => deferred.mode = tv.mode
      BY <1>0 DEF TvType
    <3> HIDE DEF deferred
    <3> QED BY <2>1, <2>2, <3>1, QuietNative
  <2>3. CASE OnScreen /\ PlayQueued(tv, TRUE, {tv})
    BY <1>0, <2>1, <2>3, AdvanceNative
  <2> QED BY <1>2, <2>2, <2>3 DEF TvStart
<1>3. ASSUME TvPendingStart PROVE NativeFacts
  <2> DEFINE t == [tv EXCEPT !.pending = FALSE]
  <2>1. t \in TvType
    BY <1>0, TvUpdates
  <2>2. OnScreen /\ PlayQueued(t, TRUE, {t}) /\ UNCHANGED <<commands, requests, service>>
    BY <1>3 DEF TvPendingStart
  <2> HIDE DEF t
  <2> QED BY <1>0, <2>1, <2>2, AdvanceNative
<1>4. ASSUME TvTransfer PROVE NativeFacts
  <2>1. commands' \in Seq(CommandType)
    BY <1>0, <1>4, TailType DEF TvTransfer
  <2>2. Quiet(tv).prog = tv.prog /\ Quiet(tv).mode = tv.mode
    BY <1>0 DEF Quiet, TvType
  <2>3. tv' = tv \/ tv' = Quiet(tv)
    BY <1>4 DEF TvTransfer
  <2> QED BY <1>0, <1>4, <2>1, <2>2, <2>3, QuietNative DEF TvTransfer
<1>5. ASSUME TvWake PROVE NativeFacts
  <2>1. commands' \in Seq(CommandType)
    BY <1>0, <1>5, TailType DEF TvWake
  <2>2. tv' = tv \/ (tv' \in WokenUp /\ tv.mode # "mabel")
    BY <1>5 DEF TvWake
  <2>3. tv' \in TvType /\ UNCHANGED <<db, requests, service>>
    BY <1>0, <1>5, <2>2 DEF TvWake
  <2> QED BY <1>0, <2>1, <2>2, <2>3, QuietNative
<1>6. ASSUME TvFinishTune PROVE NativeFacts
  <2>1. /\ [tv EXCEPT !.video = "loading"] \in TvType
        /\ [tv EXCEPT !.video = "loading"].prog = tv.prog
        /\ [tv EXCEPT !.video = "loading"].mode = tv.mode
    BY <1>0 DEF TvType
  <2> QED BY <1>0, <1>6, <2>1, QuietNative DEF TvFinishTune
<1>7. ASSUME TvPlaying PROVE NativeFacts
  <2>1. /\ [tv EXCEPT !.video = "playing"] \in TvType
        /\ [tv EXCEPT !.video = "playing"].prog = tv.prog
        /\ [tv EXCEPT !.video = "playing"].mode = tv.mode
    BY <1>0 DEF TvType
  <2>2. db' = MarkPlaying(db, tv.prog) /\ PlayerMarkPlaying
    BY <1>0, <1>7 DEF TvPlaying, Commit, PlayerMarkPlaying
  <2>3. Loyal(db', db) /\ NoNewHistory(db', db)
    BY <1>0, <2>2 DEF MarkPlaying, Loyal, NoNewHistory, IsDatabase
  <2> QED BY <1>0, <1>7, <2>1, <2>2, <2>3 DEF TvPlaying, NativeFacts, StoreNext
<1>8. ASSUME TvPosition PROVE NativeFacts
  <2>1. db' = SavePosition(db, tv.prog) /\ PlayerSavePosition
    BY <1>0, <1>8 DEF TvPosition, Commit, PlayerSavePosition
  <2>2. Loyal(db', db) /\ NoNewHistory(db', db)
    BY <1>0, <2>1 DEF SavePosition, Loyal, NoNewHistory, IsDatabase
  <2> QED BY <1>0, <1>8, <2>1, <2>2 DEF TvPosition, NativeFacts, StoreNext
<1>9. ASSUME TvEnded PROVE NativeFacts
  BY <1>0, <1>9, AdvanceNative DEF TvEnded
<1>10. ASSUME TvFailed PROVE NativeFacts
  <2>1. tv' \in TvType
    BY <1>0, <1>10 DEF TvFailed
  <2> QED BY <1>0, <1>10, <2>1, StopNative DEF TvFailed
<1>11. ASSUME TvNext PROVE NativeFacts
  <2>1. OwnProgramme(tv) \cup {tv} \in SUBSET TvType /\ requests' \in 0..MaxRequests
    BY <1>0, <1>11, RequestType DEF TvNext
  <2> QED BY <1>0, <1>11, <2>1, AdvanceNative DEF TvNext
<1>12. ASSUME TvPrevious PROVE NativeFacts
  <2> DEFINE last == db.history[Len(db.history)]
  <2>1. requests' \in 0..MaxRequests /\ UNCHANGED <<commands, service>> /\ OnScreen
    BY <1>0, <1>12, RequestType DEF TvPrevious
  <2>2. CASE /\ db.owner = "tv" /\ PreviousOutcome(db) = "item" /\ Commit(Previous(db))
             /\ tv' \in {Tuned(tv, last.prog, last.id), [tv EXCEPT !.refused = TRUE]}
    <3>1. last.prog \in Programme /\ last.id \in Nat
      <4>1. db.history # << >>
        BY <2>2 DEF PreviousOutcome
      <4>2. Len(db.history) \in DOMAIN db.history
        <5>1. db.history \in Seq([id : Id(db.nextId), prog : Programme])
          BY <1>0 DEF IsDatabase
        <5>2. Len(db.history) \in Nat \ {0}
          BY <4>1, <5>1, EmptySeq
        <5> QED BY <1>0, <5>2, HistoryIds
      <4>3. last \in [id : Id(db.nextId), prog : Programme]
        BY <1>0, <4>2, HistoryIds
      <4> QED BY <4>3 DEF Id
    <3>2. Tuned(tv, last.prog, last.id) \in TvType /\ [tv EXCEPT !.refused = TRUE] \in TvType
      BY <1>0, <3>1, TunedType, TvUpdates
    <3> HIDE DEF last
    <3>3. tv' \in TvType /\ db' = Previous(db) /\ PlayerPrevious
      BY <2>2, <3>2 DEF Commit, PlayerPrevious
    <3>4. ~TvPlays(db') /\ Calm(db', db) /\ Loyal(db', db)
      BY <2>2, <3>3, PreviousCalm, TvGivesUp DEF Ready
    <3> QED BY <1>0, <2>1, <2>2, <3>3, <3>4 DEF NativeFacts, StoreNext
  <2>3. CASE tv' = [tv EXCEPT !.video = "tuning"] /\ UNCHANGED db
    <3>1. /\ [tv EXCEPT !.video = "tuning"] \in TvType
          /\ [tv EXCEPT !.video = "tuning"].prog = tv.prog
          /\ [tv EXCEPT !.video = "tuning"].mode = tv.mode
      BY <1>0 DEF TvType
    <3> QED BY <1>0, <2>1, <2>3, <3>1, QuietNative
  <2>4. CASE db.owner # "tv" /\ tv' \in OwnProgramme(tv) /\ UNCHANGED db
    <3>1. tv' \in TvType
      BY <1>0, <2>4
    <3> QED BY <1>0, <2>1, <2>4, <3>1, QuietNative
  <2> QED BY <1>12, <2>2, <2>3, <2>4 DEF TvPrevious
<1>13. ASSUME TvTune PROVE NativeFacts
  <2>1. tv' \in TvType /\ requests' \in 0..MaxRequests
    BY <1>0, <1>13, RequestType DEF TvTune
  <2> QED BY <1>0, <1>13, <2>1, StopNative DEF TvTune
<1>14. ASSUME TvStandby PROVE NativeFacts
  <2>1. Quiet([tv EXCEPT !.mode = "standby"]) \in TvType /\ requests' \in 0..MaxRequests
    BY <1>0, <1>14, TvUpdates, QuietType, RequestType DEF TvStandby
  <2> QED BY <1>0, <1>14, <2>1, StopNative DEF TvStandby
<1>15. ASSUME TvSwitchOn PROVE NativeFacts
  <2>1. tv' \in TvType /\ requests' \in 0..MaxRequests /\ tv.mode # "mabel"
    BY <1>0, <1>15, RequestType DEF TvSwitchOn
  <2> QED BY <1>0, <1>15, <2>1, QuietNative DEF TvSwitchOn
<1>16. ASSUME TvEnterMyTv PROVE NativeFacts
  <2>1. Quiet([tv EXCEPT !.mode = "mytv"]) \in TvType /\ requests' \in 0..MaxRequests
    BY <1>0, <1>16, TvUpdates, QuietType, RequestType DEF TvEnterMyTv
  <2> QED BY <1>0, <1>16, <2>1, StopNative DEF TvEnterMyTv
<1>17. ASSUME TvLeaveMyTv PROVE NativeFacts
  <2>1. tv' \in TvType /\ requests' \in 0..MaxRequests /\ tv.mode # "mabel"
    BY <1>0, <1>17, RequestType DEF TvLeaveMyTv
  <2> QED BY <1>0, <1>17, <2>1, QuietNative DEF TvLeaveMyTv
<1>18. ASSUME TvRetune PROVE NativeFacts
  <2>1. tv' \in TvType /\ requests' \in 0..MaxRequests /\ ~Undisturbed
    BY <1>0, <1>18, RequestType DEF TvRetune, Undisturbed
  <2> QED BY <1>0, <1>18, <2>1, QuietNative DEF TvRetune
<1>19. ASSUME TvCrash PROVE NativeFacts
  <2> DEFINE t == [tv EXCEPT !.mode = "down", !.pending = FALSE, !.refused = FALSE]
  <2>1. t \in TvType
    BY <1>0 DEF TvType
  <2>2. tv' = Quiet(t) /\ commands' = << >> /\ UNCHANGED service
    BY <1>19 DEF TvCrash
  <2> HIDE DEF t
  <2>3. /\ tv' \in TvType /\ requests' \in 0..MaxRequests /\ ~Undisturbed
        /\ commands' \in Seq(CommandType)
    BY <1>0, <1>19, <2>1, <2>2, QuietType, RequestType, EmptySeq DEF TvCrash, Undisturbed
  <2>4. UNCHANGED db \/ Commit(Fail(db))
    BY <1>19 DEF TvCrash
  <2> QED BY <2>2, <2>3, <2>4, QuietNative, StopNative
<1>20. ASSUME TvRestart PROVE NativeFacts
  <2>1. tv' \in TvType /\ tv.mode # "mabel"
    BY <1>0, <1>20 DEF TvRestart
  <2> QED BY <1>0, <1>20, <2>1, QuietNative DEF TvRestart
<1> QED BY <1>1, <1>2, <1>3, <1>4, <1>5, <1>6, <1>7, <1>8, <1>9, <1>10, <1>11, <1>12,
           <1>13, <1>14, <1>15, <1>16, <1>17, <1>18, <1>19, <1>20 DEF Native

(* ---------------------------------------------------------------------- *)
(* Steps of the service and of the browsers.                                *)

\* A browser player keeps its entry, or takes one that stands in Up Next.
PlayerMoves(t) ==
  \/ /\ player'[t].entry = player[t].entry /\ player'[t].prog = player[t].prog
     /\ player[t].state = "unused" <=> player'[t].state = "unused"
     /\ player[t].state \in Held => player'[t].state \in Held \/ db'.phase # "playing"
  \/ /\ player'[t].entry \in Ids(db)
     /\ player'[t].prog = db.entries[player'[t].entry].prog
     /\ player'[t].state # "unused"
     /\ (player[t].state \notin Held /\ db' = db) \/ db'.phase # "playing"

Confirmation(t) ==
  /\ open = Idle /\ EventOk(db, t, player[t].entry) /\ player[t].state = "playing"
  /\ db' = Started(db) /\ player' = [player EXCEPT ![t].state = "confirmed"]

Sample(t) ==
  /\ EventOk(db, t, player[t].entry) /\ player[t].state \in {"playing", "confirmed"}
  /\ db' = [db EXCEPT !.position = player[t].prog] /\ UNCHANGED player

\* The request thread that selects an entry for a browser.
OpenMoves ==
  \/ open' = open
  \/ open' = Idle
  \/ open' # Idle /\ ~open'.auto
  \/ db' = db /\ player[open'.from].state = "next"

OwnerMoves ==
  \/ Loyal(db', db)
  \/ play.step = "chosen"
  \/ open.step = "select" /\ (open.auto => db.owner = open.from)

HistoryMoves ==
  \/ NoNewHistory(db', db)
  \/ \E t \in Device : /\ db.owner = t /\ player[t].entry = db.current
                       /\ player[t].state = "ended"

OtherTypes ==
  /\ commands' \in Seq(CommandType)
  /\ play' \in PlayType /\ open' \in OpenType /\ session' \in SessionType
  /\ player' \in [Device -> PlayerType]
  /\ requests' \in 0..MaxRequests

OtherFacts ==
  /\ [StoreNext]_db
  /\ UNCHANGED tv
  /\ OtherTypes
  /\ \/ Calm(db', db)
     \/ \E t \in Device : Confirmation(t)
     \/ \E t \in Device : Sample(t)
  /\ \A t \in Device : PlayerMoves(t)
  /\ OpenMoves
  /\ db.owner # "free" => OwnerMoves
  /\ HistoryMoves

\* The next lemma's assumption: a state of the service.
Working ==
  /\ IsDatabase(db) /\ Sound(db) /\ db.channels = Programme
  /\ PlayerTypeOK
  /\ open # Idle /\ open.auto => player[open.from].state # "unused"

LEMMA AppendCommand ==
  ASSUME commands \in Seq(CommandType), NEW c \in CommandType
  PROVE  Append(commands, c) \in Seq(CommandType)
BY AppendProperties

LEMMA PlayFields ==
  ASSUME play \in PlayType, play # Idle
  PROVE  /\ play.entry \in Nat
         /\ \A s \in {"chosen", "selected", "dropped"} : [play EXCEPT !.step = s] \in PlayType
BY DEF PlayType

LEMMA OpenFields ==
  ASSUME open \in OpenType, open # Idle
  PROVE  /\ open.entry \in Nat /\ open.token \in Device /\ open.from \in Device
         /\ open.auto \in BOOLEAN /\ open.step = "select"
BY DEF OpenType

LEMMA IdleIsIdle ==
  /\ Idle \in PlayType /\ Idle \in OpenType /\ Idle.step = "idle"
  /\ NoSession \in SessionType
BY DEF PlayType, OpenType, SessionType, Idle

LEMMA SessionFields ==
  ASSUME session \in SessionType, session # NoSession \/ session.token # "free"
  PROVE  session.token \in Device /\ session.entry \in Nat
BY DEF SessionType, NoSession

LEMMA PlayerFields ==
  ASSUME player \in [Device -> PlayerType], NEW t \in Device
  PROVE  /\ player[t].entry \in Nat
         /\ player[t].state \in Watching \cup {"closed", "unused"}
         /\ player[t].state # "unused" =>
              player[t].prog \in Programme /\ player[t] # Unused
         /\ \A s \in Watching \cup {"closed"} :
              player[t].state # "unused" =>
                [player EXCEPT ![t].state = s] \in [Device -> PlayerType]
BY DEF PlayerType, Unused, NoEntry

\* Nothing but what the step changes.
LEMMA SamePlayers ==
  ASSUME UNCHANGED player
  PROVE  \A t \in Device : PlayerMoves(t)
BY DEF PlayerMoves

\* One player's state changes, and it never gives up what it confirmed.
LEMMA TurnedPlayer ==
  ASSUME player \in [Device -> PlayerType], NEW t \in Device,
         NEW s \in Watching \cup {"closed"}, player[t].state # "unused",
         player' = [player EXCEPT ![t].state = s],
         player[t].state \in Held => s \in Held \/ db'.phase # "playing"
  PROVE  /\ player' \in [Device -> PlayerType]
         /\ \A u \in Device : PlayerMoves(u)
<1>1. player' \in [Device -> PlayerType]
  BY PlayerFields
<1>2. ASSUME NEW u \in Device PROVE PlayerMoves(u)
  <2>1. CASE u # t
    <3>1. player'[u] = player[u]
      BY <2>1
    <3> QED BY <3>1 DEF PlayerMoves
  <2>2. CASE u = t
    <3>1. /\ player'[t].entry = player[t].entry /\ player'[t].prog = player[t].prog
          /\ player'[t].state = s /\ s # "unused"
      BY DEF PlayerType, Unused, Watching
    <3> QED BY <2>2, <3>1 DEF PlayerMoves
  <2> QED BY <2>1, <2>2
<1> QED BY <1>1, <1>2

LEMMA WorkingTypes ==
  ASSUME Working
  PROVE  /\ commands \in Seq(CommandType) /\ play \in PlayType /\ open \in OpenType
         /\ session \in SessionType /\ player \in [Device -> PlayerType]
         /\ requests \in 0..MaxRequests /\ setting.browsers \subseteq Device
         /\ IsDatabase(db) /\ Sound(db)
         /\ Ids(db) \subseteq Nat \ {0}
         /\ Device \subseteq Owner \ {"free"} /\ "tv" \in Owner \ {"free"}
<1>1. setting.browsers \subseteq Device
  BY PlaybackAssumption DEF Working, PlayerTypeOK
<1>2. Ids(db) \subseteq Nat \ {0}
  BY DEF Working, IsDatabase, Ids, Id
<1> QED BY <1>1, <1>2, StoreAssumption DEF Working, PlayerTypeOK, Owner

\* Steps that change neither the queue nor a player.
LEMMA QuietOther ==
  ASSUME UNCHANGED db, UNCHANGED tv, UNCHANGED player, OtherTypes, OpenMoves
  PROVE  OtherFacts
<1>1. Calm(db', db) /\ Loyal(db', db) /\ NoNewHistory(db', db)
  BY SameCalm
<1> QED BY <1>1, SamePlayers DEF OtherFacts, OwnerMoves, HistoryMoves

\* Steps that commit a transaction which confirms and consumes nothing.
LEMMA CalmOther ==
  ASSUME [StoreNext]_db, UNCHANGED tv, OtherTypes, OpenMoves, \A t \in Device : PlayerMoves(t),
         Calm(db', db), NoNewHistory(db', db), db.owner # "free" => OwnerMoves
  PROVE  OtherFacts
BY DEF OtherFacts, HistoryMoves

LEMMA ReleaseStep ==
  ASSUME IsDatabase(db), NEW t \in Owner \ {"free"}, NEW id, EventOk(db, t, id),
         Commit(Released(db))
  PROVE  /\ [StoreNext]_db
         /\ Calm(db', db) /\ Loyal(db', db) /\ NoNewHistory(db', db)
         /\ db'.phase # "playing"
<1>1. EventOk(db, t, db.current)
  BY DEF EventOk
<1>2. StoreNext
  BY <1>1 DEF StoreNext, ServiceEvent
<1> QED BY <1>2, ReleasedCalm DEF Commit

LEMMA PlayOnTvSteps ==
  ASSUME Working, PlayOnTv \/ PlaySelect \/ PlayDropSession \/ PlaySend \/ PlayFail
  PROVE  OtherFacts
<1>0. /\ commands \in Seq(CommandType) /\ play \in PlayType /\ open \in OpenType
      /\ session \in SessionType /\ player \in [Device -> PlayerType]
      /\ requests \in 0..MaxRequests
      /\ IsDatabase(db) /\ Ids(db) \subseteq Nat \ {0}
      /\ "tv" \in Owner \ {"free"}
      /\ Idle \in PlayType /\ NoSession \in SessionType
      /\ \A c \in CommandType : Append(commands, c) \in Seq(CommandType)
      /\ {"start", "wake"} \subseteq CommandType
  BY WorkingTypes, IdleIsIdle, AppendCommand DEF CommandType
<1>1. UNCHANGED player => \A t \in Device : PlayerMoves(t)
  BY SamePlayers
<1>2. ASSUME PlayOnTv PROVE OtherFacts
  <2>1. PICK id \in Ids(db) :
          /\ play' = [step |-> "chosen", entry |-> id]
          /\ commands' = IF tv.mode = "standby" THEN Append(commands, "wake") ELSE commands
          /\ UNCHANGED <<db, tv, open, session, player>> /\ Request
    BY <1>2 DEF PlayOnTv
  <2>2. play' \in PlayType
    BY <1>0, <2>1 DEF PlayType
  <2>3. commands' \in Seq(CommandType) /\ requests' \in 0..MaxRequests
    BY <1>0, <2>1, RequestType
  <2> QED BY <1>0, <2>1, <2>2, <2>3, QuietOther DEF OtherTypes, OpenMoves
<1>3. ASSUME PlaySelect PROVE OtherFacts
  <2>1. play # Idle /\ play.step = "chosen" /\ UNCHANGED <<native, open, session, player, requests>>
    BY <1>3, IdleIsIdle DEF PlaySelect
  <2>2. [play EXCEPT !.step = "selected"] \in PlayType
    BY <1>0, <2>1, PlayFields
  <2>3. play' \in PlayType
    BY <1>0, <1>3, <2>2 DEF PlaySelect
  <2>4. OtherTypes /\ UNCHANGED tv /\ OpenMoves
    BY <1>0, <2>1, <2>3 DEF OtherTypes, OpenMoves, native
  <2>5. CASE SelectOk(db, play.entry, FALSE, "tv")
    <3>1. Commit(Select(db, play.entry, "tv"))
      BY <1>3, <2>5 DEF PlaySelect
    <3>2. play.entry \in Ids(db)
      BY <2>5 DEF SelectOk
    <3>3. ServiceSelect
      BY <1>0, <2>5, <3>1, <3>2 DEF ServiceSelect
    <3>4. Calm(db', db) /\ NoNewHistory(db', db)
      BY <1>0, <3>1, SelectCalm DEF Commit
    <3> QED BY <1>1, <2>1, <2>4, <3>3, <3>4, CalmOther DEF StoreNext, OwnerMoves
  <2>6. CASE ~SelectOk(db, play.entry, FALSE, "tv")
    BY <1>3, <2>1, <2>4, <2>6, QuietOther DEF PlaySelect
  <2> QED BY <2>5, <2>6
<1>4. ASSUME PlayDropSession PROVE OtherFacts
  <2>1. play # Idle
    BY <1>4, IdleIsIdle DEF PlayDropSession
  <2>2. [play EXCEPT !.step = "dropped"] \in PlayType
    BY <1>0, <2>1, PlayFields
  <2> QED BY <1>0, <1>4, <2>2, QuietOther DEF PlayDropSession, OtherTypes, OpenMoves, native
<1>5. ASSUME PlaySend PROVE OtherFacts
  BY <1>0, <1>5, QuietOther DEF PlaySend, OtherTypes, OpenMoves
<1>6. ASSUME PlayFail PROVE OtherFacts
  <2>1. commands' \in Seq(CommandType)
    BY <1>0, <1>6 DEF PlayFail
  <2>2. OtherTypes /\ UNCHANGED tv /\ OpenMoves /\ UNCHANGED player
    BY <1>0, <1>6, <2>1 DEF PlayFail, OtherTypes, OpenMoves
  <2>3. CASE EventOk(db, "tv", play.entry)
    <3>1. Commit(Released(db))
      BY <1>6, <2>3 DEF PlayFail
    <3> QED BY <1>0, <1>1, <2>2, <2>3, <3>1, ReleaseStep, CalmOther DEF OwnerMoves
  <2>4. CASE ~EventOk(db, "tv", play.entry)
    <3>1. UNCHANGED db
      BY <1>6, <2>4 DEF PlayFail
    <3> QED BY <2>2, <3>1, QuietOther
  <2> QED BY <2>3, <2>4
<1> QED BY <1>2, <1>3, <1>4, <1>5, <1>6

LEMMA SelectedPlayer ==
  ASSUME Working, open # Idle, open.entry \in Ids(db), db'.phase = "starting",
         NEW left,
         left = IF open.auto THEN [player EXCEPT ![open.from].state = "closed"] ELSE player,
         player' = [left EXCEPT ![open.token] =
                      [state |-> "loaded", entry |-> open.entry,
                       prog |-> db.entries[open.entry].prog]]
  PROVE  /\ player' \in [Device -> PlayerType]
         /\ \A t \in Device : PlayerMoves(t)
<1> DEFINE row == [state |-> "loaded", entry |-> open.entry,
                   prog |-> db.entries[open.entry].prog]
<1>1. /\ player \in [Device -> PlayerType]
      /\ open.entry \in Nat /\ open.token \in Device /\ open.from \in Device
      /\ open.auto \in BOOLEAN
  BY WorkingTypes, OpenFields
<1>2. db.entries[open.entry].prog \in Programme
  BY DEF Working, IsDatabase, Ids, Row
<1>3. row \in PlayerType /\ row.state = "loaded" /\ row.entry = open.entry
      /\ row.prog = db.entries[open.entry].prog
  BY <1>1, <1>2 DEF PlayerType, Watching
<1> HIDE DEF row
<1>4. open.auto => player[open.from].state # "unused"
  BY DEF Working
<1>5. left \in [Device -> PlayerType]
  <2>1. open.auto => [player EXCEPT ![open.from].state = "closed"] \in [Device -> PlayerType]
    BY <1>1, <1>4, PlayerFields
  <2> QED BY <1>1, <2>1
<1>6. player' = [left EXCEPT ![open.token] = row]
  BY DEF row
<1>7. player' \in [Device -> PlayerType]
  BY <1>1, <1>3, <1>5, <1>6
<1>8. ASSUME NEW t \in Device PROVE PlayerMoves(t)
  <2>1. CASE t = open.token
    <3>1. player'[t] = row
      BY <1>5, <1>6, <2>1
    <3> QED BY <1>3, <3>1 DEF PlayerMoves
  <2>2. CASE t # open.token /\ open.auto /\ t = open.from
    <3>1. player'[t] = [player[t] EXCEPT !.state = "closed"]
      BY <1>1, <1>5, <1>6, <2>2
    <3>2. /\ player'[t].entry = player[t].entry /\ player'[t].prog = player[t].prog
          /\ player'[t].state = "closed" /\ player[t].state # "unused"
      BY <1>1, <1>4, <2>2, <3>1 DEF PlayerType, Unused, Watching
    <3> QED BY <3>2 DEF PlayerMoves
  <2>3. CASE t # open.token /\ ~(open.auto /\ t = open.from)
    <3>1. player'[t] = player[t]
      BY <1>1, <1>5, <1>6, <2>3
    <3> QED BY <3>1 DEF PlayerMoves
  <2> QED BY <2>1, <2>2, <2>3
<1> QED BY <1>7, <1>8

LEMMA OpenSteps ==
  ASSUME Working, OpenByHand \/ OpenNext \/ OpenSelect \/ OpenOther \/ SessionExpires
  PROVE  OtherFacts
<1>0. /\ commands \in Seq(CommandType) /\ play \in PlayType /\ open \in OpenType
      /\ session \in SessionType /\ player \in [Device -> PlayerType]
      /\ requests \in 0..MaxRequests
      /\ IsDatabase(db) /\ Ids(db) \subseteq Nat \ {0}
      /\ setting.browsers \subseteq Device
      /\ Device \subseteq Owner \ {"free"}
      /\ Idle \in OpenType /\ NoSession \in SessionType
      /\ "transfer" \in CommandType
      /\ \A c \in CommandType : Append(commands, c) \in Seq(CommandType)
  BY WorkingTypes, IdleIsIdle, AppendCommand DEF CommandType
<1>1. UNCHANGED player => \A t \in Device : PlayerMoves(t)
  BY SamePlayers
<1>2. ASSUME OpenByHand PROVE OtherFacts
  <2>1. PICK t \in setting.browsers, id \in Ids(db) :
          /\ Request
          /\ open' = [step |-> "select", entry |-> id, token |-> t, from |-> t,
                      auto |-> FALSE]
          /\ commands' = IF db.owner = "tv" THEN Append(commands, "transfer") ELSE commands
          /\ UNCHANGED <<db, tv, play, session, player>>
    BY <1>2 DEF OpenByHand
  <2>2. open' \in OpenType /\ ~open'.auto /\ open' # Idle
    BY <1>0, <2>1 DEF OpenType, Idle
  <2>3. commands' \in Seq(CommandType) /\ requests' \in 0..MaxRequests
    BY <1>0, <2>1, RequestType
  <2> QED BY <1>0, <2>1, <2>2, <2>3, QuietOther DEF OtherTypes, OpenMoves
<1>3. ASSUME OpenNext PROVE OtherFacts
  <2>1. PICK f \in setting.browsers, t \in setting.browsers :
          /\ player[f].state = "next"
          /\ IF Live(f) /\ player[f].entry \in Ids(db) /\ db.owner # "tv"
             THEN /\ open' = [step |-> "select", entry |-> player[f].entry, token |-> t,
                              from |-> f, auto |-> TRUE]
                  /\ UNCHANGED player
             ELSE /\ player' = [player EXCEPT ![f].state = "closed"]
                  /\ UNCHANGED open
          /\ UNCHANGED <<db, native, play, session, requests>>
    BY <1>3 DEF OpenNext
  <2>2. f \in Device /\ t \in Device /\ player[f].entry \in Nat
    BY <1>0, PlayerFields
  <2>3. UNCHANGED <<db, tv, commands, play, session, requests>>
    BY <2>1 DEF native
  <2>4. CASE /\ open' = [step |-> "select", entry |-> player[f].entry, token |-> t,
                         from |-> f, auto |-> TRUE]
             /\ UNCHANGED player
    <3>1. open' \in OpenType /\ open'.from = f
      BY <2>2, <2>4 DEF OpenType
    <3> QED BY <1>0, <2>1, <2>3, <2>4, <3>1, QuietOther DEF OtherTypes, OpenMoves
  <2>5. CASE player' = [player EXCEPT ![f].state = "closed"] /\ UNCHANGED open
    <3>1. "closed" \in Watching \cup {"closed"} /\ player[f].state \notin Held
      BY <2>1 DEF Held
    <3>2. player' \in [Device -> PlayerType] /\ \A u \in Device : PlayerMoves(u)
      BY <1>0, <2>1, <2>2, <2>5, <3>1, TurnedPlayer
    <3>3. Calm(db', db) /\ Loyal(db', db) /\ NoNewHistory(db', db)
      BY <2>3, SameCalm
    <3> QED BY <1>0, <2>3, <2>5, <3>2, <3>3, CalmOther
            DEF OtherTypes, OpenMoves, OwnerMoves
  <2> QED BY <2>1, <2>4, <2>5
<1>4. ASSUME OpenSelect PROVE OtherFacts
  <2> DEFINE left == IF open.auto THEN [player EXCEPT ![open.from].state = "closed"]
                     ELSE player
  <2>1. /\ open # Idle /\ open.step = "select" /\ open' = Idle
        /\ UNCHANGED <<tv, commands, play, requests>>
    BY <1>4, IdleIsIdle DEF OpenSelect, native
  <2>2. /\ open.entry \in Nat /\ open.token \in Device /\ open.from \in Device
        /\ open.auto \in BOOLEAN
    BY <1>0, <2>1, OpenFields
  <2>3. CASE SelectOk(db, open.entry, open.auto, open.from)
    <3>1. /\ Commit(Select(db, open.entry, open.token))
          /\ session' = [token |-> open.token, entry |-> open.entry]
          /\ player' = [left EXCEPT ![open.token] =
                          [state |-> "loaded", entry |-> open.entry,
                           prog |-> db.entries[open.entry].prog]]
      BY <1>4, <2>3 DEF OpenSelect
    <3>2. open.entry \in Ids(db) /\ (open.auto => db.owner \in {"free", open.from})
      BY <2>3 DEF SelectOk
    <3>3. ServiceSelect
      <4>1. SelectOk(db, open.entry, FALSE, open.token)
        BY <3>2 DEF SelectOk
      <4> QED BY <1>0, <2>2, <3>1, <3>2, <4>1 DEF ServiceSelect
    <3>4. Calm(db', db) /\ NoNewHistory(db', db) /\ db'.phase = "starting"
      BY <1>0, <3>1, SelectCalm DEF Commit
    <3>5. player' \in [Device -> PlayerType] /\ \A t \in Device : PlayerMoves(t)
      BY <2>1, <3>1, <3>2, <3>4, SelectedPlayer
    <3>6. session' \in SessionType
      BY <2>2, <3>1 DEF SessionType
    <3>7. OtherTypes /\ OpenMoves
      BY <1>0, <2>1, <3>5, <3>6 DEF OtherTypes, OpenMoves
    <3>8. db.owner # "free" => OwnerMoves
      BY <2>1, <3>2 DEF OwnerMoves
    <3> QED BY <2>1, <3>3, <3>4, <3>5, <3>7, <3>8, CalmOther DEF StoreNext
  <2>4. CASE ~SelectOk(db, open.entry, open.auto, open.from)
    <3>1. player' = left /\ UNCHANGED <<db, session>>
      BY <1>4, <2>4 DEF OpenSelect
    <3>2. player' \in [Device -> PlayerType] /\ \A t \in Device : PlayerMoves(t)
      <4>1. CASE open.auto
        <5>1. "closed" \in Watching \cup {"closed"} /\ "closed" \in Held
          BY DEF Held
        <5>2. player[open.from].state # "unused"
          BY <2>1, <4>1 DEF Working
        <5>3. player' = [player EXCEPT ![open.from].state = "closed"]
          BY <3>1, <4>1
        <5> QED BY <1>0, <2>2, <5>1, <5>2, <5>3, TurnedPlayer
      <4>2. CASE ~open.auto
        BY <1>0, <1>1, <3>1, <4>2
      <4> QED BY <4>1, <4>2
    <3>3. Calm(db', db) /\ Loyal(db', db) /\ NoNewHistory(db', db)
      BY <3>1, SameCalm
    <3>4. OtherTypes /\ OpenMoves
      BY <1>0, <2>1, <3>1, <3>2 DEF OtherTypes, OpenMoves
    <3> QED BY <2>1, <3>1, <3>2, <3>3, <3>4, CalmOther DEF OwnerMoves
  <2> QED BY <2>3, <2>4
<1>5. ASSUME OpenOther PROVE OtherFacts
  <2>1. /\ session # NoSession /\ session' = NoSession /\ Request
        /\ UNCHANGED <<tv, commands, play, open, player>>
    BY <1>5 DEF OpenOther, native
  <2>2. session.token \in Owner \ {"free"}
    BY <1>0, <2>1, SessionFields
  <2>3. OtherTypes /\ OpenMoves
    BY <1>0, <2>1, RequestType DEF OtherTypes, OpenMoves
  <2>4. CASE EventOk(db, session.token, session.entry)
    <3>1. Commit(Released(db))
      BY <1>5, <2>4 DEF OpenOther
    <3>2. [StoreNext]_db /\ Calm(db', db) /\ Loyal(db', db) /\ NoNewHistory(db', db)
      BY <1>0, <2>2, <2>4, <3>1, ReleaseStep
    <3> QED BY <1>1, <2>1, <2>3, <3>2, CalmOther DEF OwnerMoves
  <2>5. CASE ~EventOk(db, session.token, session.entry)
    <3>1. UNCHANGED db
      BY <1>5, <2>5 DEF OpenOther
    <3> QED BY <2>1, <2>3, <3>1, QuietOther
  <2> QED BY <2>4, <2>5
<1>6. ASSUME SessionExpires PROVE OtherFacts
  BY <1>0, <1>6, QuietOther DEF SessionExpires, OtherTypes, OpenMoves, native
<1> QED BY <1>2, <1>3, <1>4, <1>5, <1>6

LEMMA PortalEditStep ==
  ASSUME Working, PortalEdit
  PROVE  OtherFacts
<1>0. /\ commands \in Seq(CommandType) /\ play \in PlayType /\ open \in OpenType
      /\ session \in SessionType /\ player \in [Device -> PlayerType]
      /\ requests \in 0..MaxRequests /\ IsDatabase(db)
  BY WorkingTypes
<1>1. UNCHANGED <<tv, commands, play, open, session, player>> /\ Request
  BY DEF PortalEdit, native, service
<1>2. OtherTypes /\ OpenMoves /\ \A t \in Device : PlayerMoves(t)
  BY <1>0, <1>1, RequestType, SamePlayers DEF OtherTypes, OpenMoves
<1>3. Calm(db', db) /\ Loyal(db', db) /\ NoNewHistory(db', db)
  <2>1. ASSUME NEW p \in Programme, db' = Add(db, p) PROVE <1>3!:
    BY <1>0, <2>1, AddCalm
  <2>2. ASSUME NEW id \in Ids(db), RemoveOk(db, id), db' = Remove(db, id) PROVE <1>3!:
    BY <1>0, <2>2, RemoveCalm
  <2>3. ASSUME NEW a \in Ids(db), NEW b \in Ids(db), db' = Move(db, a, b) PROVE <1>3!:
    BY <1>0, <2>3, EditsCalm
  <2>4. ASSUME NEW e, db' = SetEnding(db, e) PROVE <1>3!:
    BY <1>0, <2>4, EditsCalm
  <2>5. ASSUME db' = Clear(db) PROVE <1>3!:
    BY <1>0, <2>5, EditsCalm
  <2>6. ASSUME NEW items \in Playlists, NEW replace \in BOOLEAN, NEW repeat \in BOOLEAN,
               db' = Copy(db, items, replace, repeat)
        PROVE  <1>3!:
    BY <1>0, <2>6, CopyCalm, StoreAssumption
  <2>7. ServiceChange => <1>3!:
    BY <2>1, <2>2, <2>3, <2>4, <2>5 DEF ServiceChange, Commit
  <2>8. PlaylistCopy => <1>3!:
    BY <2>6 DEF PlaylistCopy, Commit
  <2> QED BY <2>7, <2>8 DEF PortalEdit
<1>4. StoreNext
  BY DEF PortalEdit, StoreNext
<1> QED BY <1>1, <1>2, <1>3, <1>4, CalmOther DEF OwnerMoves

\* A browser's step that changes its own state and at most releases the queue.
LEMMA TurnStep ==
  ASSUME Working, NEW t \in Device, NEW from \in SUBSET (Watching \cup {"closed"}),
         NEW to \in Watching \cup {"closed"}, Turn(t, from, to),
         \A s \in from : s \in Held => to \in Held,
         UNCHANGED <<tv, commands, play, open>>,
         session' \in SessionType, requests' \in 0..MaxRequests,
         UNCHANGED db \/ (Commit(Released(db)) /\ \E id : EventOk(db, t, id))
  PROVE  OtherFacts
<1>0. /\ commands \in Seq(CommandType) /\ play \in PlayType /\ open \in OpenType
      /\ player \in [Device -> PlayerType] /\ IsDatabase(db)
      /\ t \in Owner \ {"free"}
  BY WorkingTypes
<1>1. player' = [player EXCEPT ![t].state = to] /\ player[t].state \in from
      /\ player[t].state # "unused"
  BY DEF Turn, Watching
<1>2. player' \in [Device -> PlayerType] /\ \A u \in Device : PlayerMoves(u)
  BY <1>0, <1>1, TurnedPlayer
<1>3. OtherTypes /\ OpenMoves
  BY <1>0, <1>2 DEF OtherTypes, OpenMoves
<1>4. CASE UNCHANGED db
  <2>1. Calm(db', db) /\ Loyal(db', db) /\ NoNewHistory(db', db)
    BY <1>4, SameCalm
  <2> QED BY <1>2, <1>3, <1>4, <2>1, CalmOther DEF OwnerMoves
<1>5. CASE Commit(Released(db)) /\ \E id : EventOk(db, t, id)
  <2>1. [StoreNext]_db /\ Calm(db', db) /\ Loyal(db', db) /\ NoNewHistory(db', db)
    BY <1>0, <1>5, ReleaseStep
  <2> QED BY <1>2, <1>3, <2>1, CalmOther DEF OwnerMoves
<1> QED BY <1>4, <1>5

LEMMA BrowserStep ==
  ASSUME Working, NEW t \in Device, Browser(t)
  PROVE  OtherFacts
<1>0. /\ commands \in Seq(CommandType) /\ play \in PlayType /\ open \in OpenType
      /\ session \in SessionType /\ player \in [Device -> PlayerType]
      /\ requests \in 0..MaxRequests /\ IsDatabase(db)
      /\ NoSession \in SessionType /\ t \in Owner \ {"free"}
  BY WorkingTypes, IdleIsIdle
<1>1. UNCHANGED rest => /\ UNCHANGED <<tv, commands, play, open>>
                        /\ session' \in SessionType /\ requests' \in 0..MaxRequests
  BY <1>0 DEF rest, native
<1>2. /\ {"loaded", "playing", "confirmed", "ended", "finished", "failing"} \subseteq Watching
      /\ {"confirmed", "ended", "failing", "closed"} = Held
      /\ Watching \in SUBSET (Watching \cup {"closed"})
  BY DEF Watching, Held
<1>3. ASSUME DevicePlaying(t) PROVE OtherFacts
  <2> DEFINE from == {"loaded"}
             to == "playing"
  <2>1. from \in SUBSET (Watching \cup {"closed"}) /\ to \in Watching \cup {"closed"}
        /\ \A s \in from : s \in Held => to \in Held
    BY <1>2
  <2>2. Turn(t, from, to) /\ UNCHANGED db
    BY <1>3 DEF DevicePlaying
  <2> HIDE DEF from, to
  <2> QED BY <1>1, <1>3, <2>1, <2>2, TurnStep DEF DevicePlaying
<1>4. ASSUME DeviceStarted(t) PROVE OtherFacts
  <2>1. UNCHANGED rest /\ open = Idle
    BY <1>4 DEF DeviceStarted
  <2>2. CASE Accepted(t)
    <3>1. /\ player[t].state = "playing" /\ Commit(Started(db))
          /\ player' = [player EXCEPT ![t].state = "confirmed"]
          /\ EventOk(db, t, player[t].entry)
      BY <1>4, <2>2 DEF DeviceStarted, Turn, Accepted
    <3>2. Confirmation(t)
      BY <2>1, <3>1 DEF Confirmation, Commit
    <3>3. player' \in [Device -> PlayerType] /\ \A u \in Device : PlayerMoves(u)
      <4>1. "confirmed" \in Watching \cup {"closed"} /\ "confirmed" \in Held
        BY <1>2
      <4> QED BY <1>0, <3>1, <4>1, TurnedPlayer
    <3>4. OtherTypes /\ OpenMoves
      BY <1>0, <1>1, <2>1, <3>3 DEF OtherTypes, OpenMoves
    <3>5. Loyal(db', db) /\ NoNewHistory(db', db)
      BY <1>0, <3>1 DEF Commit, Started, Loyal, NoNewHistory, IsDatabase
    <3>6. StoreNext
      BY <1>0, <3>1 DEF StoreNext, ServiceEvent, EventOk
    <3> QED BY <1>1, <2>1, <3>2, <3>3, <3>4, <3>5, <3>6
            DEF OtherFacts, OwnerMoves, HistoryMoves
  <2>3. CASE ~Accepted(t)
    <3> DEFINE from == {"playing"}
               to == "closed"
    <3>1. from \in SUBSET (Watching \cup {"closed"}) /\ to \in Watching \cup {"closed"}
          /\ \A s \in from : s \in Held => to \in Held
      BY <1>2
    <3>2. Turn(t, from, to) /\ UNCHANGED db
      BY <1>4, <2>3 DEF DeviceStarted
    <3> HIDE DEF from, to
    <3> QED BY <1>1, <2>1, <3>1, <3>2, TurnStep
  <2> QED BY <2>2, <2>3
<1>5. ASSUME DevicePosition(t) PROVE OtherFacts
  <2>1. /\ player[t].state \in {"playing", "confirmed"} /\ EventOk(db, t, player[t].entry)
        /\ Commit([db EXCEPT !.position = player[t].prog])
        /\ UNCHANGED player /\ UNCHANGED rest
    BY <1>5 DEF DevicePosition, Accepted
  <2>2. Sample(t)
    BY <2>1 DEF Sample, Commit
  <2>3. player[t].prog \in Programme
    BY <1>0, <2>1, PlayerFields
  <2>4. StoreNext
    <3>1. EventOk(db, t, db.current)
      BY <2>1 DEF EventOk
    <3> QED BY <1>0, <2>1, <2>3, <3>1 DEF StoreNext, ServiceEvent
  <2>5. Loyal(db', db) /\ NoNewHistory(db', db)
    BY <1>0, <2>1 DEF Commit, Loyal, NoNewHistory, IsDatabase
  <2>6. OtherTypes /\ OpenMoves /\ \A u \in Device : PlayerMoves(u)
    BY <1>0, <1>1, <2>1, SamePlayers DEF OtherTypes, OpenMoves
  <2> QED BY <1>1, <2>1, <2>2, <2>4, <2>5, <2>6 DEF OtherFacts, OwnerMoves, HistoryMoves
<1>6. ASSUME DeviceEnded(t) PROVE OtherFacts
  <2> DEFINE from == {"confirmed"}
             to == "ended"
  <2>1. from \in SUBSET (Watching \cup {"closed"}) /\ to \in Watching \cup {"closed"}
        /\ \A s \in from : s \in Held => to \in Held
    BY <1>2
  <2>2. Turn(t, from, to) /\ UNCHANGED db
    BY <1>6 DEF DeviceEnded
  <2> HIDE DEF from, to
  <2> QED BY <1>1, <1>6, <2>1, <2>2, TurnStep DEF DeviceEnded
<1>7. ASSUME DeviceFinish(t) PROVE OtherFacts
  <2>1. UNCHANGED rest
    BY <1>7 DEF DeviceFinish
  <2>2. CASE Accepted(t) /\ db.phase = "playing"
    <3>1. /\ player[t].state = "ended" /\ db' = Finish(db) /\ Commit(Finish(db))
          /\ player' = [player EXCEPT ![t].state = "finished"]
          /\ db.owner = t /\ player[t].entry = db.current
      BY <1>7, <2>2 DEF DeviceFinish, Turn, Accepted, EventOk, Commit
    <3>2. Calm(db', db) /\ Loyal(db', db) /\ db'.phase # "playing"
      BY <1>0, <3>1, FinishCalm
    <3>3. player' \in [Device -> PlayerType] /\ \A u \in Device : PlayerMoves(u)
      <4>1. "finished" \in Watching \cup {"closed"}
        BY <1>2
      <4> QED BY <1>0, <3>1, <3>2, <4>1, TurnedPlayer
    <3>4. OtherTypes /\ OpenMoves
      BY <1>0, <1>1, <2>1, <3>3 DEF OtherTypes, OpenMoves
    <3>5. StoreNext
      BY <1>0, <2>2, <3>1 DEF StoreNext, ServiceEvent, EventOk
    <3>6. HistoryMoves
      BY <3>1 DEF HistoryMoves
    <3> QED BY <1>1, <2>1, <3>2, <3>3, <3>4, <3>5, <3>6 DEF OtherFacts, OwnerMoves
  <2>3. CASE ~(Accepted(t) /\ db.phase = "playing")
    <3> DEFINE from == {"ended"}
               to == "failing"
    <3>1. from \in SUBSET (Watching \cup {"closed"}) /\ to \in Watching \cup {"closed"}
          /\ \A s \in from : s \in Held => to \in Held
      BY <1>2
    <3>2. Turn(t, from, to) /\ UNCHANGED db
      BY <1>7, <2>3 DEF DeviceFinish
    <3> HIDE DEF from, to
    <3> QED BY <1>1, <2>1, <3>1, <3>2, TurnStep
  <2> QED BY <2>2, <2>3
<1>8. ASSUME DeviceNext(t) PROVE OtherFacts
  <2> DEFINE first == First(db.entries)
             row == [state |-> "next", entry |-> first, prog |-> db.entries[first].prog]
  <2>1. player[t].state = "finished" /\ UNCHANGED db /\ UNCHANGED rest
    BY <1>8 DEF DeviceNext
  <2>2. CASE Ids(db) # {} /\ player' = [player EXCEPT ![t] = row]
    <3>1. first \in Ids(db)
      <4>1. IsTable(db.entries, db.nextId) /\ db.nextId \in Nat \ {0}
        BY <1>0, EntriesTable DEF IsDatabase
      <4> QED BY <2>2, <4>1, FirstIsEntry DEF Ids
    <3> HIDE DEF first
    <3>2. first \in Nat /\ db.entries[first].prog \in Programme
      BY <1>0, <3>1 DEF IsDatabase, Ids, Id, Row
    <3>3. /\ row \in PlayerType /\ row.state = "next" /\ row.entry = first
          /\ row.prog = db.entries[first].prog
      BY <3>2 DEF PlayerType, Watching
    <3> HIDE DEF row
    <3>4. player' \in [Device -> PlayerType]
      BY <1>0, <2>2, <3>3
    <3>5. ASSUME NEW u \in Device PROVE PlayerMoves(u)
      <4>1. CASE u = t
        <5>1. player'[u] = row
          BY <1>0, <2>2, <4>1
        <5>2. player[t].state \notin Held
          BY <2>1 DEF Held
        <5> QED BY <2>1, <3>1, <3>3, <4>1, <5>1, <5>2 DEF PlayerMoves
      <4>2. CASE u # t
        <5>1. player'[u] = player[u]
          BY <1>0, <2>2, <4>2
        <5> QED BY <5>1 DEF PlayerMoves
      <4> QED BY <4>1, <4>2
    <3>6. OtherTypes /\ OpenMoves
      BY <1>0, <1>1, <2>1, <3>4 DEF OtherTypes, OpenMoves
    <3>7. Calm(db', db) /\ Loyal(db', db) /\ NoNewHistory(db', db)
      BY <2>1, SameCalm
    <3> QED BY <1>1, <2>1, <3>5, <3>6, <3>7, CalmOther DEF OwnerMoves
  <2>3. ASSUME NEW to \in {"failing", "closed"}, player' = [player EXCEPT ![t].state = to]
        PROVE  OtherFacts
    <3> DEFINE from == {"finished"}
    <3>1. from \in SUBSET (Watching \cup {"closed"}) /\ to \in Watching \cup {"closed"}
          /\ \A s \in from : s \in Held => to \in Held
      BY <1>2
    <3>2. Turn(t, from, to) /\ UNCHANGED db
      BY <2>1, <2>3 DEF Turn
    <3> HIDE DEF from
    <3> QED BY <1>1, <2>1, <3>1, <3>2, TurnStep
  <2> QED BY <1>8, <2>2, <2>3 DEF DeviceNext
<1>9. ASSUME DeviceFailed(t) PROVE OtherFacts
  <2> DEFINE from == {"loaded", "playing", "confirmed", "failing"}
             to == "closed"
  <2>1. from \in SUBSET (Watching \cup {"closed"}) /\ to \in Watching \cup {"closed"}
        /\ \A s \in from : s \in Held => to \in Held
    BY <1>2
  <2>2. Turn(t, from, to) /\ UNCHANGED rest
    BY <1>9 DEF DeviceFailed
  <2> HIDE DEF from, to
  <2>3. UNCHANGED db \/ (Commit(Released(db)) /\ \E id : EventOk(db, t, id))
    BY <1>9 DEF DeviceFailed
  <2> QED BY <1>1, <2>1, <2>2, <2>3, TurnStep
<1>10. Watching \in SUBSET (Watching \cup {"closed"}) /\ "closed" \in Watching \cup {"closed"}
       /\ \A s : s \in Held => "closed" \in Held
  BY <1>2
<1>11. ASSUME DevicePoll(t) PROVE OtherFacts
  <2>1. Turn(t, Watching, "closed") /\ UNCHANGED db /\ UNCHANGED rest
    BY <1>11 DEF DevicePoll
  <2> QED BY <1>1, <1>10, <2>1, TurnStep
<1>12. ASSUME DeviceClose(t) PROVE OtherFacts
  <2>1. Watching \cup {"closed"} \in SUBSET (Watching \cup {"closed"})
    OBVIOUS
  <2>2. /\ Turn(t, Watching \cup {"closed"}, "closed") /\ Request
        /\ UNCHANGED <<tv, commands, play, open>>
        /\ session' \in SessionType
    BY <1>0, <1>12 DEF DeviceClose, native
  <2>3. UNCHANGED db \/ (Commit(Released(db)) /\ \E id : EventOk(db, t, id))
    BY <1>12 DEF DeviceClose
  <2>4. requests' \in 0..MaxRequests
    BY <1>0, <2>2, RequestType
  <2> QED BY <1>10, <2>1, <2>2, <2>3, <2>4, TurnStep
<1>13. ASSUME DeviceLost(t) PROVE OtherFacts
  <2>1. /\ Turn(t, Watching, "closed") /\ Request
        /\ UNCHANGED <<tv, commands, play, open, db>> /\ session' \in SessionType
    BY <1>0, <1>13 DEF DeviceLost, native
  <2>2. requests' \in 0..MaxRequests
    BY <1>0, <2>1, RequestType
  <2> QED BY <1>10, <2>1, <2>2, TurnStep
<1> QED BY <1>3, <1>4, <1>5, <1>6, <1>7, <1>8, <1>9, <1>11, <1>12, <1>13 DEF Browser

(* ---------------------------------------------------------------------- *)
(* The invariant.                                                           *)

LEMMA EntryLabelled ==
  ASSUME NEW d, IsDatabase(d), RowsSound(d), NEW i \in Ids(d)
  PROVE  Labelled(d, i, d.entries[i].prog)
BY DEF Labelled, RowsSound, IsDatabase, Ids

\* No transaction gives an identity another programme.
LEMMA LabelsKept ==
  ASSUME NEW c, NEW d, IsDatabase(c), IsDatabase(d), Kept(c, d), NEW i, NEW p,
         Labelled(d, i, p)
  PROVE  Labelled(c, i, p)
<1>1. i \in Id(d.nextId) /\ c.nextId \in Nat /\ d.nextId \in Nat /\ c.nextId >= d.nextId
  BY DEF Labelled, Kept, IsDatabase
<1>2. i \in Id(c.nextId) /\ ~(i >= d.nextId)
  BY <1>1 DEF Id
<1>3. i \in Ids(c) => c.entries[i].prog = p
  BY <1>2 DEF Labelled, Kept, EntriesKept
<1>4. ASSUME NEW k \in DOMAIN c.history, c.history[k].id = i
      PROVE  c.history[k].prog = p
  BY <1>4 DEF Labelled, Kept, HistoryKept
<1> QED BY <1>2, <1>3, <1>4 DEF Labelled

\* The entry that stays the current one keeps its programme.
LEMMA CurrentKept ==
  ASSUME RInv, db.channels = Programme, IsDatabase(db'), Kept(db', db),
         db'.current = db.current, Named(db')
  PROVE  Named(db) /\ CurrentProgramme' = CurrentProgramme
<1>1. IsDatabase(db) /\ Sound(db) /\ RowsSound(db)
  BY DEF RInv, IInv, TypeOK
<1>2. db.current # NoEntry
  BY DEF Named, IsDatabase, Ids, Id, NoEntry
<1>3. Named(db)
  BY <1>1, <1>2 DEF Sound, Named
<1>4. Labelled(db', db.current, CurrentProgramme)
  BY <1>1, <1>3, EntryLabelled, LabelsKept DEF Named, CurrentProgramme
<1> QED BY <1>3, <1>4 DEF Labelled, Named, CurrentProgramme

LEMMA PlayersStayLabelled ==
  ASSUME RInv, PlayersLabelled, IsDatabase(db'), Kept(db', db),
         \A t \in Device : PlayerMoves(t)
  PROVE  PlayersLabelled'
<1>1. IsDatabase(db) /\ RowsSound(db)
  BY DEF RInv, IInv, TypeOK
<1> SUFFICES ASSUME NEW t \in Device, player'[t].state # "unused"
             PROVE  Labelled(db', player'[t].entry, player'[t].prog)
  BY DEF PlayersLabelled
<1>2. Labelled(db, player'[t].entry, player'[t].prog)
  BY <1>1, EntryLabelled DEF PlayerMoves, PlayersLabelled
<1> QED BY <1>1, <1>2, LabelsKept

LEMMA OwnerIsNamed ==
  ASSUME NEW d, IsDatabase(d), Sound(d), d.channels = Programme, d.owner # "free"
  PROVE  Named(d)
BY DEF Sound, Named

\* What the Playing signal and a position sample change.
LEMMA SignalEffect ==
  ASSUME NEW d, IsDatabase(d), NEW p
  PROVE  /\ \/ MarkPlaying(d, p) = d
            \/ /\ d.owner = "tv" /\ d.phase = "starting" /\ Named(d)
               /\ d.entries[d.current].prog = p
               /\ MarkPlaying(d, p).owner = "tv" /\ MarkPlaying(d, p).phase = "playing"
               /\ MarkPlaying(d, p).current = d.current
               /\ MarkPlaying(d, p).position = d.position
               /\ MarkPlaying(d, p).channels = d.channels
               /\ MarkPlaying(d, p).entries = d.entries
               /\ MarkPlaying(d, p).history = d.history
         /\ \/ SavePosition(d, p) = d
            \/ /\ d.owner = "tv" /\ d.phase = "playing"
               /\ SavePosition(d, p).owner = "tv" /\ SavePosition(d, p).phase = "playing"
               /\ SavePosition(d, p).current = d.current
               /\ SavePosition(d, p).position = p
               /\ SavePosition(d, p).channels = d.channels
               /\ SavePosition(d, p).history = d.history
         /\ Started(d).owner = d.owner /\ Started(d).phase = "playing"
         /\ Started(d).current = d.current /\ Started(d).position = d.position
         /\ Started(d).channels = d.channels
         /\ \A q : /\ [d EXCEPT !.position = q].owner = d.owner
                   /\ [d EXCEPT !.position = q].phase = d.phase
                   /\ [d EXCEPT !.position = q].current = d.current
                   /\ [d EXCEPT !.position = q].position = q
                   /\ [d EXCEPT !.position = q].channels = d.channels
<1>1. MarkPlaying(d, p) = d \/
        /\ d.owner = "tv" /\ d.phase = "starting" /\ Named(d)
        /\ d.entries[d.current].prog = p
        /\ MarkPlaying(d, p) = [d EXCEPT !.phase = "playing", !.active = TRUE]
  BY DEF MarkPlaying, Named
<1>2. SavePosition(d, p) = d \/
        /\ d.owner = "tv" /\ d.phase = "playing"
        /\ SavePosition(d, p) = [d EXCEPT !.position = p]
  BY DEF SavePosition
<1>3. Started(d) = [d EXCEPT !.active = TRUE, !.phase = "playing"]
  BY DEF Started
<1> QED BY <1>1, <1>2, <1>3 DEF IsDatabase

\* A step of the native player keeps everything.
LEMMA NativeKeeps ==
  ASSUME PInv, UNCHANGED setting, NativeFacts
  PROVE  PInv'
<1>1. /\ RInv' /\ Kept(db', db)
      /\ IsDatabase(db) /\ Sound(db) /\ IsDatabase(db') /\ Sound(db')
  <2>1. RInv' /\ Kept(db', db)
    BY NextKept, NextRInv DEF PInv, NativeFacts
  <2> QED BY <2>1 DEF PInv, RInv, IInv, TypeOK
<1>2. UNCHANGED <<play, open, session, player>> /\ (Undisturbed' <=> Undisturbed)
  BY DEF NativeFacts, service, Undisturbed
<1>3. PlayerTypeOK'
  BY <1>2 DEF NativeFacts, PInv, PlayerTypeOK
\* Either the claim stands as it was, or the Playing signal confirms it.
<1>4. \/ Calm(db', db)
      \/ /\ OnScreen /\ db.owner = "tv" /\ db.phase = "starting" /\ Named(db)
         /\ CurrentProgramme = tv.prog /\ db'.entries = db.entries
         /\ db'.owner = "tv" /\ db'.phase = "playing" /\ db'.current = db.current
         /\ db'.position = db.position /\ db'.channels = db.channels
      \/ /\ TvPlays(db) /\ TvPlays(db') /\ db'.current = db.current
         /\ db'.position = tv.prog /\ db'.channels = db.channels
  <2>1. CASE Calm(db', db)
    BY <2>1
  <2>2. CASE db' = MarkPlaying(db, tv.prog) /\ OnScreen
    BY <1>1, <2>2, SignalEffect, SameCalm DEF CurrentProgramme
  <2>3. CASE db' = SavePosition(db, tv.prog)
    BY <1>1, <2>3, SignalEffect, SameCalm DEF TvPlays
  <2> QED BY <2>1, <2>2, <2>3 DEF NativeFacts
<1>5. db'.channels = Programme
  BY <1>4 DEF PInv, Calm
<1>6. db'.owner # "free" => Named(db')
  BY <1>1, <1>5, OwnerIsNamed
<1>7. TvIsConfirmed'
  <2> SUFFICES ASSUME Undisturbed, TvPlays(db')
               PROVE  tv'.mode = "mabel" /\ tv'.prog = CurrentProgramme'
    BY <1>2 DEF TvIsConfirmed, TvPlays
  <2>1. Named(db')
    BY <1>6 DEF TvPlays
  <2>2. db'.current = db.current /\ tv.mode = "mabel" /\ tv.prog = CurrentProgramme
    BY <1>4 DEF PInv, TvIsConfirmed, TvPlays, Calm, OnScreen
  <2>3. CurrentProgramme' = CurrentProgramme
    BY <1>1, <2>1, <2>2, CurrentKept DEF PInv
  <2>4. tv'.prog = tv.prog /\ tv'.mode = tv.mode
    <3>1. CASE tv'.prog = tv.prog /\ tv'.mode = tv.mode
      BY <3>1
    <3>2. CASE tv.mode # "mabel" /\ UNCHANGED db
      BY <2>2, <3>2
    <3> QED BY <3>1, <3>2 DEF NativeFacts
  <2> QED BY <2>2, <2>3, <2>4
<1>8. StreamIsConfirmed'
  <2> SUFFICES ASSUME db'.owner \in Device, db'.phase = "playing"
               PROVE  /\ player[db'.owner].entry = db'.current
                      /\ player[db'.owner].state \in Held
    BY <1>2 DEF StreamIsConfirmed
  <2>1. db'.owner # "tv"
    BY StoreAssumption
  <2>2. db.phase = "playing" /\ db'.owner = db.owner /\ db'.current = db.current
    BY <1>4, <2>1 DEF Calm, TvPlays
  <2> QED BY <2>2 DEF PInv, StreamIsConfirmed
<1>9. PlayersLabelled'
  BY <1>1, <1>2, SamePlayers, PlayersStayLabelled DEF PInv
<1>10. NextIsUnconfirmed'
  <2> SUFFICES ASSUME open # Idle, open.auto
               PROVE  /\ player[open.from].state # "unused"
                      /\ ~(db'.owner = open.from /\ db'.phase = "playing")
    BY <1>2 DEF NextIsUnconfirmed
  <2>1. open.from # "tv"
    BY OpenFields, StoreAssumption DEF PInv, PlayerTypeOK
  <2> QED BY <1>4, <2>1 DEF PInv, NextIsUnconfirmed, Calm, TvPlays
<1>11. ResumePointIsOwn'
  <2> SUFFICES ASSUME Undisturbed, db'.position # NoProgramme, Named(db')
               PROVE  db'.position = CurrentProgramme'
    BY <1>2 DEF ResumePointIsOwn
  <2>1. db'.current = db.current
    BY <1>1 DEF Kept
  <2>2. Named(db) /\ CurrentProgramme' = CurrentProgramme
    BY <1>1, <2>1, CurrentKept DEF PInv
  <2>3. db'.position \in {db.position, NoProgramme} \/ db'.position = CurrentProgramme
    BY <1>4 DEF Calm, PInv, TvIsConfirmed, TvPlays
  <2> QED BY <2>2, <2>3 DEF PInv, ResumePointIsOwn
<1> QED BY <1>1, <1>3, <1>5, <1>7, <1>8, <1>9, <1>10, <1>11 DEF PInv

\* The owning browser confirms its entry or stores its position.
Claims(t) ==
  /\ db.owner = t /\ db.current = player[t].entry
  /\ db'.owner = db.owner /\ db'.current = db.current
  /\ db'.channels = db.channels
  /\ \/ /\ open = Idle /\ player' = [player EXCEPT ![t].state = "confirmed"]
        /\ player[t].state = "playing" /\ db'.position = db.position
     \/ /\ UNCHANGED player /\ player[t].state \in {"playing", "confirmed"}
        /\ db'.position = player[t].prog /\ db'.phase = db.phase

\* So does a step of the service or of a browser.
LEMMA OtherKeeps ==
  ASSUME PInv, UNCHANGED setting, OtherFacts
  PROVE  PInv'
<1>1. /\ RInv' /\ Kept(db', db)
      /\ IsDatabase(db) /\ Sound(db) /\ IsDatabase(db') /\ Sound(db')
  <2>1. RInv' /\ Kept(db', db)
    BY NextKept, NextRInv DEF PInv, OtherFacts
  <2> QED BY <2>1 DEF PInv, RInv, IInv, TypeOK
<1>2. tv' = tv /\ (Undisturbed' <=> Undisturbed) /\ \A t \in Device : PlayerMoves(t)
  BY DEF OtherFacts, Undisturbed
<1>3. PlayerTypeOK'
  BY <1>2 DEF OtherFacts, OtherTypes, PInv, PlayerTypeOK
<1>4. \/ Calm(db', db)
      \/ \E t \in Device : Claims(t)
  <2>1. ASSUME NEW t \in Device, Confirmation(t) PROVE Claims(t)
    <3>1. /\ db'.owner = db.owner /\ db'.current = db.current
          /\ db'.position = db.position /\ db'.channels = db.channels
      BY <1>1, <2>1, SignalEffect DEF Confirmation
    <3> QED BY <2>1, <3>1 DEF Claims, Confirmation, EventOk
  <2>2. ASSUME NEW t \in Device, Sample(t) PROVE Claims(t)
    <3>1. /\ db'.owner = db.owner /\ db'.current = db.current /\ db'.phase = db.phase
          /\ db'.position = player[t].prog /\ db'.channels = db.channels
      BY <1>1, <2>2, SignalEffect DEF Sample
    <3> QED BY <2>2, <3>1 DEF Claims, Sample, EventOk
  <2> QED BY <2>1, <2>2 DEF OtherFacts
<1>5. db'.channels = Programme
  BY <1>4 DEF PInv, Calm, Claims
<1>6. db'.owner # "free" => Named(db')
  BY <1>1, <1>5, OwnerIsNamed
<1>7. TvIsConfirmed'
  <2> SUFFICES ASSUME Undisturbed, TvPlays(db')
               PROVE  tv.mode = "mabel" /\ tv.prog = CurrentProgramme'
    BY <1>2 DEF TvIsConfirmed, TvPlays
  <2>1. Named(db')
    BY <1>6 DEF TvPlays
  <2>2. db'.current = db.current /\ TvPlays(db)
    BY <1>4, StoreAssumption DEF TvPlays, Calm, Claims
  <2>3. CurrentProgramme' = CurrentProgramme
    BY <1>1, <2>1, <2>2, CurrentKept DEF PInv
  <2> QED BY <2>2, <2>3 DEF PInv, TvIsConfirmed, TvPlays
<1>8. StreamIsConfirmed'
  <2> SUFFICES ASSUME db'.owner \in Device, db'.phase = "playing"
               PROVE  /\ player'[db'.owner].entry = db'.current
                      /\ player'[db'.owner].state \in Held
    BY DEF StreamIsConfirmed
  <2>1. CASE Calm(db', db)
    <3>1. db.phase = "playing" /\ db'.owner = db.owner /\ db'.current = db.current
      BY <2>1 DEF Calm
    <3>2. player[db.owner].entry = db.current /\ player[db.owner].state \in Held
      BY <3>1 DEF PInv, StreamIsConfirmed
    <3>3. player'[db.owner].entry = player[db.owner].entry
          /\ player'[db.owner].state \in Held
      BY <1>2, <3>1, <3>2 DEF PlayerMoves
    <3> QED BY <3>1, <3>2, <3>3
  <2>2. ASSUME NEW t \in Device, open = Idle, db.owner = t, db.current = player[t].entry,
               db'.owner = db.owner, db'.current = db.current,
               player' = [player EXCEPT ![t].state = "confirmed"],
               player[t].state = "playing"
        PROVE  /\ player'[db'.owner].entry = db'.current
               /\ player'[db'.owner].state \in Held
    <3>1. player \in [Device -> PlayerType] /\ player[t] # Unused
      BY <2>2 DEF PInv, PlayerTypeOK, Unused
    <3>2. player'[t].entry = player[t].entry /\ player'[t].state = "confirmed"
      BY <2>2, <3>1 DEF PlayerType
    <3> QED BY <2>2, <3>2 DEF Held
  <2>3. ASSUME UNCHANGED player, db'.owner = db.owner, db'.current = db.current,
               db'.phase = db.phase
        PROVE  /\ player'[db'.owner].entry = db'.current
               /\ player'[db'.owner].state \in Held
    BY <2>3 DEF PInv, StreamIsConfirmed
  <2> QED BY <1>4, <2>1, <2>2, <2>3 DEF Claims
<1>9. PlayersLabelled'
  BY <1>1, <1>2, PlayersStayLabelled DEF PInv
<1>10. NextIsUnconfirmed'
  <2> SUFFICES ASSUME open' # Idle, open'.auto
               PROVE  /\ player'[open'.from].state # "unused"
                      /\ ~(db'.owner = open'.from /\ db'.phase = "playing")
    BY DEF NextIsUnconfirmed
  <2>1. open'.from \in Device
    BY <1>3 DEF PlayerTypeOK, OpenType
  <2>2. player[open'.from].state # "unused" => player'[open'.from].state # "unused"
    BY <1>2, <2>1 DEF PlayerMoves
  <2>3. CASE open' = open
    <3>1. /\ player[open.from].state # "unused" /\ open # Idle
          /\ ~(db.owner = open.from /\ db.phase = "playing")
      BY <2>3 DEF PInv, NextIsUnconfirmed
    <3> QED BY <1>4, <2>2, <2>3, <3>1 DEF Calm, Claims
  <2>4. CASE db' = db /\ player[open'.from].state = "next"
    <3>1. ~(db.owner = open'.from /\ db.phase = "playing")
      BY <2>1, <2>4 DEF PInv, StreamIsConfirmed, Held
    <3> QED BY <2>2, <2>4, <3>1
  <2> QED BY <2>3, <2>4 DEF OtherFacts, OpenMoves
<1>11. ResumePointIsOwn'
  <2> SUFFICES ASSUME Undisturbed, db'.position # NoProgramme, Named(db')
               PROVE  db'.position = CurrentProgramme'
    BY <1>2 DEF ResumePointIsOwn
  <2>1. db'.current = db.current
    BY <1>1 DEF Kept
  <2>2. Named(db) /\ CurrentProgramme' = CurrentProgramme
    BY <1>1, <2>1, CurrentKept DEF PInv
  <2>3. CASE db'.position \in {db.position, NoProgramme}
    BY <2>2, <2>3 DEF PInv, ResumePointIsOwn
  <2>4. ASSUME NEW t \in Device, db.current = player[t].entry,
               player[t].state \in {"playing", "confirmed"}, db'.position = player[t].prog
        PROVE  db'.position = CurrentProgramme
    BY <2>2, <2>4 DEF PInv, PlayersLabelled, Labelled, Named, CurrentProgramme
  <2> QED BY <1>4, <2>2, <2>3, <2>4 DEF Calm, Claims
<1> QED BY <1>1, <1>3, <1>5, <1>7, <1>8, <1>9, <1>10, <1>11 DEF PInv

LEMMA InitPInv == PlaybackInit => PInv
<1> SUFFICES ASSUME PlaybackInit PROVE PInv
  OBVIOUS
<1>1. RInv
  BY InitIInv, InitRows DEF PlaybackInit, RInv
<1>2. db.channels = Programme /\ db.owner = "free" /\ db.phase = "waiting"
      /\ db.position = NoProgramme
  <2>1. PICK items : db = Inserted(Fresh, items)
    BY DEF PlaybackInit, StoreInit
  <2> QED BY <2>1 DEF Inserted, Fresh
<1>3. PlayerTypeOK
  <2>1. tv \in TvType
    <3>1. tv \in [mode : {"mabel", "standby"}, prog : Programme, item : {NoEntry},
                 video : {"stopped"}, pending : {FALSE}, refused : {FALSE}]
      BY DEF PlaybackInit
    <3>2. NoEntry \in Nat
      BY DEF NoEntry
    <3> QED BY <3>1, <3>2 DEF TvType
  <2>2. player \in [Device -> PlayerType]
    BY DEF PlaybackInit, PlayerType
  <2>3. commands \in Seq(CommandType) /\ requests \in 0..MaxRequests
    BY EmptySeq, PlaybackAssumption DEF PlaybackInit
  <2> QED BY <2>1, <2>2, <2>3, IdleIsIdle DEF PlaybackInit, PlayerTypeOK
<1>4. TvIsConfirmed /\ StreamIsConfirmed /\ NextIsUnconfirmed /\ ResumePointIsOwn
  BY <1>2 DEF PlaybackInit, TvIsConfirmed, StreamIsConfirmed, NextIsUnconfirmed,
              ResumePointIsOwn
<1>5. PlayersLabelled
  BY DEF PlaybackInit, PlayersLabelled, Unused
<1> QED BY <1>1, <1>2, <1>3, <1>4, <1>5 DEF PInv

\* Every step is one of the native player or one of the others.
LEMMA StepFacts ==
  ASSUME PInv, PlaybackNext
  PROVE  (Native /\ NativeFacts) \/ OtherFacts
<1>1. Ready /\ Working
  BY DEF PInv, RInv, IInv, TypeOK, PlayerTypeOK, NextIsUnconfirmed, Ready, Working
<1>2. Native => NativeFacts
  BY <1>1, NativeStep
<1>3. Service => OtherFacts
  BY <1>1, PlayOnTvSteps, OpenSteps, PortalEditStep DEF Service
<1>4. ASSUME NEW t \in Device, Browser(t) PROVE OtherFacts
  BY <1>1, <1>4, BrowserStep
<1> QED BY <1>2, <1>3, <1>4 DEF PlaybackNext

LEMMA NextPInv ==
  ASSUME PInv, [PlaybackNext]_vars
  PROVE  PInv'
<1>1. CASE PlaybackNext
  <2>1. UNCHANGED setting
    BY <1>1 DEF PlaybackNext
  <2> QED BY <1>1, <2>1, StepFacts, NativeKeeps, OtherKeeps
<1>2. CASE UNCHANGED vars
  <2>1. /\ db' = db /\ tv' = tv /\ commands' = commands /\ play' = play /\ open' = open
        /\ session' = session /\ player' = player /\ requests' = requests
        /\ setting' = setting
    BY <1>2 DEF vars, moving
  <2>2. RInv'
    BY <2>1, NextRInv DEF PInv
  <2>3. PlayerTypeOK' /\ TvIsConfirmed' /\ StreamIsConfirmed' /\ ResumePointIsOwn'
    BY <2>1 DEF PInv, PlayerTypeOK, TvIsConfirmed, StreamIsConfirmed, ResumePointIsOwn,
                Undisturbed, CurrentProgramme
  <2>4. PlayersLabelled' /\ NextIsUnconfirmed'
    BY <2>1 DEF PInv, PlayersLabelled, NextIsUnconfirmed
  <2> QED BY <2>1, <2>2, <2>3, <2>4 DEF PInv
<1> QED BY <1>1, <1>2

LEMMA PlaybackPInv == PlaybackSpec => []PInv
BY InitPInv, NextPInv, PTL DEF PlaybackSpec

(* ---------------------------------------------------------------------- *)
(* What the composition promises.                                           *)

\* The players' variables keep their types: the TV's mode and video state, the
\* queued commands, the two request threads, the session and every browser.
THEOREM PlaybackTypeCorrect == PlaybackSpec => []PlayerTypeOK
<1>1. PInv => PlayerTypeOK
  BY DEF PInv
<1> QED BY <1>1, PlaybackPInv, PTL

\* Whatever the event loop, the request threads and the browsers do, in any
\* order, the queue's database sees one transaction of the store at a time:
\* every theorem of the store holds of the players.
THEOREM PlaybackImplementsStore == PlaybackSpec => ImplementsStore
<1>1. PlaybackInit => StoreInit
  BY DEF PlaybackInit
<1>2. PInv /\ [PlaybackNext]_vars => [StoreNext]_db
  <2> SUFFICES ASSUME PInv, [PlaybackNext]_vars PROVE [StoreNext]_db
    OBVIOUS
  <2>1. CASE PlaybackNext
    BY <2>1, StepFacts DEF NativeFacts, OtherFacts
  <2>2. CASE UNCHANGED vars
    BY <2>2 DEF vars, moving
  <2> QED BY <2>1, <2>2
<1> QED BY <1>1, <1>2, PlaybackPInv, PTL DEF PlaybackSpec, ImplementsStore, StoreSpec

\* A queue that says it is playing was confirmed by its owner for this entry.
THEOREM PlaybackPlayingIsConfirmed == PlaybackSpec => []PlayingIsConfirmed
<1>1. PInv => PlayingIsConfirmed
  <2> SUFFICES ASSUME PInv, Undisturbed, db.phase = "playing", Named(db)
               PROVE  \/ db.owner = "tv" /\ tv.prog = CurrentProgramme
                      \/ /\ db.owner \in Device /\ player[db.owner].entry = db.current
                         /\ player[db.owner].state \notin {"unused", "loaded"}
    BY DEF PlayingIsConfirmed
  <2>1. db.owner \in Device \/ db.owner = "tv"
    BY DEF PInv, RInv, IInv, TypeOK, Sound, IsDatabase, Owner
  <2>2. CASE db.owner = "tv"
    BY <2>2 DEF PInv, TvIsConfirmed
  <2>3. CASE db.owner \in Device
    BY <2>3 DEF PInv, StreamIsConfirmed, Held
  <2> QED BY <2>1, <2>2, <2>3
<1> QED BY <1>1, PlaybackPInv, PTL

\* A stored resume position belongs to the programme of the current entry.
THEOREM PlaybackResumePointIsOwn == PlaybackSpec => []ResumePointIsOwn
<1>1. PInv => ResumePointIsOwn
  BY DEF PInv
<1> QED BY <1>1, PlaybackPInv, PTL

\* What a step may do to the owner and to the entry it plays.
ConsumedOnScreen ==
  Undisturbed => \A i \in Ids(db) :
    (\E k \in DOMAIN db'.history : db'.history[k].id = i) =>
      \/ db.owner = "tv" /\ OnScreen /\ tv.prog = db.entries[i].prog
      \/ /\ db.owner \in Device /\ player[db.owner].entry = i
         /\ player[db.owner].state = "ended"

TakenByHand ==
  db.phase = "playing" /\ db'.owner \notin {"free", db.owner} =>
    play.step = "chosen" \/ (open.step = "select" /\ ~open.auto)

LEMMA StepRespectsOwner ==
  ASSUME PInv, PlaybackNext
  PROVE  ConsumedOnScreen /\ TakenByHand
<1>1. (Native /\ NativeFacts) \/ OtherFacts
  BY StepFacts
<1>2. Kept(db', db) /\ RowsSound(db) /\ Sound(db)
  <2>1. [StoreNext]_db
    BY <1>1 DEF NativeFacts, OtherFacts
  <2> QED BY <2>1, NextKept DEF PInv, RInv, IInv
<1>3. ConsumedOnScreen
  <2> SUFFICES ASSUME Undisturbed, NEW i \in Ids(db), NEW k \in DOMAIN db'.history,
                      db'.history[k].id = i
               PROVE  \/ db.owner = "tv" /\ OnScreen /\ tv.prog = db.entries[i].prog
                      \/ /\ db.owner \in Device /\ player[db.owner].entry = i
                         /\ player[db.owner].state = "ended"
    BY DEF ConsumedOnScreen
  <2>1. db.phase = "playing" /\ db.current = i
    BY <1>2 DEF Kept, HistoryKept, RowsSound
  <2>2. ~NoNewHistory(db', db)
    BY <1>2 DEF NoNewHistory, RowsSound
  <2>3. CASE NativeFacts
    <3>1. OnScreen /\ db.owner = "tv"
      BY <2>2, <2>3 DEF NativeFacts
    <3> QED BY <2>1, <3>1 DEF PInv, TvIsConfirmed, CurrentProgramme
  <2>4. CASE OtherFacts
    BY <2>1, <2>2, <2>4 DEF OtherFacts, HistoryMoves
  <2> QED BY <1>1, <2>3, <2>4
<1>4. TakenByHand
  <2> SUFFICES ASSUME db.phase = "playing", db'.owner \notin {"free", db.owner}
               PROVE  play.step = "chosen" \/ (open.step = "select" /\ ~open.auto)
    BY DEF TakenByHand
  <2>1. ~Loyal(db', db) /\ db.owner # "free"
    BY <1>2 DEF Loyal, Sound
  <2>2. play.step = "chosen" \/ (open.step = "select" /\ (open.auto => db.owner = open.from))
    BY <1>1, <2>1 DEF NativeFacts, OtherFacts, OwnerMoves
  <2>3. open.step = "select" => open # Idle
    BY IdleIsIdle
  <2> QED BY <2>2, <2>3 DEF PInv, NextIsUnconfirmed
<1> QED BY <1>3, <1>4

\* Nothing the queue owns is finished, or taken over, behind its player's back.
THEOREM PlaybackOwnerIsRespected == PlaybackSpec => OwnerIsRespected
<1>1. PInv /\ [PlaybackNext]_vars => [ConsumedOnScreen /\ TakenByHand]_vars
  BY StepRespectsOwner
<1>2. PlaybackSpec => ConsumeOnlyOnScreen
  <2>1. [ConsumedOnScreen /\ TakenByHand]_vars =>
          [Undisturbed => \A i \in Ids(db) :
             (\E k \in DOMAIN db'.history : db'.history[k].id = i) =>
               \/ db.owner = "tv" /\ OnScreen /\ tv.prog = db.entries[i].prog
               \/ /\ db.owner \in Device /\ player[db.owner].entry = i
                  /\ player[db.owner].state = "ended"]_vars
    BY DEF ConsumedOnScreen
  <2> QED BY <1>1, <2>1, PlaybackPInv, PTL DEF PlaybackSpec, ConsumeOnlyOnScreen
<1>3. PlaybackSpec => PlayingIsTakenByHand
  <2>1. [ConsumedOnScreen /\ TakenByHand]_vars =>
          [db.phase = "playing" /\ db'.owner \notin {"free", db.owner} =>
             play.step = "chosen" \/ (open.step = "select" /\ ~open.auto)]_vars
    BY DEF TakenByHand
  <2> QED BY <1>1, <2>1, PlaybackPInv, PTL DEF PlaybackSpec, PlayingIsTakenByHand
<1> QED BY <1>2, <1>3 DEF OwnerIsRespected
=============================================================================
