------------------------ MODULE MabelQueuePlayback ------------------------
(* The players of the Up Next queue and the requests that move it between
   them.  The native player runs one Qt event loop (TvController*.cpp and the
   QML around it); the Library service runs play_queue_on_tv and
   start_remote_stream in concurrent request threads; each browser runs
   mabel-queue.js.  They share the database of MabelQueueStore, and the service
   reaches the player only through socket commands that are answered "ok" when
   they are queued, not when they are executed. *)
EXTENDS MabelQueueStore

CONSTANTS
  MaxRequests,   \* bound: requests and remote key presses people ever make
  Settings       \* the browsers there are and what may also go wrong; a
                 \* behaviour keeps the one it begins with

ASSUME PlaybackAssumption ==
  /\ MaxRequests \in Nat
  /\ Settings \subseteq [browsers : SUBSET Device,
                           faults : SUBSET {"retune", "crash", "lost", "timeout"}]

VARIABLES
  setting,   \* one of Settings
  tv,        \* the native player: mode, programme, video pipeline, deferred start
  commands,  \* socket commands queued in its event loop
  play,      \* the request thread in play_queue_on_tv
  open,      \* the request thread in start_remote_stream (holds the stream lock)
  session,   \* Library.remote_stream of a queue entry
  player,    \* the browser player of each stream token
  requests   \* requests made so far

moving == <<db, tv, commands, play, open, session, player, requests>>
vars == <<setting, moving>>

Idle == [step |-> "idle"]
NoSession == [token |-> "free", entry |-> NoEntry]
Unused == [state |-> "unused", entry |-> NoEntry, prog |-> NoProgramme]

PlaybackInit ==
  /\ setting \in Settings
  /\ StoreInit
  /\ tv \in [mode : {"mabel", "standby"}, prog : Programme, item : {NoEntry},
             video : {"stopped"}, pending : {FALSE}, refused : {FALSE}]
  /\ commands = <<>>
  /\ play = Idle
  /\ open = Idle
  /\ session = NoSession
  /\ player = [t \in Device |-> Unused]
  /\ requests = 0

Request == requests < MaxRequests /\ requests' = requests + 1

-----------------------------------------------------------------------------
(* The native player.  tv.item is the entry its programme was loaded for,
   NoEntry for the channel's own programmes. *)

Tuned(t, p, id) == [t EXCEPT !.prog = p, !.item = id, !.video = "tuning"]
Quiet(t) == [t EXCEPT !.video = "stopped"]
OwnProgramme(t) == {Tuned(t, p, NoEntry) : p \in Programme}

Running == tv.mode # "down" /\ ~tv.refused
OnScreen == Running /\ tv.mode = "mabel"

service == <<play, open, session, player>>

\* playQueuedProgramme: one transaction, then the answer on the screen.  A
\* reserved programme that is not available is failed in a second transaction.
PlayQueued(t, start, unclaimed) ==
  LET outcome == AdvanceOutcome(db, start)
      id == NextItem(db, start)
  IN /\ Commit(Advance(db, start))
     /\ \/ /\ outcome = "item"
           /\ tv' \in {Tuned(t, AfterFinish(db, start).entries[id].prog, id),
                       [t EXCEPT !.refused = TRUE]}
        \/ outcome = "all_done" /\ tv' = Quiet(t)
        \/ outcome = "unclaimed" /\ tv' \in unclaimed

\* A refused reservation is only shown, not failed.
TvFailRefusedMutant ==
  /\ tv.refused
  /\ tv' = Quiet([tv EXCEPT !.refused = FALSE])
  /\ UNCHANGED <<db, commands, requests, service>>

TvFailRefused ==
  /\ tv.refused
  /\ Commit(Fail(db))
  /\ tv' = Quiet([tv EXCEPT !.refused = FALSE])
  /\ UNCHANGED <<commands, requests, service>>

\* portalStartMabelQueue: at once, or deferred while the TV wakes or My TV closes.
TvStart ==
  LET deferred == [tv EXCEPT !.pending = TRUE,
                             !.mode = IF @ = "mytv" THEN "mabel" ELSE @]
  IN /\ Running /\ commands # <<>> /\ Head(commands) = "start"
     /\ commands' = Tail(commands)
     /\ \/ tv' = deferred /\ UNCHANGED db
        \/ OnScreen /\ PlayQueued(tv, TRUE, {tv})
     /\ UNCHANGED <<requests, service>>

TvPendingStart ==
  /\ OnScreen /\ tv.pending
  /\ LET t == [tv EXCEPT !.pending = FALSE] IN PlayQueued(t, TRUE, {t})
  /\ UNCHANGED <<commands, requests, service>>

\* pauseQueuePlaybackForTransfer stops the decoder; the tuning timer runs on.
TvTransfer ==
  /\ Running /\ commands # <<>> /\ Head(commands) = "transfer"
  /\ commands' = Tail(commands)
  /\ tv' = IF tv.video = "tuning" THEN tv ELSE Quiet(tv)
  /\ UNCHANGED <<db, requests, service>>

WokenUp == {[t EXCEPT !.mode = "mabel"] : t \in OwnProgramme(tv)}

TvWake ==
  /\ Running /\ commands # <<>> /\ Head(commands) = "wake"
  /\ commands' = Tail(commands)
  /\ IF tv.mode = "standby" THEN tv' \in WokenUp ELSE UNCHANGED tv
  /\ UNCHANGED <<db, requests, service>>

TvFinishTune ==
  /\ OnScreen /\ tv.video = "tuning"
  /\ tv' = [tv EXCEPT !.video = "loading"]
  /\ UNCHANGED <<db, commands, requests, service>>

\* The Playing signal confirms whatever the state row says.
TvPlayingMutant ==
  /\ OnScreen /\ tv.video \in {"loading", "playing"}
  /\ tv' = [tv EXCEPT !.video = "playing"]
  /\ Commit(Started(db))
  /\ UNCHANGED <<commands, requests, service>>

\* The Playing signal, also when a paused programme resumes.
TvPlaying ==
  /\ OnScreen /\ tv.video \in {"loading", "playing"}
  /\ tv' = [tv EXCEPT !.video = "playing"]
  /\ Commit(MarkPlaying(db, tv.prog))
  /\ UNCHANGED <<commands, requests, service>>

TvPosition ==
  /\ OnScreen /\ tv.video = "playing"
  /\ Commit(SavePosition(db, tv.prog))
  /\ UNCHANGED <<tv, commands, requests, service>>

TvEnded ==
  /\ OnScreen /\ tv.video = "playing"
  /\ PlayQueued(tv, FALSE, OwnProgramme(tv))
  /\ UNCHANGED <<commands, requests, service>>

TvFailed ==
  /\ OnScreen /\ tv.video \in {"loading", "playing"}
  /\ Commit(Fail(db))
  /\ IF FailClaimed(db) THEN tv' = Quiet(tv) ELSE tv' \in OwnProgramme(tv) \cup {Quiet(tv)}
  /\ UNCHANGED <<commands, requests, service>>

TvNext ==
  /\ OnScreen /\ Request
  /\ PlayQueued(tv, FALSE, OwnProgramme(tv) \cup {tv})
  /\ UNCHANGED <<commands, service>>

\* changeProgramme(-1): the history while the queue plays here and its programme
\* has just begun, otherwise the same programme again.
TvPrevious ==
  LET last == db.history[Len(db.history)]
  IN /\ OnScreen /\ Request
     /\ \/ /\ db.owner = "tv" /\ PreviousOutcome(db) = "item"
           /\ Commit(Previous(db))
           /\ tv' \in {Tuned(tv, last.prog, last.id), [tv EXCEPT !.refused = TRUE]}
        \/ db.owner = "tv" /\ tv' = [tv EXCEPT !.video = "tuning"] /\ UNCHANGED db
        \/ db.owner # "tv" /\ tv' \in OwnProgramme(tv) /\ UNCHANGED db
     /\ UNCHANGED <<commands, service>>

\* Another channel, the random key or a programme chosen in the portal.
TvTune ==
  /\ OnScreen /\ Request
  /\ Commit(Stop(db))
  /\ tv' \in OwnProgramme(tv)
  /\ UNCHANGED <<commands, service>>

TvStandby ==
  /\ Running /\ tv.mode # "standby" /\ Request
  /\ Commit(Stop(db))
  /\ tv' = Quiet([tv EXCEPT !.mode = "standby"])
  /\ UNCHANGED <<commands, service>>

TvSwitchOn ==
  /\ Running /\ tv.mode = "standby" /\ Request
  /\ tv' \in WokenUp
  /\ UNCHANGED <<db, commands, service>>

TvEnterMyTv ==
  /\ OnScreen /\ Request
  /\ Commit(Stop(db))
  /\ tv' = Quiet([tv EXCEPT !.mode = "mytv"])
  /\ UNCHANGED <<commands, service>>

TvLeaveMyTv ==
  /\ Running /\ tv.mode = "mytv" /\ Request
  /\ tv' \in WokenUp
  /\ UNCHANGED <<db, commands, service>>
-----------------------------------------------------------------------------
(* Faults of the native player. *)

\* A disabled channel or programme, or a reloaded library: requestTune without
\* updatePreviousChannel changes the programme and leaves the queue alone.
TvRetune ==
  /\ "retune" \in setting.faults /\ OnScreen /\ Request
  /\ tv' \in OwnProgramme(tv)
  /\ UNCHANGED <<db, commands, service>>

\* The watchdog fails the queue entry and ends the process; a crash just ends it.
TvCrash ==
  /\ "crash" \in setting.faults /\ tv.mode # "down" /\ Request
  /\ UNCHANGED db \/ Commit(Fail(db))
  /\ tv' = Quiet([tv EXCEPT !.mode = "down", !.pending = FALSE, !.refused = FALSE])
  /\ commands' = <<>>
  /\ UNCHANGED service

TvRestart ==
  /\ tv.mode = "down"
  /\ tv' \in WokenUp
  /\ UNCHANGED <<db, commands, requests, service>>

-----------------------------------------------------------------------------
(* play_queue_on_tv, one step between any two others of the service. *)

native == <<tv, commands>>

PlayOnTv ==
  \E id \in Ids(db) :
    /\ play = Idle /\ Request
    /\ play' = [step |-> "chosen", entry |-> id]
    /\ commands' = IF tv.mode = "standby" THEN Append(commands, "wake") ELSE commands
    /\ UNCHANGED <<db, tv, open, session, player>>

PlaySelect ==
  /\ play.step = "chosen"
  /\ IF SelectOk(db, play.entry, FALSE, "tv")
     THEN Commit(Select(db, play.entry, "tv")) /\ play' = [play EXCEPT !.step = "selected"]
     ELSE play' = Idle /\ UNCHANGED db
  /\ UNCHANGED <<native, open, session, player, requests>>

PlayDropSession ==
  /\ play.step = "selected" /\ open = Idle
  /\ session' = NoSession
  /\ play' = [play EXCEPT !.step = "dropped"]
  /\ UNCHANGED <<db, native, open, player, requests>>

PlaySend ==
  /\ play.step = "dropped" /\ tv.mode # "down"
  /\ commands' = Append(commands, "start")
  /\ play' = Idle
  /\ UNCHANGED <<db, tv, open, session, player, requests>>

\* No player answers within three seconds; a late one still finds the command.
PlayFail ==
  /\ play.step = "dropped"
  /\ \/ tv.mode = "down" /\ UNCHANGED commands
     \/ "timeout" \in setting.faults /\ tv.mode # "down" /\ commands' = Append(commands, "start")
  /\ IF EventOk(db, "tv", play.entry) THEN Commit(Released(db)) ELSE UNCHANGED db
  /\ play' = Idle
  /\ UNCHANGED <<tv, open, session, player, requests>>

-----------------------------------------------------------------------------
(* start_remote_stream, under the stream lock. *)

Live(t) == session.token = t

\* "Watch on this device": the owner is read, the TV told to stop.
OpenByHand ==
  \E t \in setting.browsers, id \in Ids(db) :
    /\ open = Idle /\ player[t] = Unused /\ Request
    /\ db.owner = "tv" => tv.mode # "down"
    /\ open' = [step |-> "select", entry |-> id, token |-> t, from |-> t, auto |-> FALSE]
    /\ commands' = IF db.owner = "tv" THEN Append(commands, "transfer") ELSE commands
    /\ UNCHANGED <<db, tv, play, session, player>>

\* finishMabelQueueDevice opens the next entry by itself; a refusal is only
\* shown in the browser.
OpenNext ==
  \E f, t \in setting.browsers :
    /\ player[f].state = "next" /\ player[t] = Unused /\ open = Idle
    /\ IF Live(f) /\ player[f].entry \in Ids(db) /\ db.owner # "tv"
       THEN /\ open' = [step |-> "select", entry |-> player[f].entry, token |-> t,
                        from |-> f, auto |-> TRUE]
            /\ UNCHANGED player
       ELSE player' = [player EXCEPT ![f].state = "closed"] /\ UNCHANGED open
    /\ UNCHANGED <<db, native, play, session, requests>>

OpenSelect ==
  LET left == IF open.auto THEN [player EXCEPT ![open.from].state = "closed"] ELSE player
  IN /\ open.step = "select"
     /\ IF SelectOk(db, open.entry, open.auto, open.from)
        THEN /\ Commit(Select(db, open.entry, open.token))
             /\ session' = [token |-> open.token, entry |-> open.entry]
             /\ player' = [left EXCEPT ![open.token] =
                             [state |-> "loaded", entry |-> open.entry,
                              prog |-> db.entries[open.entry].prog]]
        ELSE player' = left /\ UNCHANGED <<db, session>>
     /\ open' = Idle
     /\ UNCHANGED <<native, play, requests>>
\* A stream of anything else replaces the one remote viewer and pauses its entry.
OpenOther ==
  /\ open = Idle /\ session # NoSession /\ Request
  /\ IF EventOk(db, session.token, session.entry) THEN Commit(Released(db)) ELSE UNCHANGED db
  /\ session' = NoSession
  /\ UNCHANGED <<native, play, open, player>>

-----------------------------------------------------------------------------
(* The browser player of one stream token. *)

rest == <<native, play, open, session, requests>>

Turn(t, from, to) == player[t].state \in from /\ player' = [player EXCEPT ![t].state = to]

Watching == {"loaded", "playing", "confirmed", "ended", "finished", "next", "failing"}

\* mabel_queue_action: the session first, then the entry's transaction.
Accepted(t) == open = Idle /\ Live(t) /\ EventOk(db, t, player[t].entry)

DevicePlaying(t) == Turn(t, {"loaded"}, "playing") /\ UNCHANGED <<db, rest>>

DeviceStarted(t) ==
  /\ open = Idle
  /\ IF Accepted(t)
     THEN Turn(t, {"playing"}, "confirmed") /\ Commit(Started(db))
     ELSE Turn(t, {"playing"}, "closed") /\ UNCHANGED db
  /\ UNCHANGED rest

DevicePosition(t) ==
  /\ player[t].state \in {"playing", "confirmed"} /\ Accepted(t)
  /\ Commit([db EXCEPT !.position = player[t].prog])
  /\ UNCHANGED <<player, rest>>

DeviceEnded(t) == Turn(t, {"confirmed"}, "ended") /\ UNCHANGED <<db, rest>>

DeviceFinish(t) ==
  /\ open = Idle
  /\ IF Accepted(t) /\ db.phase = "playing"
     THEN Turn(t, {"ended"}, "finished") /\ Commit(Finish(db))
     ELSE Turn(t, {"ended"}, "failing") /\ UNCHANGED db
  /\ UNCHANGED rest

\* The answer to "finish", read in a transaction of its own.
DeviceNext(t) ==
  /\ player[t].state = "finished"
  /\ IF Ids(db) # {} /\ ~db.paused /\ db.owner \in {"free", t}
     THEN player' \in {[player EXCEPT ![t] = [state |-> "next", entry |-> First(db.entries),
                          prog |-> db.entries[First(db.entries)].prog]],
                       [player EXCEPT ![t].state = "failing"]}
     ELSE player' = [player EXCEPT ![t].state = "closed"]
  /\ UNCHANGED <<db, rest>>

\* Event "failed", with whatever entry the browser last saw as the current one.
DeviceFailed(t) ==
  /\ open = Idle
  /\ Turn(t, {"loaded", "playing", "confirmed", "failing"}, "closed")
  /\ IF Live(t) /\ EventOk(db, t, db.current) THEN Commit(Released(db)) ELSE UNCHANGED db
  /\ UNCHANGED rest

\* checkMabelQueuePlayerOwnership, every 2.5 seconds.
Displaced(t) ==
  /\ player[t].state \in {"playing", "confirmed"}
  /\ ~EventOk(db, t, player[t].entry)

\* Polling ends when the start is confirmed.
DevicePollMutant(t) ==
  Displaced(t) /\ Turn(t, {"playing"}, "closed") /\ UNCHANGED <<db, rest>>

DevicePoll(t) == Displaced(t) /\ Turn(t, Watching, "closed") /\ UNCHANGED <<db, rest>>

\* The player is closed and its stream released.
DeviceClose(t) ==
  /\ open = Idle /\ Request
  /\ Turn(t, Watching \cup {"closed"}, "closed")
  /\ IF Live(t) /\ EventOk(db, t, session.entry) THEN Commit(Released(db)) ELSE UNCHANGED db
  /\ session' = IF Live(t) THEN NoSession ELSE session
  /\ UNCHANGED <<native, play, open>>

\* The browser disappears without a release; the session expires on its own.
DeviceLost(t) ==
  /\ "lost" \in setting.faults /\ Request
  /\ Turn(t, Watching, "closed")
  /\ UNCHANGED <<db, native, play, open, session>>

SessionExpires ==
  /\ "lost" \in setting.faults /\ open = Idle /\ session # NoSession
  /\ session' = NoSession
  /\ UNCHANGED <<db, native, play, open, player, requests>>

-----------------------------------------------------------------------------
(* What a parent changes in the portal. *)

PortalEdit == Request /\ (ServiceChange \/ PlaylistCopy) /\ UNCHANGED <<native, service>>

Native ==
  \/ TvFailRefused \/ TvStart \/ TvPendingStart \/ TvTransfer \/ TvWake
  \/ TvFinishTune \/ TvPlaying \/ TvPosition \/ TvEnded \/ TvFailed \/ TvNext
  \/ TvPrevious \/ TvTune \/ TvStandby \/ TvSwitchOn \/ TvEnterMyTv \/ TvLeaveMyTv
  \/ TvRetune \/ TvCrash \/ TvRestart

Service ==
  \/ PlayOnTv \/ PlaySelect \/ PlayDropSession \/ PlaySend \/ PlayFail
  \/ OpenByHand \/ OpenNext \/ OpenSelect \/ OpenOther \/ SessionExpires \/ PortalEdit

Browser(t) ==
  \/ DevicePlaying(t) \/ DeviceStarted(t) \/ DevicePosition(t) \/ DeviceEnded(t)
  \/ DeviceFinish(t) \/ DeviceNext(t) \/ DeviceFailed(t) \/ DevicePoll(t)
  \/ DeviceClose(t) \/ DeviceLost(t)

PlaybackNext == UNCHANGED setting /\ (Native \/ Service \/ \E t \in Device : Browser(t))

PlaybackSpec == PlaybackInit /\ [][PlaybackNext]_vars

\* The event loop runs what is due and the decoder plays or fails; a request
\* thread runs on; a browser sends what it owes and polls.  Nobody has to press
\* a key, a programme need not end and positions need not be saved.
Fairness ==
  /\ WF_moving(TvFailRefused) /\ WF_moving(TvStart \/ TvTransfer \/ TvWake)
  /\ WF_moving(TvPendingStart) /\ WF_moving(TvFinishTune)
  /\ WF_moving(tv.video = "loading" /\ (TvPlaying \/ TvFailed))
  /\ WF_moving(TvRestart)
  /\ WF_moving(PlaySelect \/ PlayDropSession \/ PlaySend \/ PlayFail)
  /\ WF_moving(OpenSelect) /\ WF_moving(OpenNext)
  /\ \A t \in Device :
       WF_moving(DeviceStarted(t) \/ DeviceFinish(t) \/ DeviceNext(t) \/ DevicePoll(t))

FairPlaybackSpec == PlaybackSpec /\ Fairness
-----------------------------------------------------------------------------
(* Properties. *)

\* The composition is a client of the store: its every step is one of the
\* store's transactions or leaves the queue alone, whatever the interleaving of
\* event loop, request threads and browsers.
ImplementsStore == StoreSpec

\* Neither a retune during the tuning delay nor a crash of the player: both
\* leave the queue naming a programme that is not on the screen.
Undisturbed == setting.faults \cap {"retune", "crash"} = {}

Named(d) == d.current \in Ids(d)
CurrentProgramme == db.entries[db.current].prog

\* A resume point stored with the current entry was measured while its own
\* programme was on the screen of the player that owns it: late samples of a
\* replaced programme or of a displaced player are never stored.
ResumePointIsOwn ==
  Undisturbed /\ db.position # NoProgramme /\ Named(db) => db.position = CurrentProgramme

\* A queue marked "playing" was confirmed by the player that owns it, for this
\* very entry: no Playing signal of another programme and no event of another
\* stream confirms a start reservation.
PlayingIsConfirmed ==
  Undisturbed /\ db.phase = "playing" /\ Named(db) =>
    \/ db.owner = "tv" /\ tv.prog = CurrentProgramme
    \/ /\ db.owner \in Device /\ player[db.owner].entry = db.current
       /\ player[db.owner].state \notin {"unused", "loaded"}

\* An entry goes to the history only when its owner has its programme on the
\* screen: the end of another programme, or of a stream that lost the queue,
\* never takes an entry away.
ConsumeOnlyOnScreen ==
  [][Undisturbed => \A i \in Ids(db) :
       (\E k \in DOMAIN db'.history : db'.history[k].id = i) =>
         \/ db.owner = "tv" /\ OnScreen /\ tv.prog = db.entries[i].prog
         \/ /\ db.owner \in Device /\ player[db.owner].entry = i
            /\ player[db.owner].state = "ended"]_vars

\* A confirmed player loses the queue to another one only when somebody asked
\* for it: neither the TV's own advance, nor the automatic next entry of a
\* browser, nor a stream whose request was overtaken takes it over.
PlayingIsTakenByHand ==
  [][db.phase = "playing" /\ db'.owner \notin {"free", db.owner} =>
       play.step = "chosen" \/ (open.step = "select" /\ ~open.auto)]_vars

\* Nothing the queue owns is finished, or taken over, behind its player's back.
OwnerIsRespected == ConsumeOnlyOnScreen /\ PlayingIsTakenByHand

\* A start reservation of the TV leads to playback, to a released queue or to
\* another owner, while the TV stays in its child mode: whatever fails between
\* the reservation and the picture gives the queue back.  Only a transfer that
\* silences the TV and is then refused leaves the entry loaded and waiting.
Reserved == Undisturbed /\ db.owner = "tv" /\ db.phase = "starting" /\ tv.mode = "mabel"
Silenced == tv.video = "stopped" /\ tv.item = db.current

TvStartResolves == Reserved ~> ~Reserved \/ Silenced

\* A browser that plays an entry it no longer owns stops by itself.
DisplacedPlayerStops == \A t \in Device : Displaced(t) ~> ~Displaced(t)
=============================================================================
