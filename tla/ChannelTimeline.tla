--------------------------- MODULE ChannelTimeline ---------------------------
(* What the player remembers of ONE channel (ChannelRuntime, TvController.h)  *)
(* and what it makes of it: which programme is on, where it starts, and what  *)
(* is kept when the viewer leaves, the TV sleeps or the process restarts.     *)
(*                                                                            *)
(* Time is relative: rt.idle is the time since the channel's                  *)
(* anchorMilliseconds, rt.left[i] the uptime since programme i was left.  One *)
(* unit is far longer than the 450 ms of tuning; the 50 ms that               *)
(* clampPlaybackPosition keeps before the end are one unit.  The channel      *)
(* stays enabled and the Up Next queue does not own the player.               *)
EXTENDS ShuffleBag, FiniteSetsExt

CONSTANTS
  Duration,     \* durationSeconds of each programme, 0 when unknown
  MinSlot,      \* the shortest slot of the guide, a minute
  Settings      \* the settings to explore; a behaviour keeps the one it begins with

Interruptions == {"retune", "portal", "hide", "fail", "mode", "pause", "myTv",
                  "exit", "exitAsleep", "watchdog", "reload"}

(* guide: m_tvGuideEnabled; films: the channel's contentType is "films"; mode: *)
(* m_playbackMode at the start; resetAfter: m_episodeResetMinutes, 0 is off;  *)
(* maxPosition: bound of a position, where time stops; maxAway: bound of the  *)
(* time the process is down; history: is what was seen recorded; events: the  *)
(* interruptions that may happen.                                             *)
Setting == [guide : BOOLEAN, films : BOOLEAN, mode : {"continuous", "resume"},
            resetAfter : Nat, maxPosition : Nat, maxAway : Nat, history : BOOLEAN,
            events : SUBSET Interruptions]

ASSUME ConstantsAssumption ==
  /\ Duration \in [Items -> Nat]
  /\ MinSlot \in Nat
  /\ Settings \subseteq Setting

VARIABLE setting
Guide       == setting.guide
ResetAfter  == setting.resetAfter
MaxPosition == setting.maxPosition
MaxAway     == setting.maxAway
Events      == setting.events

VARIABLES
  rt,       \* the ChannelRuntime
  tuned,    \* m_currentChannelIndex is this channel
  standby,  \* m_standby
  picture,  \* "tuning" (m_tuning), "noSignal" (m_noSignal), "playing", "stopped"
  paused,   \* m_playbackPaused
  mode,     \* m_playbackMode
  real,     \* the position of the picture on the screen
  seen,     \* history: where each programme was last seen, and how long ago
  asked     \* history: the programme chosen - by a key, by name in the portal, by the
            \* end of the one before it - while it tunes

timelineVars == <<setting, rt, tuned, standby, picture, paused, mode, real, seen, asked>>

-----------------------------------------------------------------------------
(* Choosing a programme *)

Usable(r) == Items \ (r.failed \cup r.disabled)

IsUsable(r, i) == i \in Usable(r)

(* Plausible bug: the search stops before it is back where it began. *)
NextUsableMutant(r, from) ==
  LET after(k) == (from + k) % ItemCount
      steps    == {k \in 1..(ItemCount - 1) : after(k) \in Usable(r)}
  IN  IF steps = {} THEN Nothing ELSE after(Min(steps))

NextUsable(r, from) ==
  LET after(k) == (from + k) % ItemCount
      steps    == {k \in 1..ItemCount : IsUsable(r, after(k))}
  IN  IF steps = {} THEN Nothing ELSE after(Min(steps))

PreviousUsable(r, from) ==
  LET before(k) == (from - k + ItemCount) % ItemCount
      steps     == {k \in 1..ItemCount : IsUsable(r, before(k))}
  IN  IF steps = {} THEN Nothing ELSE before(Min(steps))

AdjacentUsable(r, direction) ==
  IF direction = 1 THEN NextUsable(r, r.current)
  ELSE PreviousUsable(r, IF r.current = Nothing THEN 0 ELSE r.current)

(* takeUsableEpisode: filename order with the guide, the shuffle bag without. *)
TakeUsable(r) ==
  IF Guide THEN {[r EXCEPT !.current = NextUsable(r, r.current)]}
  ELSE {[r EXCEPT !.current = t.item, !.bag = t.bag] : t \in TakeUntil(r.bag, Usable(r))}

-----------------------------------------------------------------------------
(* The timeline's bookkeeping *)

(* The loop that adds up the lengths of some of the channel's programmes.     *)
TotalDuration(programmes) ==
  LET sum[k \in 0..ItemCount] ==
        IF k = 0 THEN 0 ELSE sum[k - 1] + IF k - 1 \in programmes THEN Duration[k - 1] ELSE 0
  IN  sum[ItemCount]

Sanitised(r, i, position) ==
  IF IsUsable(r, i) /\ Duration[i] > 0 /\ position >= Duration[i] THEN 0 ELSE position

Clamped(r, i, position) ==
  IF IsUsable(r, i) /\ Duration[i] > 0 THEN Min({position, Duration[i] - 1}) ELSE position

(* Plausible bug: the anchor's time is not moved with its position. *)
StoredAtMutant(r, position) ==
  [r EXCEPT !.anchor = position,
            !.stored = IF r.current = Nothing THEN @ ELSE [@ EXCEPT ![r.current] = position]]

StoredAt(r, position) ==
  [r EXCEPT !.anchor = position, !.idle = 0,
            !.stored = IF r.current = Nothing THEN @ ELSE [@ EXCEPT ![r.current] = position]]

(* Plausible bug: the anchor is moved but the programme's own position kept. *)
FreezeMutant(r) ==
  [r EXCEPT !.anchor = IF paused /\ tuned THEN @ ELSE @ + r.idle, !.idle = 0]

Freeze(r) == StoredAt(r, IF paused /\ tuned THEN r.anchor ELSE r.anchor + r.idle)

MarkLeft(r) == IF IsUsable(r, r.current) THEN [r EXCEPT !.left[r.current] = 0] ELSE r

(* Plausible bug: the inactivity clock runs on while the programme is visited. *)
PrepareMutant(r) ==
  IF ~IsUsable(r, r.current) THEN r
  ELSE LET expired == /\ mode = "resume" /\ ~r.films
                      /\ ResetAfter > 0 /\ r.left[r.current] >= ResetAfter
       IN  [r EXCEPT !.stored[r.current] = IF expired THEN 0 ELSE @,
                     !.anchor            = IF expired THEN 0 ELSE @]

Prepare(r) ==
  IF ~IsUsable(r, r.current) THEN r
  ELSE LET expired == /\ mode = "resume" /\ ~r.films
                      /\ ResetAfter > 0 /\ r.left[r.current] >= ResetAfter
       IN  [r EXCEPT !.stored[r.current] = IF expired THEN 0 ELSE @,
                     !.anchor            = IF expired THEN 0 ELSE @,
                     !.left[r.current]   = -1]

AtStored(r) ==
  [r EXCEPT !.idle = 0, !.anchor = IF r.current = Nothing THEN 0 ELSE r.stored[r.current]]

(* The three lines that follow every choice of a programme. *)
Visit(r) == AtStored(Prepare(r))

TakeNext(r) == {Visit(q) : q \in TakeUsable(r)}

(* updatePlaybackPosition: the picture tells the timeline where it is. *)
Reported(r) == StoredAt(r, Clamped(r, r.current, real))

-----------------------------------------------------------------------------
(* resolveBroadcastPosition: the programme that is on and, in its anchor, where *)

RoundDuration(r) == TotalDuration(Usable(r))

(* The position of an episode index of -1 is undefined: what the code reads   *)
(* there ends the walk, with the position kept or zero.                       *)
WalkStep(w) ==
  IF w.done THEN {w}
  ELSE IF w.rt.current = Nothing
    THEN {[w EXCEPT !.done = TRUE], [w EXCEPT !.done = TRUE, !.position = 0]}
  ELSE IF Duration[w.rt.current] = 0 THEN {[w EXCEPT !.done = TRUE, !.position = 0]}
  ELSE IF w.position < Duration[w.rt.current] THEN {[w EXCEPT !.done = TRUE]}
  ELSE {IF q.current = Nothing
        THEN [rt |-> q, position |-> 0, done |-> TRUE]
        ELSE [rt |-> Prepare(q), position |-> w.position - Duration[w.rt.current], done |-> FALSE] :
          q \in TakeUsable(MarkLeft(w.rt))}

(* Plausible bug: a single whole round is collapsed too. *)
CollapsedSoonMutant(r) ==
  LET round    == RoundDuration(r)
      position == r.anchor + r.idle
  IN  IF round > 0 /\ position >= round
      THEN {[rt |-> Prepare(q), position |-> position % round, done |-> FALSE] :
              q \in TakeUsable(MarkLeft(r))}
      ELSE {[rt |-> r, position |-> position, done |-> FALSE]}

Collapsed(r) ==
  LET round    == RoundDuration(r)
      position == r.anchor + r.idle
  IN  IF round > 0 /\ position >= 2 * round
      THEN {[rt |-> Prepare(q), position |-> position % round, done |-> FALSE] :
              q \in TakeUsable(MarkLeft(r))}
      ELSE {[rt |-> r, position |-> position, done |-> FALSE]}

Walked(r) ==
  LET walk[k \in 0..Max({1, 2 * ItemCount})] ==
        IF k = 0 THEN Collapsed(r) ELSE UNION {WalkStep(w) : w \in walk[k - 1]}
  IN  walk[Max({1, 2 * ItemCount})]

Resumed(r) == StoredAt(r, Sanitised(r, r.current, r.anchor))

(* Plausible bug: resume mode walks on into the next file too. *)
ResolvedMutant(r) ==
  LET chosen == IF IsUsable(r, r.current) THEN {r} ELSE TakeNext(r)
  IN  UNION {IF q.current = Nothing THEN {q}
             ELSE {StoredAt(w.rt, w.position) : w \in Walked(q)} : q \in chosen}

Resolved(r) ==
  LET chosen == IF IsUsable(r, r.current) THEN {r} ELSE TakeNext(r)
  IN  UNION {IF q.current = Nothing THEN {q}
             ELSE IF mode = "resume" THEN {Resumed(q)}
             ELSE {StoredAt(w.rt, w.position) : w \in Walked(q)} : q \in chosen}

(* guideSchedule: what the guide says is on now. *)
GuideSlot(i) == Max({MinSlot, Duration[i]})

GuideNow(r) ==
  LET first == IF IsUsable(r, r.current) THEN r.current ELSE NextUsable(r, Nothing)
      moves == mode = "continuous" \/ (tuned /\ ~paused)
      at    == r.anchor + IF moves THEN r.idle ELSE 0
      slot[k \in 0..Max({1, 3 * ItemCount})] ==
        IF k = 0 THEN [on |-> first, at |-> at]
        ELSE LET s == slot[k - 1]
             IN  IF s.on = Nothing THEN s
                 ELSE IF s.at < GuideSlot(s.on) THEN s
                 ELSE [on |-> NextUsable(r, s.on), at |-> s.at - GuideSlot(s.on)]
  IN  slot[Max({1, 3 * ItemCount})].on

-----------------------------------------------------------------------------
(* saveState and loadState *)

SavedPosition(r) ==
  IF mode = "continuous" \/ (tuned /\ ~paused) THEN r.anchor + r.idle ELSE r.anchor

Capped(age) == IF age = -1 THEN -1 ELSE Min({age, ResetAfter})

Fresh(films) ==
  [films |-> films, bag |-> EmptyBag, current |-> Nothing, failed |-> {}, disabled |-> {},
   stored |-> [i \in Items |-> 0], anchor |-> 0, idle |-> 0, left |-> [i \in Items |-> -1]]

(* seedTimeline: a channel whose programme is not known takes one; in         *)
(* continuous mode the wall clock decides where the broadcast is.             *)
Seeded(r) ==
  LET total == TotalDuration(Items \ r.disabled)
  IN  UNION {LET on == AtStored(q)
             IN  IF mode = "continuous" /\ total > 0
                 THEN {[on EXCEPT !.anchor = clock] : clock \in 0..(total - 1)}
                 ELSE {on} : q \in TakeUsable(r)}

(* What a new process, or a reloaded library, makes of the saved timeline     *)
(* when `away` has passed since; `sameBoot` is sameUptimeSession.             *)
Loaded(r, away, sameBoot) ==
  LET position == SavedPosition(r)
      offline  == IF mode = "continuous" THEN away ELSE 0
      saved    == [i \in Items |-> IF i = r.current THEN position ELSE r.stored[i]]
      empty    == [r EXCEPT !.bag = EmptyBag, !.current = Nothing, !.anchor = 0, !.idle = 0,
                            !.stored = [i \in Items |-> Sanitised(r, i, saved[i])],
                            !.left = [i \in Items |->
                               IF ~sameBoot \/ r.left[i] = -1 THEN -1 ELSE Capped(r.left[i] + away)]]
  IN  IF IsUsable(r, r.current)
      THEN {StoredAt([empty EXCEPT !.current = r.current, !.bag = t.bag],
                     Sanitised(r, r.current, position + offline)) :
              t \in TakeUntil(EmptyBag, {r.current})}
      ELSE Seeded(empty)

-----------------------------------------------------------------------------
(* Tuning.  requestTune ends every choice: the old picture stops and the      *)
(* tuning timer runs.                                                         *)

Watching == tuned /\ ~standby /\ picture # "stopped"

TuneTo(r) ==
  /\ rt' = IF mode = "resume" THEN [r EXCEPT !.idle = 0] ELSE r
  /\ tuned' = TRUE /\ paused' = FALSE
  /\ picture' = "tuning" /\ real' = 0

Stop ==
  /\ picture' = "stopped" /\ real' = 0 /\ paused' = FALSE

SeenNow(history) == seen' = IF setting.history THEN history ELSE seen

ByRemote == UNCHANGED <<standby, mode, seen>> /\ asked' = Nothing

Chosen == UNCHANGED <<standby, mode, seen>> /\ asked' = rt'.current

FinishTune ==
  /\ picture = "tuning"
  /\ \E r \in Resolved(IF mode = "resume" THEN [rt EXCEPT !.idle = 0] ELSE rt) :
       /\ rt' = r
       /\ IF IsUsable(r, r.current)
          THEN /\ picture' = "playing" /\ real' = r.anchor
               /\ SeenNow([seen EXCEPT ![r.current] = [at |-> r.anchor, ago |-> 0]])
          ELSE picture' = "noSignal" /\ UNCHANGED <<real, seen>>
  /\ asked' = Nothing
  /\ UNCHANGED <<tuned, standby, paused, mode>>

(* Another channel is tuned, then this one again. *)
LeaveChannel ==
  /\ Watching
  /\ rt' = MarkLeft(IF mode = "resume" THEN Freeze(rt) ELSE rt)
  /\ tuned' = FALSE /\ Stop /\ ByRemote

ReturnToChannel == ~tuned /\ ~standby /\ TuneTo(Prepare(rt)) /\ ByRemote

(* The channel's own number, or its row in the guide. *)
RetuneChannel == "retune" \in Events /\ Watching /\ TuneTo(rt) /\ ByRemote

ChangeProgramme ==
  /\ Watching
  /\ \E direction \in {1, -1} :
       LET r    == MarkLeft(Freeze(rt))
           next == AdjacentUsable(r, direction)
       IN  IF next = Nothing
           THEN rt' = r /\ UNCHANGED <<tuned, picture, paused, real>>
           ELSE TuneTo(Visit([r EXCEPT !.current = next]))
  /\ Chosen

RandomEpisode ==
  /\ Watching
  /\ \E r \in TakeNext(MarkLeft(Freeze(rt))) : TuneTo(r)
  /\ Chosen

RestartProgramme ==
  /\ Watching /\ IsUsable(rt, rt.current)
  /\ TuneTo([StoredAt(rt, 0) EXCEPT !.left[rt.current] = -1])
  /\ SeenNow([seen EXCEPT ![rt.current].at = 0])
  /\ asked' = Nothing /\ UNCHANGED <<standby, mode>>

(* A parent picks a programme of this channel in the portal. *)
PlayPortalProgramme ==
  /\ "portal" \in Events /\ ~standby /\ (tuned => Watching)
  /\ \E i \in Items, bookmark \in 0..(IF rt.films THEN MaxPosition ELSE 0) :
       LET r  == [rt EXCEPT !.failed = @ \ {i}, !.current = i]
           at == IF rt.films THEN Clamped(r, i, bookmark) ELSE 0
       IN  /\ rt' = StoredAt(r, at)
           /\ SeenNow([seen EXCEPT ![i].at = at])
           /\ asked' = i
  /\ tuned' = TRUE /\ picture' = "tuning" /\ real' = 0 /\ paused' = FALSE
  /\ UNCHANGED <<standby, mode>>

(* A parent hides a programme, or shows it again. *)
ToggleProgramme ==
  /\ "hide" \in Events /\ ~standby /\ (tuned => Watching)
  /\ \E i \in Items :
       LET enabling == i \in rt.disabled
           r  == [rt EXCEPT !.disabled = IF enabling THEN @ \ {i} ELSE @ \cup {i}]
           on == ~enabling /\ rt.current = i
           q  == IF on THEN MarkLeft(Freeze(r)) ELSE r
       IN  IF tuned /\ (on \/ picture = "noSignal")
           THEN \E next \in IF enabling THEN {[q EXCEPT !.current = i]} ELSE TakeUsable(q) :
                  TuneTo(Visit(next))
           ELSE rt' = r /\ UNCHANGED <<tuned, picture, paused, real>>
  /\ ByRemote

-----------------------------------------------------------------------------
(* The decoder and the remote's pause *)

PlaybackEnded ==
  /\ picture = "playing" /\ ~paused
  /\ Duration[rt.current] > 0 => real >= Duration[rt.current]
  /\ \E r \in TakeNext(MarkLeft(Freeze(rt))) : TuneTo(r)
  /\ Chosen

PlaybackFailed ==
  /\ "fail" \in Events /\ picture = "playing"
  /\ LET r == [MarkLeft(rt) EXCEPT !.failed = @ \cup {rt.current}]
     IN  \E q \in TakeUsable(r) :
           IF q.current = Nothing
           THEN /\ rt' = [q EXCEPT !.current = r.current]
                /\ picture' = "noSignal" /\ real' = 0
                /\ UNCHANGED <<tuned, paused>>
           ELSE TuneTo(Visit(q))
  /\ ByRemote

ReportPosition ==
  /\ picture = "playing"
  /\ rt' = Reported(rt)
  /\ UNCHANGED <<tuned, standby, picture, paused, mode, real, seen, asked>>

TogglePause ==
  /\ "pause" \in Events /\ picture = "playing"
  /\ rt' = Reported(rt) /\ paused' = ~paused
  /\ UNCHANGED <<tuned, standby, picture, mode, real, seen, asked>>

CyclePlaybackMode ==
  /\ "mode" \in Events
  /\ rt' = Freeze(rt)
  /\ mode' = IF mode = "resume" THEN "continuous" ELSE "resume"
  /\ UNCHANGED <<tuned, standby, picture, paused, real, seen, asked>>

-----------------------------------------------------------------------------
(* Standby, My TV mode and the process *)

TurnOff ==
  /\ Watching
  /\ rt' = MarkLeft(Freeze(rt))
  /\ standby' = TRUE /\ Stop
  /\ asked' = Nothing /\ UNCHANGED <<tuned, mode, seen>>

TurnOn ==
  /\ standby /\ standby' = FALSE
  /\ UNCHANGED <<rt, tuned, picture, paused, mode, real, seen, asked>>

EnterMyTv ==
  /\ "myTv" \in Events /\ picture = "playing"
  /\ rt' = Reported(rt)
  /\ picture' = "stopped" /\ real' = 0
  /\ UNCHANGED <<tuned, standby, paused, mode, seen, asked>>

(* After the welcome film, or when My TV mode closes. *)
ResumePicture ==
  /\ tuned /\ ~standby /\ picture = "stopped"
  /\ TuneTo([Prepare(rt) EXCEPT !.idle = 0])
  /\ ByRemote

(* A process that ended in order starts again: TvController's destructor      *)
(* saves, initialize loads and start() tunes the saved channel.               *)
StartedAgain(r, away, sameBoot) ==
  /\ \E q \in Loaded(r, away, sameBoot) :
       IF tuned THEN TuneTo(Prepare(q))
       ELSE rt' = q /\ paused' = FALSE /\ UNCHANGED <<tuned, picture, real>>
  /\ SeenNow([i \in Items |-> [seen[i] EXCEPT !.ago = Capped(@ + away)]])
  /\ standby' = FALSE /\ asked' = Nothing /\ UNCHANGED mode

RestartProcess ==
  /\ \/ "exit" \in Events /\ picture # "stopped"
     \/ "exitAsleep" \in Events /\ picture = "stopped"
  /\ \E away \in 0..MaxAway, sameBoot \in BOOLEAN : StartedAgain(rt, away, sameBoot)

(* The frame watchdog moves on to the next programme and restarts the process. *)
WatchdogRestart ==
  /\ "watchdog" \in Events /\ picture = "playing" /\ ~paused
  /\ LET r == MarkLeft(rt)
     IN  StartedAgain(Visit([r EXCEPT !.current = AdjacentUsable(r, 1)]), 0, TRUE)

(* A scan of the library finished: every runtime is rebuilt from the saved    *)
(* state; the active programme is kept on the screen, a pending tune is not.  *)
ReloadLibrary ==
  /\ "reload" \in Events
  /\ \E q \in Loaded(rt, 0, TRUE) :
       IF tuned /\ ~standby /\ rt.current # Nothing
       THEN /\ rt' = [q EXCEPT !.current = rt.current]
            /\ picture' = IF picture \in {"playing", "stopped"} THEN picture ELSE "black"
            /\ UNCHANGED <<tuned, paused, real>>
       ELSE IF tuned /\ ~standby THEN TuneTo(Prepare(q))
       ELSE rt' = q /\ tuned' = FALSE /\ UNCHANGED <<picture, paused, real>>
  /\ asked' = Nothing
  /\ UNCHANGED <<standby, mode, seen>>

-----------------------------------------------------------------------------
(* Time.  It stops at the bound, and at the end of a file until the decoder   *)
(* says so.                                                                   *)
OnScreen(i) == picture = "playing" /\ rt.current = i

Tick ==
  /\ picture # "tuning"
  /\ rt.anchor + rt.idle < MaxPosition
  /\ picture = "playing" /\ ~paused =>
       real < IF Duration[rt.current] > 0 THEN Duration[rt.current] ELSE MaxPosition
  /\ real' = IF picture = "playing" /\ ~paused THEN real + 1 ELSE real
  /\ rt' = [rt EXCEPT !.idle = @ + 1,
                      !.left = [i \in Items |-> IF @[i] = -1 THEN -1 ELSE Capped(@[i] + 1)]]
  /\ SeenNow([i \in Items |->
       IF OnScreen(i) THEN [at |-> real', ago |-> 0] ELSE [seen[i] EXCEPT !.ago = Capped(@ + 1)]])
  /\ UNCHANGED <<tuned, standby, picture, paused, mode, asked>>

TimelineInit ==
  /\ setting \in Settings
  /\ mode = setting.mode
  /\ tuned = TRUE /\ standby = FALSE /\ paused = FALSE
  /\ picture = "tuning" /\ real = 0
  /\ asked = Nothing
  /\ \E r \in Seeded(Fresh(setting.films)) : rt = Prepare(r)
  /\ seen = [i \in Items |-> [at |-> 0, ago |-> 0]]

TimelineNext ==
  /\ UNCHANGED setting
  /\ \/ FinishTune \/ LeaveChannel \/ ReturnToChannel \/ RetuneChannel
    \/ ChangeProgramme \/ RandomEpisode \/ RestartProgramme
    \/ PlayPortalProgramme \/ ToggleProgramme
    \/ PlaybackEnded \/ PlaybackFailed \/ ReportPosition \/ TogglePause \/ CyclePlaybackMode
    \/ TurnOff \/ TurnOn \/ EnterMyTv \/ ResumePicture
    \/ RestartProcess \/ WatchdogRestart \/ ReloadLibrary
    \/ Tick

TimelineSpec == TimelineInit /\ [][TimelineNext]_timelineVars

-----------------------------------------------------------------------------
Requests == picture = "tuning" /\ picture' = "playing"

(* "No signal" is shown only when the channel has no programme left to play.  *)
(* A shuffled bag that is refilled halfway may draw past what is left, but    *)
(* only in a channel of three programmes or more, of which at least half      *)
(* cannot be played.                                                          *)
NoSignalMeansNothingUsable ==
  picture = "noSignal" =>
    \/ Usable(rt) = {}
    \/ ~Guide /\ ItemCount > 2 /\ Cardinality(Usable(rt)) <= Cardinality(Items \ Usable(rt))

(* In resume mode a programme starts where the viewer last saw it, whatever   *)
(* happened in between; one seen to its end starts over (or shows the last    *)
(* 50 ms), and a show left alone long enough starts over too.                 *)
ResumesWhereLeft ==
  [][Requests /\ mode = "resume" /\ setting.history =>
       LET i == rt'.current
       IN  \/ real' = seen[i].at
           \/ Duration[i] > 0 /\ seen[i].at >= Duration[i] /\ real' \in {0, Duration[i] - 1}
           \/ ~rt.films /\ ResetAfter > 0 /\ seen[i].ago >= ResetAfter /\ real' = 0]_timelineVars

(* A partly watched programme loses its position only by an explicit restart  *)
(* or after it was away from the screen for the whole interval.               *)
ResetOnlyAfterAbsence ==
  [][\A i \in Items :
       /\ setting.history /\ rt.stored[i] > 0 /\ rt'.stored[i] = 0
       /\ Duration[i] > 0 => seen[i].at < Duration[i]
       => \/ seen'[i].at = 0
          \/ ~rt.films /\ ResetAfter > 0 /\ seen[i].ago >= ResetAfter]_timelineVars

(* In resume mode the programme just chosen - by the viewer, or because the one before it    *)
(* ended - is the one that plays.                                             *)
ChoiceIsPlayed ==
  [][setting.mode = "resume" /\ Requests /\ asked # Nothing => rt'.current = asked]_timelineVars

(* The guide gives a programme a minute at least, what is played is as long   *)
(* as it is: of a shorter one, or one of unknown length, the two say          *)
(* different things (TvController.cpp:604).                                   *)
FillsItsSlot(i) == Duration[i] >= MinSlot

(* Tuning a channel in continuous mode shows what the guide says is on now    *)
(* (docs/media-library.md:113-115), while no programme is shorter than its    *)
(* slot and for two rounds of the channel's programmes: beyond, the two       *)
(* computations of the code part.                                             *)
GuideIsTrueSoon ==
  [][/\ Requests /\ Guide /\ mode = "continuous"
     /\ \A i \in Usable(rt) : FillsItsSlot(i)
     /\ IsUsable(rt, rt.current) /\ rt.anchor + rt.idle < 2 * RoundDuration(rt)
     => rt'.current = GuideNow(rt)]_timelineVars

(* The timeline is neither ahead of nor behind the picture: a position saved  *)
(* at any moment is the one on the screen.  At the end of a file it is the    *)
(* unit that clampPlaybackPosition keeps before the end, or the beginning     *)
(* when the library is read again just then.                                  *)
EstimateIsPicture ==
  picture = "playing" /\ ~paused =>
    \/ rt.anchor + rt.idle = real
    \/ /\ Duration[rt.current] > 0 /\ real >= Duration[rt.current]
       /\ rt.anchor + rt.idle \in {0, Duration[rt.current] - 1}

(* Neither a picture nor its absence is a mistake: the position the TV counts *)
(* on while it plays is the decoder's, and "no signal" is shown only when     *)
(* nothing in the channel can be played or a shuffled order runs past it.     *)
PictureIsTrue == EstimateIsPicture /\ NoSignalMeansNothingUsable
=============================================================================
