---------------------------- MODULE RemotePlayer ----------------------------
(* The player for films, episodes, USB files and downloads on a phone         *)
(* (portal/js/playback/players.js, stream-recovery.js) and the one stream the *)
(* Pi keeps for remote viewing (mabeltv_backend/remote.py).                   *)
(*                                                                            *)
(* Each start, recovery and end of an episode is a call that awaits the Pi or *)
(* the phone's database; the owner goes on meanwhile.  A call knows its       *)
(* player by the generation in which it began.                                *)
EXTENDS Naturals, Sequences

CONSTANTS
  Film,        \* titles without a next one
  Episode,     \* the episodes of one series, in order
  Download,    \* titles kept on the phone
  Call,        \* calls that can be under way at once
  MaxStarts,   \* bound on the generations of the player
  MaxStreams,  \* bound on the streams the Pi starts
  MaxStreamFaults  \* bound on lost replies, media errors and other viewers

VARIABLES
  player,      \* the shell, its generation, the session, what the video plays
  call,        \* [Call -> the call under way]
  stream,      \* the Pi: the stream it serves, or none
  release,     \* the streams whose release is on its way to the Pi
  events,      \* streams started so far, and faults
  asked,       \* ghost: what may play since the owner last acted
  belated,     \* ghost: what else may, because the permission for an earlier
               \* tap came when the owner had gone on
  orphans      \* ghost: streams whose start or release was lost, or that a
               \* recovery replaced although the Pi still served them

playerVars == <<player, call, stream, release, events, asked, belated, orphans>>

Series == {Episode[k] : k \in DOMAIN Episode}
Title == Film \cup Series \cup Download

(* A series names each of its episodes once.                                  *)
ASSUME TitleAssumption ==
  /\ Episode \in Seq(Series)
  /\ \A j, k \in DOMAIN Episode : Episode[j] = Episode[k] => j = k
  /\ "nothing" \notin Title

NoStream == 0
Nothing == "nothing"
Idle == [at |-> "rest", for |-> "start", title |-> Nothing, generation |-> 0, stream |-> NoStream, saved |-> FALSE]
Shut == [open |-> FALSE, generation |-> 0, title |-> Nothing, session |-> NoStream, source |-> Nothing,
         recovering |-> "no", ended |-> "no"]

Numbered(t) == CHOOSE k \in DOMAIN Episode : Episode[k] = t
Following(t) == IF t \in Series THEN {Episode[k] : k \in (Numbered(t) + 1)..Len(Episode)} ELSE {}
Held == {player.session} \ {NoStream}
Faulty == events.faults < MaxStreamFaults /\ events' = [events EXCEPT !.faults = @ + 1]
Ends(c) == call' = [call EXCEPT ![c] = Idle]
-----------------------------------------------------------------------------
(* openRemotePlayer asks first that the television may play on; a tap on a    *)
(* card, so no player is open.                                                *)
Tap(c, t) ==
  /\ ~player.open /\ call[c].at = "rest"
  /\ call' = [call EXCEPT ![c] = [Idle EXCEPT !.at = "permit", !.title = t]]
  /\ asked' = {t} \cup Following(t)
  /\ UNCHANGED <<player, stream, release, events, belated, orphans>>

(* The beginning of startIosRemotePlayer and startOfflinePlayer: the session  *)
(* before is let go, its video paused and its handlers taken off, and what is *)
(* under way belongs to the past.                                             *)
Starts(c, t) ==
  /\ player.generation < MaxStarts
  /\ player' = [player EXCEPT !.open = TRUE, !.generation = @ + 1, !.title = t,
                  !.session = NoStream, !.source = Nothing, !.recovering = "no", !.ended = "no"]
  /\ release' = release \cup Held
  /\ call' = [call EXCEPT ![c] = [Idle EXCEPT !.at = IF t \in Download THEN "checkpoint" ELSE "asked",
                                    !.title = t, !.generation = player.generation + 1]]

(* The permission belongs to no generation: when it comes late it opens its   *)
(* title over another one, or a player that was closed.                       *)
Permit(c) ==
  /\ call[c].at = "permit"
  /\ Starts(c, call[c].title)
  /\ belated' = ({call[c].title} \cup Following(call[c].title)) \ asked
  /\ UNCHANGED <<stream, events, asked, orphans>>

(* start_remote_stream: the new stream replaces whatever the Pi served.       *)
PiStarts(c) ==
  /\ call[c].at = "asked" /\ events.streams < MaxStreams
  /\ events' = [events EXCEPT !.streams = @ + 1]
  /\ stream' = events.streams + 1
  /\ call' = [call EXCEPT ![c].at = "answered", ![c].stream = events.streams + 1]
  /\ UNCHANGED <<player, release, asked, belated, orphans>>

(* Plausible bug: the answer is used whatever has happened since.             *)
CurrentMutant(c) == player.open

(* generation, and for a recovery current() of stream-recovery.js.            *)
Current(c) == call[c].generation = player.generation

(* The answer.  A call of the past gives its stream back.                     *)
Answered(c) ==
  /\ call[c].at = "answered"
  /\ IF ~Current(c)
       THEN release' = release \cup {call[c].stream} /\ Ends(c) /\ UNCHANGED <<player, orphans>>
     ELSE IF call[c].for = "recover"
       THEN /\ player' = [player EXCEPT !.session = call[c].stream, !.source = player.title,
                             !.recovering = IF @ = "no" THEN @ ELSE "loading"]
            /\ orphans' = orphans \cup (Held \cap ({stream} \ {call[c].stream}))
            /\ Ends(c) /\ UNCHANGED release
     ELSE /\ player' = [player EXCEPT !.session = call[c].stream, !.source = Nothing]
          /\ call' = [call EXCEPT ![c].at = "checkpoint"] /\ UNCHANGED <<release, orphans>>
  /\ UNCHANGED <<stream, events, asked, belated>>

(* The place to resume at has been read from the phone: the video plays.      *)
Play(c) ==
  /\ call[c].at = "checkpoint"
  /\ player' = IF Current(c) THEN [player EXCEPT !.source = call[c].title] ELSE player
  /\ Ends(c)
  /\ UNCHANGED <<stream, release, events, asked, belated, orphans>>

(* The request fails before the Pi saw it, or its reply is lost.              *)
Fails(c) ==
  /\ call[c].at \in {"asked", "answered"} /\ Faulty
  /\ orphans' = orphans \cup ({call[c].stream} \ {NoStream})
  /\ player' = IF Current(c) THEN [player EXCEPT !.recovering = "no"] ELSE player
  /\ Ends(c)
  /\ UNCHANGED <<stream, release, asked, belated>>

(* The button shown then: the same title again.                               *)
Retry(c) ==
  /\ player.open /\ player.source = Nothing /\ call[c].at = "rest"
  /\ \A d \in Call : ~(Current(d) /\ call[d].at # "rest")
  /\ Starts(c, player.title)
  /\ asked' = {player.title} \cup Following(player.title) /\ belated' = {}
  /\ UNCHANGED <<stream, events, orphans>>
-----------------------------------------------------------------------------
(* recover: the stream has ended at the Pi, or the media or a heartbeat       *)
(* failed; an error also ends a recovery that is still waiting (onError).     *)
Recover(c) ==
  /\ player.open /\ player.source \in Film \cup Series /\ call[c].at = "rest"
  /\ \/ player.session # stream /\ player.recovering = "no" /\ UNCHANGED events
     \/ Faulty
  /\ player' = [player EXCEPT !.recovering = "asked"]
  /\ call' = [call EXCEPT ![c] = [Idle EXCEPT !.at = "asked", !.for = "recover",
                                    !.title = player.title, !.generation = player.generation]]
  /\ UNCHANGED <<stream, release, asked, belated, orphans>>

(* onloadedmetadata.                                                          *)
Recovered ==
  /\ player.recovering = "loading" /\ player.session = stream
  /\ player' = [player EXCEPT !.recovering = "no"]
  /\ UNCHANGED <<call, stream, release, events, asked, belated, orphans>>

(* finishIosSeriesEpisode, and playNextIosEpisode by its button: the position *)
(* is saved first, if it can be.                                              *)
EpisodeEnds(c) ==
  /\ player.open /\ player.source \in Series /\ player.ended = "no" /\ call[c].at = "rest"
  /\ player' = [player EXCEPT !.ended = "saving"]
  /\ \E saved \in BOOLEAN : call' = [call EXCEPT ![c] =
       [Idle EXCEPT !.at = "saving", !.for = "end", !.generation = player.generation, !.saved = saved]]
  /\ UNCHANGED <<stream, release, events, asked, belated, orphans>>

(* Eight seconds are counted; Cancel, or play again, ends the count.          *)
Counting(c) ==
  /\ call[c].at = "saving" /\ call[c].for = "end"
  /\ player' = IF ~Current(c) THEN player
       ELSE [player EXCEPT !.ended = IF @ = "busy" THEN @
              ELSE IF call[c].saved /\ Following(player.title) # {} THEN "counting" ELSE "over"]
  /\ Ends(c)
  /\ UNCHANGED <<stream, release, events, asked, belated, orphans>>

CancelNext ==
  /\ player.ended = "counting"
  /\ \E ended \in {"over", "no"} : player' = [player EXCEPT !.ended = ended]
  /\ UNCHANGED <<call, stream, release, events, asked, belated, orphans>>

(* playNextIosEpisode, by the count or by its button (state.busy).            *)
WantNext(c) ==
  /\ player.open /\ player.source \in Series /\ Following(player.title) # {}
  /\ player.ended # "busy" /\ call[c].at = "rest"
  /\ player' = [player EXCEPT !.ended = "busy"]
  /\ \E saved \in BOOLEAN : call' = [call EXCEPT ![c] =
       [Idle EXCEPT !.at = "saving", !.for = "next", !.title = player.title, !.generation = player.generation, !.saved = saved]]
  /\ UNCHANGED <<stream, release, events, asked, belated, orphans>>

(* Plausible bug: the next episode starts although the player was shut.       *)
NextAppliesMutant(c) == TRUE

NextApplies(c) == Current(c)

PlayNext(c) ==
  /\ call[c].at = "saving" /\ call[c].for = "next"
  /\ IF NextApplies(c) /\ call[c].saved
       THEN Starts(c, Episode[Numbered(call[c].title) + 1])
       ELSE /\ player' = IF Current(c) THEN [player EXCEPT !.ended = "over"] ELSE player
            /\ Ends(c) /\ UNCHANGED release
  /\ UNCHANGED <<stream, events, asked, belated, orphans>>
-----------------------------------------------------------------------------
(* closeIosRemotePlayer, by its cross or by the browser's Back.               *)
ClosePlayer ==
  /\ player.open /\ player.generation < MaxStarts
  /\ release' = release \cup Held
  /\ player' = [Shut EXCEPT !.generation = player.generation + 1]
  /\ asked' = {} /\ belated' = {}
  /\ UNCHANGED <<call, stream, events, orphans>>

(* remote_release: only the stream it names.  (A release that is lost leaves  *)
(* the stream to its expiry, as a lost reply does.)                           *)
Released(s) ==
  /\ s \in release
  /\ release' = release \ {s}
  /\ \/ stream' = (IF stream = s THEN NoStream ELSE stream) /\ UNCHANGED <<events, orphans>>
     \/ Faulty /\ orphans' = orphans \cup {s} /\ UNCHANGED stream
  /\ UNCHANGED <<player, call, asked, belated>>

(* Another viewer takes the stream, or it expires, or the Pi starts again.    *)
StreamEnds ==
  /\ Faulty /\ stream' = NoStream
  /\ UNCHANGED <<player, call, release, asked, belated, orphans>>
-----------------------------------------------------------------------------
PlayerInit ==
  /\ player = Shut
  /\ call = [c \in Call |-> Idle]
  /\ stream = NoStream /\ release = {}
  /\ events = [streams |-> 0, faults |-> 0]
  /\ asked = {} /\ belated = {} /\ orphans = {}

PlayerNext ==
  \/ \E c \in Call, t \in Title : Tap(c, t)
  \/ \E c \in Call :
       \/ Permit(c) \/ PiStarts(c) \/ Answered(c) \/ Play(c) \/ Fails(c) \/ Retry(c)
       \/ Recover(c) \/ EpisodeEnds(c) \/ Counting(c) \/ WantNext(c) \/ PlayNext(c)
  \/ \E s \in release : Released(s)
  \/ Recovered \/ CancelNext \/ ClosePlayer \/ StreamEnds

PlayerSpec == PlayerInit /\ [][PlayerNext]_playerVars
-----------------------------------------------------------------------------
(* However late the Pi and the phone's database answer, the player plays      *)
(* nothing but what the owner last asked for, or an episode that follows it,  *)
(* and nothing once it is closed (iosPlayerGeneration); only a permission for *)
(* an earlier tap has no generation (players.js:644) and may bring that back. *)
Wanted == asked \cup belated
OnlyWhatWasAsked ==
  /\ player.source # Nothing => player.open /\ player.source \in Wanted /\ player.source = player.title
  /\ player.open => player.title \in Wanted

(* When nothing is under way, a closed player holds no stream of the Pi that  *)
(* would bar the next viewer; a lost request is left to the stream's expiry.  *)
ClosedPlayerFreesThePi ==
  ~player.open /\ release = {} /\ (\A c \in Call : call[c].at \notin {"asked", "answered"})
    => stream \in orphans \cup {NoStream}

(* The player is the owner's, and the Pi's stream is nobody's without it.     *)
PlayerIsTheOwners == OnlyWhatWasAsked /\ ClosedPlayerFreesThePi
=============================================================================
