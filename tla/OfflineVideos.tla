---------------------------- MODULE OfflineVideos ----------------------------
(* The videos a phone keeps for watching without a connection                 *)
(* (scripts/pi/mabeltv-offline.js).  A video is a manifest and its parts in    *)
(* the phone's database; a call of startDownload fetches part after part and  *)
(* stores each together with the manifest that counts it.  The service worker *)
(* (service-worker.js) puts a complete video together again.                  *)
(*                                                                            *)
(* A step ends where the page awaits the Pi or a transaction of the database; *)
(* a transaction is one step, and happens whole or not at all.                *)
EXTENDS Naturals

CONSTANTS
  Video,
  Run,           \* calls of startDownload that can be under way at once
  Parts,         \* parts of a video
  MaxFaults,     \* bound on the requests and transactions that fail
  MaxRemovals    \* bound on the videos removed by the owner

ASSUME PartsAssumption == Parts \in Nat

VARIABLES
  manifest,    \* [Video -> its row in the "downloads" store]
  chunks,      \* [Video -> its parts in the "chunks" store]
  controller,  \* [Video -> the run in activeDownloads, or none]
  run,         \* [Run -> the call of startDownload]
  removing,    \* the videos whose removal has not reached the database
  doubtful,    \* ghost: removed under a run, or with a part that was not stored
  events       \* how many faults and removals there have been

vars == <<manifest, chunks, controller, run, removing, doubtful, events>>

NoRun == "no run"
Absent == [status |-> "absent", done |-> 0]
Resting == [video |-> "none", at |-> "rest", aborted |-> FALSE, done |-> 0]

Whole == 1..Parts
RunsOf(v) == {r \in Run : run[r].video = v}
Happens == events.faults < MaxFaults /\ events' = [events EXCEPT !.faults = @ + 1]
-----------------------------------------------------------------------------
(* offlineMediaResponse: a complete manifest is believed; every part is then  *)
(* looked for.                                                                *)
Served(v) ==
  IF manifest[v].status # "complete" THEN "not complete"
  ELSE IF Whole \subseteq chunks[v] THEN "video"
  ELSE "part missing"

(* prepare(): the Pi is asked for the video, and may need time to convert it. *)
Start(r, v) ==
  /\ run[r].at = "rest"
  /\ run' = [run EXCEPT ![r] = [Resting EXCEPT !.video = v, !.at = "prepare"]]
  /\ UNCHANGED <<manifest, chunks, controller, removing, doubtful, events>>

(* What an earlier download left is read now and counted on later.  (A stored *)
(* video that is complete is returned as it is.)                              *)
Prepared(r) ==
  /\ run[r].at = "prepare"
  /\ LET existing == manifest[run[r].video]
     IN  run' = [run EXCEPT ![r] =
           IF existing.status = "complete" THEN Resting
           ELSE [@ EXCEPT !.at = "capacity", !.done = existing.done]]
  /\ UNCHANGED <<manifest, chunks, controller, removing, doubtful, events>>

(* The Pi cannot prepare the video, or there is no room for it.               *)
Refused(r) ==
  /\ run[r].at \in {"prepare", "capacity"} /\ Happens
  /\ run' = [run EXCEPT ![r] = Resting]
  /\ UNCHANGED <<manifest, chunks, controller, removing, doubtful>>

Enlist(r) ==
  /\ run[r].at = "capacity"
  /\ controller' = [controller EXCEPT ![run[r].video] = r]
  /\ run' = [run EXCEPT ![r].at = "announce"]
  /\ UNCHANGED <<manifest, chunks, removing, doubtful, events>>

(* putDownload.                                                               *)
Put(r, status, done) ==
  manifest' = [manifest EXCEPT ![run[r].video] = [status |-> status, done |-> done]]

Onward(done) == IF done < Parts THEN "fetch" ELSE "finish"

(* This first put is outside the try: its failure ends the call and leaves    *)
(* its controller behind.                                                     *)
Announce(r) ==
  /\ run[r].at = "announce"
  /\ \/ /\ Put(r, "downloading", run[r].done)
        /\ run' = [run EXCEPT ![r].at = Onward(run[r].done)]
        /\ UNCHANGED events
     \/ Happens /\ run' = [run EXCEPT ![r] = Resting] /\ UNCHANGED manifest
  /\ UNCHANGED <<chunks, controller, removing, doubtful>>

(* A part arrives; or the request fails, as one that was aborted always does. *)
Fetch(r) ==
  /\ run[r].at = "fetch"
  /\ \/ ~run[r].aborted /\ run' = [run EXCEPT ![r].at = "store"] /\ UNCHANGED events
     \/ run[r].aborted /\ run' = [run EXCEPT ![r].at = "pause"] /\ UNCHANGED events
     \/ Happens /\ run' = [run EXCEPT ![r].at = "pause"]
  /\ UNCHANGED <<manifest, chunks, controller, removing, doubtful>>

(* Plausible bug: the part and its count are stored one after the other.      *)
StoreMutant(r) ==
  /\ run[r].at = "store"
  /\ LET v == run[r].video  part == run[r].done + 1
     IN  \/ /\ Put(r, "downloading", part)
            /\ run' = [run EXCEPT ![r].done = part, ![r].at = Onward(part)]
            /\ chunks' \in {chunks, [chunks EXCEPT ![v] = @ \cup {part}]}
            /\ UNCHANGED <<doubtful, events>>
  /\ UNCHANGED <<controller, removing>>

(* The part and the manifest that counts it, in one transaction.  When the    *)
(* storage is full, the manifest in memory has counted the part already.      *)
Store(r) ==
  /\ run[r].at = "store"
  /\ LET v == run[r].video  part == run[r].done + 1
     IN  \/ /\ chunks' = [chunks EXCEPT ![v] = @ \cup {part}]
            /\ Put(r, "downloading", part)
            /\ run' = [run EXCEPT ![r].done = part, ![r].at = Onward(part)]
            /\ UNCHANGED <<doubtful, events>>
         \/ /\ Happens
            /\ run' = [run EXCEPT ![r].done = part, ![r].at = "pause"]
            /\ doubtful' = doubtful \cup {v}
            /\ UNCHANGED <<manifest, chunks>>
  /\ UNCHANGED <<controller, removing>>

(* The end of a call: finally lets go of the controller, whosever it is now.  *)
Ends(r) ==
  /\ run' = [run EXCEPT ![r] = Resting]
  /\ controller' = [controller EXCEPT ![run[r].video] = NoRun]

Finish(r) ==
  /\ run[r].at = "finish"
  /\ \/ Put(r, "complete", Parts) /\ Ends(r) /\ UNCHANGED events
     \/ Happens /\ run' = [run EXCEPT ![r].at = "pause"] /\ UNCHANGED <<manifest, controller>>
  /\ UNCHANGED <<chunks, removing, doubtful>>

(* catch: what is counted so far is kept for the next call.                   *)
Pause(r) ==
  /\ run[r].at = "pause"
  /\ \/ Put(r, "paused", run[r].done) /\ UNCHANGED events
     \/ Happens /\ UNCHANGED manifest
  /\ Ends(r)
  /\ UNCHANGED <<chunks, removing, doubtful>>

Abort(v) ==
  IF controller[v] = NoRun THEN run
  ELSE [run EXCEPT ![controller[v]].aborted = @ \/ run[controller[v]].video = v]

(* pauseDownload: the Pause button of a download that has a controller.       *)
PauseDownload(v) ==
  /\ controller[v] # NoRun
  /\ run' = Abort(v)
  /\ UNCHANGED <<manifest, chunks, controller, removing, doubtful, events>>

(* removeDownload aborts the run and does not wait for its end ...            *)
RemoveDownload(v) ==
  /\ manifest[v] # Absent /\ v \notin removing
  /\ events.removals < MaxRemovals /\ events' = [events EXCEPT !.removals = @ + 1]
  /\ run' = Abort(v)
  /\ removing' = removing \cup {v}
  /\ UNCHANGED <<manifest, chunks, controller, doubtful>>

(* ... and the manifest and its parts go in one transaction.                  *)
Removed(v) ==
  /\ v \in removing
  /\ manifest' = [manifest EXCEPT ![v] = Absent]
  /\ chunks' = [chunks EXCEPT ![v] = {}]
  /\ removing' = removing \ {v}
  /\ doubtful' = IF \E r \in RunsOf(v) : run[r].at # "prepare" THEN doubtful \cup {v} ELSE doubtful \ {v}
  /\ UNCHANGED <<controller, run, events>>

(* The app is closed, or the phone ends it, and is opened again.              *)
Reopen ==
  /\ run' = [r \in Run |-> Resting]
  /\ controller' = [v \in Video |-> NoRun]
  /\ removing' = {}
  /\ UNCHANGED <<manifest, chunks, doubtful, events>>
-----------------------------------------------------------------------------
Init ==
  /\ manifest = [v \in Video |-> Absent]
  /\ chunks = [v \in Video |-> {}]
  /\ controller = [v \in Video |-> NoRun]
  /\ run = [r \in Run |-> Resting]
  /\ removing = {} /\ doubtful = {}
  /\ events = [faults |-> 0, removals |-> 0]

Download(r) ==
  \/ \E v \in Video : Start(r, v)
  \/ Prepared(r) \/ Refused(r) \/ Enlist(r) \/ Announce(r) \/ Fetch(r) \/ Store(r) \/ Finish(r) \/ Pause(r)

Next ==
  \/ \E r \in Run : Download(r)
  \/ \E v \in Video : PauseDownload(v) \/ RemoveDownload(v) \/ Removed(v)
  \/ Reopen

Spec == Init /\ [][Next]_vars
-----------------------------------------------------------------------------
(* "Saved here. No connection needed." (portal/js/playback/downloads.js:262): *)
(* a video shown as ready to watch can be watched to its end.                 *)
ReadyIsWhole == \A v \in Video : Served(v) # "part missing"

(* The same for every video but one that was removed under a running download *)
(* or that the storage had no room for: pauses, failed requests, a second     *)
(* download of the same video and a closed app never lose a part.             *)
UndisturbedIsWhole == \A v \in Video \ doubtful : Served(v) # "part missing"
=============================================================================
