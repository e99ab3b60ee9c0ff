---------------------------- MODULE MyTvProgress ----------------------------
(* Where a film of My TV resumes when the television and several phones have  *)
(* watched it: the outbox of each phone (portal/js/playback/progress.js), the *)
(* checkpoints on their way, the film's row in the Library service            *)
(* (repositories/playback.py), the television's own bookmark and the choice   *)
(* between them (remote_resume_position).                                     *)
(*                                                                            *)
(* One film.  A position stands for an interval of more than five seconds; 0  *)
(* is what normalise_resume_position makes of the first half minute, of the   *)
(* end and of a completion.  A sample's sequence number is the moment it was  *)
(* observed at, and the clocks agree (the portal corrects a phone's clock by  *)
(* the service's); no two observations fall into the same moment.             *)
EXTENDS Integers, FiniteSets

CONSTANTS
  Device,      (* phones and browsers                                         *)
  Position,    (* positions in the film, 0 among them                         *)
  MaxTime,     (* bound: the number of observations                           *)
  MaxWriters   (* bound: the number of times a player is opened               *)

ASSUME ProgressAssumption ==
  /\ Position \subseteq Nat /\ 0 \in Position
  /\ MaxTime \in Nat /\ MaxWriters \in Nat

Bookmark == [position : Position, at : 0..MaxTime]

Unset == [position |-> 0, at |-> 0]

(* A checkpoint of the playback `writer`. *)
Sample == [position : Position, at : 1..MaxTime, writer : 1..MaxWriters]

None == [position |-> 0, at |-> 0, writer |-> 0]

VARIABLES
  media,      (* local_media: position, last (remote_last_watched), cleared   *)
              (* (progress_cleared_at), ignored (ignored_player_position, 0   *)
              (* when absent) and the last sample taken from each writer   *)
  row,        (* the television's bookmark, my_tv_resume                      *)
  tv,         (* the bookmark it remembers and may still have to write        *)
  device,     (* writer: the player that is open, or 0; memory: pendingMemory;*)
              (* stored, unsent: the row of the playback store; sending: the  *)
              (* request of flush(); puts: rows being put into the store      *)
  wire,       (* requests that may still reach the service, also twice        *)
  processed,  (* history: samples the service has answered                    *)
  now, writers

vars == <<media, row, tv, device, wire, processed, now, writers>>

Newest(bookmarks) == CHOOSE b \in bookmarks : \A c \in bookmarks : c.at <= b.at

Later(a, b) == IF a >= b THEN a ELSE b

-----------------------------------------------------------------------------
(* remote_resume_position.                                                   *)

(* An ignored position of 0 ignores nothing: `0.0 or -1` is -1. *)
TvIgnored == media.ignored # 0 /\ media.ignored = row.position

OfService == [position |-> media.position, at |-> Later(media.last, media.cleared)]

Candidates == {OfService} \cup (IF TvIgnored THEN {} ELSE {row})

(* The newest bookmark; the furthest one while one of them has no time. *)
Resume ==
  IF \A c \in Candidates : c.at > 0 THEN Newest(Candidates)
  ELSE Newest({c \in Candidates : \A d \in Candidates : d.position <= c.position})

(* remote_last_watched, which a phone compares its own checkpoint with. *)
ResumeUpdated == Later(media.last, row.at)
-----------------------------------------------------------------------------
Init ==
  /\ media = [position |-> 0, last |-> 0, cleared |-> 0, ignored |-> 0,
              writers |-> [w \in 1..MaxWriters |-> 0]]
  /\ row = Unset /\ tv = Unset
  /\ device = [d \in Device |-> [writer |-> 0, memory |-> None, stored |-> None,
                                 unsent |-> FALSE, sending |-> None, puts |-> {}]]
  /\ wire = {} /\ processed = {} /\ now = 0 /\ writers = 0

(* The television remembers a bookmark and writes it later, or only the next  *)
(* one (MyTvResumeWriter).                                                    *)

TvRemembers(p) ==
  /\ now < MaxTime
  /\ now' = now + 1
  /\ tv' = [position |-> p, at |-> now + 1]
  /\ UNCHANGED <<media, row, device, wire, processed, writers>>

TvSaves ==
  /\ tv # row
  /\ row' = tv
  /\ UNCHANGED <<media, tv, device, wire, processed, now, writers>>

(* The Library service. *)

(* Plausible bug: only the order within a writer is looked at. *)
AppliesMutant(s) == s.at > media.cleared /\ s.at > media.writers[s.writer]

(* A sample older than a clear, than one of its writer or than the last one   *)
(* is answered and not applied.                                               *)
Applies(s) ==
  /\ s.at > media.cleared
  /\ s.at > media.writers[s.writer]
  /\ s.at >= media.last

(* save_my_tv_progress: a sample at 0 also silences the television's row. *)
Receive(s) ==
  /\ s \in wire
  /\ processed' = processed \cup {s}
  /\ media' = IF Applies(s)
              THEN [media EXCEPT !.position = s.position, !.last = s.at,
                                 !.ignored = IF s.position = 0 THEN row.position ELSE 0,
                                 !.writers[s.writer] = s.at]
              ELSE media
  /\ UNCHANGED <<row, tv, device, wire, now, writers>>

(* remote_clear_position. *)
Clear ==
  /\ now < MaxTime
  /\ now' = now + 1
  /\ media' = [media EXCEPT !.position = 0, !.last = 0, !.cleared = now + 1,
                            !.ignored = row.position]
  /\ UNCHANGED <<row, tv, device, wire, processed, writers>>
-----------------------------------------------------------------------------
(* A phone.                                                                  *)

(* Plausible bug: an older row is put over a newer one. *)
PutOlderMutant(d, s, unsent) == [device[d] EXCEPT !.stored = s, !.unsent = unsent]

(* Plausible bug: the answer to an older request acknowledges a newer sample. *)
PutMutant(d, s, unsent) ==
  IF device[d].stored.at > s.at THEN [device[d] EXCEPT !.unsent = @ /\ unsent]
  ELSE [device[d] EXCEPT !.stored = s, !.unsent = unsent]

(* put: an answer to an older request does not replace a newer sample. *)
Put(d, s, unsent) ==
  IF device[d].stored.at > s.at THEN device[d]
  ELSE [device[d] EXCEPT !.stored = s, !.unsent = unsent]

(* Where startIosRemotePlayer starts when no position was chosen: the phone's *)
(* own checkpoint counts when it is unsent and newer than what the service    *)
(* has seen.                                                                  *)
StartPoint(d) ==
  LET own == device[d].stored
  IN  IF device[d].unsent /\ own.at > ResumeUpdated
      THEN [position |-> own.position, at |-> own.at]
      ELSE Resume

(* startIosRemotePlayer, or startOfflinePlayer for a downloaded copy.  The    *)
(* store runs its transactions in order, so what was put before is read.      *)
Open(d) ==
  /\ writers < MaxWriters
  /\ device[d].puts = {}
  /\ writers' = writers + 1
  /\ device' = [device EXCEPT ![d].writer = writers + 1]
  /\ UNCHANGED <<media, row, tv, wire, processed, now>>

(* checkpoint(), on its own or with the beacon of a page that is hidden. *)
Checkpoint(d, p, beacon) ==
  /\ device[d].writer # 0 /\ now < MaxTime
  /\ now' = now + 1
  /\ LET s == [position |-> p, at |-> now + 1, writer |-> device[d].writer]
     IN  /\ device' = [device EXCEPT ![d].memory = s, ![d].puts = @ \cup {s}]
         /\ wire' = IF beacon THEN wire \cup {s} ELSE wire
  /\ UNCHANGED <<media, row, tv, processed, writers>>

(* The oldest put commits, or fails and leaves its sample to memory. *)
PutEnds(d, s, committed) ==
  /\ s \in device[d].puts
  /\ \A u \in device[d].puts : s.at <= u.at
  /\ LET value == IF committed THEN Put(d, s, TRUE) ELSE device[d]
     IN  device' = [device EXCEPT ![d] = [value EXCEPT !.puts = @ \ {s}]]
  /\ UNCHANGED <<media, row, tv, wire, processed, now, writers>>

(* flush(): one request at a time, the newest of memory and store. *)
Unsent(d) ==
  (IF device[d].unsent THEN {device[d].stored} ELSE {})
    \cup ({device[d].memory} \ {None})

Flush(d) ==
  /\ device[d].sending = None
  /\ Unsent(d) # {}
  /\ device' = [device EXCEPT ![d].sending = Newest(Unsent(d))]
  /\ wire' = wire \cup {Newest(Unsent(d))}
  /\ UNCHANGED <<media, row, tv, processed, now, writers>>

Sent(d, value) ==
  [value EXCEPT !.sending = None,
                !.memory = IF @ = device[d].sending THEN None ELSE @]

(* The answer arrives, and the row is marked as sent once the puts before it  *)
(* have ended; that may fail.                                                 *)
Acknowledge(d, committed) ==
  /\ device[d].sending # None
  /\ device[d].sending \in processed
  /\ \A s \in device[d].puts : s.at > device[d].sending.at
  /\ LET value == IF committed THEN Put(d, device[d].sending, FALSE) ELSE device[d]
     IN  device' = [device EXCEPT ![d] = Sent(d, value)]
  /\ UNCHANGED <<media, row, tv, wire, processed, now, writers>>

(* No answer in ten seconds, or none at all; the request may still arrive. *)
SendFails(d) ==
  /\ device[d].sending # None
  /\ device' = [device EXCEPT ![d].sending = None]
  /\ UNCHANGED <<media, row, tv, wire, processed, now, writers>>

(* The player is closed, after its last checkpoint. *)
Close(d) ==
  /\ device[d].writer # 0
  /\ device' = [device EXCEPT ![d].writer = 0]
  /\ UNCHANGED <<media, row, tv, wire, processed, now, writers>>

(* The page goes away, and all it had in memory. *)
Kill(d) ==
  /\ device' = [device EXCEPT ![d].writer = 0, ![d].memory = None,
                              ![d].sending = None, ![d].puts = {}]
  /\ UNCHANGED <<media, row, tv, wire, processed, now, writers>>
-----------------------------------------------------------------------------
DeviceNext(d) ==
  \/ Open(d) \/ Close(d) \/ Kill(d)
  \/ \E p \in Position, beacon \in BOOLEAN : Checkpoint(d, p, beacon)
  \/ \E s \in device[d].puts, committed \in BOOLEAN : PutEnds(d, s, committed)
  \/ Flush(d)
  \/ \E committed \in BOOLEAN : Acknowledge(d, committed)
  \/ SendFails(d)

Next ==
  \/ \E p \in Position : TvRemembers(p)
  \/ TvSaves
  \/ \E s \in wire : Receive(s)
  \/ Clear
  \/ \E d \in Device : DeviceNext(d)

Spec == Init /\ [][Next]_vars
-----------------------------------------------------------------------------
(* Every column and every row of an outbox has its type; a row without a      *)
(* sample is never unsent, and the television's row is not ahead of it.       *)
ProgressTypeOK ==
  /\ media \in [position : Position, last : 0..MaxTime, cleared : 0..MaxTime,
                ignored : Position, writers : [1..MaxWriters -> 0..MaxTime]]
  /\ row \in Bookmark /\ tv \in Bookmark /\ row.at <= tv.at
  /\ device \in [Device -> [writer : 0..MaxWriters, unsent : BOOLEAN,
                            memory : Sample \cup {None}, stored : Sample \cup {None},
                            sending : Sample \cup {None}, puts : SUBSET Sample]]
  /\ \A d \in Device : device[d].unsent => device[d].stored # None
  /\ wire \subseteq Sample /\ processed \subseteq wire
  /\ now \in 0..MaxTime /\ writers \in 0..MaxWriters

(* What the service knows of the phones is the newest of all it was ever told:*)
(* delayed, reordered and repeated requests of several playbacks and phones   *)
(* change nothing ("Arrival order is not watch order", repositories/          *)
(* playback.py:32), and nothing older than a clear comes back.                *)
Told == {[position |-> s.position, at |-> s.at] : s \in processed}
          \cup {[position |-> 0, at |-> media.cleared]}

ArrivalOrderIsNotWatchOrder == OfService = Newest(Told)

(* A phone that is asked to go on never falls back behind the checkpoint in   *)
(* its own store, sent or not (players.js:300-305): whatever it starts at was *)
(* observed at least as late.  Not so while the television's row is silenced: *)
(* its time then still counts in remote_last_watched, its position does not.  *)
PhoneResumesWhereItLeft ==
  ~TvIgnored => \A d \in Device : StartPoint(d).at >= device[d].stored.at

(* A checkpoint that is marked as sent has reached the service, although      *)
(* answers may belong to an older request (progress.js:46).                   *)
MarkedSentIsProcessed ==
  \A d \in Device :
    device[d].stored # None /\ ~device[d].unsent => device[d].stored \in processed

(* No late put and no late answer replaces the checkpoint of a phone by an    *)
(* older one (progress.js:47-48).                                             *)
OutboxNeverGoesBack ==
  [][\A d \in Device : device'[d].stored.at >= device[d].stored.at]_vars

(* "A queued phone sample must not replace a later seek, completion or        *)
(* another device's checkpoint" (repositories/playback.py:32-33): a sample    *)
(* older than the bookmark the film resumes at leaves that bookmark alone.    *)
LateSampleChangesNothing ==
  [][\A s \in wire : Receive(s) /\ s.at < Resume.at => Resume' = Resume]_vars
=============================================================================
