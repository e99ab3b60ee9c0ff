------------------------ MODULE StudioCompanionProofs ------------------------
(* Laptops that take each other's jobs over, lose answers, are stopped and     *)
(* restarted at any step neither lie to the Pi nor lose the video, for any     *)
(* number of laptops, claims and faults.                                       *)
EXTENDS StudioCompanion, TLAPS

PiStatus == {"queued", "active", "complete", "failed", "paused", "cancelled"}
PiState ==
  [status : PiStatus, stage : {"foreground", "background"}, command : {"none", "pause", "cancel"},
   worker : Laptop \cup {CHOOSE w \in Laptop : TRUE}, claim : 0..MaxClaims, given : 0..MaxClaims,
   lease : BOOLEAN, session : Nat, known : [Laptop -> Nat], alive : [Laptop -> BOOLEAN]]
TickState ==
  [at : {"idle", "answered"}, claim : 0..MaxClaims, session : Nat,
   command : {"none", "pause", "cancel", "stale"}, new : 0..MaxClaims]
Stations ==
  {"none", "find", "wait", "save", "copy", "receipt", "verify", "confirmed", "release", "ended"}
Values == {"none", "foreground", "background"} \cup Finals
WorkState == [laptop : Laptop \cup {"none"}, at : Stations, aborted : BOOLEAN, value : Values]
LocalStatus ==
  {"absent", "working", "pausing", "cancelling", "complete", "failed", "paused", "cancelled"}
LocalState ==
  [status : LocalStatus, published : BOOLEAN, saved : BOOLEAN, verified : BOOLEAN, removed : BOOLEAN]

CompanionTypeOK ==
  /\ pi \in PiState
  /\ tick \in [Laptop -> TickState]
  /\ active \in [Laptop -> 0..MaxClaims]
  /\ work \in [Claim -> WorkState]
  /\ local \in [Laptop -> LocalState]
  /\ files \in [Laptop -> BOOLEAN]
  /\ cloud \in [Laptop -> {"none", "there", "gone", "gone late"}]

\* An answer on its way is about the work in "actives"; a claim is given to one
\* laptop, begun at most once, and by then nobody has worked for it.
ClaimsAreOwn ==
  \A w \in Laptop :
    /\ tick[w].at = "answered" => tick[w].claim = active[w]
    /\ tick[w].new <= pi.given /\ active[w] <= pi.given
    /\ active[w] # 0 => /\ work[active[w]].laptop = w /\ work[active[w]].at # "none"
                        /\ tick[w].new # active[w]
    /\ tick[w].new # 0 =>
         /\ work[tick[w].new] = NoWork
         /\ \A v \in Laptop \ {w} : tick[v].new # tick[w].new /\ active[v] # tick[w].new

\* Work is for a claim that was given and by a laptop; it is the laptop's own,
\* or is told to stop, or told its end to nobody.
WorkIsOwned ==
  \A c \in Claim : work[c].at # "none" =>
    /\ c <= pi.given /\ work[c].laptop \in Laptop
    /\ \/ active[work[c].laptop] = c
       \/ work[c].aborted /\ work[c].at # "ended"

NoneRests == \A c \in Claim : work[c].at = "none" => work[c] = NoWork

\* How far the work has got is what the laptop's journal says.
Beyond == {"save", "copy", "receipt", "verify", "confirmed", "release"}
StationsAreTrue ==
  \A c \in Claim :
    /\ work[c].at \in Beyond => local[work[c].laptop].published
    /\ work[c].at = "confirmed" => /\ local[work[c].laptop].saved
                                   /\ cloud[work[c].laptop] \in {"there", "gone late"}
    /\ work[c].at = "release" \/ work[c].value = "complete" =>
         /\ local[work[c].laptop].published /\ local[work[c].laptop].saved
         /\ local[work[c].laptop].removed
    /\ work[c].value = "complete" => work[c].at = "ended"

JournalIsTrue ==
  \A w \in Laptop :
    /\ local[w].status = "complete" => local[w].published
    /\ local[w].removed => local[w].saved
    /\ local[w].verified => local[w].published /\ local[w].status # "absent"
    /\ local[w].published => local[w].status # "absent"

CompanionInv ==
  /\ CompanionTypeOK /\ ClaimsAreOwn /\ WorkIsOwned /\ NoneRests /\ StationsAreTrue /\ JournalIsTrue
  /\ pi.status = "complete" => pi.worker \in Laptop
  /\ CompleteIsDone /\ LastCopyIsKept /\ WorkCanBeStopped

-----------------------------------------------------------------------------
USE ClaimsAssumption

LEMMA Blank ==
  /\ NoWork \in WorkState /\ NoWork.at = "none" /\ NoWork.value = "none"
  /\ NewLocal \in LocalState /\ NewLocal.status = "absent"
  /\ ~NewLocal.published /\ ~NewLocal.verified /\ ~NewLocal.removed
  /\ \A session \in Nat :
       /\ Unpolled(session) \in TickState /\ Unpolled(session).at = "idle"
       /\ Unpolled(session).new = 0
BY DEF NoWork, WorkState, Stations, Values, NewLocal, LocalState, LocalStatus, Unpolled, TickState

LEMMA Types ==
  ASSUME CompanionTypeOK
  PROVE  /\ \A w \in Laptop : /\ tick[w] \in TickState /\ tick[w].new \in 0..MaxClaims
                              /\ tick[w].claim \in 0..MaxClaims /\ tick[w].session \in Nat
                              /\ active[w] \in 0..MaxClaims
                              /\ local[w] \in LocalState /\ files[w] \in BOOLEAN
                              /\ local[w].status \in LocalStatus
                              /\ local[w].published \in BOOLEAN /\ local[w].saved \in BOOLEAN
                              /\ local[w].verified \in BOOLEAN /\ local[w].removed \in BOOLEAN
         /\ \A c \in Claim : /\ work[c] \in WorkState /\ work[c].aborted \in BOOLEAN
                             /\ work[c].at \in Stations /\ work[c].value \in Values
         /\ pi.given \in 0..MaxClaims /\ pi.status \in PiStatus
         /\ \A c \in 0..MaxClaims : c # 0 => c \in Claim
<1>1. \A w \in Laptop : tick[w] \in TickState /\ active[w] \in 0..MaxClaims
                        /\ local[w] \in LocalState /\ files[w] \in BOOLEAN
  BY DEF CompanionTypeOK
<1>2. \A c \in Claim : work[c] \in WorkState
  BY DEF CompanionTypeOK
<1>3. \A k \in TickState : k.new \in 0..MaxClaims /\ k.claim \in 0..MaxClaims /\ k.session \in Nat
  BY DEF TickState
<1>4. \A l \in LocalState : /\ l.status \in LocalStatus /\ l.published \in BOOLEAN
                            /\ l.saved \in BOOLEAN /\ l.verified \in BOOLEAN /\ l.removed \in BOOLEAN
  BY DEF LocalState
<1>5. \A k \in WorkState : k.aborted \in BOOLEAN /\ k.at \in Stations /\ k.value \in Values
  BY DEF WorkState
<1>6. pi.given \in 0..MaxClaims /\ pi.status \in PiStatus
  BY DEF CompanionTypeOK, PiState
<1>7. \A c \in 0..MaxClaims : c # 0 => c \in Claim
  BY DEF Claim
<1> QED BY <1>1, <1>2, <1>3, <1>4, <1>5, <1>6, <1>7

\* What run() may do at claim c: it touches its own state and its laptop's
\* journal, files and copy, and takes nothing back.
OwnStep(c, w) ==
  /\ UNCHANGED <<pi, tick, active>>
  /\ work' \in [Claim -> WorkState] /\ local' \in [Laptop -> LocalState]
  /\ files' \in [Laptop -> BOOLEAN] /\ cloud' \in [Laptop -> {"none", "there", "gone", "gone late"}]
  /\ \A d \in Claim \ {c} : work'[d] = work[d]
  /\ \A v \in Laptop \ {w} : local'[v] = local[v] /\ files'[v] = files[v] /\ cloud'[v] = cloud[v]
  /\ local[w].published => local'[w].published
  /\ local[w].saved => local'[w].saved
  /\ local[w].removed => local'[w].removed
  /\ cloud[w] \in {"there", "gone late"} => cloud'[w] \in {"there", "gone late"}

\* What it becomes.
OwnState(c, w) ==
  \/ work'[c] = NoWork /\ active[w] # c
  \/ /\ work'[c].at # "none" /\ work'[c].laptop = w
     /\ active[w] = c \/ (work'[c].aborted /\ work'[c].at # "ended")

OwnStation(c, w) ==
  /\ work'[c].at \in Beyond => local'[w].published
  /\ work'[c].at = "confirmed" => local'[w].saved /\ cloud'[w] \in {"there", "gone late"}
  /\ work'[c].at = "release" \/ work'[c].value = "complete" =>
       local'[w].published /\ local'[w].saved /\ local'[w].removed
  /\ work'[c].value = "complete" => work'[c].at = "ended"

OwnJournal(w) ==
  /\ local'[w].status = "complete" => local'[w].published
  /\ local'[w].removed => local'[w].saved
  /\ local'[w].verified => local'[w].published /\ local'[w].status # "absent"
  /\ local'[w].published => local'[w].status # "absent"
  /\ local'[w].verified /\ ~files'[w] => cloud'[w] \in {"there", "gone late"}

LEMMA OwnStepInv ==
  ASSUME CompanionInv, NEW c \in Claim, work[c].at \notin {"none", "ended"}, NEW w \in Laptop,
         work[c].laptop = w,
         OwnStep(c, w), OwnState(c, w), OwnStation(c, w), OwnJournal(w),
         local'[w].status = "working" =>
           \/ work'[c].at = "wait"
           \/ local[w].status = "working" /\ work[c].at # "wait"
  PROVE  CompanionInv'
<1>0. /\ CompanionTypeOK /\ ClaimsAreOwn /\ WorkIsOwned /\ NoneRests /\ StationsAreTrue
      /\ JournalIsTrue /\ (pi.status = "complete" => pi.worker \in Laptop)
      /\ CompleteIsDone /\ LastCopyIsKept /\ WorkCanBeStopped
  BY DEF CompanionInv
<1>1. CompanionTypeOK'
  BY <1>0 DEF OwnStep, CompanionTypeOK
<1>2. c # 0 /\ work[c] # NoWork
  BY Blank DEF Claim
<1>3. ClaimsAreOwn'
  <2> SUFFICES ASSUME NEW v \in Laptop
               PROVE  /\ active[v] # 0 => work'[active[v]].laptop = v /\ work'[active[v]].at # "none"
                      /\ tick[v].new # 0 => work'[tick[v].new] = NoWork
    BY <1>0 DEF OwnStep, ClaimsAreOwn
  <2>1. ASSUME active[v] # 0 PROVE work'[active[v]].laptop = v /\ work'[active[v]].at # "none"
    <3>1. active[v] \in Claim /\ work[active[v]].laptop = v /\ work[active[v]].at # "none"
      BY <1>0, <2>1, Types DEF ClaimsAreOwn
    <3>2. CASE active[v] = c
      BY <3>1, <3>2 DEF OwnState
    <3>3. CASE active[v] # c
      BY <3>1, <3>3 DEF OwnStep
    <3> QED BY <3>2, <3>3
  <2>2. ASSUME tick[v].new # 0 PROVE work'[tick[v].new] = NoWork
    <3>1. tick[v].new \in Claim /\ work[tick[v].new] = NoWork
      BY <1>0, <2>2, Types DEF ClaimsAreOwn
    <3> QED BY <1>2, <3>1 DEF OwnStep
  <2> QED BY <2>1, <2>2
<1>4. WorkIsOwned'
  <2> SUFFICES ASSUME NEW d \in Claim, work'[d].at # "none"
               PROVE  /\ d <= pi.given /\ work'[d].laptop \in Laptop
                      /\ active[work'[d].laptop] = d \/ (work'[d].aborted /\ work'[d].at # "ended")
    BY DEF OwnStep, WorkIsOwned
  <2>1. CASE d = c
    BY <1>0, <2>1, Blank DEF OwnState, WorkIsOwned
  <2>2. CASE d # c
    BY <1>0, <2>2 DEF OwnStep, WorkIsOwned
  <2> QED BY <2>1, <2>2
<1>5. NoneRests'
  <2> SUFFICES ASSUME NEW d \in Claim, work'[d].at = "none" PROVE work'[d] = NoWork
    BY DEF NoneRests
  <2>1. CASE d = c
    BY <2>1 DEF OwnState
  <2>2. CASE d # c
    BY <1>0, <2>2 DEF OwnStep, NoneRests
  <2> QED BY <2>1, <2>2
<1>6. StationsAreTrue'
  <2> SUFFICES ASSUME NEW d \in Claim, work'[d].at # "none"
               PROVE  /\ work'[d].at \in Beyond => local'[work'[d].laptop].published
                      /\ work'[d].at = "confirmed" =>
                           /\ local'[work'[d].laptop].saved
                           /\ cloud'[work'[d].laptop] \in {"there", "gone late"}
                      /\ work'[d].at = "release" \/ work'[d].value = "complete" =>
                           /\ local'[work'[d].laptop].published /\ local'[work'[d].laptop].saved
                           /\ local'[work'[d].laptop].removed
                      /\ work'[d].value = "complete" => work'[d].at = "ended"
    BY <1>5, Blank DEF StationsAreTrue, NoneRests, Beyond
  <2>1. CASE d = c
    BY <2>1, Blank DEF OwnState, OwnStation
  <2>2. CASE d # c
    <3>1. work'[d] = work[d]
      BY <2>2 DEF OwnStep
    <3>2. work[d].laptop \in Laptop
      BY <1>0, <3>1 DEF WorkIsOwned
    <3>3. LET v == work[d].laptop IN
          /\ local[v].published => local'[v].published
          /\ local[v].saved => local'[v].saved
          /\ local[v].removed => local'[v].removed
          /\ cloud[v] \in {"there", "gone late"} => cloud'[v] \in {"there", "gone late"}
      <4>1. CASE work[d].laptop = w
        BY <4>1 DEF OwnStep
      <4>2. CASE work[d].laptop # w
        BY <3>2, <4>2 DEF OwnStep
      <4> QED BY <4>1, <4>2
    <3>4. LET v == work[d].laptop IN
          /\ work[d].at \in Beyond => local[v].published
          /\ work[d].at = "confirmed" => local[v].saved /\ cloud[v] \in {"there", "gone late"}
          /\ work[d].at = "release" \/ work[d].value = "complete" =>
               local[v].published /\ local[v].saved /\ local[v].removed
          /\ work[d].value = "complete" => work[d].at = "ended"
      BY <1>0 DEF StationsAreTrue
    <3> HIDE DEF Beyond
    <3> QED BY <3>1, <3>3, <3>4
  <2> QED BY <2>1, <2>2
<1>7. JournalIsTrue'
  <2> SUFFICES ASSUME NEW v \in Laptop
               PROVE  /\ local'[v].status = "complete" => local'[v].published
                      /\ local'[v].removed => local'[v].saved
                      /\ local'[v].verified => local'[v].published /\ local'[v].status # "absent"
                      /\ local'[v].published => local'[v].status # "absent"
    BY DEF JournalIsTrue
  <2>1. CASE v = w
    BY <2>1 DEF OwnJournal
  <2>2. CASE v # w
    BY <1>0, <2>2 DEF OwnStep, JournalIsTrue
  <2> QED BY <2>1, <2>2
<1>8. CompleteIsDone' /\ (pi'.status = "complete" => pi'.worker \in Laptop)
  BY <1>0 DEF OwnStep, CompleteIsDone
<1>9. LastCopyIsKept'
  <2> SUFFICES ASSUME NEW v \in Laptop, local'[v].verified, ~files'[v]
               PROVE  local'[v].published /\ cloud'[v] \in {"there", "gone late"}
    BY DEF LastCopyIsKept
  <2>1. CASE v = w
    BY <2>1 DEF OwnJournal
  <2>2. CASE v # w
    BY <1>0, <2>2 DEF OwnStep, LastCopyIsKept
  <2> QED BY <2>1, <2>2
<1>10. WorkCanBeStopped'
  <2> SUFFICES ASSUME NEW v \in Laptop, local'[v].status = "working"
               PROVE  \E d \in Claim : /\ work'[d].laptop = v /\ work'[d].at = "wait"
                                       /\ active[v] = d \/ work'[d].aborted
    <3>1. active' = active
      BY DEF OwnStep
    <3> QED BY <3>1 DEF WorkCanBeStopped
  <2>1. CASE v = w /\ work'[c].at = "wait"
    BY <2>1, Blank DEF OwnState
  <2>2. CASE ~(v = w /\ work'[c].at = "wait")
    <3>1. local[v].status = "working" /\ (v = w => work[c].at # "wait")
      BY <2>2 DEF OwnStep
    <3>2. PICK d \in Claim : /\ work[d].laptop = v /\ work[d].at = "wait"
                             /\ active[v] = d \/ work[d].aborted
      BY <1>0, <3>1 DEF WorkCanBeStopped
    <3>3. d # c
      BY <3>1, <3>2
    <3> QED BY <3>2, <3>3 DEF OwnStep
  <2> QED BY <2>1, <2>2
<1> QED BY <1>1, <1>3, <1>4, <1>5, <1>6, <1>7, <1>8, <1>9, <1>10 DEF CompanionInv

LEMMA Goes1 ==
  ASSUME CompanionInv, NEW c \in Claim, work[c].at \notin {"none", "ended"},
         NEW at \in Stations \ {"none", "ended"}, NEW value \in Values \ {"complete"},
         Goes(c, at, value)
  PROVE  /\ work' \in [Claim -> WorkState] /\ \A d \in Claim \ {c} : work'[d] = work[d]
         /\ work'[c].at = at /\ work'[c].value # "complete"
         /\ OwnState(c, work[c].laptop)
<1>1. work \in [Claim -> WorkState] /\ work[c] \in WorkState
  BY DEF CompanionInv, CompanionTypeOK
<1> DEFINE x == [work[c] EXCEPT !.at = at, !.value = value]
<1>2. work' = [work EXCEPT ![c] = x]
  BY DEF Goes
<1>3. /\ x \in WorkState /\ x.at = at /\ x.value = value
      /\ x.laptop = work[c].laptop /\ x.aborted = work[c].aborted
  BY <1>1 DEF WorkState
<1> HIDE DEF x
<1>4. active[work[c].laptop] = c \/ work[c].aborted
  BY DEF CompanionInv, WorkIsOwned
<1> QED BY <1>1, <1>2, <1>3, <1>4 DEF OwnState

LEMMA Ends1 ==
  ASSUME CompanionInv, NEW c \in Claim, work[c].at \notin {"none", "ended"},
         NEW value \in Values, WorkEnds(c, value)
  PROVE  /\ work' \in [Claim -> WorkState] /\ \A d \in Claim \ {c} : work'[d] = work[d]
         /\ work'[c].at \in {"none", "ended"} /\ work'[c].value \in {value, "none"}
         /\ work'[c].value = "complete" => work'[c].at = "ended"
         /\ OwnState(c, work[c].laptop)
<1>1. work \in [Claim -> WorkState] /\ work[c] \in WorkState
  BY DEF CompanionInv, CompanionTypeOK
<1> DEFINE x == [work[c] EXCEPT !.at = "ended", !.aborted = FALSE, !.value = value]
<1>2. x \in WorkState /\ x.at = "ended" /\ x.value = value /\ x.laptop = work[c].laptop
  BY <1>1 DEF WorkState, Stations
<1>3. CASE active[work[c].laptop] = c
  <2>1. work' = [work EXCEPT ![c] = x]
    BY <1>3 DEF WorkEnds
  <2> HIDE DEF x
  <2> QED BY <1>1, <1>2, <1>3, <2>1 DEF OwnState
<1>4. CASE active[work[c].laptop] # c
  <2>1. work' = [work EXCEPT ![c] = NoWork]
    BY <1>4 DEF WorkEnds
  <2> HIDE DEF x
  <2> QED BY <1>1, <1>4, <2>1, Blank DEF OwnState
<1> QED BY <1>3, <1>4

LEMMA Throws1 ==
  ASSUME CompanionInv, NEW c \in Claim, work[c].at \notin {"none", "ended"}, Throws(c)
  PROVE  /\ work' \in [Claim -> WorkState] /\ \A d \in Claim \ {c} : work'[d] = work[d]
         /\ work'[c].at \in {"none", "ended"} /\ work'[c].value # "complete"
         /\ OwnState(c, work[c].laptop)
<1> DEFINE value == IF work[c].aborted THEN "paused" ELSE "failed"
<1>1. value \in Values /\ value # "complete"
  BY DEF Values, Finals
<1>2. WorkEnds(c, value)
  BY DEF Throws
<1> HIDE DEF value
<1> QED BY <1>1, <1>2, Ends1

\* A step of run() that leaves the journal, the files and the copy alone.
LEMMA QuietStepInv ==
  ASSUME CompanionInv, NEW c \in Claim, work[c].at \notin {"none", "ended"},
         UNCHANGED <<pi, tick, active, local, files, cloud>>,
         work' \in [Claim -> WorkState], \A d \in Claim \ {c} : work'[d] = work[d],
         OwnState(c, work[c].laptop), OwnStation(c, work[c].laptop),
         work[c].at = "wait" => local[work[c].laptop].status # "working"
  PROVE  CompanionInv'
<1> DEFINE w == work[c].laptop
<1>1. w \in Laptop
  BY DEF CompanionInv, WorkIsOwned
<1>2. OwnStep(c, w)
  BY <1>1 DEF OwnStep, CompanionInv, CompanionTypeOK
<1>3. OwnJournal(w)
  BY <1>1 DEF OwnJournal, CompanionInv, JournalIsTrue, LastCopyIsKept
<1>4. local'[w].status = "working" => local[w].status = "working" /\ work[c].at # "wait"
  OBVIOUS
<1> QED BY <1>1, <1>2, <1>3, <1>4, OwnStepInv

LEMMA QuietThrow ==
  ASSUME CompanionInv, NEW c \in Claim, work[c].at \notin {"none", "ended"}, Throws(c),
         UNCHANGED <<pi, tick, active, local, files, cloud>>,
         work[c].at = "wait" => local[work[c].laptop].status # "working"
  PROVE  CompanionInv'
<1>1. /\ work' \in [Claim -> WorkState] /\ \A d \in Claim \ {c} : work'[d] = work[d]
      /\ work'[c].at \in {"none", "ended"} /\ work'[c].value # "complete"
      /\ OwnState(c, work[c].laptop)
  BY Throws1
<1>2. OwnStation(c, work[c].laptop)
  BY <1>1 DEF OwnStation, Beyond
<1> QED BY <1>1, <1>2, QuietStepInv

LEMMA QuietGoes ==
  ASSUME CompanionInv, NEW c \in Claim, work[c].at \notin {"none", "ended"},
         NEW at \in Stations \ {"none", "ended"}, NEW value \in Values \ {"complete"},
         Goes(c, at, value), UNCHANGED <<pi, tick, active, local, files, cloud>>,
         at \in Beyond => local[work[c].laptop].published,
         at = "confirmed" => /\ local[work[c].laptop].saved
                             /\ cloud[work[c].laptop] \in {"there", "gone late"},
         at = "release" => local[work[c].laptop].saved /\ local[work[c].laptop].removed,
         work[c].at = "wait" => local[work[c].laptop].status # "working"
  PROVE  CompanionInv'
<1>1. /\ work' \in [Claim -> WorkState] /\ \A d \in Claim \ {c} : work'[d] = work[d]
      /\ work'[c].at = at /\ work'[c].value # "complete"
      /\ OwnState(c, work[c].laptop)
  BY Goes1
<1>2. OwnStation(c, work[c].laptop)
  BY <1>1 DEF OwnStation, Beyond
<1> QED BY <1>1, <1>2, QuietStepInv

\* A station a run can be at, and what may be reported from it.
LEMMA Words ==
  /\ {"find", "wait", "save", "copy", "receipt", "verify", "confirmed", "release"}
       \subseteq Stations \ {"none", "ended"}
  /\ {"foreground", "background"} \subseteq Values \ {"complete"}
BY DEF Stations, Values, Finals

LEMMA OwnFacts ==
  ASSUME CompanionInv, NEW c \in Claim, work[c].at # "none"
  PROVE  /\ work[c].laptop \in Laptop /\ work[c].value \in Values
         /\ work[c].value = "complete" => work[c].at = "ended"
         /\ work[c].at \in Beyond => local[work[c].laptop].published
         /\ work[c].at = "confirmed" => /\ local[work[c].laptop].saved
                                        /\ cloud[work[c].laptop] \in {"there", "gone late"}
         /\ work[c].at = "release" => local[work[c].laptop].saved /\ local[work[c].laptop].removed
BY Types DEF CompanionInv, WorkIsOwned, StationsAreTrue

LEMMA AskedStops ==
  ASSUME NEW l \in LocalState, NEW action \in {"pause", "cancel"}
  PROVE  /\ Asked(l, action) \in LocalState
         /\ Asked(l, action).status # "working"
         /\ Asked(l, action).status = "complete" <=> l.status = "complete"
         /\ Asked(l, action).status = "absent" <=> l.status = "absent"
         /\ Asked(l, action).published = l.published /\ Asked(l, action).saved = l.saved
         /\ Asked(l, action).verified = l.verified /\ Asked(l, action).removed = l.removed
<1>1. l.status \in LocalStatus
  BY DEF LocalState
<1>2. ASSUME NEW status \in {"pausing", "cancelling", "paused", "cancelled"},
             l.status \in {"working", "pausing", "cancelling", "failed"},
             Asked(l, action) = [l EXCEPT !.status = status]
      PROVE  /\ Asked(l, action) \in LocalState
             /\ Asked(l, action).status = status
             /\ Asked(l, action).published = l.published /\ Asked(l, action).saved = l.saved
             /\ Asked(l, action).verified = l.verified /\ Asked(l, action).removed = l.removed
  BY <1>2 DEF LocalState, LocalStatus
<1>3. CASE l.status \in {"working", "pausing", "cancelling"}
  <2>1. Asked(l, action) = [l EXCEPT !.status = IF action = "cancel" THEN "cancelling" ELSE "pausing"]
    BY <1>3 DEF Asked
  <2> QED BY <1>2, <1>3, <2>1
<1>4. CASE l.status = "failed"
  <2>1. Asked(l, action) = [l EXCEPT !.status = IF action = "cancel" THEN "cancelled" ELSE "paused"]
    BY <1>4 DEF Asked
  <2> QED BY <1>2, <1>4, <2>1
<1>5. CASE l.status \notin {"working", "pausing", "cancelling", "failed"}
  <2>1. Asked(l, action) = l
    BY <1>5 DEF Asked
  <2> QED BY <1>5, <2>1
<1> QED BY <1>3, <1>4, <1>5

LEMMA WaitInv ==
  ASSUME CompanionInv, NEW c \in Claim, Wait(c)
  PROVE  CompanionInv'
<1> DEFINE w == work[c].laptop
<1>1. work[c].at = "wait" /\ UNCHANGED <<pi, tick, active, files, cloud>>
  BY DEF Wait, Running
<1>2. w \in Laptop /\ work[c].value \in Values \ {"complete"}
  BY <1>1, OwnFacts
<1>3. CASE /\ local[w].status = "complete" /\ UNCHANGED local
           /\ Goes(c, IF local[w].saved THEN "receipt" ELSE "save",
                      IF local[w].saved THEN work[c].value ELSE "background")
  <2> DEFINE at == IF local[w].saved THEN "receipt" ELSE "save"
             value == IF local[w].saved THEN work[c].value ELSE "background"
  <2>1. at \in Stations \ {"none", "ended"} /\ value \in Values \ {"complete"}
        /\ at # "confirmed" /\ at # "release"
    BY <1>2, Words
  <2>2. Goes(c, at, value)
    BY <1>3
  <2>3. local[w].published
    BY <1>2, <1>3 DEF CompanionInv, JournalIsTrue
  <2> HIDE DEF at, value
  <2> QED BY <1>1, <1>3, <2>1, <2>2, <2>3, QuietGoes
<1>4. CASE local[w].status \in {"failed", "paused", "cancelled"} /\ Throws(c) /\ UNCHANGED local
  BY <1>1, <1>4, QuietThrow
<1>5. CASE /\ local[w].status \in {"working", "pausing", "cancelling"} /\ work[c].aborted
           /\ Throws(c) /\ local' = [local EXCEPT ![w] = Asked(@, "pause")]
  <2> DEFINE l == Asked(local[w], "pause")
  <2>1. local[w] \in LocalState /\ local \in [Laptop -> LocalState]
    BY <1>2 DEF CompanionInv, CompanionTypeOK
  <2>2. /\ l \in LocalState /\ l.status # "working"
        /\ l.status # "complete" /\ l.status # "absent"
        /\ l.published = local[w].published /\ l.saved = local[w].saved
        /\ l.verified = local[w].verified /\ l.removed = local[w].removed
    <3>1. local[w].status # "complete" /\ local[w].status # "absent"
      BY <1>5
    <3> QED BY <2>1, <3>1, AskedStops
  <2>3. /\ work' \in [Claim -> WorkState] /\ \A d \in Claim \ {c} : work'[d] = work[d]
        /\ work'[c].at \in {"none", "ended"} /\ work'[c].value # "complete"
        /\ OwnState(c, w)
    BY <1>1, <1>5, Throws1
  <2> HIDE DEF l
  <2>4. local' \in [Laptop -> LocalState] /\ \A v \in Laptop : local'[v] = IF v = w THEN l ELSE local[v]
    <3>1. local' = [local EXCEPT ![w] = l]
      BY <1>5 DEF l
    <3> QED BY <2>1, <2>2, <3>1
  <2>5. OwnStep(c, w)
    BY <1>1, <1>2, <2>2, <2>3, <2>4 DEF OwnStep, CompanionInv, CompanionTypeOK
  <2>6. OwnStation(c, w)
    BY <2>3 DEF OwnStation, Beyond
  <2>7. OwnJournal(w)
    BY <1>1, <1>2, <1>5, <2>2, <2>4 DEF OwnJournal, CompanionInv, JournalIsTrue, LastCopyIsKept
  <2>8. local'[w].status # "working"
    BY <1>2, <2>2, <2>4
  <2> QED BY <1>1, <1>2, <2>3, <2>5, <2>6, <2>7, <2>8, OwnStepInv
<1> QED BY <1>3, <1>4, <1>5 DEF Wait

LEMMA FindInv ==
  ASSUME CompanionInv, NEW c \in Claim, Find(c)
  PROVE  CompanionInv'
<1> DEFINE w == work[c].laptop
<1>1. work[c].at = "find" /\ UNCHANGED <<pi, tick, active, cloud>>
  BY DEF Find, Running
<1>2. w \in Laptop
  BY <1>1, OwnFacts
<1>3. local[w] \in LocalState /\ local \in [Laptop -> LocalState] /\ files \in [Laptop -> BOOLEAN]
  BY <1>2 DEF CompanionInv, CompanionTypeOK
<1>4. ASSUME Goes(c, "wait", "foreground"), NEW status \in LocalStatus \ {"absent"},
             local' = [local EXCEPT ![w].status = status],
             status = "complete" => local[w].published,
             files' = files \/ files' = [files EXCEPT ![w] = TRUE]
      PROVE  CompanionInv'
  <2>1. /\ work' \in [Claim -> WorkState] /\ \A d \in Claim \ {c} : work'[d] = work[d]
        /\ work'[c].at = "wait" /\ work'[c].value # "complete"
        /\ OwnState(c, w)
    BY <1>1, <1>4, Goes1, Words
  <2>2. /\ local' \in [Laptop -> LocalState]
        /\ local'[w].status = status
        /\ local'[w].published = local[w].published /\ local'[w].saved = local[w].saved
        /\ local'[w].verified = local[w].verified /\ local'[w].removed = local[w].removed
    BY <1>2, <1>3, <1>4 DEF LocalState
  <2>3. \A v \in Laptop \ {w} : local'[v] = local[v] /\ files'[v] = files[v]
    BY <1>3, <1>4
  <2>4. files' \in [Laptop -> BOOLEAN] /\ (~files'[w] => ~files[w])
    BY <1>2, <1>3, <1>4
  <2>5. OwnStep(c, w)
    BY <1>1, <2>1, <2>2, <2>3, <2>4 DEF OwnStep, CompanionInv, CompanionTypeOK
  <2>6. OwnStation(c, w)
    BY <2>1 DEF OwnStation, Beyond
  <2>7. OwnJournal(w)
    BY <1>1, <1>2, <1>4, <2>2, <2>4 DEF OwnJournal, CompanionInv, JournalIsTrue, LastCopyIsKept
  <2> QED BY <1>1, <1>2, <2>1, <2>5, <2>6, <2>7, OwnStepInv
<1>5. CASE local[w].status = "absent" /\ work[c].aborted /\ Throws(c) /\ UNCHANGED <<local, files>>
  BY <1>1, <1>5, QuietThrow
<1>6. CASE /\ local[w].status = "absent" /\ Goes(c, "wait", "foreground")
           /\ local' = [local EXCEPT ![w].status = "working"]
           /\ files' = [files EXCEPT ![w] = TRUE]
  <2>1. "working" \in LocalStatus \ {"absent"} /\ "working" # "complete"
    BY DEF LocalStatus
  <2> QED BY <1>4, <1>6, <2>1
<1>7. CASE /\ local[w].status # "absent" /\ Goes(c, "wait", "foreground") /\ UNCHANGED files
           /\ local' = [local EXCEPT ![w].status = IF @ \in {"paused", "failed"} THEN "working" ELSE @]
  <2> DEFINE status == IF local[w].status \in {"paused", "failed"} THEN "working" ELSE local[w].status
  <2>1. status \in LocalStatus \ {"absent"}
    BY <1>3, <1>7 DEF LocalState, LocalStatus
  <2>2. status = "complete" => local[w].published
    BY <1>2 DEF CompanionInv, JournalIsTrue
  <2>3. local' = [local EXCEPT ![w].status = status]
    BY <1>7
  <2> HIDE DEF status
  <2> QED BY <1>4, <1>7, <2>1, <2>2, <2>3
<1> QED BY <1>5, <1>6, <1>7 DEF Find

LEMMA SaveInv ==
  ASSUME CompanionInv, NEW c \in Claim, Save(c)
  PROVE  CompanionInv'
<1> DEFINE w == work[c].laptop
<1>1. work[c].at = "copy" /\ UNCHANGED <<pi, tick, active, files>>
  BY DEF Save, Running
<1>2. w \in Laptop /\ local[w].published
  BY <1>1, OwnFacts DEF Beyond
<1>3. CASE work[c].aborted
  <2>1. Throws(c) /\ UNCHANGED <<local, cloud>>
    BY <1>3 DEF Save
  <2> QED BY <1>1, <2>1, QuietThrow
<1>4. CASE ~work[c].aborted
  <2>1. /\ cloud' = [cloud EXCEPT ![w] = "there"]
        /\ local' = [local EXCEPT ![w].saved = TRUE]
        /\ Goes(c, "receipt", "background")
    BY <1>4 DEF Save
  <2>2. /\ work' \in [Claim -> WorkState] /\ \A d \in Claim \ {c} : work'[d] = work[d]
        /\ work'[c].at = "receipt" /\ work'[c].value # "complete"
        /\ OwnState(c, w)
    BY <1>1, <2>1, Goes1, Words
  <2>3. /\ local' \in [Laptop -> LocalState] /\ local'[w].status = local[w].status
        /\ local'[w].published = local[w].published /\ local'[w].saved
        /\ local'[w].verified = local[w].verified /\ local'[w].removed = local[w].removed
        /\ \A v \in Laptop \ {w} : local'[v] = local[v]
    BY <1>2, <2>1 DEF CompanionInv, CompanionTypeOK, LocalState
  <2>4. /\ cloud' \in [Laptop -> {"none", "there", "gone", "gone late"}] /\ cloud'[w] = "there"
        /\ \A v \in Laptop \ {w} : cloud'[v] = cloud[v]
    BY <1>2, <2>1 DEF CompanionInv, CompanionTypeOK
  <2>5. OwnStep(c, w)
    BY <1>1, <2>2, <2>3, <2>4 DEF OwnStep, CompanionInv, CompanionTypeOK
  <2>6. OwnStation(c, w)
    BY <1>2, <2>2, <2>3 DEF OwnStation
  <2>7. OwnJournal(w)
    BY <1>2, <2>3, <2>4 DEF OwnJournal, CompanionInv, JournalIsTrue
  <2> QED BY <1>1, <1>2, <2>2, <2>3, <2>5, <2>6, <2>7, OwnStepInv
<1> QED BY <1>3, <1>4

LEMMA AskingInv ==
  ASSUME CompanionInv, NEW c \in Claim, Reserve(c) \/ Receipt(c) \/ Verify(c) \/ Release(c)
  PROVE  CompanionInv'
<1> DEFINE w == work[c].laptop
<1>1. UNCHANGED <<pi, tick, active, local, files, cloud>>
  BY DEF Reserve, Receipt, Verify, Release
<1>2. /\ work[c].at \in {"save", "receipt", "verify", "release"}
      /\ w \in Laptop /\ local[w].published
  <2>1. work[c].at \in {"save", "receipt", "verify", "release"}
    BY DEF Reserve, Receipt, Verify, Release, Running
  <2> QED BY <2>1, OwnFacts DEF Beyond
<1>3. CASE Throws(c)
  BY <1>1, <1>2, <1>3, QuietThrow
<1>4. CASE Goes(c, "copy", "background") \/ Goes(c, "verify", "background")
  BY <1>1, <1>2, <1>4, QuietGoes, Words
<1>5. CASE /\ ~(~local[w].removed /\ ~Confirmed(w))
           /\ Goes(c, IF local[w].removed THEN "release" ELSE "confirmed", "background")
  <2>1. CASE local[w].removed
    <3>1. local[w].saved
      BY <1>2, <2>1 DEF CompanionInv, JournalIsTrue
    <3>2. Goes(c, "release", "background")
      BY <1>5, <2>1
    <3> QED BY <1>1, <1>2, <2>1, <3>1, <3>2, QuietGoes, Words
  <2>2. CASE ~local[w].removed
    <3>1. local[w].saved /\ cloud[w] = "there"
      BY <1>5, <2>2 DEF Confirmed
    <3>2. Goes(c, "confirmed", "background")
      BY <1>5, <2>2
    <3> QED BY <1>1, <1>2, <3>1, <3>2, QuietGoes, Words
  <2> QED BY <2>1, <2>2
<1>6. CASE work[c].at = "release" /\ WorkEnds(c, "complete")
  <2>1. /\ work' \in [Claim -> WorkState] /\ \A d \in Claim \ {c} : work'[d] = work[d]
        /\ work'[c].at \in {"none", "ended"} /\ work'[c].value \in {"complete", "none"}
        /\ work'[c].value = "complete" => work'[c].at = "ended"
        /\ OwnState(c, w)
    <3>1. "complete" \in Values
      BY DEF Values, Finals
    <3> QED BY <1>6, <3>1, Ends1
  <2>2. local[w].saved /\ local[w].removed
    BY <1>6, OwnFacts
  <2>3. OwnStation(c, w)
    BY <1>1, <1>2, <2>1, <2>2 DEF OwnStation, Beyond
  <2> QED BY <1>1, <1>2, <2>1, <2>3, QuietStepInv
<1>7. CASE Reserve(c)
  BY <1>3, <1>4, <1>7 DEF Reserve
<1>8. CASE Receipt(c)
  BY <1>3, <1>4, <1>8 DEF Receipt
<1>9. CASE Verify(c)
  BY <1>3, <1>5, <1>9 DEF Verify
<1>10. CASE Release(c)
  BY <1>3, <1>6, <1>10 DEF Release, Running
<1> QED BY <1>7, <1>8, <1>9, <1>10

LEMMA RemoveInv ==
  ASSUME CompanionInv, NEW c \in Claim, Remove(c)
  PROVE  CompanionInv'
<1> DEFINE w == work[c].laptop
<1>1. work[c].at = "confirmed" /\ UNCHANGED <<pi, tick, active, cloud>>
  BY DEF Remove, Running
<1>2. /\ w \in Laptop /\ local[w].published /\ local[w].saved
      /\ cloud[w] \in {"there", "gone late"} /\ work[c].value # "complete"
  BY <1>1, OwnFacts DEF Beyond
<1>3. /\ local \in [Laptop -> LocalState] /\ local[w] \in LocalState
      /\ files \in [Laptop -> BOOLEAN] /\ work \in [Claim -> WorkState]
      /\ local[w].status # "absent"
  BY <1>2 DEF CompanionInv, CompanionTypeOK, JournalIsTrue
<1>5. CASE ~local[w].verified
  <2>1. local' = [local EXCEPT ![w].verified = TRUE] /\ UNCHANGED <<files, work>>
    BY <1>5 DEF Remove
  <2>2. /\ local' \in [Laptop -> LocalState] /\ local'[w].status = local[w].status
        /\ local'[w].published = local[w].published /\ local'[w].saved = local[w].saved
        /\ local'[w].removed = local[w].removed
        /\ \A v \in Laptop \ {w} : local'[v] = local[v]
    BY <1>2, <1>3, <2>1 DEF LocalState
  <2>3. OwnStep(c, w)
    BY <1>1, <1>3, <2>1, <2>2 DEF OwnStep, CompanionInv, CompanionTypeOK
  <2>4. OwnState(c, w) /\ OwnStation(c, w)
    BY <1>1, <1>2, <2>1, <2>2 DEF OwnState, OwnStation, CompanionInv, WorkIsOwned
  <2>5. OwnJournal(w)
    BY <1>1, <1>2, <1>3, <2>1, <2>2 DEF OwnJournal, CompanionInv, JournalIsTrue
  <2> QED BY <1>1, <1>2, <2>2, <2>3, <2>4, <2>5, OwnStepInv
<1>6. CASE local[w].verified /\ files[w]
  <2>1. files' = [files EXCEPT ![w] = FALSE] /\ UNCHANGED <<local, work>>
    BY <1>6 DEF Remove
  <2>2. files' \in [Laptop -> BOOLEAN] /\ \A v \in Laptop \ {w} : files'[v] = files[v]
    BY <1>3, <2>1
  <2>3. OwnStep(c, w)
    BY <1>1, <1>3, <2>1, <2>2 DEF OwnStep, CompanionInv, CompanionTypeOK
  <2>4. OwnState(c, w) /\ OwnStation(c, w)
    BY <1>1, <1>2, <2>1 DEF OwnState, OwnStation, CompanionInv, WorkIsOwned
  <2>5. OwnJournal(w)
    BY <1>1, <1>2, <1>3, <2>1 DEF OwnJournal, CompanionInv, JournalIsTrue
  <2> QED BY <1>1, <1>2, <2>1, <2>3, <2>4, <2>5, OwnStepInv
<1>7. CASE local[w].verified /\ ~files[w]
  <2>1. /\ local' = [local EXCEPT ![w].removed = TRUE] /\ UNCHANGED files
        /\ Goes(c, "release", "background")
    BY <1>7 DEF Remove
  <2>2. /\ local' \in [Laptop -> LocalState] /\ local'[w].status = local[w].status
        /\ local'[w].published = local[w].published /\ local'[w].saved = local[w].saved
        /\ local'[w].verified = local[w].verified /\ local'[w].removed
        /\ \A v \in Laptop \ {w} : local'[v] = local[v]
    BY <1>2, <1>3, <2>1 DEF LocalState
  <2>3. /\ work' \in [Claim -> WorkState] /\ \A d \in Claim \ {c} : work'[d] = work[d]
        /\ work'[c].at = "release" /\ work'[c].value # "complete"
        /\ OwnState(c, w)
    BY <1>1, <2>1, Goes1, Words
  <2>4. OwnStep(c, w)
    BY <1>1, <1>3, <2>1, <2>2, <2>3 DEF OwnStep, CompanionInv, CompanionTypeOK
  <2>5. OwnStation(c, w)
    BY <1>2, <2>2, <2>3 DEF OwnStation
  <2>6. OwnJournal(w)
    BY <1>1, <1>2, <1>3, <2>1, <2>2 DEF OwnJournal, CompanionInv, JournalIsTrue
  <2> QED BY <1>1, <1>2, <2>2, <2>3, <2>4, <2>5, <2>6, OwnStepInv
<1> QED BY <1>3, <1>5, <1>6, <1>7

LEMMA WorksInv ==
  ASSUME CompanionInv, NEW c \in Claim, Works(c)
  PROVE  CompanionInv'
BY FindInv, WaitInv, SaveInv, AskingInv, RemoveInv DEF Works

LEMMA QueueEndsInv ==
  ASSUME CompanionInv, NEW w \in Laptop,
         NEW status \in {"complete", "failed", "paused", "cancelled"}, QueueEnds(w, status)
  PROVE  CompanionInv'
<1>1. /\ UNCHANGED <<pi, tick, active, work, files, cloud>>
      /\ local[w].status \in {"working", "pausing", "cancelling"}
      /\ local' = [local EXCEPT ![w].status = status, ![w].published = @ \/ status = "complete"]
  BY DEF QueueEnds
<1>2. local \in [Laptop -> LocalState] /\ local[w] \in LocalState
  BY DEF CompanionInv, CompanionTypeOK
<1>3. (local[w].published \/ status = "complete") \in BOOLEAN /\ status \in LocalStatus
  BY DEF LocalStatus
<1>4. /\ local' \in [Laptop -> LocalState] /\ local'[w].status = status
      /\ local'[w].published <=> (local[w].published \/ status = "complete")
      /\ local'[w].saved = local[w].saved
      /\ local'[w].verified = local[w].verified /\ local'[w].removed = local[w].removed
      /\ \A v \in Laptop \ {w} : local'[v] = local[v]
  BY <1>1, <1>2, <1>3 DEF LocalState
<1>5. CompanionTypeOK'
  BY <1>1, <1>4 DEF CompanionInv, CompanionTypeOK
<1>6. ClaimsAreOwn' /\ WorkIsOwned' /\ NoneRests'
  BY <1>1 DEF CompanionInv, ClaimsAreOwn, WorkIsOwned, NoneRests
<1>7. \A v \in Laptop : /\ local[v].published => local'[v].published
                        /\ local[v].saved => local'[v].saved
                        /\ local[v].removed => local'[v].removed
  BY <1>4
<1>8. StationsAreTrue'
  <2> SUFFICES ASSUME NEW c \in Claim, work[c].at # "none"
               PROVE  LET v == work[c].laptop IN
                      /\ work[c].at \in Beyond => local'[v].published
                      /\ work[c].at = "confirmed" => local'[v].saved /\ cloud[v] \in {"there", "gone late"}
                      /\ work[c].at = "release" \/ work[c].value = "complete" =>
                           local'[v].published /\ local'[v].saved /\ local'[v].removed
                      /\ work[c].value = "complete" => work[c].at = "ended"
    BY <1>1, Blank DEF CompanionInv, NoneRests, StationsAreTrue, Beyond
  <2>1. work[c].laptop \in Laptop
    BY DEF CompanionInv, WorkIsOwned
  <2> QED BY <1>7, <2>1 DEF CompanionInv, StationsAreTrue
<1>9. JournalIsTrue'
  BY <1>1, <1>4, <1>7 DEF CompanionInv, JournalIsTrue
<1>10. /\ CompleteIsDone'
       /\ pi'.status = "complete" => pi'.worker \in Laptop
  BY <1>1, <1>7 DEF CompanionInv, CompleteIsDone
<1>11. LastCopyIsKept'
  BY <1>1, <1>4, <1>7 DEF CompanionInv, LastCopyIsKept
<1>12. WorkCanBeStopped'
  <2> SUFFICES ASSUME NEW v \in Laptop, local'[v].status = "working"
               PROVE  local[v].status = "working"
    BY <1>1 DEF CompanionInv, WorkCanBeStopped
  <2> QED BY <1>4
<1> QED BY <1>5, <1>6, <1>8, <1>9, <1>10, <1>11, <1>12 DEF CompanionInv

\* A step of the Pi, the network or the owner that no laptop has heard of yet.
LEMMA UnheardInv ==
  ASSUME CompanionInv, UNCHANGED <<active, work, local, files, cloud>>,
         pi' \in PiState, tick' \in [Laptop -> TickState], pi.given <= pi'.given,
         ClaimsAreOwn',
         pi'.status = "complete" =>
           /\ pi'.worker \in Laptop
           /\ local[pi'.worker].published /\ local[pi'.worker].saved /\ local[pi'.worker].removed
  PROVE  CompanionInv'
<1>1. CompanionTypeOK'
  BY DEF CompanionInv, CompanionTypeOK
<1>2. WorkIsOwned'
  <2>1. pi.given \in 0..MaxClaims /\ pi'.given \in 0..MaxClaims
    BY Types DEF CompanionInv, PiState
  <2>2. \A c \in Claim : c \in Nat /\ (c <= pi.given => c <= pi'.given)
    BY <2>1 DEF Claim
  <2> QED BY <2>2 DEF CompanionInv, WorkIsOwned
<1>3. NoneRests' /\ StationsAreTrue' /\ JournalIsTrue'
  BY DEF CompanionInv, NoneRests, StationsAreTrue, JournalIsTrue
<1>4. CompleteIsDone'
  BY DEF CompleteIsDone
<1>5. LastCopyIsKept' /\ WorkCanBeStopped'
  <2>1. LastCopyIsKept'
    BY DEF CompanionInv, LastCopyIsKept
  <2>2. WorkCanBeStopped'
    BY DEF CompanionInv, WorkCanBeStopped
  <2> QED BY <2>1, <2>2
<1> QED BY <1>1, <1>2, <1>3, <1>4, <1>5 DEF CompanionInv

LEMMA OwnerInv ==
  ASSUME CompanionInv,
         \/ \E action \in {"pause", "cancel"} : OwnerStops(action)
         \/ OwnerResumes \/ LeaseEnds
         \/ \E w \in Laptop : FallSilent(w)
  PROVE  CompanionInv'
<1>1. UNCHANGED <<tick, active, work, local, files, cloud>>
  BY DEF OwnerStops, OwnerResumes, LeaseEnds, FallSilent
<1>2. pi \in PiState /\ pi.given \in 0..MaxClaims
  BY Types DEF CompanionInv, CompanionTypeOK
<1>3. /\ pi' \in PiState /\ pi'.given = pi.given
      /\ pi'.status = "complete" => pi.status = "complete" /\ pi'.worker = pi.worker
  <2>1. ASSUME NEW action \in {"pause", "cancel"}, OwnerStops(action)
        PROVE  /\ pi' \in PiState /\ pi'.given = pi.given /\ pi'.status # "complete"
    <3>1. pi' = [pi EXCEPT !.status = IF action = "cancel" THEN "cancelled" ELSE "paused", !.command = action]
      BY <2>1 DEF OwnerStops
    <3> QED BY <1>2, <3>1 DEF PiState, PiStatus
  <2>2. ASSUME OwnerResumes
        PROVE  /\ pi' \in PiState /\ pi'.given = pi.given /\ pi'.status # "complete"
    <3>1. pi' = [pi EXCEPT !.status = "queued", !.command = "none", !.claim = 0, !.lease = FALSE]
      BY <2>2 DEF OwnerResumes
    <3>2. 0 \in 0..MaxClaims
      OBVIOUS
    <3> QED BY <1>2, <3>1, <3>2 DEF PiState, PiStatus
  <2>3. ASSUME LeaseEnds
        PROVE  /\ pi' \in PiState /\ pi'.given = pi.given /\ pi'.status = "active"
    BY <1>2, <2>3 DEF LeaseEnds, PiState, PiStatus
  <2>4. ASSUME NEW w \in Laptop, FallSilent(w)
        PROVE  /\ pi' \in PiState /\ pi'.given = pi.given
               /\ pi'.status = pi.status /\ pi'.worker = pi.worker
    <3> DEFINE lease == pi.lease /\ pi.worker # w
    <3>1. pi' = [pi EXCEPT !.alive = [@ EXCEPT ![w] = FALSE], !.lease = lease]
      BY <1>2, <2>4 DEF FallSilent, PiState
    <3>2. lease \in BOOLEAN /\ [pi.alive EXCEPT ![w] = FALSE] \in [Laptop -> BOOLEAN]
      BY <1>2 DEF PiState
    <3> HIDE DEF lease
    <3> QED BY <1>2, <3>1, <3>2 DEF PiState
  <2> QED BY <2>1, <2>2, <2>3, <2>4
<1>4. ClaimsAreOwn'
  BY <1>1, <1>3 DEF CompanionInv, ClaimsAreOwn
<1>5. tick' \in [Laptop -> TickState]
  BY <1>1 DEF CompanionInv, CompanionTypeOK
<1>6. pi'.status = "complete" =>
        /\ pi'.worker \in Laptop
        /\ local[pi'.worker].published /\ local[pi'.worker].saved /\ local[pi'.worker].removed
  BY <1>3 DEF CompanionInv, CompleteIsDone
<1> QED BY <1>1, <1>2, <1>3, <1>4, <1>5, <1>6, UnheardInv

LEMMA LosePollInv ==
  ASSUME CompanionInv, NEW w \in Laptop, LosePoll(w)
  PROVE  CompanionInv'
<1>1. /\ UNCHANGED <<pi, active, work, local, files, cloud>>
      /\ tick' = [tick EXCEPT ![w] = Unpolled(tick[w].session)]
  BY DEF LosePoll, Quiet
<1>2. tick \in [Laptop -> TickState] /\ tick[w].session \in Nat /\ pi \in PiState /\ pi.given \in 0..MaxClaims
  BY Types DEF CompanionInv, CompanionTypeOK
<1>3. /\ tick' \in [Laptop -> TickState] /\ tick'[w].at = "idle" /\ tick'[w].new = 0
      /\ \A v \in Laptop \ {w} : tick'[v] = tick[v]
  BY <1>1, <1>2, Blank
<1>4. ClaimsAreOwn'
  BY <1>1, <1>2, <1>3 DEF CompanionInv, ClaimsAreOwn
<1>5. pi'.status = "complete" =>
        /\ pi'.worker \in Laptop
        /\ local[pi'.worker].published /\ local[pi'.worker].saved /\ local[pi'.worker].removed
  BY <1>1 DEF CompanionInv, CompleteIsDone
<1> QED BY <1>1, <1>2, <1>3, <1>4, <1>5, UnheardInv

LEMMA PollInv ==
  ASSUME CompanionInv, NEW w \in Laptop, Poll(w)
  PROVE  CompanionInv'
<1> DEFINE claim    == active[w]
           value    == IF claim = 0 THEN "none" ELSE work[claim].value
           heard    == [pi EXCEPT !.known[w] = tick[w].session, !.alive[w] = TRUE]
           reported == IF claim = 0 THEN heard ELSE Reported(heard, w, claim, value)
           ours     == claim # 0 /\ claim = pi.claim /\ pi.worker = w
           after    == IF Claimable(reported) THEN Claimed(reported, w) ELSE reported
           told     == [at |-> "answered", claim |-> claim, session |-> tick[w].session,
                        command |-> IF ours THEN pi.command ELSE "stale",
                        new |-> IF after.claim # pi.claim THEN after.claim ELSE 0]
<1>1. UNCHANGED <<active, work, local, files, cloud>> /\ pi' = after /\ tick' = [tick EXCEPT ![w] = told]
  BY DEF Poll
<1>2. /\ pi \in PiState /\ tick \in [Laptop -> TickState] /\ tick[w].session \in Nat
      /\ claim \in 0..MaxClaims /\ pi.given \in 0..MaxClaims /\ pi.claim \in 0..MaxClaims
      /\ pi.command \in {"none", "pause", "cancel"}
  BY Types DEF CompanionInv, CompanionTypeOK, PiState
<1>3. /\ heard \in PiState /\ heard.status = pi.status /\ heard.worker = pi.worker
      /\ heard.given = pi.given /\ heard.claim = pi.claim
  <2>1. [pi.known EXCEPT ![w] = tick[w].session] \in [Laptop -> Nat]
        /\ [pi.alive EXCEPT ![w] = TRUE] \in [Laptop -> BOOLEAN]
    BY <1>2 DEF PiState
  <2>2. heard = [pi EXCEPT !.known = [pi.known EXCEPT ![w] = tick[w].session],
                           !.alive = [pi.alive EXCEPT ![w] = TRUE]]
    BY <1>2 DEF PiState
  <2> HIDE DEF heard
  <2> QED BY <1>2, <2>1, <2>2 DEF PiState
<1> HIDE DEF heard
<1>4. claim # 0 => claim \in Claim /\ work[claim].laptop = w /\ value \in Values
  BY <1>2, Types DEF CompanionInv, ClaimsAreOwn
<1>5. /\ reported \in PiState /\ reported.given = pi.given /\ reported.claim = pi.claim
      /\ reported.status = "complete" =>
           \/ pi.status = "complete" /\ reported.worker = pi.worker
           \/ claim # 0 /\ value = "complete" /\ reported.worker = w
  <2>1. CASE reported = heard
    BY <1>3, <2>1
  <2>2. CASE reported # heard
    <3> DEFINE stage == IF value = "background" THEN "background" ELSE "foreground"
               status == IF value \in Finals THEN value ELSE heard.status
    <3>1. /\ claim # 0 /\ heard.worker = w /\ heard.status = "active"
          /\ reported = [heard EXCEPT !.stage = stage, !.status = status, !.lease = TRUE]
      BY <2>2 DEF Reported
    <3>2. stage \in {"foreground", "background"} /\ status \in PiStatus
          /\ (status = "complete" => value = "complete")
      BY <3>1 DEF Finals, PiStatus
    <3> HIDE DEF stage, status, reported
    <3>3. /\ reported \in PiState /\ reported.given = heard.given /\ reported.claim = heard.claim
          /\ reported.worker = heard.worker /\ reported.status = status
      BY <1>3, <3>1, <3>2 DEF PiState
    <3> QED BY <1>3, <3>1, <3>2, <3>3
  <2> QED BY <2>1, <2>2
<1> HIDE DEF reported
<1>6. /\ after \in PiState
      /\ \/ after = reported
         \/ /\ after.given = pi.given + 1 /\ after.claim = pi.given + 1 /\ after.given <= MaxClaims
            /\ after.status = "active"
  <2>1. CASE after = reported
    BY <1>5, <2>1
  <2>2. CASE after # reported
    <3>1. Claimable(reported) /\ after = Claimed(reported, w)
      BY <2>2
    <3>2. pi.given < MaxClaims
      BY <1>5, <3>1 DEF Claimable
    <3>3. pi.given + 1 \in 0..MaxClaims
      BY <1>2, <3>2
    <3>4. reported.known[w] \in Nat
      BY <1>5 DEF PiState
    <3>5. after = [reported EXCEPT !.status = "active", !.worker = w, !.session = reported.known[w],
                     !.claim = pi.given + 1, !.given = pi.given + 1, !.lease = TRUE]
      BY <1>5, <3>1 DEF Claimed
    <3> HIDE DEF after
    <3>6. /\ after \in PiState /\ after.given = pi.given + 1 /\ after.claim = pi.given + 1
          /\ after.status = "active"
      BY <1>5, <3>3, <3>4, <3>5 DEF PiState, PiStatus
    <3> QED BY <3>3, <3>6
  <2> QED BY <2>1, <2>2
<1> HIDE DEF after
<1>7. /\ told \in TickState /\ told.at = "answered" /\ told.claim = claim
      /\ told.new = 0 \/ (told.new = pi.given + 1 /\ pi'.given = pi.given + 1)
  <2> DEFINE new == IF after.claim # pi.claim THEN after.claim ELSE 0
             command == IF ours THEN pi.command ELSE "stale"
  <2>1. new \in 0..MaxClaims /\ (new = 0 \/ (new = pi.given + 1 /\ pi'.given = pi.given + 1))
    BY <1>1, <1>5, <1>6 DEF PiState
  <2>2. command \in {"none", "pause", "cancel", "stale"}
    BY <1>2
  <2> HIDE DEF new, command
  <2>3. told = [at |-> "answered", claim |-> claim, session |-> tick[w].session,
                command |-> command, new |-> new]
    BY DEF new, command
  <2> HIDE DEF told
  <2> QED BY <1>2, <2>1, <2>2, <2>3 DEF TickState
<1> HIDE DEF told
<1>8. pi.given <= pi'.given /\ pi' \in PiState /\ pi'.given \in 0..MaxClaims
  BY <1>1, <1>2, <1>5, <1>6 DEF PiState
<1>9. /\ tick' \in [Laptop -> TickState] /\ tick'[w] = told
      /\ \A v \in Laptop \ {w} : tick'[v] = tick[v]
  BY <1>1, <1>2, <1>7
<1>10. pi.given + 1 \in Claim /\ told.new # 0 => work[pi.given + 1] = NoWork
  <2> SUFFICES ASSUME pi.given + 1 \in Claim PROVE work[pi.given + 1] = NoWork
    OBVIOUS
  <2>1. work[pi.given + 1].at = "none"
    BY <1>2 DEF CompanionInv, WorkIsOwned
  <2> QED BY <2>1 DEF CompanionInv, NoneRests
<1>11. ClaimsAreOwn'
  <2> SUFFICES ASSUME NEW v \in Laptop
               PROVE  /\ tick'[v].at = "answered" => tick'[v].claim = active[v]
                      /\ tick'[v].new <= pi'.given /\ active[v] <= pi'.given
                      /\ active[v] # 0 => /\ work[active[v]].laptop = v /\ work[active[v]].at # "none"
                                          /\ tick'[v].new # active[v]
                      /\ tick'[v].new # 0 =>
                           /\ work[tick'[v].new] = NoWork
                           /\ \A u \in Laptop \ {v} : tick'[u].new # tick'[v].new /\ active[u] # tick'[v].new
    BY <1>1 DEF ClaimsAreOwn
  <2>1. \A u \in Laptop : /\ tick[u].new \in 0..MaxClaims /\ active[u] \in 0..MaxClaims
                          /\ tick[u].new <= pi.given /\ active[u] <= pi.given
    BY Types DEF CompanionInv, ClaimsAreOwn
  <2>2. \A u \in Laptop : active[u] # 0 => work[active[u]].laptop = u /\ work[active[u]].at # "none"
                                           /\ tick[u].new # active[u]
    BY DEF CompanionInv, ClaimsAreOwn
  <2>3. CASE v = w
    <3>1. tick'[v].new = 0 \/ (tick'[v].new = pi.given + 1 /\ pi'.given = pi.given + 1)
      BY <1>7, <1>9, <2>3
    <3>2. tick'[v].at = "answered" => tick'[v].claim = active[v]
      BY <1>7, <1>9, <2>3
    <3>3. tick'[v].new # 0 => tick'[v].new \in Claim
      BY <1>2, <1>8, <3>1 DEF Claim
    <3> QED BY <1>2, <1>8, <1>7, <1>9, <1>10, <2>1, <2>2, <2>3, <3>1, <3>2, <3>3
  <2>4. CASE v # w
    <3>1. tick'[v] = tick[v]
      BY <1>9, <2>4
    <3>2. tick[v].new # 0 =>
            /\ work[tick[v].new] = NoWork
            /\ \A u \in Laptop \ {v} : tick[u].new # tick[v].new /\ active[u] # tick[v].new
      BY DEF CompanionInv, ClaimsAreOwn
    <3>3. tick[v].at = "answered" => tick[v].claim = active[v]
      BY DEF CompanionInv, ClaimsAreOwn
    <3>4. tick[v].new # 0 => tick'[w].new # tick[v].new
      BY <1>2, <1>7, <1>9, <2>1
    <3>5. tick[v].new <= pi'.given /\ active[v] <= pi'.given
      BY <1>2, <1>8, <2>1
    <3> QED BY <1>9, <2>2, <2>4, <3>1, <3>2, <3>3, <3>4, <3>5
  <2> QED BY <2>3, <2>4
<1>12. pi'.status = "complete" =>
         /\ pi'.worker \in Laptop
         /\ local[pi'.worker].published /\ local[pi'.worker].saved /\ local[pi'.worker].removed
  <2> SUFFICES ASSUME pi'.status = "complete"
               PROVE  /\ pi'.worker \in Laptop
                      /\ local[pi'.worker].published /\ local[pi'.worker].saved /\ local[pi'.worker].removed
    OBVIOUS
  <2>1. pi' = reported /\ reported.status = "complete"
    BY <1>1, <1>6
  <2>2. CASE pi.status = "complete" /\ reported.worker = pi.worker
    BY <2>1, <2>2 DEF CompanionInv, CompleteIsDone
  <2>3. CASE claim # 0 /\ value = "complete" /\ reported.worker = w
    BY <1>4, <2>1, <2>3 DEF CompanionInv, StationsAreTrue
  <2> QED BY <1>5, <2>1, <2>2, <2>3
<1> QED BY <1>1, <1>8, <1>9, <1>11, <1>12, UnheardInv

\* What follows when laptop w's journal keeps what it says and changes at most
\* the status of its job.
LEMMA JournalKept ==
  ASSUME CompanionInv, NEW w \in Laptop, NEW l \in LocalState,
         \A v \in Laptop : local'[v] = IF v = w THEN l ELSE local[v],
         l.status = "complete" <=> local[w].status = "complete",
         l.status = "absent" <=> local[w].status = "absent",
         l.published = local[w].published, l.saved = local[w].saved,
         l.verified = local[w].verified, l.removed = local[w].removed,
         UNCHANGED <<pi, files, cloud>>
  PROVE  /\ JournalIsTrue' /\ LastCopyIsKept' /\ CompleteIsDone'
         /\ pi'.status = "complete" => pi'.worker \in Laptop
         /\ \A v \in Laptop : /\ local[v].published = local'[v].published
                              /\ local[v].saved = local'[v].saved
                              /\ local[v].removed = local'[v].removed
<1>1. \A v \in Laptop : /\ local[v].published = local'[v].published
                        /\ local[v].saved = local'[v].saved
                        /\ local[v].removed = local'[v].removed
                        /\ local[v].verified = local'[v].verified
                        /\ local'[v].status = "complete" <=> local[v].status = "complete"
                        /\ local'[v].status = "absent" <=> local[v].status = "absent"
  OBVIOUS
<1>2. JournalIsTrue'
  BY <1>1 DEF CompanionInv, JournalIsTrue
<1>3. LastCopyIsKept'
  BY <1>1 DEF CompanionInv, LastCopyIsKept
<1>4. CompleteIsDone' /\ (pi'.status = "complete" => pi'.worker \in Laptop)
  BY <1>1 DEF CompanionInv, CompleteIsDone
<1> QED BY <1>1, <1>2, <1>3, <1>4

LEMMA RestartInv ==
  ASSUME CompanionInv, NEW w \in Laptop, Restart(w)
  PROVE  CompanionInv'
<1>1. /\ UNCHANGED <<pi, files, cloud>>
      /\ tick' = [tick EXCEPT ![w] = Unpolled(tick[w].session + 1)]
      /\ active' = [active EXCEPT ![w] = 0]
      /\ work' = [c \in Claim |-> IF work[c].laptop = w THEN NoWork ELSE work[c]]
      /\ local' = [local EXCEPT ![w].status = IF @ \in {"working", "pausing", "cancelling"} THEN "paused" ELSE @]
  BY DEF Restart
<1>2. /\ tick \in [Laptop -> TickState] /\ active \in [Laptop -> 0..MaxClaims]
      /\ work \in [Claim -> WorkState] /\ local \in [Laptop -> LocalState]
      /\ local[w] \in LocalState /\ local[w].status \in LocalStatus
      /\ tick[w].session + 1 \in Nat /\ 0 \in 0..MaxClaims
  <2>1. tick[w].session \in Nat
    BY Types DEF CompanionInv
  <2>2. tick[w].session + 1 \in Nat /\ 0 \in 0..MaxClaims
    BY <2>1
  <2> QED BY <2>2, Types DEF CompanionInv, CompanionTypeOK
<1>3. /\ tick' \in [Laptop -> TickState] /\ tick'[w].at = "idle" /\ tick'[w].new = 0
      /\ \A v \in Laptop \ {w} : tick'[v] = tick[v]
  BY <1>1, <1>2, Blank
<1>4. active' \in [Laptop -> 0..MaxClaims] /\ active'[w] = 0 /\ \A v \in Laptop \ {w} : active'[v] = active[v]
  BY <1>1, <1>2
<1>5. work' \in [Claim -> WorkState] /\ \A c \in Claim : work'[c] = IF work[c].laptop = w THEN NoWork ELSE work[c]
  BY <1>1, <1>2, Blank
<1> DEFINE status == IF local[w].status \in {"working", "pausing", "cancelling"} THEN "paused" ELSE local[w].status
           l == [local[w] EXCEPT !.status = status]
<1>6. /\ l \in LocalState /\ l.status # "working"
      /\ l.status = "complete" <=> local[w].status = "complete"
      /\ l.status = "absent" <=> local[w].status = "absent"
      /\ l.published = local[w].published /\ l.saved = local[w].saved
      /\ l.verified = local[w].verified /\ l.removed = local[w].removed
  <2>1. /\ status \in LocalStatus /\ status # "working"
        /\ status = "complete" <=> local[w].status = "complete"
        /\ status = "absent" <=> local[w].status = "absent"
    BY <1>2 DEF LocalStatus
  <2> HIDE DEF status
  <2> QED BY <1>2, <2>1 DEF LocalState
<1>7. local' \in [Laptop -> LocalState] /\ \A v \in Laptop : local'[v] = IF v = w THEN l ELSE local[v]
  BY <1>1, <1>2, <1>6
<1> HIDE DEF l, status
<1>8. /\ JournalIsTrue' /\ LastCopyIsKept' /\ CompleteIsDone'
      /\ pi'.status = "complete" => pi'.worker \in Laptop
      /\ \A v \in Laptop : /\ local[v].published = local'[v].published
                           /\ local[v].saved = local'[v].saved
                           /\ local[v].removed = local'[v].removed
  BY <1>1, <1>6, <1>7, JournalKept
<1>9. CompanionTypeOK'
  BY <1>1, <1>3, <1>4, <1>5, <1>7 DEF CompanionInv, CompanionTypeOK
<1>10. ClaimsAreOwn'
  <2> SUFFICES ASSUME NEW v \in Laptop
               PROVE  /\ tick'[v].at = "answered" => tick'[v].claim = active'[v]
                      /\ tick'[v].new <= pi.given /\ active'[v] <= pi.given
                      /\ active'[v] # 0 => /\ work'[active'[v]].laptop = v /\ work'[active'[v]].at # "none"
                                           /\ tick'[v].new # active'[v]
                      /\ tick'[v].new # 0 =>
                           /\ work'[tick'[v].new] = NoWork
                           /\ \A u \in Laptop \ {v} : tick'[u].new # tick'[v].new /\ active'[u] # tick'[v].new
    BY <1>1 DEF ClaimsAreOwn
  <2>1. CASE v = w
    <3>1. 0 <= pi.given
      BY Types DEF CompanionInv
    <3> QED BY <1>3, <1>4, <2>1, <3>1
  <2>2. CASE v # w
    <3>1. tick'[v] = tick[v] /\ active'[v] = active[v]
      BY <1>3, <1>4, <2>2
    <3>2. active[v] # 0 => active[v] \in Claim
      BY Types DEF CompanionInv
    <3>3. tick[v].new # 0 => tick[v].new \in Claim
      BY Types DEF CompanionInv
    <3>4. \A u \in Laptop \ {v} :
            tick[v].new # 0 => tick[u].new # tick[v].new /\ active[u] # tick[v].new
      BY DEF CompanionInv, ClaimsAreOwn
    <3>5. /\ tick[v].at = "answered" => tick[v].claim = active[v]
          /\ tick[v].new <= pi.given /\ active[v] <= pi.given
          /\ active[v] # 0 => /\ work[active[v]].laptop = v /\ work[active[v]].at # "none"
                              /\ tick[v].new # active[v]
          /\ tick[v].new # 0 => work[tick[v].new] = NoWork
      BY DEF CompanionInv, ClaimsAreOwn
    <3>6. active[v] # 0 => work'[active[v]] = work[active[v]]
      BY <1>5, <2>2, <3>2, <3>5
    <3>7. tick[v].new # 0 => work'[tick[v].new] = NoWork
      BY <1>5, <3>3, <3>5
    <3>8. \A u \in Laptop \ {v} :
            tick[v].new # 0 => tick'[u].new # tick[v].new /\ active'[u] # tick[v].new
      BY <1>3, <1>4, <3>4
    <3> QED BY <3>1, <3>5, <3>6, <3>7, <3>8
  <2> QED BY <2>1, <2>2
<1>11. WorkIsOwned'
  <2> SUFFICES ASSUME NEW c \in Claim, work'[c].at # "none"
               PROVE  /\ c <= pi.given /\ work'[c].laptop \in Laptop
                      /\ active'[work'[c].laptop] = c \/ (work'[c].aborted /\ work'[c].at # "ended")
    BY <1>1 DEF WorkIsOwned
  <2>1. work'[c] = work[c] /\ work[c].laptop # w
    BY <1>5, Blank
  <2> QED BY <1>4, <2>1 DEF CompanionInv, WorkIsOwned
<1>12. NoneRests'
  BY <1>5 DEF CompanionInv, NoneRests
<1>13. StationsAreTrue'
  <2> SUFFICES ASSUME NEW c \in Claim, work'[c].at # "none"
               PROVE  LET v == work'[c].laptop IN
                      /\ work'[c].at \in Beyond => local'[v].published
                      /\ work'[c].at = "confirmed" => local'[v].saved /\ cloud[v] \in {"there", "gone late"}
                      /\ work'[c].at = "release" \/ work'[c].value = "complete" =>
                           local'[v].published /\ local'[v].saved /\ local'[v].removed
                      /\ work'[c].value = "complete" => work'[c].at = "ended"
    BY <1>1, <1>12, Blank DEF NoneRests, StationsAreTrue, Beyond
  <2>1. work'[c] = work[c] /\ work[c].laptop \in Laptop
    BY <1>5, Blank DEF CompanionInv, WorkIsOwned
  <2> QED BY <1>8, <2>1 DEF CompanionInv, StationsAreTrue
<1>14. WorkCanBeStopped'
  <2> SUFFICES ASSUME NEW v \in Laptop, local'[v].status = "working"
               PROVE  \E c \in Claim : /\ work'[c].laptop = v /\ work'[c].at = "wait"
                                       /\ active'[v] = c \/ work'[c].aborted
    BY DEF WorkCanBeStopped
  <2>1. v # w /\ local[v].status = "working"
    BY <1>6, <1>7
  <2>2. PICK c \in Claim : /\ work[c].laptop = v /\ work[c].at = "wait"
                           /\ active[v] = c \/ work[c].aborted
    BY <2>1 DEF CompanionInv, WorkCanBeStopped
  <2> QED BY <1>4, <1>5, <2>1, <2>2
<1> QED BY <1>8, <1>9, <1>10, <1>11, <1>12, <1>13, <1>14 DEF CompanionInv

LEMMA HearInv ==
  ASSUME CompanionInv, NEW w \in Laptop, Hear(w)
  PROVE  CompanionInv'
<1> DEFINE t     == tick[w]
           stop  == t.claim # 0 /\ t.command # "none"
           over  == t.claim # 0 /\ work[t.claim].at = "ended"
           kept  == IF stop \/ over THEN 0 ELSE active[w]
           begun == t.new # 0 /\ kept = 0
           told  == IF over THEN [work EXCEPT ![t.claim] = NoWork]
                    ELSE IF stop THEN Aborted(work, t.claim) ELSE work
           fresh == [laptop |-> w, at |-> "find", aborted |-> FALSE, value |-> "foreground"]
           asks  == stop /\ work[t.claim].at # "find"
           l     == IF asks THEN Asked(local[w], IF t.command = "cancel" THEN "cancel" ELSE "pause") ELSE local[w]
<1>1. /\ t.at = "answered" /\ UNCHANGED <<pi, files, cloud>>
      /\ work' = IF begun THEN [told EXCEPT ![t.new] = fresh] ELSE told
      /\ active' = [active EXCEPT ![w] = IF begun THEN t.new ELSE kept]
      /\ local' = [local EXCEPT ![w] = l]
      /\ tick' = [tick EXCEPT ![w] = Unpolled(tick[w].session)]
  BY DEF Hear, Quiet
<1>2. /\ tick \in [Laptop -> TickState] /\ active \in [Laptop -> 0..MaxClaims]
      /\ work \in [Claim -> WorkState] /\ local \in [Laptop -> LocalState]
      /\ local[w] \in LocalState /\ tick[w].session \in Nat
      /\ active[w] \in 0..MaxClaims /\ t.new \in 0..MaxClaims
      /\ \A c \in 0..MaxClaims : c # 0 => c \in Claim
      /\ \A c \in Claim : c # 0
  <2>1. \A c \in Claim : c # 0
    BY DEF Claim
  <2>2. CompanionTypeOK
    BY DEF CompanionInv
  <2>3. /\ local[w] \in LocalState /\ tick[w].session \in Nat
        /\ active[w] \in 0..MaxClaims /\ t.new \in 0..MaxClaims
        /\ \A c \in 0..MaxClaims : c # 0 => c \in Claim
    BY <2>2, Types
  <2> QED BY <2>1, <2>2, <2>3 DEF CompanionTypeOK
<1>3. /\ t.claim = active[w] /\ t.new <= pi.given /\ active[w] <= pi.given
      /\ active[w] # 0 => /\ work[active[w]].laptop = w /\ work[active[w]].at # "none"
                          /\ t.new # active[w]
      /\ t.new # 0 => work[t.new] = NoWork
  BY <1>1 DEF CompanionInv, ClaimsAreOwn
<1>4. fresh \in WorkState /\ fresh.at = "find" /\ fresh.laptop = w /\ fresh.value = "foreground"
  BY DEF WorkState, Stations, Values
<1> HIDE DEF fresh
<1>5. /\ begun => t.new \in Claim /\ active'[w] = t.new
      /\ ~begun => active'[w] = kept
      /\ active' \in [Laptop -> 0..MaxClaims]
      /\ \A v \in Laptop \ {w} : active'[v] = active[v]
  <2>1. kept \in 0..MaxClaims
    BY <1>2
  <2> HIDE DEF kept
  <2> QED BY <1>1, <1>2, <2>1
<1>6. /\ tick' \in [Laptop -> TickState] /\ tick'[w].at = "idle" /\ tick'[w].new = 0
      /\ \A v \in Laptop \ {w} : tick'[v] = tick[v]
  BY <1>1, <1>2, Blank
<1>7. /\ told \in [Claim -> WorkState]
      /\ \A d \in Claim :
           /\ d = t.claim /\ over => told[d] = NoWork
           /\ d = t.claim /\ stop /\ ~over => /\ told[d].at = work[d].at /\ told[d].laptop = work[d].laptop
                                              /\ told[d].value = work[d].value /\ told[d].aborted
           /\ d # t.claim \/ (~stop /\ ~over) => told[d] = work[d]
  <2>1. CASE over
    <3>1. told = [work EXCEPT ![t.claim] = NoWork] /\ t.claim \in Claim
      BY <1>2, <1>3, <2>1
    <3> HIDE DEF told
    <3> QED BY <1>2, <2>1, <3>1, Blank
  <2>2. CASE stop /\ ~over
    <3> DEFINE x == [work[t.claim] EXCEPT !.aborted = TRUE]
    <3>1. t.claim \in Claim /\ work[t.claim] \in WorkState
      BY <1>2, <1>3, <2>2
    <3>2. told = [work EXCEPT ![t.claim] = x]
      BY <1>2, <2>2, <3>1 DEF Aborted
    <3>3. /\ x \in WorkState /\ x.at = work[t.claim].at /\ x.laptop = work[t.claim].laptop
          /\ x.value = work[t.claim].value /\ x.aborted
      BY <3>1 DEF WorkState
    <3> HIDE DEF told, x
    <3> QED BY <1>2, <2>2, <3>1, <3>2, <3>3
  <2>3. CASE ~stop /\ ~over
    BY <1>2, <2>3
  <2> QED BY <2>1, <2>2, <2>3
<1> HIDE DEF told
<1>8. /\ work' \in [Claim -> WorkState]
      /\ \A d \in Claim : /\ begun /\ d = t.new => work'[d] = fresh
                          /\ ~(begun /\ d = t.new) => work'[d] = told[d]
  <2>1. CASE begun
    <3>1. work' = [told EXCEPT ![t.new] = fresh]
      BY <1>1, <2>1
    <3> HIDE DEF begun
    <3> QED BY <1>4, <1>5, <1>7, <2>1, <3>1
  <2>2. CASE ~begun
    <3>1. work' = told
      BY <1>1, <2>2
    <3> HIDE DEF begun
    <3> QED BY <1>7, <2>2, <3>1
  <2> QED BY <2>1, <2>2
<1>9. /\ l \in LocalState
      /\ l.status = "working" => local[w].status = "working"
      /\ l.status = "complete" <=> local[w].status = "complete"
      /\ l.status = "absent" <=> local[w].status = "absent"
      /\ l.published = local[w].published /\ l.saved = local[w].saved
      /\ l.verified = local[w].verified /\ l.removed = local[w].removed
  <2>1. CASE asks
    <3> DEFINE action == IF t.command = "cancel" THEN "cancel" ELSE "pause"
    <3>1. l = Asked(local[w], action)
      BY <2>1
    <3>2. action \in {"pause", "cancel"}
      OBVIOUS
    <3> HIDE DEF l, action
    <3> QED BY <1>2, <3>1, <3>2, AskedStops
  <2>2. CASE ~asks
    <3>1. l = local[w]
      BY <2>2
    <3> QED BY <1>2, <3>1
  <2> QED BY <2>1, <2>2
<1>10. local' \in [Laptop -> LocalState] /\ \A v \in Laptop : local'[v] = IF v = w THEN l ELSE local[v]
  BY <1>1, <1>2, <1>9
<1> HIDE DEF l, asks
<1>11. /\ JournalIsTrue' /\ LastCopyIsKept' /\ CompleteIsDone'
       /\ pi'.status = "complete" => pi'.worker \in Laptop
       /\ \A v \in Laptop : /\ local[v].published = local'[v].published
                            /\ local[v].saved = local'[v].saved
                            /\ local[v].removed = local'[v].removed
  BY <1>1, <1>9, <1>10, JournalKept
<1>12. CompanionTypeOK'
  BY <1>1, <1>5, <1>6, <1>8, <1>10 DEF CompanionInv, CompanionTypeOK
\* Work that is neither w's own nor begun now is as it was.
<1>13. \A d \in Claim : d # t.claim /\ ~(begun /\ d = t.new) => work'[d] = work[d]
  BY <1>7, <1>8
<1>14. active'[w] \in {0, active[w], t.new} /\ (active'[w] = t.new /\ t.new # 0 => begun)
  BY <1>3, <1>5
<1>15. ClaimsAreOwn'
  <2> SUFFICES ASSUME NEW v \in Laptop
               PROVE  /\ tick'[v].at = "answered" => tick'[v].claim = active'[v]
                      /\ tick'[v].new <= pi.given /\ active'[v] <= pi.given
                      /\ active'[v] # 0 => /\ work'[active'[v]].laptop = v /\ work'[active'[v]].at # "none"
                                           /\ tick'[v].new # active'[v]
                      /\ tick'[v].new # 0 =>
                           /\ work'[tick'[v].new] = NoWork
                           /\ \A u \in Laptop \ {v} : tick'[u].new # tick'[v].new /\ active'[u] # tick'[v].new
    BY <1>1 DEF ClaimsAreOwn
  <2>1. CASE v = w
    <3>1. 0 <= pi.given
      BY Types DEF CompanionInv
    <3>2. active'[w] <= pi.given
      BY <1>3, <1>14, <3>1
    <3>3. CASE begun
      <4>1. work'[active'[w]] = fresh /\ active'[w] # 0
        BY <1>5, <1>8, <3>3
      <4>2. tick'[w].at # "answered" /\ tick'[w].new = 0
        BY <1>6
      <4> HIDE DEF begun
      <4> QED BY <1>4, <2>1, <3>1, <3>2, <4>1, <4>2
    <3>4. CASE ~begun /\ active'[w] # 0
      <4>1. active'[w] = active[w] /\ ~stop /\ ~over /\ active[w] # 0
        BY <1>5, <3>4
      <4>2. active[w] \in Claim
        BY <1>2, <4>1
      <4>3. work'[active[w]] = work[active[w]]
        BY <1>3, <1>7, <1>8, <3>4, <4>1, <4>2
      <4>4. tick'[w].at # "answered" /\ tick'[w].new = 0
        BY <1>6
      <4>5. work[active[w]].laptop = w /\ work[active[w]].at # "none"
        BY <1>3, <4>1
      <4> HIDE DEF begun
      <4> QED BY <2>1, <3>1, <3>2, <4>1, <4>3, <4>4, <4>5
    <3>5. CASE active'[w] = 0
      BY <1>6, <2>1, <3>2, <3>5
    <3> QED BY <3>3, <3>4, <3>5
  <2>2. CASE v # w
    <3>1. tick'[v] = tick[v] /\ active'[v] = active[v]
      BY <1>5, <1>6, <2>2
    <3>2. active[v] # 0 => active[v] \in Claim
      BY Types DEF CompanionInv
    <3>3. tick[v].new # 0 => tick[v].new \in Claim
      BY Types DEF CompanionInv
    <3>4. \A u \in Laptop \ {v} :
            tick[v].new # 0 => tick[u].new # tick[v].new /\ active[u] # tick[v].new
      BY DEF CompanionInv, ClaimsAreOwn
    <3>5. /\ tick[v].at = "answered" => tick[v].claim = active[v]
          /\ tick[v].new <= pi.given /\ active[v] <= pi.given
          /\ active[v] # 0 => /\ work[active[v]].laptop = v /\ work[active[v]].at # "none"
                              /\ tick[v].new # active[v]
          /\ tick[v].new # 0 => work[tick[v].new] = NoWork
      BY DEF CompanionInv, ClaimsAreOwn
    <3>6. active[v] # 0 => work'[active[v]] = work[active[v]]
      <4> SUFFICES ASSUME active[v] # 0 PROVE work'[active[v]] = work[active[v]]
        OBVIOUS
      <4>1. active[v] # t.claim
        BY <1>3, <2>2, <3>5
      <4>2. ~(begun /\ active[v] = t.new)
        BY <1>3, <3>5, Blank
      <4> QED BY <1>13, <3>2, <4>1, <4>2
    <3>7. tick[v].new # 0 => work'[tick[v].new] = NoWork
      <4> SUFFICES ASSUME tick[v].new # 0 PROVE work'[tick[v].new] = NoWork
        OBVIOUS
      <4>1. tick[v].new # t.claim /\ tick[v].new # t.new
        BY <1>3, <2>2, <3>4
      <4> QED BY <1>13, <3>3, <3>5, <4>1
    <3>8. \A u \in Laptop \ {v} :
            tick[v].new # 0 => tick'[u].new # tick[v].new /\ active'[u] # tick[v].new
      BY <1>5, <1>6, <1>14, <2>2, <3>4
    <3> QED BY <3>1, <3>5, <3>6, <3>7, <3>8
  <2> QED BY <2>1, <2>2
<1>16. WorkIsOwned'
  <2> SUFFICES ASSUME NEW c \in Claim, work'[c].at # "none"
               PROVE  /\ c <= pi.given /\ work'[c].laptop \in Laptop
                      /\ active'[work'[c].laptop] = c \/ (work'[c].aborted /\ work'[c].at # "ended")
    BY <1>1 DEF WorkIsOwned
  <2>1. CASE begun /\ c = t.new
    <3>1. work'[c] = fresh /\ active'[w] = t.new
      BY <1>5, <1>8, <2>1
    <3> QED BY <1>3, <1>4, <2>1, <3>1
  <2>2. CASE ~(begun /\ c = t.new) /\ c = t.claim
    <3>1. work'[c] = told[c] /\ active[w] = c /\ c # 0
      BY <1>2, <1>3, <1>8, <2>2
    <3>2. ~over
      BY <1>7, <2>2, <3>1, Blank
    <3>3. work[c].laptop = w /\ c <= pi.given
      BY <1>3, <3>1
    <3>4. CASE stop
      <4>1. told[c].aborted /\ told[c].at = work[c].at /\ told[c].laptop = work[c].laptop
        BY <1>7, <2>2, <3>2, <3>4
      <4> QED BY <2>2, <3>1, <3>2, <3>3, <4>1
    <3>5. CASE ~stop
      <4>1. told[c] = work[c] /\ active'[w] = c
        BY <1>5, <1>7, <2>2, <3>1, <3>2, <3>5
      <4> QED BY <3>1, <3>3, <4>1
    <3> QED BY <3>4, <3>5
  <2>3. CASE ~(begun /\ c = t.new) /\ c # t.claim
    <3>1. work'[c] = work[c]
      BY <1>13, <2>3
    <3>2. /\ c <= pi.given /\ work[c].laptop \in Laptop
          /\ active[work[c].laptop] = c \/ (work[c].aborted /\ work[c].at # "ended")
      BY <3>1 DEF CompanionInv, WorkIsOwned
    <3>3. active[work[c].laptop] = c => active'[work[c].laptop] = c
      BY <1>3, <1>5, <2>3, <3>2
    <3> QED BY <3>1, <3>2, <3>3
  <2> QED BY <2>1, <2>2, <2>3
<1>17. NoneRests'
  <2> SUFFICES ASSUME NEW c \in Claim, work'[c].at = "none" PROVE work'[c] = NoWork
    BY DEF NoneRests
  <2>1. ~(begun /\ c = t.new)
    BY <1>4, <1>8
  <2>2. work'[c] = told[c]
    BY <1>8, <2>1
  <2>3. CASE c = t.claim
    <3>1. work[c].at # "none"
      BY <1>2, <1>3, <2>3
    <3> QED BY <1>7, <2>2, <2>3, <3>1
  <2>4. CASE c # t.claim
    BY <1>13, <2>1, <2>4 DEF CompanionInv, NoneRests
  <2> QED BY <2>3, <2>4
<1>18. StationsAreTrue'
  <2> SUFFICES ASSUME NEW c \in Claim, work'[c].at # "none"
               PROVE  LET v == work'[c].laptop IN
                      /\ work'[c].at \in Beyond => local'[v].published
                      /\ work'[c].at = "confirmed" => local'[v].saved /\ cloud[v] \in {"there", "gone late"}
                      /\ work'[c].at = "release" \/ work'[c].value = "complete" =>
                           local'[v].published /\ local'[v].saved /\ local'[v].removed
                      /\ work'[c].value = "complete" => work'[c].at = "ended"
    BY <1>1, <1>17, Blank DEF NoneRests, StationsAreTrue, Beyond
  <2>1. CASE begun /\ c = t.new
    BY <1>4, <1>8, <2>1 DEF Beyond
  <2>2. CASE ~(begun /\ c = t.new)
    <3>1. work'[c].at = work[c].at /\ work'[c].laptop = work[c].laptop /\ work'[c].value = work[c].value
      BY <1>7, <1>8, <2>2, Blank
    <3>2. work[c].laptop \in Laptop
      BY <3>1 DEF CompanionInv, WorkIsOwned
    <3> QED BY <1>11, <3>1, <3>2 DEF CompanionInv, StationsAreTrue
  <2> QED BY <2>1, <2>2
<1>19. WorkCanBeStopped'
  <2> SUFFICES ASSUME NEW v \in Laptop, local'[v].status = "working"
               PROVE  \E c \in Claim : /\ work'[c].laptop = v /\ work'[c].at = "wait"
                                       /\ active'[v] = c \/ work'[c].aborted
    BY DEF WorkCanBeStopped
  <2>1. local[v].status = "working"
    BY <1>9, <1>10
  <2>2. PICK c \in Claim : /\ work[c].laptop = v /\ work[c].at = "wait"
                           /\ active[v] = c \/ work[c].aborted
    BY <2>1 DEF CompanionInv, WorkCanBeStopped
  <2>3. ~(begun /\ c = t.new)
    BY <1>3, <2>2, Blank
  <2>4. CASE c = t.claim
    <3>1. ~over /\ work'[c] = told[c] /\ active[w] = c /\ v = w
      BY <1>2, <1>3, <1>8, <2>2, <2>3, <2>4
    <3>2. CASE stop
      <4>1. told[c].aborted /\ told[c].at = work[c].at /\ told[c].laptop = work[c].laptop
        BY <1>7, <2>4, <3>1, <3>2
      <4> QED BY <2>2, <3>1, <4>1
    <3>3. CASE ~stop
      <4>1. told[c] = work[c] /\ active'[w] = c
        BY <1>2, <1>5, <1>7, <2>4, <3>1, <3>3
      <4> QED BY <2>2, <3>1, <4>1
    <3> QED BY <3>2, <3>3
  <2>5. CASE c # t.claim
    <3>1. work'[c] = work[c]
      BY <1>13, <2>3, <2>5
    <3>2. active[v] = c => active'[v] = c
      BY <1>3, <1>5, <2>5
    <3> QED BY <2>2, <3>1, <3>2
  <2> QED BY <2>4, <2>5
<1> QED BY <1>11, <1>12, <1>15, <1>16, <1>17, <1>18, <1>19 DEF CompanionInv

LEMMA CloudLosesInv ==
  ASSUME CompanionInv, NEW w \in Laptop, CloudLoses(w)
  PROVE  CompanionInv'
<1> DEFINE late == \/ local[w].verified /\ ~files[w]
                   \/ \E c \in Claim : work[c].laptop = w /\ Running(c, "confirmed")
           word == IF late THEN "gone late" ELSE "gone"
<1>1. UNCHANGED <<pi, tick, active, work, local, files>> /\ cloud' = [cloud EXCEPT ![w] = word]
  BY DEF CloudLoses
<1>2. cloud \in [Laptop -> {"none", "there", "gone", "gone late"}]
  BY DEF CompanionInv, CompanionTypeOK
<1>3. word \in {"gone", "gone late"} /\ (late => word = "gone late")
  OBVIOUS
<1>4. \A c \in Claim : work[c].laptop = w /\ work[c].at = "confirmed" => late
  BY DEF Running
<1>5. local[w].verified /\ ~files[w] => late
  OBVIOUS
<1> HIDE DEF late, word
<1>6. /\ cloud' \in [Laptop -> {"none", "there", "gone", "gone late"}]
      /\ \A v \in Laptop : cloud'[v] = IF v = w THEN word ELSE cloud[v]
  BY <1>1, <1>2, <1>3
<1>7. CompanionTypeOK'
  BY <1>1, <1>6 DEF CompanionInv, CompanionTypeOK
<1>8. ClaimsAreOwn' /\ WorkIsOwned' /\ NoneRests' /\ JournalIsTrue'
  <2>1. ClaimsAreOwn' /\ WorkIsOwned'
    BY <1>1 DEF CompanionInv, ClaimsAreOwn, WorkIsOwned
  <2>2. NoneRests' /\ JournalIsTrue'
    BY <1>1 DEF CompanionInv, NoneRests, JournalIsTrue
  <2> QED BY <2>1, <2>2
<1>9. StationsAreTrue'
  <2> SUFFICES ASSUME NEW c \in Claim, work[c].at = "confirmed"
               PROVE  cloud'[work[c].laptop] \in {"there", "gone late"}
    BY <1>1 DEF CompanionInv, StationsAreTrue
  <2>1. work[c].laptop \in Laptop
    BY DEF CompanionInv, WorkIsOwned
  <2>2. cloud[work[c].laptop] \in {"there", "gone late"}
    BY DEF CompanionInv, StationsAreTrue
  <2> QED BY <1>3, <1>4, <1>6, <2>1, <2>2
<1>10. CompleteIsDone' /\ (pi'.status = "complete" => pi'.worker \in Laptop)
  BY <1>1 DEF CompanionInv, CompleteIsDone
<1>11. LastCopyIsKept'
  BY <1>1, <1>3, <1>5, <1>6 DEF CompanionInv, LastCopyIsKept
<1>12. WorkCanBeStopped'
  BY <1>1 DEF CompanionInv, WorkCanBeStopped
<1> QED BY <1>7, <1>8, <1>9, <1>10, <1>11, <1>12 DEF CompanionInv

LEMMA InitCompanionInv ==
  ASSUME CompanionInit
  PROVE  CompanionInv
<1> DEFINE record ==
      [status |-> "queued", stage |-> "foreground", command |-> "none",
       worker |-> CHOOSE w \in Laptop : TRUE, claim |-> 0, given |-> 0, lease |-> FALSE,
       session |-> 0, known |-> [v \in Laptop |-> 0], alive |-> [v \in Laptop |-> FALSE]]
<1>1. /\ pi = record /\ tick = [w \in Laptop |-> Unpolled(1)] /\ active = [w \in Laptop |-> 0]
      /\ work = [c \in Claim |-> NoWork] /\ local = [w \in Laptop |-> NewLocal]
      /\ files = [w \in Laptop |-> FALSE] /\ cloud = [w \in Laptop |-> "none"]
  BY DEF CompanionInit
<1>2. 0 \in 0..MaxClaims /\ 0 \in Nat /\ 1 \in Nat
  OBVIOUS
<1>3. record \in PiState /\ record.status = "queued" /\ record.given = 0
  BY <1>2 DEF PiState, PiStatus
<1> HIDE DEF record
<1>4. CompanionTypeOK
  BY <1>1, <1>2, <1>3, Blank DEF CompanionTypeOK
<1>5. ClaimsAreOwn
  <2>1. \A w \in Laptop : tick[w].at = "idle" /\ tick[w].new = 0 /\ active[w] = 0
    BY <1>1, <1>2, Blank
  <2>2. pi.given = 0
    BY <1>1, <1>3
  <2>3. \A w \in Laptop : /\ tick[w].at # "answered" /\ tick[w].new = 0 /\ active[w] = 0
                           /\ tick[w].new <= pi.given /\ active[w] <= pi.given
    <3> TAKE w \in Laptop
    <3>1. tick[w].at = "idle" /\ tick[w].new = 0 /\ active[w] = 0
      BY <2>1
    <3>2. 0 <= 0
      OBVIOUS
    <3>3. tick[w].new <= pi.given /\ active[w] <= pi.given
      BY <2>2, <3>1, <3>2
    <3>4. tick[w].at # "answered"
      BY <3>1
    <3> QED BY <3>1, <3>3, <3>4
  <2> QED BY <2>3 DEF ClaimsAreOwn
<1>6. WorkIsOwned /\ NoneRests
  BY <1>1, Blank DEF WorkIsOwned, NoneRests
<1>7. StationsAreTrue
  <2>1. \A c \in Claim : work[c].at = "none" /\ work[c].value = "none"
    BY <1>1, Blank
  <2> QED BY <2>1 DEF StationsAreTrue, Beyond
<1>8. JournalIsTrue /\ LastCopyIsKept /\ WorkCanBeStopped
  BY <1>1, Blank DEF JournalIsTrue, LastCopyIsKept, WorkCanBeStopped
<1>9. CompleteIsDone /\ (pi.status = "complete" => pi.worker \in Laptop)
  BY <1>1, <1>3 DEF CompleteIsDone
<1> QED BY <1>4, <1>5, <1>6, <1>7, <1>8, <1>9 DEF CompanionInv

LEMMA NextCompanionInv ==
  ASSUME CompanionInv, [CompanionNext]_companionVars
  PROVE  CompanionInv'
<1>1. ASSUME NEW w \in Laptop, LaptopNext(w)
      PROVE  CompanionInv'
  BY <1>1, PollInv, HearInv DEF LaptopNext
<1>2. ASSUME NEW w \in Laptop, LosePoll(w)
      PROVE  CompanionInv'
  BY <1>2, LosePollInv
<1>3. ASSUME NEW w \in Laptop, FallSilent(w)
      PROVE  CompanionInv'
  BY <1>3, OwnerInv
<1>4. ASSUME NEW w \in Laptop, Restart(w)
      PROVE  CompanionInv'
  BY <1>4, RestartInv
<1>5. ASSUME NEW w \in Laptop, CloudLoses(w)
      PROVE  CompanionInv'
  BY <1>5, CloudLosesInv
<1>6. ASSUME NEW w \in Laptop, NEW status \in {"complete", "failed", "paused", "cancelled"},
             QueueEnds(w, status)
      PROVE  CompanionInv'
  BY <1>6, QueueEndsInv
<1>7. ASSUME NEW c \in Claim, Works(c)
      PROVE  CompanionInv'
  BY <1>7, WorksInv
<1>8. ASSUME \/ \E action \in {"pause", "cancel"} : OwnerStops(action)
             \/ OwnerResumes \/ LeaseEnds
      PROVE  CompanionInv'
  BY <1>8, OwnerInv
<1>9. CASE UNCHANGED companionVars
  <2>1. UNCHANGED <<pi, tick, active, work, local, files, cloud>>
    BY <1>9 DEF companionVars
  <2>2. CompanionTypeOK' /\ ClaimsAreOwn' /\ WorkIsOwned' /\ NoneRests'
    BY <2>1 DEF CompanionInv, CompanionTypeOK, ClaimsAreOwn, WorkIsOwned, NoneRests
  <2>3. StationsAreTrue' /\ JournalIsTrue'
    BY <2>1 DEF CompanionInv, StationsAreTrue, JournalIsTrue
  <2>4. CompleteIsDone' /\ (pi'.status = "complete" => pi'.worker \in Laptop)
    BY <2>1 DEF CompanionInv, CompleteIsDone
  <2>5. LastCopyIsKept'
    BY <2>1 DEF CompanionInv, LastCopyIsKept
  <2>6. WorkCanBeStopped'
    BY <2>1 DEF CompanionInv, WorkCanBeStopped
  <2> QED BY <2>2, <2>3, <2>4, <2>5, <2>6 DEF CompanionInv
<1>10. CASE \E w \in Laptop :
               \/ LaptopNext(w) \/ LosePoll(w) \/ FallSilent(w) \/ Restart(w) \/ CloudLoses(w)
               \/ \E status \in {"complete", "failed", "paused", "cancelled"} : QueueEnds(w, status)
  <2> PICK w \in Laptop :
        \/ LaptopNext(w) \/ LosePoll(w) \/ FallSilent(w) \/ Restart(w) \/ CloudLoses(w)
        \/ \E status \in {"complete", "failed", "paused", "cancelled"} : QueueEnds(w, status)
    BY <1>10
  <2> QED BY <1>1, <1>2, <1>3, <1>4, <1>5, <1>6
<1>11. CASE \E c \in Claim : Works(c)
  BY <1>7, <1>11
<1>12. CASE \/ \E action \in {"pause", "cancel"} : OwnerStops(action)
            \/ OwnerResumes \/ LeaseEnds
  BY <1>8, <1>12
<1> QED BY <1>9, <1>10, <1>11, <1>12 DEF CompanionNext

\* However many laptops and claims there are and whatever fails, the records,
\* polls, claims and journals of tools/studio/lib/companion.cjs and
\* repositories/studio.py keep their shapes.
THEOREM CompanionTypeCorrect == CompanionSpec => []CompanionTypeOK
<1>1. CompanionInit => CompanionInv
  BY InitCompanionInv
<1>2. CompanionInv /\ [CompanionNext]_companionVars => CompanionInv'
  BY NextCompanionInv
<1>3. CompanionInv => CompanionTypeOK
  BY DEF CompanionInv
<1> QED BY <1>1, <1>2, <1>3, PTL DEF CompanionSpec

\* "Wait for verified TV publication before removing working copies", and "stale
\* claims stop reporting progress" (companion.test.cjs:129): a job the Pi calls
\* complete is done where it was done, working files go only under a copy that
\* iCloud just confirmed, and no queue works for a run that nothing can stop.
THEOREM HandOverNeverLies == CompanionSpec => []HandOverIsSafe
<1>1. CompanionInit => CompanionInv
  BY InitCompanionInv
<1>2. CompanionInv /\ [CompanionNext]_companionVars => CompanionInv'
  BY NextCompanionInv
<1>3. CompanionInv => HandOverIsSafe
  BY DEF CompanionInv, HandOverIsSafe
<1> QED BY <1>1, <1>2, <1>3, PTL DEF CompanionSpec
=============================================================================
