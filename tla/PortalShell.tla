----------------------------- MODULE PortalShell -----------------------------
(* The frame of the portal in one browser: how it starts, signs in, notices   *)
(* that the phone or the Pi is away and reconnects; its views, its bottom     *)
(* navigation, and the polls of the remote and the home view                  *)
(* (portal/js/core).                                                          *)
(*                                                                            *)
(* The library is told apart by its revision only.  A start, a sign-in, a     *)
(* reconnection and a reload after an action are flows of awaited requests,   *)
(* and any of them may overlap.  A step ends where the page awaits.           *)
EXTENDS Naturals

CONSTANTS
  MaxShellEvents   \* bound on what the owner does, on failing requests, ended
                   \* sessions, changes of the library and losses of the network, together

VARIABLES
  server,   \* the Pi: configured, PIN required, the browser's session, revision
  device,   \* the phone: online, and whether its offline storage works
  page,     \* what the page shows and remembers
  flow,     \* [Kind -> where it awaits; its refresh of the library]
  cache,    \* library-v1 of the app cache: revision of the data, and the one noted
  shellEvents

shellVars == <<server, device, page, flow, cache, shellEvents>>

Kind == {"start", "login", "reconnect", "reload"}
View == {"overview", "watch", "downloads", "live"}
NoSnapshot == [data |-> 0, revision |-> 0]

IdleFlow == [at |-> "rest", read |-> "none", awaited |-> FALSE, data |-> 0]

Starting == [k \in Kind |-> IF k = "start" THEN [IdleFlow EXCEPT !.at = "setup"] ELSE IdleFlow]

Moved == shellEvents < MaxShellEvents /\ shellEvents' = shellEvents + 1
Disturbed == Moved
Calm == UNCHANGED shellEvents

Fresh ==
  [screen |-> "blank", step |-> 1, view |-> "overview", route |-> "overview", memory |-> "watch",
   offline |-> FALSE, surface |-> FALSE, connection |-> "connecting", access |-> FALSE,
   library |-> 0, known |-> 0, live |-> FALSE, home |-> FALSE, poll |-> "none",
   picture |-> FALSE, hidden |-> FALSE]

SessionRefused == server.pinned /\ ~server.session
-----------------------------------------------------------------------------
(* Views.                                                                     *)

(* stopLiveTv: the request under way is aborted, the picture dropped.         *)
Stopped(p) == [p EXCEPT !.live = FALSE, !.poll = "none", !.picture = FALSE]

(* startLiveTv with its first refreshLiveTv.                                  *)
Watched(p) ==
  IF p.live THEN p
  ELSE [p EXCEPT !.live = TRUE, !.poll = IF p.hidden \/ @ # "none" THEN @ ELSE "sent"]

(* showOfflineUnavailable: without a connection only Downloads stays usable.  *)
Unavailable(p, v) == p.offline /\ v # "downloads"

(* Plausible bug: the polls are stopped after the early return.               *)
OpenedMutant(p, v) ==
  LET q == [p EXCEPT !.view = v, !.surface = Unavailable(p, v),
              !.memory = IF v \in {"watch", "downloads"} THEN v ELSE @]
  IN  IF q.surface THEN q
      ELSE LET r == IF v = "live" THEN Watched(q) ELSE Stopped(q) IN [r EXCEPT !.home = v = "overview"]

(* openView; the section the view belongs to remembers it.                    *)
Opened(p, v) ==
  LET q == [p EXCEPT !.view = v, !.surface = Unavailable(p, v),
              !.memory = IF v \in {"watch", "downloads"} THEN v ELSE @]
      r == IF v = "live" /\ ~q.surface THEN Watched(q) ELSE Stopped(q)
  IN  [r EXCEPT !.home = v = "overview" /\ ~q.surface]

(* openRequestedView: the view of the address.                                *)
Requested(p) == Opened(p, p.route)

(* navigateDomainRoute, or a page of history that is gone back to.            *)
Routed(p, v) == Opened([p EXCEPT !.route = v], v)

(* openPrimarySection: a selected section starts over, another one is where   *)
(* it was left.                                                               *)
SectionRoot(v) == IF v = "downloads" THEN "watch" ELSE v
Destination(p, section) ==
  IF section = "watch" /\ SectionRoot(p.view) # "watch" THEN p.memory ELSE section
Section(p, section) == Routed(p, Destination(p, section))

(* api(): an answer 401 locks the page, whatever it was doing.                *)
Locked(p) == [p EXCEPT !.connection = "auth-required", !.access = FALSE, !.screen = "login"]

(* The catch of initialise() and of attemptPortalReconnect.                   *)
Away(p) == [p EXCEPT !.offline = TRUE, !.connection = IF device.online THEN "unreachable" ELSE "offline"]
Cut(p) == Requested([Away(p) EXCEPT !.access = FALSE, !.screen = "app"])
-----------------------------------------------------------------------------
(* Flows.                                                                     *)
Begin(k, at) == flow' = [flow EXCEPT ![k] = [IdleFlow EXCEPT !.at = at]]
FlowAt(k, at) == [flow EXCEPT ![k].at = at]
Ended(k) == [flow EXCEPT ![k] = IdleFlow]

(* What a flow does that the network fails.                                   *)
NetworkFailed(k, p) ==
  CASE k = "start" ->
         IF device.storage /\ (flow[k].at = "setup" \/ ~server.pinned) THEN Cut(p)
         ELSE [p EXCEPT !.screen = "login"]
    [] k = "reconnect" -> Opened(Away(p), p.view)
    [] OTHER -> p

(* What a flow does that is refused: api() has locked the page.               *)
Refusal(k, p) ==
  IF k = "reconnect" THEN [Locked(p) EXCEPT !.offline = FALSE, !.surface = FALSE] ELSE Locked(p)

(* A request fails: the network is gone, or one of the bounded faults.        *)
Fails(k) ==
  /\ flow[k].at \in {"setup", "bootstrap"} \/ (flow[k].awaited /\ flow[k].read # "none")
  /\ IF device.online THEN Disturbed ELSE Calm
  /\ page' = NetworkFailed(k, page) /\ flow' = Ended(k)
  /\ UNCHANGED <<server, device, cache>>

(* /api/setup, which asks for no session.                                     *)
SetupAnswered(k) ==
  /\ flow[k].at = "setup" /\ device.online
  /\ \/ server.configured /\ flow' = FlowAt(k, "bootstrap") /\ UNCHANGED page
     \/ /\ ~server.configured /\ k = "start"
        /\ page' = [page EXCEPT !.screen = "setup"] /\ flow' = Ended(k)
     \/ /\ ~server.configured /\ k = "reconnect"
        /\ page' = Fresh /\ flow' = Starting                     \* location.reload()
  /\ Calm /\ UNCHANGED <<server, device, cache>>

(* /api/bootstrap.  load() believes at once that the page is connected.       *)
Bootstrapped(k) ==
  /\ flow[k].at = "bootstrap" /\ device.online
  /\ IF SessionRefused THEN page' = Refusal(k, page) /\ flow' = Ended(k)
     ELSE /\ page' = [page EXCEPT !.known = server.revision,
                        !.connection = IF k = "reload" THEN "connected" ELSE @,
                        !.offline = IF k = "reload" THEN FALSE ELSE @]
          /\ flow' = IF k = "reload" THEN [flow EXCEPT ![k] = [IdleFlow EXCEPT !.read = "asked"]]
                     ELSE FlowAt(k, "restore")
  /\ Calm /\ UNCHANGED <<server, device, cache>>

(* loadInitialPortalData: the snapshot is shown, whatever its revision, and   *)
(* refreshed in the background; without one the page waits for the network.   *)
(* The playlists and the family's collections are read as well: a failure is  *)
(* caught, but a 401 among them has locked the page.                          *)
Restored(k) ==
  /\ flow[k].at = "restore"
  /\ LET p == IF cache = NoSnapshot THEN page ELSE [page EXCEPT !.library = cache.data]
     IN  page' = p \/ (SessionRefused /\ device.online /\ page' = Locked(p))
  /\ flow' = [flow EXCEPT ![k] =
       [@ EXCEPT !.at = "ready", !.awaited = cache = NoSnapshot,
          !.read = IF cache.revision # page.known THEN "asked" ELSE "none"]]
  /\ Calm /\ UNCHANGED <<server, device, cache>>

Waits(k) == flow[k].awaited /\ flow[k].read # "none"

(* The page opens where its address says.                                     *)
OpensPage(k) ==
  /\ flow[k].at = "ready" /\ ~Waits(k)
  /\ page' = Requested([page EXCEPT !.connection = "connected", !.screen = "app",
                          !.access = @ \/ k = "start", !.offline = @ /\ k # "reconnect"])
  /\ flow' = [flow EXCEPT ![k] = [@ EXCEPT !.at = "rest", !.awaited = FALSE]]
  /\ Calm /\ UNCHANGED <<server, device, cache>>

(* refreshPortalDomains: the library first ...                                *)
LibraryRead(k) ==
  /\ flow[k].read = "asked" /\ device.online
  /\ IF SessionRefused
       THEN /\ page' = Refusal(k, page)
            /\ flow' = [flow EXCEPT ![k] = IF @.awaited THEN IdleFlow ELSE [@ EXCEPT !.read = "none"]]
       ELSE flow' = [flow EXCEPT ![k].read = "told", ![k].data = server.revision] /\ UNCHANGED page
  /\ Calm /\ UNCHANGED <<server, device, cache>>

(* ... then the revisions; it is shown, and kept under the revision told last.*)
LibraryShown(k) ==
  /\ flow[k].read = "told" /\ device.online /\ ~SessionRefused
  /\ page' = [page EXCEPT !.library = flow[k].data, !.known = server.revision]
  /\ cache' = [data |-> flow[k].data, revision |-> server.revision]
  /\ flow' = [flow EXCEPT ![k].read = "none", ![k].data = 0]
  /\ Calm /\ UNCHANGED <<server, device>>

(* A refresh in the background is given up.                                   *)
RefreshFails(k) ==
  /\ flow[k].read # "none" /\ ~flow[k].awaited
  /\ IF device.online THEN Disturbed ELSE Calm
  /\ flow' = [flow EXCEPT ![k].read = "none", ![k].data = 0]
  /\ UNCHANGED <<server, device, page, cache>>
-----------------------------------------------------------------------------
(* The owner.                                                                 *)
Navigate ==
  /\ page.screen = "app" /\ Moved
  /\ \/ \E s \in {"overview", "watch", "live"} : page' = Section(page, s)
     \/ \E v \in View : page' = Routed(page, v)
     \/ \E v \in View \ {"downloads"} : page' = Opened(page, v)      \* data-go
  /\ UNCHANGED <<server, device, flow, cache>>

(* attemptPortalReconnect: one at a time.                                     *)
Retry ==
  /\ page.screen = "app" /\ page.surface /\ flow["reconnect"].at = "rest" /\ Moved
  /\ Begin("reconnect", "setup")
  /\ UNCHANGED <<server, device, page, cache>>

(* An action of the page ends and reads everything again.                     *)
Reload ==
  /\ page.screen = "app" /\ page.library # 0 /\ flow["reload"] = IdleFlow /\ Moved
  /\ Begin("reload", "bootstrap")
  /\ UNCHANGED <<server, device, page, cache>>

(* loginForm.onsubmit with the right PIN.                                     *)
SignIn ==
  /\ page.screen = "login" /\ flow["login"] = IdleFlow /\ device.online /\ server.configured /\ Moved
  /\ server' = [server EXCEPT !.session = TRUE]
  /\ page' = [page EXCEPT !.access = TRUE]
  /\ Begin("login", "bootstrap")
  /\ UNCHANGED <<device, cache>>

(* Lock: the page is reloaded once the Pi has ended the session.              *)
Lock ==
  /\ page.screen = "app" /\ Moved
  /\ IF device.online
       THEN /\ server' = [server EXCEPT !.session = FALSE] /\ page' = Fresh
            /\ flow' = Starting
       ELSE page' = [page EXCEPT !.access = FALSE] /\ UNCHANGED <<server, flow>>
  /\ UNCHANGED <<device, cache>>

(* The steps of the setup; the last one is the second in a recovery.          *)
LastStep == IF server.recovering THEN 2 ELSE 3
SetUp ==
  /\ page.screen = "setup" /\ device.online /\ Moved
  /\ \/ page.step < LastStep /\ page' = [page EXCEPT !.step = @ + 1] /\ UNCHANGED server
     \/ page.step > 1 /\ page' = [page EXCEPT !.step = @ - 1] /\ UNCHANGED server
     \/ /\ page.step = LastStep
        /\ \/ page' = [page EXCEPT !.step = 1] /\ UNCHANGED server        \* the setup code is wrong
           \/ /\ page' = [page EXCEPT !.access = FALSE, !.screen = "login"]
              /\ server' = [server EXCEPT !.configured = TRUE]
  /\ UNCHANGED <<device, flow, cache>>

(* The app is hidden or looked at again (visibilitychange).                   *)
Look ==
  /\ page.screen # "blank" /\ Moved
  /\ page' = [page EXCEPT !.hidden = ~@, !.picture = @ /\ page.hidden,
                !.poll = IF page.hidden /\ page.live THEN "sent" ELSE "none"]
  /\ UNCHANGED <<server, device, flow, cache>>
-----------------------------------------------------------------------------
(* The remote's status: one request at a time, by its timer ...               *)
Ask ==
  /\ page.poll = "none" /\ ~page.hidden /\ page.live
  /\ page' = [page EXCEPT !.poll = "sent"]
  /\ Calm /\ UNCHANGED <<server, device, flow, cache>>

(* ... or after a command of the remote, on whatever view by then.            *)
Command ==
  /\ page.poll = "none" /\ ~page.hidden /\ page.screen = "app" /\ ~page.offline /\ Moved
  /\ page' = [page EXCEPT !.poll = "sent"]
  /\ UNCHANGED <<server, device, flow, cache>>

PiAnswers ==
  /\ page.poll = "sent" /\ device.online
  /\ page' = [page EXCEPT !.poll = IF SessionRefused THEN "denied" ELSE "told"]
  /\ Calm /\ UNCHANGED <<server, device, flow, cache>>

(* refreshLiveTv; setLiveSource shows frames only while the remote is open.   *)
StatusAnswered ==
  /\ page.poll \in {"told", "denied"}
  /\ LET p == [page EXCEPT !.poll = "none"]
     IN  IF page.poll = "denied" THEN page' = Locked(p)
         ELSE page' = p \/ page' = [p EXCEPT !.picture = page.live]
  /\ Calm /\ UNCHANGED <<server, device, flow, cache>>

Unanswered ==
  /\ page.poll \in {"sent", "told"} /\ page' = [page EXCEPT !.poll = "none"]
  /\ IF device.online THEN Disturbed ELSE Calm
  /\ UNCHANGED <<server, device, flow, cache>>

(* Any other request of an open page after the session has ended.             *)
Called ==
  /\ page.screen = "app" /\ device.online /\ SessionRefused
  /\ page' = Locked(page)
  /\ Calm /\ UNCHANGED <<server, device, flow, cache>>
-----------------------------------------------------------------------------
(* The world.                                                                 *)

(* The events "offline" and "online" of the browser (view.js).                *)
LosesNetwork ==
  /\ device.online /\ page.screen # "blank" /\ Disturbed
  /\ device' = [device EXCEPT !.online = FALSE]
  /\ page' = Opened([page EXCEPT !.offline = TRUE, !.connection = "offline"], page.view)
  /\ UNCHANGED <<server, flow, cache>>

FindsNetwork ==
  /\ ~device.online /\ Calm
  /\ device' = [device EXCEPT !.online = TRUE]
  /\ page' = [page EXCEPT !.connection = "connecting"]
  /\ IF flow["reconnect"].at = "rest" THEN Begin("reconnect", "setup") ELSE UNCHANGED flow
  /\ UNCHANGED <<server, cache>>

PiChanges ==
  /\ Disturbed
  /\ \/ server' = [server EXCEPT !.revision = @ + 1]
     \/ server.session /\ server' = [server EXCEPT !.session = FALSE]
  /\ UNCHANGED <<device, page, flow, cache>>

(* The app is launched again: the page is new, the cache stays.               *)
Launch ==
  /\ Disturbed /\ page' = Fresh
  /\ flow' = Starting
  /\ UNCHANGED <<server, device, cache>>

ShellInit ==
  /\ server \in {[configured |-> c, pinned |-> p, recovering |-> ~c /\ r, session |-> s, revision |-> 1] :
                   c, p, r, s \in BOOLEAN}
  /\ (~server.configured => server.pinned /\ ~server.session)
  /\ device \in {[online |-> o, storage |-> s] : o, s \in BOOLEAN}
  /\ page = Fresh
  /\ flow = Starting
  /\ cache \in {NoSnapshot, [data |-> 1, revision |-> 1]}
  /\ (server.configured \/ cache = NoSnapshot)
  /\ shellEvents = 0

Advance(k) ==
  SetupAnswered(k) \/ Bootstrapped(k) \/ Restored(k) \/ OpensPage(k) \/ LibraryRead(k) \/ LibraryShown(k)

ShellNext ==
  \/ \E k \in Kind : Advance(k) \/ Fails(k) \/ RefreshFails(k)
  \/ Navigate \/ Retry \/ Reload \/ SignIn \/ Lock \/ SetUp \/ Look
  \/ Ask \/ Command \/ PiAnswers \/ StatusAnswered \/ Unanswered \/ Called
  \/ LosesNetwork \/ FindsNetwork \/ PiChanges \/ Launch

ShellSpec == ShellInit /\ [][ShellNext]_shellVars
-----------------------------------------------------------------------------
(* A page that knows it is cut off shows the reconnect surface on every view  *)
(* but Downloads, polls nothing, and says that the phone is offline only when *)
(* it is (portal-architecture.md:308).                                        *)
CutOffPageSaysSo ==
  /\ page.offline /\ page.screen = "app" =>
       (page.surface <=> page.view # "downloads") /\ ~page.live /\ ~page.home /\ ~page.picture
  /\ page.connection = "offline" => ~device.online

(* An open page that is not cut off has a library, and the Pi has told it the *)
(* revisions before it showed one (ios-pwa-baseline.md:56).                   *)
OpenPageHasLibrary ==
  page.screen = "app" /\ ~page.offline => page.library # 0 /\ page.known # 0

(* Frames of the live picture are fetched only while the remote is looked at. *)
PictureOnlyWhenWatched == page.picture => page.live /\ page.view = "live" /\ ~page.hidden

(* The page never pretends: of its connection, of what it has to show, or of  *)
(* the picture of the television.                                             *)
ShellIsHonest == CutOffPageSaysSo /\ OpenPageHasLibrary /\ PictureOnlyWhenWatched
=============================================================================
