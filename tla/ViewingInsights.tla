--------------------------- MODULE ViewingInsights ---------------------------
(* The insights of MabelTV (portal/js/library/viewing-insights.js): dashboard *)
(* ranges, the lifetime catalogue, an item with its viewing entries, and a    *)
(* day of the diary.  Each is a resource of its own, kept in memory and as a  *)
(* snapshot on the device, painted before it is asked for again, and an entry *)
(* can be deleted while any of them is on its way.                            *)
(*                                                                            *)
(* The snapshot is on the device and is read before any answer arrives, so    *)
(* that restoring it is part of the step that asks.  Item ranges, diary dates *)
(* and the films' catalogue repeat what is here.                              *)
EXTENDS Naturals, FiniteSets

CONSTANTS
  Viewed,           \* channels and films
  Span,             \* ranges of the dashboard
  MaxInsightTaps,   \* bound on what the owner does
  MaxInsightUpsets  \* bound on failing requests and on long breaks

ASSUME InsightsAssumption == Viewed # {} /\ Span # {} /\ IsFiniteSet(Viewed)

VARIABLES
  history,   \* the Pi: items whose viewing entry is still there
  known,     \* the revision of viewing_insights the page was last told
  route,     \* viewingInsightsRoute, with the range of the dashboard
  mode,      \* myInsightsMode: "mabel" or "my_tv"
  memory,    \* viewingResources
  snapshot,  \* mabel-insights-v2-* in the app cache
  requests,  \* viewingRequests
  painted,   \* what each screen was last painted with
  deletions, \* deletions under way
  insightTaps, insightUpsets,
  excused    \* entries a page may go on showing, see DeleteAnswered

insightVars == <<history, known, route, mode, memory, snapshot, requests, painted, deletions,
                 insightTaps, insightUpsets, excused>>

NoResource == [data |-> {}, key |-> <<"nothing">>, fresh |-> FALSE, revision |-> 0]
-----------------------------------------------------------------------------
(* The resource each screen is painted from, and the one of a route.          *)
DashboardShows(r) == <<"overview", r.range>>
BrowseShows == <<"catalogue">>
ItemShows(r) == <<"item", r.item>>
DiaryShows == <<"diary">>

Key(r) == CASE r.screen = "dashboard" -> DashboardShows(r)
            [] r.screen = "channels" -> BrowseShows
            [] r.screen = "item" -> ItemShows(r)
            [] r.screen = "diary" -> DiaryShows
Keys == {<<"overview", d>> : d \in Span} \cup {BrowseShows, DiaryShows}
          \cup {<<"item", i>> : i \in Viewed}
Screens == {"dashboard", "channels", "diary", "item"}

(* What the Pi knows of a resource.                                           *)
Entries(key) == IF key[1] = "item" THEN history \cap {key[2]} ELSE history
Revision == Cardinality(Viewed \ history)

Kept(key, data) == [data |-> data, key |-> key, fresh |-> TRUE, revision |-> known]

(* Plausible bug: a route that was painted once is not painted again.         *)
PaintedMutant(r, m, held) ==
  IF m = "mabel" /\ held[Key(r)] # NoResource /\ painted[r.screen].key # Key(r)
    THEN [painted EXCEPT ![r.screen] = held[Key(r)]] ELSE painted

(* renderInsightsRoute: the screen of the route is painted with its resource; *)
(* one that is not there leaves the screen as it was.  In the mode of My TV   *)
(* nothing is painted.                                                        *)
Painted(r, m, held) ==
  IF m = "mabel" /\ held[Key(r)] # NoResource
    THEN [painted EXCEPT ![r.screen] = held[Key(r)]] ELSE painted

(* restoreViewingResource: the snapshot, if memory has nothing; it counts as  *)
(* stale when the page has heard of another revision since.                   *)
RestoredResource(key, held) ==
  IF held[key] # NoResource \/ snapshot[key] = NoResource THEN held
  ELSE [held EXCEPT ![key] =
          [snapshot[key] EXCEPT !.fresh = @ /\ snapshot[key].revision = known]]

(* loadViewingResource: painted from memory, then asked for unless it is      *)
(* fresh; who asks for what is already asked for waits for that answer.       *)
Loads(r, m, held, force) ==
  LET now == RestoredResource(Key(r), held) IN
  /\ memory' = now
  /\ painted' = Painted(r, m, now)
  /\ requests' =
       IF (now[Key(r)].fresh /\ ~force) \/ \E q \in requests : q.key = Key(r) THEN requests
       ELSE requests \cup {[key |-> Key(r), read |-> FALSE, data |-> {}]}
-----------------------------------------------------------------------------
InsightTap == insightTaps < MaxInsightTaps /\ insightTaps' = insightTaps + 1
InsightUpset == insightUpsets < MaxInsightUpsets /\ insightUpsets' = insightUpsets + 1
OnInsights == mode = "mabel"

(* openInsightsRoute: a card, a back arrow or the browser's own.              *)
OpenRoute(r) ==
  /\ InsightTap
  /\ route' = r /\ mode' = "mabel"
  /\ Loads(r, "mabel", memory, FALSE)
  /\ UNCHANGED <<history, known, snapshot, deletions, insightUpsets, excused>>

OpenScreen(screen) == OpenRoute([route EXCEPT !.screen = screen])
OpenItem(i) == OpenRoute([route EXCEPT !.screen = "item", !.item = i])

(* The tabs of an item lead to the item that is painted.                      *)
OpenTab ==
  /\ OnInsights /\ route.screen = "item" /\ painted["item"] # NoResource
  /\ OpenItem(painted["item"].key[2])

(* Another range of the dashboard is always asked for.                        *)
ChooseRange(d) ==
  /\ OnInsights /\ route.screen = "dashboard" /\ InsightTap
  /\ route' = [route EXCEPT !.range = d]
  /\ Loads(route', mode, memory, TRUE)
  /\ UNCHANGED <<history, known, mode, snapshot, deletions, insightUpsets, excused>>

(* setMyInsightsMode from the switch between the two insights.                *)
ToMyTv ==
  /\ mode = "mabel" /\ InsightTap
  /\ mode' = "my_tv"
  /\ UNCHANGED <<history, known, route, memory, snapshot, requests, painted, deletions,
                 insightUpsets, excused>>

ToMabel ==
  /\ mode = "my_tv" /\ InsightTap
  /\ mode' = "mabel"
  /\ Loads(route, "mabel", memory, FALSE)
  /\ UNCHANGED <<history, known, route, snapshot, deletions, insightUpsets, excused>>

(* The delete button of an entry, on the item's screen as it is painted.      *)
Delete(i) ==
  /\ OnInsights /\ route.screen = "item" /\ i \in painted["item"].data
  /\ ~ \E d \in deletions : d.entry = i
  /\ InsightTap
  /\ deletions' = deletions \cup {[entry |-> i, done |-> FALSE]}
  /\ UNCHANGED <<history, known, route, mode, memory, snapshot, requests, painted,
                 insightUpsets, excused>>
-----------------------------------------------------------------------------
PiReadsHistory(q) ==
  /\ ~q.read
  /\ requests' = (requests \ {q}) \cup {[q EXCEPT !.read = TRUE, !.data = Entries(q.key)]}
  /\ UNCHANGED <<history, known, route, mode, memory, snapshot, painted, deletions,
                 insightTaps, insightUpsets, excused>>

PiDeletes(d) ==
  /\ ~d.done
  /\ history' = history \ {d.entry}
  /\ deletions' = (deletions \ {d}) \cup {[d EXCEPT !.done = TRUE]}
  /\ UNCHANGED <<known, route, mode, memory, snapshot, requests, painted, insightTaps,
                 insightUpsets, excused>>

(* An answer is kept in memory and on the device, and the route that is open  *)
(* by then is painted again.                                                  *)
Arrives(q) ==
  /\ q.read
  /\ memory' = [memory EXCEPT ![q.key] = Kept(q.key, q.data)]
  /\ snapshot' = [snapshot EXCEPT ![q.key] = Kept(q.key, q.data)]
  /\ requests' = requests \ {q}
  /\ painted' = Painted(route, mode, memory')
  /\ UNCHANGED <<history, known, route, mode, deletions, insightTaps, insightUpsets, excused>>

InsightFails(q) ==
  /\ InsightUpset
  /\ requests' = requests \ {q}
  /\ excused' = excused \cup (Viewed \ history)
  /\ UNCHANGED <<history, known, route, mode, memory, snapshot, painted, deletions, insightTaps>>

(* The entry is gone: the item that is open now, the catalogue and the range  *)
(* of the dashboard are forgotten, though not their snapshots, and the item   *)
(* is loaded again.  An entry stays to be seen when its item was left         *)
(* meanwhile, or when the load is answered by a request older than this.      *)
DeleteAnswered(d) ==
  /\ d.done
  /\ deletions' = deletions \ {d}
  /\ LET forgotten == [memory EXCEPT ![<<"catalogue">>] = NoResource,
                                     ![<<"overview", route.range>>] = NoResource]
     IN IF route.screen = "item"
          THEN /\ Loads(route, mode, [forgotten EXCEPT ![Key(route)] = NoResource], TRUE)
               /\ excused' = IF Key(route) # <<"item", d.entry>>
                                \/ \E q \in requests : q.key = Key(route) /\ q.read
                               THEN excused \cup {d.entry} ELSE excused
          ELSE /\ memory' = forgotten
               /\ excused' = excused \cup {d.entry}
               /\ UNCHANGED <<requests, painted>>
  /\ UNCHANGED <<history, known, route, mode, snapshot, insightTaps, insightUpsets>>

DeleteFails(d) ==
  /\ InsightUpset
  /\ deletions' = deletions \ {d}
  /\ excused' = excused \cup (IF d.done THEN {d.entry} ELSE {})
  /\ UNCHANGED <<history, known, route, mode, memory, snapshot, requests, painted, insightTaps>>

(* A bootstrap that something else asked for brings the revisions.            *)
InsightsTold ==
  /\ known # Revision
  /\ known' = Revision
  /\ UNCHANGED <<history, route, mode, memory, snapshot, requests, painted, deletions,
                 insightTaps, insightUpsets, excused>>

(* Five minutes pass.                                                         *)
Ages ==
  /\ InsightUpset
  /\ memory' = [k \in Keys |-> [memory[k] EXCEPT !.fresh = FALSE]]
  /\ snapshot' = [k \in Keys |-> [snapshot[k] EXCEPT !.fresh = FALSE]]
  /\ UNCHANGED <<history, known, route, mode, requests, painted, deletions, insightTaps, excused>>
-----------------------------------------------------------------------------
(* The app was opened: nothing in memory, snapshots of an earlier visit.      *)
InsightsInit ==
  /\ history = Viewed /\ known = 0
  /\ route \in [screen : {"dashboard"}, range : {CHOOSE d \in Span : TRUE},
                item : {CHOOSE i \in Viewed : TRUE}]
  /\ mode = "my_tv"
  /\ memory = [k \in Keys |-> NoResource]
  /\ snapshot \in {[k \in Keys |-> NoResource], [k \in Keys |-> Kept(k, Entries(k))]}
  /\ requests = {} /\ deletions = {}
  /\ painted = [s \in Screens |-> NoResource]
  /\ insightTaps = 0 /\ insightUpsets = 0 /\ excused = {}

InsightsNext ==
  \/ \E s \in {"dashboard", "channels", "diary"} : OpenScreen(s)
  \/ \E i \in Viewed : OpenItem(i)
  \/ OpenTab
  \/ \E d \in Span : ChooseRange(d)
  \/ ToMyTv \/ ToMabel
  \/ \E i \in Viewed : Delete(i)
  \/ \E q \in requests : PiReadsHistory(q)
  \/ \E q \in requests : Arrives(q)
  \/ \E q \in requests : InsightFails(q)
  \/ \E d \in deletions : PiDeletes(d)
  \/ \E d \in deletions : DeleteAnswered(d)
  \/ \E d \in deletions : DeleteFails(d)
  \/ InsightsTold \/ Ages

InsightsSpec == InsightsInit /\ [][InsightsNext]_insightVars
-----------------------------------------------------------------------------
(* An open screen shows the resource of its route as soon as there is one,    *)
(* whatever answer came last: ranges, catalogue, item and diary never share.  *)
ScopesAreSeparate ==
  (mode = "mabel" /\ memory[Key(route)] # NoResource) =>
     /\ painted[route.screen].key = Key(route)
     /\ painted[route.screen].data = memory[Key(route)].data

(* An item that is open in peace does not show an entry that was deleted.     *)
DeletedIsGone ==
  (mode = "mabel" /\ route.screen = "item" /\ deletions = {} /\ requests = {}) =>
     painted["item"].data \subseteq history \cup excused

(* A screen that stays with its resource never brings an entry back, neither  *)
(* from a snapshot nor from a request that was overtaken.                     *)
NothingReappears ==
  \A s \in Screens : painted'[s].key = painted[s].key => painted'[s].data \subseteq painted[s].data

(* Each screen is about its own resource, and what was deleted is gone.       *)
InsightsAreTrue == [](ScopesAreSeparate /\ DeletedIsGone) /\ [][NothingReappears]_insightVars
=============================================================================
