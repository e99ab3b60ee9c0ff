---------------------------- MODULE MCMyTvRecords ----------------------------
(* What keeps, edits and shows the records of My TV: the television's writer  *)
(* of bookmarks, the page that edits a title, the sheets of a film and of a   *)
(* local series, the feed of Explore and the order of Up Next.  They meet in  *)
(* tables of the Pi that no two of them write, so a behaviour is one of them  *)
(* at work, chosen at its start.                                              *)
EXTENDS MyTvResumeWriter, MyTvSheets, MyTvViewing

CONSTANTS
  List, Pages, MaxFeedTaps, MaxFeedFaults, MaxCalls,           \* of MyTvExplore
  QueueLength, Found, MaxOrderTaps, MaxOrderUpsets             \* of UpNextOrder

VARIABLES
  part,                                          \* who is at work
  list, visit, shelf, cards, acted, held, told, looked, feedCalls, feedBounds, ignored, stranded,
  queue, ranks, view, pane, bound, drag, orderCalls, mutations, orderBounds, muddled

feedVars == <<list, visit, shelf, cards, acted, held, told, looked, feedCalls, feedBounds, ignored, stranded>>
orderVars == <<queue, ranks, view, pane, bound, drag, orderCalls, mutations, orderBounds, muddled>>

Explore == INSTANCE MyTvExplore
  WITH MaxTaps <- MaxFeedTaps, MaxFaults <- MaxFeedFaults,
       chosen <- list, calls <- feedCalls, bounds <- feedBounds
Order == INSTANCE UpNextOrder
  WITH Titles <- QueueLength, MaxTaps <- MaxOrderTaps, MaxUpsets <- MaxOrderUpsets,
       pi <- queue, page <- ranks, calls <- orderCalls, bounds <- orderBounds

(* Who is not at work starts in one state.                                    *)
RecordsInit ==
  /\ part \in {"writer", "page", "series", "film", "feed", "order"}
  /\ Init
  /\ ViewingInit /\ (part # "page" => kept.record = Unlisted)
  /\ SeriesInit /\ (part # "series" => watched = {} /\ \A d \in open : d.season = CHOOSE s \in Season : TRUE)
  /\ FilmInit /\ (part # "film" => kind = "my_tv" /\ film.favourite)
  /\ Explore!Init /\ (part # "feed" => list = CHOOSE l \in List : TRUE)
  /\ Order!Init

RecordsNext ==
  /\ UNCHANGED part
  /\ \/ part = "writer" /\ PlayerNext /\ UNCHANGED <<viewingVars, seriesVars, filmVars, feedVars, orderVars>>
     \/ part = "page" /\ ViewingNext /\ UNCHANGED <<vars, seriesVars, filmVars, feedVars, orderVars>>
     \/ part = "series" /\ SeriesNext /\ UNCHANGED <<vars, viewingVars, filmVars, feedVars, orderVars>>
     \/ part = "film" /\ FilmNext /\ UNCHANGED <<vars, viewingVars, seriesVars, feedVars, orderVars>>
     \/ part = "feed" /\ Explore!Next /\ UNCHANGED <<vars, viewingVars, seriesVars, filmVars, orderVars>>
     \/ part = "order" /\ Order!Next /\ UNCHANGED <<vars, viewingVars, seriesVars, filmVars, feedVars>>

RecordsVars == <<part, vars, viewingVars, seriesVars, filmVars, feedVars, orderVars>>

RecordsSpec == RecordsInit /\ [][RecordsNext]_RecordsVars /\ Fairness
-----------------------------------------------------------------------------
(* MyTvExplore and UpNextOrder: the feed is one list without a gap or a       *)
(* repetition and forgets nothing that was looked at; the order of Up Next,   *)
(* dragged, edited and refused, is the Pi's, and loses no title (explore.js,  *)
(* grid.js).                                                                  *)
ListsAreTrue == []Explore!ExploreIsHonest /\ Order!OrderIsHonest
=============================================================================
