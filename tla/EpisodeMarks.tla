---------------------------- MODULE EpisodeMarks ----------------------------
(* Marking the episodes of a series as watched (portal/js/my-tv-viewing/      *)
(* seasons.js, catalogue.js).  A mark is shown at once and posted; when it is *)
(* answered the state of the whole series is worked out from what is shown    *)
(* and posted too.  Nothing stops the owner from marking on meanwhile.        *)
EXTENDS Naturals, FiniteSets

CONSTANTS
  Episode,
  Call,        \* marks that can be under way at once
  MaxMarks,    \* bound on the marks made
  MaxFailures  \* bound on requests that fail

VARIABLES
  series,     \* the Pi's record of the series: its episodes and its state
  shown,      \* the episodes shown as watched in the season's sheet
  record,     \* detail.viewing, which the posts update in the page
  posts,      \* how many posts the page has made of the series
  call,       \* [Call -> the mark under way, and which of its posts]
  markEvents, \* marks and failures so far
  muddled     \* ghost: posts reached the Pi in another order, or one failed
              \* that others overlapped or that had been half done

markVars == <<series, shown, record, posts, call, markEvents, muddled>>

Nowhere == [episodes |-> {}, state |-> "none"]
Idle == [at |-> "rest", mark |-> {}, watched |-> FALSE, bulk |-> FALSE, post |-> 0,
         action |-> "none", alone |-> TRUE, before |-> {}, earlier |-> Nowhere, reply |-> Nowhere]
UnderWay == {c \in Call : call[c].at # "rest"}
Alone(c) == call[c].alone /\ call[c].post = posts

Marked(episodes, mark, watched) == IF watched THEN episodes \cup mark ELSE episodes \ mark

(* The state of a series of which these episodes are watched.                 *)
Derived(episodes) ==
  IF episodes = Episode THEN "watched" ELSE IF episodes = {} THEN "not_watched" ELSE "part_watched"
-----------------------------------------------------------------------------
(* optimisticMyTvViewingRecord and the post of updateMyTvViewing.             *)
Post(c, from, to) ==
  /\ posts' = posts + 1
  /\ record' = to
  /\ call' = [call EXCEPT ![c] = [from EXCEPT !.at = "sent", !.post = posts + 1, !.earlier = record]]

(* The toggle of an episode's row, or the bulk button of the season, which    *)
(* waits for itself.                                                          *)
Mark(c, mark, bulk) ==
  /\ call[c].at = "rest"
  /\ bulk => mark = Episode /\ ~(\E d \in UnderWay : call[d].bulk)
  /\ markEvents.marks < MaxMarks /\ markEvents' = [markEvents EXCEPT !.marks = @ + 1]
  /\ LET watched == ~(mark \subseteq shown)
         episodes == Marked(record.episodes, mark, watched)
     IN  /\ shown' = Marked(shown, mark, watched)
         /\ Post(c, [Idle EXCEPT !.mark = mark, !.watched = watched, !.bulk = bulk,
                       !.action = "mark", !.alone = UnderWay = {}, !.before = shown \cap mark],
                 [episodes |-> episodes, state |-> Derived(episodes)])
  /\ UNCHANGED <<series, muddled>>

(* my_tv_viewing_update, one transaction.                                     *)
PiSaves(c) ==
  /\ call[c].at = "sent"
  /\ series' = IF call[c].action = "mark"
                 THEN [series EXCEPT !.episodes = Marked(@, call[c].mark, call[c].watched)]
                 ELSE [series EXCEPT !.state = call[c].action]
  /\ call' = [call EXCEPT ![c].at = "answered", ![c].reply = series']
  /\ muddled' = (muddled \/ \E d \in Call : call[d].at = "sent" /\ call[d].post < call[c].post)
  /\ UNCHANGED <<shown, record, posts, markEvents>>

(* Plausible bug: the state is not worked out again when the answer says that *)
(* there is one.                                                              *)
NeedsStateMutant(now) ==
  now.state = "none" /\ shown # {}

(* syncMyTvTitleEpisodeStatus: whether the state told is the state shown.     *)
NeedsState(now) ==
  /\ now.state # Derived(shown)
  /\ Derived(shown) = "not_watched" => now.state \in {"watched", "part_watched"}

(* The answer is taken into the page if no post of the series came after it.  *)
Taken(c) == IF call[c].post = posts THEN call[c].reply ELSE record

(* A bulk mark ends by opening the season again, from the record.             *)
Finished(c, now) ==
  /\ shown' = IF call[c].bulk THEN now.episodes ELSE shown
  /\ record' = now
  /\ call' = [call EXCEPT ![c] = Idle]
  /\ UNCHANGED posts

Answered(c) ==
  /\ call[c].at = "answered"
  /\ LET now == Taken(c)
         action == Derived(shown)
     IN  IF call[c].action = "mark" /\ NeedsState(now)
           THEN Post(c, [call[c] EXCEPT !.action = action], [now EXCEPT !.state = action]) /\ UNCHANGED shown
           ELSE Finished(c, now)
  /\ UNCHANGED <<series, markEvents, muddled>>

(* The catch of updateMyTvViewing and then of the mark: both undo what they   *)
(* had shown, whatever was marked since, and whichever of the posts failed.   *)
Failed(c) ==
  /\ call[c].at \in {"sent", "answered"}
  /\ markEvents.failures < MaxFailures /\ markEvents' = [markEvents EXCEPT !.failures = @ + 1]
  /\ shown' = (shown \ call[c].mark) \cup call[c].before
  /\ record' = call[c].earlier
  /\ call' = [call EXCEPT ![c] = Idle]
  /\ muddled' = (muddled \/ ~Alone(c) \/ call[c].at = "answered" \/ call[c].action # "mark")
  /\ UNCHANGED <<series, posts>>
-----------------------------------------------------------------------------
(* The sheet of a series opened: the page shows what the Pi has.              *)
MarksInit ==
  /\ \E episodes \in SUBSET Episode :
       series = [episodes |-> episodes, state |-> IF episodes = {} THEN "none" ELSE Derived(episodes)]
  /\ shown = series.episodes /\ record = series
  /\ posts = 0
  /\ call = [c \in Call |-> Idle]
  /\ markEvents = [marks |-> 0, failures |-> 0]
  /\ muddled = FALSE

MarksNext ==
  \E c \in Call :
    \/ \E e \in Episode : Mark(c, {e}, FALSE)
    \/ Mark(c, Episode, TRUE)
    \/ PiSaves(c) \/ Answered(c) \/ Failed(c)

MarksSpec == MarksInit /\ [][MarksNext]_markVars
-----------------------------------------------------------------------------
(* However the marks overlap and in whatever order they are answered, once    *)
(* they have ended the Pi has stored the episodes shown, and for the series   *)
(* the state that follows from them; unless the posts overtook each other, or *)
(* one failed half way or together with others.                               *)
MarksSettle ==
  UnderWay = {} /\ ~muddled =>
    /\ series.episodes = shown
    /\ series.state = Derived(shown) \/ (series.state = "none" /\ shown = {})
=============================================================================
