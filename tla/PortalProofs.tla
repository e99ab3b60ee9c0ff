---------------------------- MODULE PortalProofs ----------------------------
(* Five parts of the portal that share nothing: episode marks that overlap     *)
(* come to rest on what the page shows, for any number of episodes, of marks   *)
(* under way at once and of requests that fail; a phone never shows a video as *)
(* ready that lacks a part, for any number of videos, of parts and of          *)
(* downloads of the same video at once, unless it was removed under a running  *)
(* download or the storage had no room for a part; nothing is heard of stories *)
(* and memories that were closed or left, for any stories, scenes and promises *)
(* that are still to be settled; a card shows what it was opened for, for any  *)
(* number of cards and of reads that come late; and the frame never pretends,  *)
(* however starts, sign-ins, reconnections and reloads overlap.                *)
EXTENDS EpisodeMarks, OfflineVideos, FamilyPlayer, ContentCards, PortalShell, TLAPS

State == {"none", "watched", "not_watched", "part_watched"}
Series == [episodes : SUBSET Episode, state : State]
CallState ==
  [at : {"rest", "sent", "answered"}, mark : SUBSET Episode, watched : BOOLEAN, bulk : BOOLEAN,
   post : Nat, action : State \cup {"mark"}, alone : BOOLEAN, before : SUBSET Episode,
   earlier : Series, reply : Series]

MarksTypeOK ==
  /\ series \in Series
  /\ shown \in SUBSET Episode
  /\ record \in Series
  /\ posts \in Nat
  /\ call \in [Call -> CallState]
  /\ muddled \in BOOLEAN

\* Each call under way has made a post of its own.
PostsAreDistinct ==
  \A c \in UnderWay :
    /\ call[c].post <= posts
    /\ \A d \in UnderWay : d # c => call[d].post # call[c].post

Settled(s) == s.state = Derived(s.episodes) \/ (s.state = "none" /\ s.episodes = {})

Sent(c) == call[c].at = "sent"
SentMark(c) == Sent(c) /\ call[c].action = "mark"
Newest(c) == c \in UnderWay /\ call[c].post = posts

\* The page's own record counts the episodes it shows.
RecordIsShown == record.episodes = shown

\* What has been answered was posted before what has not reached the Pi.
InOrder ==
  \A c \in UnderWay, d \in UnderWay :
    Sent(d) /\ call[c].at = "answered" => call[c].post < call[d].post

\* The last mark of an episode that the Pi has not seen says what is shown of
\* it; without one, the Pi has what is shown.
LastMarkIsShown ==
  \A e \in Episode :
    /\ \A c \in Call :
         /\ SentMark(c) /\ e \in call[c].mark
         /\ \A d \in Call : SentMark(d) /\ e \in call[d].mark => call[d].post <= call[c].post
         => (e \in shown <=> call[c].watched)
    /\ (\A c \in Call : SentMark(c) => e \notin call[c].mark) => (e \in shown <=> e \in series.episodes)

\* The newest post, while its call is under way, agrees with what is shown.
NewestIsShown ==
  \A c \in Call : Newest(c) =>
    /\ record.state = Derived(shown)
    /\ call[c].action \in {"mark", Derived(shown)}
    /\ call[c].at = "answered" =>
         /\ call[c].reply = series
         /\ call[c].action # "mark" => call[c].reply.state = call[c].action

\* When the call of the newest post has ended, the page and the Pi agree.
EndedAgrees ==
  (\A c \in Call : ~Newest(c)) =>
    /\ \A c \in Call : ~Sent(c)
    /\ record = series /\ Settled(series)

\* A mark alone on its way can still be undone whole.
AloneCanBeUndone ==
  \A c \in Call : SentMark(c) /\ Alone(c) =>
    /\ UnderWay = {c}
    /\ call[c].earlier = series /\ Settled(series)
    /\ series.episodes = (shown \ call[c].mark) \cup call[c].before

Agreement ==
  /\ RecordIsShown /\ InOrder /\ LastMarkIsShown /\ NewestIsShown /\ EndedAgrees /\ AloneCanBeUndone

MInv == MarksTypeOK /\ PostsAreDistinct /\ (~muddled => Agreement)

-----------------------------------------------------------------------------
LEMMA Records ==
  /\ Nowhere \in Series /\ Idle \in CallState /\ Idle.at = "rest"
  /\ \A episodes \in SUBSET Episode : Derived(episodes) \in State
BY DEF Nowhere, Idle, Series, CallState, State, Derived

LEMMA MarkFields ==
  ASSUME NEW k \in CallState
  PROVE  /\ \A mark \in SUBSET Episode, watched \in BOOLEAN, bulk \in BOOLEAN, alone \in BOOLEAN,
               before \in SUBSET Episode :
              [k EXCEPT !.mark = mark, !.watched = watched, !.bulk = bulk, !.action = "mark",
                        !.alone = alone, !.before = before] \in CallState
         /\ \A post \in Nat, earlier \in Series :
              [k EXCEPT !.at = "sent", !.post = post, !.earlier = earlier] \in CallState
BY DEF CallState

LEMMA InitMInv ==
  ASSUME MarksInit
  PROVE  MInv
<1>1. PICK episodes \in SUBSET Episode :
        series = [episodes |-> episodes, state |-> IF episodes = {} THEN "none" ELSE Derived(episodes)]
  BY DEF MarksInit
<1>2. series \in Series /\ Settled(series)
  BY <1>1, Records DEF Series, State, Settled
<1>3. /\ call = [q \in Call |-> Idle] /\ posts = 0 /\ shown = series.episodes /\ record = series
      /\ muddled = FALSE
  BY DEF MarksInit
<1>4. UnderWay = {} /\ \A q \in Call : ~Sent(q) /\ ~Newest(q)
  BY <1>3, Records DEF UnderWay, Sent, Newest
<1>5. MarksTypeOK
  BY <1>2, <1>3, Records DEF MarksTypeOK, Series
<1>6. PostsAreDistinct
  BY <1>4 DEF PostsAreDistinct
<1>7. Agreement
  BY <1>2, <1>3, <1>4 DEF Agreement, RecordIsShown, InOrder, LastMarkIsShown, NewestIsShown,
                          EndedAgrees, AloneCanBeUndone, SentMark
<1> QED BY <1>5, <1>6, <1>7 DEF MInv

\* A new post is the newest of all, and no other call is at it.
LEMMA NewestOfAll ==
  ASSUME MInv, NEW c \in Call, NEW w \in CallState,
         call' = [call EXCEPT ![c] = w], w.at = "sent", w.post = posts + 1, posts' = posts + 1
  PROVE  /\ \A q \in Call : call'[q] = IF q = c THEN w ELSE call[q]
         /\ call' \in [Call -> CallState] /\ posts' \in Nat
         /\ \A q \in Call : q # c /\ call[q].at # "rest" => call[q].post \in Nat /\ call[q].post <= posts
         /\ Newest(c)' /\ \A q \in Call : q # c => ~Newest(q)'
         /\ PostsAreDistinct'
<1>1. \A q \in Call : call'[q] = IF q = c THEN w ELSE call[q]
  BY DEF MInv, MarksTypeOK
<1>2. call' \in [Call -> CallState] /\ posts' \in Nat
  BY DEF MInv, MarksTypeOK
<1>3. \A q \in Call : call[q].post \in Nat
  BY DEF MInv, MarksTypeOK, CallState
<1>4. \A q \in Call : q # c /\ call[q].at # "rest" => call[q].post <= posts
  BY DEF MInv, PostsAreDistinct, UnderWay
<1>5. posts \in Nat
  BY DEF MInv, MarksTypeOK
<1>6. Newest(c)'
  BY <1>1 DEF Newest, UnderWay
<1>7. \A q \in Call : q # c => ~Newest(q)'
  BY <1>1, <1>3, <1>4, <1>5 DEF Newest, UnderWay
<1>8. PostsAreDistinct'
  <2>1. \A q, d \in Call : q # d /\ call[q].at # "rest" /\ call[d].at # "rest" => call[d].post # call[q].post
    BY DEF MInv, PostsAreDistinct, UnderWay
  <2> QED BY <1>1, <1>3, <1>4, <1>5, <2>1 DEF PostsAreDistinct, UnderWay
<1> QED BY <1>1, <1>2, <1>3, <1>4, <1>6, <1>7, <1>8

LEMMA MarkMInv ==
  ASSUME MInv, NEW c \in Call, NEW mark \in SUBSET Episode, NEW bulk \in BOOLEAN, Mark(c, mark, bulk)
  PROVE  MInv'
<1> DEFINE watched == ~(mark \subseteq shown)
           episodes == Marked(record.episodes, mark, watched)
           new == [Idle EXCEPT !.mark = mark, !.watched = watched, !.bulk = bulk, !.action = "mark",
                               !.alone = UnderWay = {}, !.before = shown \cap mark]
           w == [new EXCEPT !.at = "sent", !.post = posts + 1, !.earlier = record]
           to == [episodes |-> episodes, state |-> Derived(episodes)]
<1>1. /\ call[c].at = "rest" /\ UNCHANGED <<series, muddled>>
      /\ shown' = Marked(shown, mark, watched)
      /\ posts' = posts + 1 /\ record' = to /\ call' = [call EXCEPT ![c] = w]
  BY DEF Mark, Post
<1>2. record \in Series /\ shown \in SUBSET Episode /\ record.episodes \in SUBSET Episode /\ posts \in Nat
  BY DEF MInv, MarksTypeOK, Series
<1>3. episodes \in SUBSET Episode /\ watched \in BOOLEAN /\ shown' \in SUBSET Episode
  BY <1>1, <1>2 DEF Marked
<1>4. to \in Series
  BY <1>3, Records DEF Series
<1>5. w \in CallState
  <2>1. posts + 1 \in Nat /\ (UnderWay = {}) \in BOOLEAN /\ shown \cap mark \in SUBSET Episode
    BY <1>2
  <2> HIDE DEF watched
  <2> HIDE DEF new, w
  <2>2. new \in CallState
    BY <1>3, <2>1, Records, MarkFields DEF new
  <2> QED BY <1>2, <2>1, <2>2, MarkFields DEF w
<1>6. /\ w.at = "sent" /\ w.post = posts + 1 /\ w.action = "mark" /\ w.mark = mark
      /\ w.watched = watched /\ w.earlier = record /\ w.alone = (UnderWay = {})
      /\ w.before = shown \cap mark
  BY DEF Idle
<1>7. to.episodes = episodes /\ to.state = Derived(episodes)
  OBVIOUS
<1> HIDE DEF new, w, to, episodes
<1>8. /\ \A q \in Call : call'[q] = IF q = c THEN w ELSE call[q]
      /\ call' \in [Call -> CallState] /\ posts' \in Nat
      /\ \A q \in Call : q # c /\ call[q].at # "rest" => call[q].post \in Nat /\ call[q].post <= posts
      /\ Newest(c)' /\ \A q \in Call : q # c => ~Newest(q)'
      /\ PostsAreDistinct'
  BY <1>1, <1>5, <1>6, NewestOfAll
<1>9. MarksTypeOK'
  BY <1>1, <1>3, <1>4, <1>8 DEF MInv, MarksTypeOK
<1>10. ASSUME ~muddled' PROVE Agreement'
  <2>1. RecordIsShown /\ InOrder /\ LastMarkIsShown /\ EndedAgrees
    BY <1>1, <1>10 DEF MInv, Agreement
  <2>2. RecordIsShown' /\ episodes = shown'
    BY <1>1, <1>7, <2>1 DEF RecordIsShown, episodes
  <2>3. InOrder'
    <3> SUFFICES ASSUME NEW q \in UnderWay', NEW d \in UnderWay', Sent(d)', call'[q].at = "answered"
                 PROVE  call'[q].post < call'[d].post
      BY DEF InOrder
    <3>1. q # c /\ q \in Call /\ d \in Call /\ call'[q] = call[q] /\ q \in UnderWay
      BY <1>6, <1>8 DEF UnderWay
    <3>2. CASE d = c
      BY <1>2, <1>6, <1>8, <3>1, <3>2 DEF UnderWay
    <3>3. CASE d # c
      BY <1>8, <2>1, <3>1, <3>3 DEF InOrder, UnderWay, Sent
    <3> QED BY <3>2, <3>3
  <2>4. LastMarkIsShown'
    <3> SUFFICES ASSUME NEW e \in Episode
                 PROVE  /\ \A q \in Call :
                             /\ SentMark(q)' /\ e \in call'[q].mark
                             /\ \A d \in Call : SentMark(d)' /\ e \in call'[d].mark => call'[d].post <= call'[q].post
                             => (e \in shown' <=> call'[q].watched)
                        /\ (\A q \in Call : SentMark(q)' => e \notin call'[q].mark)
                             => (e \in shown' <=> e \in series.episodes)
      BY <1>1 DEF LastMarkIsShown
    <3>1. SentMark(c)' /\ call'[c].mark = mark /\ call'[c].post = posts + 1 /\ call'[c].watched = watched
      BY <1>6, <1>8 DEF SentMark, Sent
    <3>2. ASSUME NEW q \in Call, q # c
          PROVE  /\ call'[q] = call[q] /\ (SentMark(q)' <=> SentMark(q))
                 /\ SentMark(q) => call[q].post \in Nat /\ call[q].post <= posts
      BY <1>8, <3>2 DEF SentMark, Sent
    <3>3. CASE e \in mark
      <4>1. e \in shown' <=> watched
        BY <1>1, <3>3 DEF Marked
      <4>2. ASSUME NEW q \in Call, SentMark(q)', q # c PROVE ~(posts + 1 <= call'[q].post)
        BY <1>2, <3>2, <4>2
      <4> HIDE DEF watched
      <4> QED BY <3>1, <3>3, <4>1, <4>2
    <3>4. CASE e \notin mark
      <4>1. e \in shown' <=> e \in shown
        BY <1>1, <3>4 DEF Marked
      <4>2. ~SentMark(c)
        BY <1>1 DEF SentMark, Sent
      <4> HIDE DEF watched
      <4>3. ASSUME NEW q \in Call, SentMark(q)', e \in call'[q].mark,
                   \A d \in Call : SentMark(d)' /\ e \in call'[d].mark => call'[d].post <= call'[q].post
            PROVE  e \in shown' <=> call'[q].watched
        <5>1. q # c /\ SentMark(q) /\ call'[q] = call[q]
          BY <3>1, <3>2, <3>4, <4>3
        <5>2. ASSUME NEW d \in Call, SentMark(d), e \in call[d].mark PROVE call[d].post <= call[q].post
          BY <3>2, <4>2, <4>3, <5>1, <5>2
        <5> QED BY <2>1, <4>1, <4>3, <5>1, <5>2 DEF LastMarkIsShown
      <4>4. ASSUME \A q \in Call : SentMark(q)' => e \notin call'[q].mark
            PROVE  e \in shown' <=> e \in series.episodes
        <5>1. \A q \in Call : SentMark(q) => e \notin call[q].mark
          BY <3>2, <4>2, <4>4
        <5> QED BY <2>1, <4>1, <5>1 DEF LastMarkIsShown
      <4> QED BY <4>3, <4>4
    <3> QED BY <3>3, <3>4
  <2>5. NewestIsShown'
    BY <1>1, <1>6, <1>7, <1>8, <2>2 DEF NewestIsShown
  <2>6. EndedAgrees'
    BY <1>8 DEF EndedAgrees
  <2>7. AloneCanBeUndone'
    <3> SUFFICES ASSUME NEW q \in Call, SentMark(q)', Alone(q)'
                 PROVE  /\ UnderWay' = {q}
                        /\ call'[q].earlier = series' /\ Settled(series)'
                        /\ series'.episodes = (shown' \ call'[q].mark) \cup call'[q].before
      BY DEF AloneCanBeUndone
    <3>1. q = c
      BY <1>8 DEF Newest, UnderWay, Alone, SentMark, Sent
    <3>2. UnderWay = {} /\ UnderWay' = {c}
      <4>1. call'[c] = w /\ call'[c].at # "rest"
        BY <1>6, <1>8
      <4>2. UnderWay = {}
        BY <1>6, <3>1, <4>1 DEF Alone
      <4>3. \A d \in Call : call'[d].at # "rest" <=> d = c
        BY <1>8, <4>1, <4>2 DEF UnderWay
      <4> QED BY <4>2, <4>3 DEF UnderWay
    <3>3. record = series /\ Settled(series)
      BY <2>1, <3>2 DEF EndedAgrees, Newest
    <3>4. series.episodes = shown
      BY <2>1, <3>3 DEF RecordIsShown
    <3>5. call'[c].earlier = series /\ call'[c].mark = mark /\ call'[c].before = shown \cap mark
      BY <1>6, <1>8, <3>3
    <3>6. series.episodes = (shown' \ mark) \cup (shown \cap mark)
      BY <1>1, <3>4 DEF Marked
    <3>7. Settled(series)'
      BY <1>1, <3>3 DEF Settled
    <3> QED BY <1>1, <3>1, <3>2, <3>5, <3>6, <3>7
  <2> QED BY <2>2, <2>3, <2>4, <2>5, <2>6, <2>7 DEF Agreement
<1> QED BY <1>8, <1>9, <1>10 DEF MInv

LEMMA SavesMInv ==
  ASSUME MInv, NEW c \in Call, PiSaves(c)
  PROVE  MInv'
<1> DEFINE w == [call[c] EXCEPT !.at = "answered", !.reply = series']
<1>1. /\ Sent(c) /\ UNCHANGED <<shown, record, posts>>
      /\ series' = IF call[c].action = "mark"
                     THEN [series EXCEPT !.episodes = Marked(@, call[c].mark, call[c].watched)]
                     ELSE [series EXCEPT !.state = call[c].action]
      /\ call' = [call EXCEPT ![c] = w]
      /\ muddled' = (muddled \/ \E d \in Call : call[d].at = "sent" /\ call[d].post < call[c].post)
  BY DEF PiSaves, Sent
<1>2. /\ call \in [Call -> CallState] /\ call[c] \in CallState
      /\ series \in Series /\ shown \in SUBSET Episode /\ posts \in Nat /\ muddled \in BOOLEAN
  BY DEF MInv, MarksTypeOK
<1>3. /\ call[c].action \in State \cup {"mark"} /\ call[c].mark \in SUBSET Episode
      /\ call[c].post \in Nat
  BY <1>2 DEF CallState
<1>4. series' \in Series
  <2>1. CASE call[c].action = "mark"
    <3>1. Marked(series.episodes, call[c].mark, call[c].watched) \in SUBSET Episode
      BY <1>2, <1>3 DEF Marked, Series
    <3> QED BY <1>1, <1>2, <2>1, <3>1 DEF Series
  <2>2. CASE call[c].action # "mark"
    BY <1>1, <1>2, <1>3, <2>2 DEF Series
  <2> QED BY <2>1, <2>2
<1>5. /\ w \in CallState /\ w.at = "answered" /\ w.reply = series'
      /\ w.post = call[c].post /\ w.action = call[c].action
  BY <1>2, <1>4 DEF CallState
<1> HIDE DEF w
<1>6. \A q \in Call : call'[q] = IF q = c THEN w ELSE call[q]
  BY <1>1, <1>2
<1>7. MarksTypeOK'
  BY <1>1, <1>2, <1>4, <1>5 DEF MInv, MarksTypeOK
<1>8. UnderWay' = UnderWay /\ \A q \in Call : call'[q].post = call[q].post
  BY <1>1, <1>5, <1>6 DEF UnderWay, Sent
<1>9. PostsAreDistinct'
  <2>1. UnderWay \subseteq Call
    BY DEF UnderWay
  <2> QED BY <1>1, <1>8, <2>1 DEF MInv, PostsAreDistinct
<1>10. ASSUME ~muddled' PROVE Agreement'
  <2>1. RecordIsShown /\ InOrder /\ LastMarkIsShown /\ NewestIsShown /\ EndedAgrees
    BY <1>1, <1>10 DEF MInv, Agreement
  <2>2. \A d \in Call : call[d].post \in Nat
    BY <1>2 DEF CallState
  <2>3. ASSUME NEW d \in Call, Sent(d), d # c PROVE call[c].post < call[d].post
    <3>1. ~(call[d].post < call[c].post)
      BY <1>1, <1>10, <2>3 DEF Sent
    <3>2. call[d].post # call[c].post
      BY <1>1, <2>3 DEF MInv, PostsAreDistinct, UnderWay, Sent
    <3> QED BY <2>2, <3>1, <3>2
  <2>4. \A q \in Call : Sent(q)' <=> Sent(q) /\ q # c
    BY <1>5, <1>6 DEF Sent
  <2>5. RecordIsShown'
    BY <1>1, <2>1 DEF RecordIsShown
  <2>6. InOrder'
    <3> SUFFICES ASSUME NEW q \in UnderWay, NEW d \in UnderWay, Sent(d)', call'[q].at = "answered"
                 PROVE  call[q].post < call[d].post
      BY <1>8 DEF InOrder, UnderWay
    <3>1. q \in Call /\ d \in Call /\ Sent(d) /\ d # c
      BY <2>4 DEF UnderWay
    <3>2. CASE q = c
      BY <2>3, <3>1, <3>2
    <3>3. CASE q # c
      BY <1>6, <2>1, <3>1, <3>3 DEF InOrder
    <3> QED BY <3>2, <3>3
  <2>7. LastMarkIsShown'
    <3> SUFFICES ASSUME NEW e \in Episode
                 PROVE  /\ \A q \in Call :
                             /\ SentMark(q)' /\ e \in call'[q].mark
                             /\ \A d \in Call : SentMark(d)' /\ e \in call'[d].mark => call'[d].post <= call'[q].post
                             => (e \in shown <=> call'[q].watched)
                        /\ (\A q \in Call : SentMark(q)' => e \notin call'[q].mark)
                             => (e \in shown <=> e \in series'.episodes)
      BY <1>1 DEF LastMarkIsShown
    <3>1. ASSUME NEW q \in Call
          PROVE  /\ SentMark(q)' <=> (SentMark(q) /\ q # c)
                 /\ q # c => call'[q] = call[q]
      BY <1>6, <2>4 DEF SentMark
    <3>2. ASSUME NEW q \in Call, SentMark(q)', e \in call'[q].mark,
                 \A d \in Call : SentMark(d)' /\ e \in call'[d].mark => call'[d].post <= call'[q].post
          PROVE  e \in shown <=> call'[q].watched
      <4>1. q # c /\ SentMark(q) /\ call'[q] = call[q] /\ e \in call[q].mark
        BY <3>1, <3>2
      <4>2. ASSUME NEW d \in Call, SentMark(d), e \in call[d].mark PROVE call[d].post <= call[q].post
        <5>1. CASE d = c
          <6>1. call[c].post < call[q].post
            BY <2>3, <4>1 DEF SentMark
          <6> QED BY <2>2, <5>1, <6>1
        <5>2. CASE d # c
          BY <3>1, <3>2, <4>1, <4>2, <5>2
        <5> QED BY <5>1, <5>2
      <4> QED BY <2>1, <4>1, <4>2 DEF LastMarkIsShown
    <3>3. ASSUME \A q \in Call : SentMark(q)' => e \notin call'[q].mark
          PROVE  e \in shown <=> e \in series'.episodes
      <4>1. \A q \in Call : q # c /\ SentMark(q) => e \notin call[q].mark
        BY <3>1, <3>3
      <4>2. CASE call[c].action = "mark" /\ e \in call[c].mark
        <5>1. SentMark(c)
          BY <1>1, <4>2 DEF SentMark
        <5>2. \A d \in Call : SentMark(d) /\ e \in call[d].mark => call[d].post <= call[c].post
          BY <2>2, <4>1
        <5>3. e \in shown <=> call[c].watched
          BY <2>1, <4>2, <5>1, <5>2 DEF LastMarkIsShown
        <5>4. series'.episodes = Marked(series.episodes, call[c].mark, call[c].watched)
          BY <1>1, <1>2, <4>2 DEF Series
        <5> QED BY <4>2, <5>3, <5>4 DEF Marked
      <4>3. CASE ~(call[c].action = "mark" /\ e \in call[c].mark)
        <5>1. \A q \in Call : SentMark(q) => e \notin call[q].mark
          BY <4>1, <4>3 DEF SentMark
        <5>2. e \in shown <=> e \in series.episodes
          BY <2>1, <5>1 DEF LastMarkIsShown
        <5>3. e \in series'.episodes <=> e \in series.episodes
          <6>1. CASE call[c].action = "mark"
            <7>1. series'.episodes = Marked(series.episodes, call[c].mark, call[c].watched)
              BY <1>1, <1>2, <6>1 DEF Series
            <7> QED BY <4>3, <6>1, <7>1 DEF Marked
          <6>2. CASE call[c].action # "mark"
            BY <1>1, <1>2, <6>2 DEF Series
          <6> QED BY <6>1, <6>2
        <5> QED BY <5>2, <5>3
      <4> QED BY <4>2, <4>3
    <3> QED BY <3>2, <3>3
  <2>8. NewestIsShown'
    <3> SUFFICES ASSUME NEW q \in Call, Newest(q)'
                 PROVE  /\ record.state = Derived(shown)
                        /\ call'[q].action \in {"mark", Derived(shown)}
                        /\ call'[q].at = "answered" =>
                             /\ call'[q].reply = series'
                             /\ call'[q].action # "mark" => call'[q].reply.state = call'[q].action
      BY <1>1 DEF NewestIsShown, Derived
    <3>1. Newest(q)
      BY <1>1, <1>8 DEF Newest
    <3>2. record.state = Derived(shown) /\ call[q].action \in {"mark", Derived(shown)}
      BY <2>1, <3>1 DEF NewestIsShown
    <3>3. CASE q = c
      <4>1. call'[q].reply = series' /\ call'[q].action = call[c].action
        BY <1>5, <1>6, <3>3
      <4>2. call[c].action # "mark" => series'.state = call[c].action
        BY <1>1, <1>2 DEF Series
      <4> QED BY <3>2, <3>3, <4>1, <4>2
    <3>4. CASE q # c
      <4>1. call'[q] = call[q]
        BY <1>6, <3>4
      <4>2. call[q].at # "answered"
        <5> SUFFICES ASSUME call[q].at = "answered" PROVE FALSE
          OBVIOUS
        <5>1. call[q].post < call[c].post
          BY <1>1, <2>1, <3>1 DEF InOrder, UnderWay, Newest, Sent
        <5>2. call[c].post <= posts /\ call[q].post = posts
          BY <1>1, <3>1 DEF MInv, PostsAreDistinct, Newest, UnderWay, Sent
        <5> QED BY <1>2, <2>2, <5>1, <5>2
      <4> QED BY <3>2, <4>1, <4>2
    <3> QED BY <3>3, <3>4
  <2>9. EndedAgrees'
    <3> SUFFICES ASSUME \A q \in Call : ~Newest(q)' PROVE FALSE
      BY DEF EndedAgrees
    <3>1. \A q \in Call : ~Newest(q)
      BY <1>1, <1>8 DEF Newest
    <3> QED BY <1>1, <2>1, <3>1 DEF EndedAgrees
  <2>10. AloneCanBeUndone'
    <3> SUFFICES ASSUME NEW q \in Call, SentMark(q)', Alone(q)' PROVE FALSE
      BY DEF AloneCanBeUndone
    <3>1. q # c /\ SentMark(q) /\ Alone(q)
      BY <1>1, <1>6, <2>4 DEF SentMark, Alone
    <3>2. UnderWay = {q}
      BY <1>1, <1>10, <3>1 DEF MInv, Agreement, AloneCanBeUndone
    <3> QED BY <1>1, <3>1, <3>2 DEF UnderWay, Sent
  <2> QED BY <2>5, <2>6, <2>7, <2>8, <2>9, <2>10 DEF Agreement
<1> QED BY <1>7, <1>9, <1>10 DEF MInv

\* The page takes an answer only when the Pi has stood still since, and then it
\* counts what is shown.
LEMMA TakenIsShown ==
  ASSUME MInv, ~muddled, NEW c \in Call, call[c].at = "answered"
  PROVE  /\ Taken(c) \in Series /\ Taken(c).episodes = shown
         /\ ~Newest(c) => Taken(c) = record
         /\ Newest(c) => /\ Taken(c) = series /\ \A q \in Call : ~Sent(q)
                         /\ call[c].action # "mark" => Settled(series)
<1>1. RecordIsShown /\ InOrder /\ LastMarkIsShown /\ NewestIsShown /\ EndedAgrees
  BY DEF MInv, Agreement
<1>2. \A q \in Call : call[q].post \in Nat
  BY DEF MInv, MarksTypeOK, CallState
<1>3. record \in Series /\ series \in Series /\ posts \in Nat /\ shown \in SUBSET Episode
  BY DEF MInv, MarksTypeOK
<1>4. c \in UnderWay
  BY DEF UnderWay
<1>5. CASE Newest(c)
  <2>1. call[c].post = posts /\ call[c].reply = series
        /\ call[c].action \in {"mark", Derived(shown)}
        /\ (call[c].action # "mark" => call[c].reply.state = call[c].action)
    BY <1>1, <1>5 DEF NewestIsShown, Newest
  <2>2. ASSUME NEW q \in Call, Sent(q) PROVE FALSE
    <3>1. q \in UnderWay
      BY <2>2 DEF UnderWay, Sent
    <3>2. call[c].post < call[q].post
      BY <1>1, <1>4, <2>2, <3>1 DEF InOrder
    <3>3. call[q].post <= posts
      BY <3>1 DEF MInv, PostsAreDistinct
    <3> QED BY <1>2, <1>3, <2>1, <3>2, <3>3
  <2>3. series.episodes = shown
    <3>1. \A e \in Episode : e \in shown <=> e \in series.episodes
      BY <1>1, <2>2 DEF LastMarkIsShown, SentMark
    <3> QED BY <1>3, <3>1 DEF Series
  <2>4. Taken(c) = series
    BY <2>1 DEF Taken
  <2>5. call[c].action # "mark" => Settled(series)
    BY <2>1, <2>3 DEF Settled
  <2> QED BY <1>3, <1>5, <2>2, <2>3, <2>4, <2>5
<1>6. CASE ~Newest(c)
  <2>1. Taken(c) = record
    BY <1>4, <1>6 DEF Taken, Newest
  <2> QED BY <1>1, <1>3, <1>6, <2>1 DEF RecordIsShown
<1> QED BY <1>5, <1>6

LEMMA AnsweredMInv ==
  ASSUME MInv, NEW c \in Call, Answered(c)
  PROVE  MInv'
<1> DEFINE now == Taken(c)
           action == Derived(shown)
<1>1. call[c].at = "answered" /\ UNCHANGED <<series, muddled>>
  BY DEF Answered
<1>2. /\ call \in [Call -> CallState] /\ call[c] \in CallState /\ record \in Series
      /\ series \in Series /\ shown \in SUBSET Episode /\ posts \in Nat /\ muddled \in BOOLEAN
  BY DEF MInv, MarksTypeOK
<1>3. \A q \in Call : call[q].post \in Nat
  BY <1>2 DEF CallState
<1>4. now \in Series /\ action \in State
  BY <1>2, Records DEF Taken, CallState
<1> HIDE DEF now
<1>5. ASSUME Post(c, [call[c] EXCEPT !.action = action], [now EXCEPT !.state = action]), UNCHANGED shown
      PROVE  MInv'
  <2> DEFINE from == [call[c] EXCEPT !.action = action]
             w == [from EXCEPT !.at = "sent", !.post = posts + 1, !.earlier = record]
             to == [now EXCEPT !.state = action]
  <2>1. posts' = posts + 1 /\ record' = to /\ call' = [call EXCEPT ![c] = w]
    BY <1>5 DEF Post
  <2>2. from \in CallState /\ from.action = action
    BY <1>2, <1>4 DEF CallState
  <2> HIDE DEF from
  <2>3. w \in CallState
    <3>1. posts + 1 \in Nat
      BY <1>2
    <3>2. \A post \in Nat, earlier \in Series :
            [from EXCEPT !.at = "sent", !.post = post, !.earlier = earlier] \in CallState
      BY <2>2, MarkFields
    <3> QED BY <1>2, <3>1, <3>2
  <2>4. w.at = "sent" /\ w.post = posts + 1 /\ w.action = action
    BY <2>2 DEF CallState
  <2>5. to \in Series /\ to.episodes = now.episodes /\ to.state = action
    BY <1>4 DEF Series
  <2> HIDE DEF w, to
  <2>6. /\ \A q \in Call : call'[q] = IF q = c THEN w ELSE call[q]
        /\ call' \in [Call -> CallState] /\ posts' \in Nat
        /\ \A q \in Call : q # c /\ call[q].at # "rest" => call[q].post \in Nat /\ call[q].post <= posts
        /\ Newest(c)' /\ \A q \in Call : q # c => ~Newest(q)'
        /\ PostsAreDistinct'
    BY <2>1, <2>3, <2>4, NewestOfAll
  <2>7. MarksTypeOK'
    BY <1>1, <1>2, <1>5, <2>1, <2>5, <2>6 DEF MarksTypeOK
  <2>8. ASSUME ~muddled' PROVE Agreement'
    <3>1. RecordIsShown /\ InOrder /\ LastMarkIsShown /\ ~muddled
      BY <1>1, <2>8 DEF MInv, Agreement
    <3>2. now.episodes = shown
      BY <1>1, <3>1, TakenIsShown DEF now
    <3>3. action # "mark"
      BY <1>4 DEF State
    <3>4. \A q \in Call : SentMark(q)' <=> SentMark(q)
      BY <1>1, <2>4, <2>6, <3>3 DEF SentMark, Sent
    <3>5. ~SentMark(c)
      BY <1>1 DEF SentMark, Sent
    <3>6. \A q \in Call : q # c => call'[q] = call[q]
      BY <2>6
    <3>7. RecordIsShown'
      BY <1>5, <2>1, <2>5, <3>2 DEF RecordIsShown
    <3>8. InOrder'
      <4> SUFFICES ASSUME NEW q \in UnderWay', NEW d \in UnderWay', Sent(d)', call'[q].at = "answered"
                   PROVE  call'[q].post < call'[d].post
        BY DEF InOrder
      <4>1. q # c /\ q \in Call /\ d \in Call /\ call'[q] = call[q] /\ q \in UnderWay
        BY <2>4, <2>6 DEF UnderWay
      <4>2. CASE d = c
        BY <1>2, <2>4, <2>6, <4>1, <4>2 DEF UnderWay
      <4>3. CASE d # c
        BY <2>6, <3>1, <4>1, <4>3 DEF InOrder, UnderWay, Sent
      <4> QED BY <4>2, <4>3
    <3>9. LastMarkIsShown'
      <4> SUFFICES ASSUME NEW e \in Episode
                   PROVE  /\ \A q \in Call :
                               /\ SentMark(q)' /\ e \in call'[q].mark
                               /\ \A d \in Call : SentMark(d)' /\ e \in call'[d].mark => call'[d].post <= call'[q].post
                               => (e \in shown <=> call'[q].watched)
                          /\ (\A q \in Call : SentMark(q)' => e \notin call'[q].mark)
                               => (e \in shown <=> e \in series.episodes)
        BY <1>1, <1>5 DEF LastMarkIsShown
      <4>1. \A q \in Call : SentMark(q)' => call'[q] = call[q] /\ SentMark(q)
        BY <3>4, <3>5, <3>6
      <4>2. \A q \in Call : SentMark(q) => call'[q] = call[q] /\ SentMark(q)'
        BY <3>4, <3>5, <3>6
      <4> QED BY <3>1, <4>1, <4>2 DEF LastMarkIsShown
    <3>10. NewestIsShown'
      <4> SUFFICES ASSUME NEW q \in Call, Newest(q)'
                   PROVE  /\ record'.state = action
                          /\ call'[q].action \in {"mark", action}
                          /\ call'[q].at # "answered"
        BY <1>5 DEF NewestIsShown, Derived
      <4>1. q = c
        BY <2>6
      <4> QED BY <2>1, <2>4, <2>5, <2>6, <4>1
    <3>11. EndedAgrees'
      BY <2>6 DEF EndedAgrees
    <3>12. AloneCanBeUndone'
      <4> SUFFICES ASSUME NEW q \in Call, SentMark(q)', Alone(q)' PROVE FALSE
        BY DEF AloneCanBeUndone
      <4>1. q # c
        BY <3>4, <3>5
      <4> QED BY <2>6, <4>1 DEF SentMark, Sent, Alone, Newest, UnderWay
    <3> QED BY <3>7, <3>8, <3>9, <3>10, <3>11, <3>12 DEF Agreement
  <2> QED BY <2>6, <2>7, <2>8 DEF MInv
<1>6. ASSUME Finished(c, now), ~(call[c].action = "mark" /\ NeedsState(now))
      PROVE  MInv'
  <2>1. /\ shown' = IF call[c].bulk THEN now.episodes ELSE shown
        /\ record' = now /\ posts' = posts /\ call' = [call EXCEPT ![c] = Idle]
    BY <1>6 DEF Finished
  <2>2. \A q \in Call : call'[q] = IF q = c THEN Idle ELSE call[q]
    BY <1>2, <2>1
  <2>3. UnderWay' = UnderWay \ {c}
    BY <2>2, Records DEF UnderWay
  <2>4. shown' \in SUBSET Episode
    BY <1>2, <1>4, <2>1 DEF Series
  <2>5. MarksTypeOK'
    BY <1>1, <1>2, <1>4, <2>1, <2>4, Records DEF MarksTypeOK
  <2>6. PostsAreDistinct'
    <3>1. \A q \in UnderWay' : q \in UnderWay /\ call'[q] = call[q]
      BY <2>2, <2>3 DEF UnderWay
    <3> QED BY <2>1, <3>1 DEF MInv, PostsAreDistinct
  <2>7. ASSUME ~muddled' PROVE Agreement'
    <3>1. RecordIsShown /\ InOrder /\ LastMarkIsShown /\ NewestIsShown /\ EndedAgrees /\ AloneCanBeUndone
          /\ ~muddled
      BY <1>1, <2>7 DEF MInv, Agreement
    <3>2. /\ now.episodes = shown
          /\ ~Newest(c) => now = record
          /\ Newest(c) => /\ now = series /\ \A q \in Call : ~Sent(q)
                          /\ call[c].action # "mark" => Settled(series)
      BY <1>1, <3>1, TakenIsShown DEF now
    <3>3. shown' = shown
      BY <2>1, <3>2
    <3>4. \A q \in Call : Sent(q)' <=> Sent(q)
      BY <1>1, <2>2, Records DEF Sent
    <3>5. \A q \in Call : Sent(q) => call'[q] = call[q]
      BY <1>1, <2>2 DEF Sent
    <3>6. RecordIsShown'
      BY <2>1, <3>2, <3>3 DEF RecordIsShown
    <3>7. InOrder'
      <4>1. \A q \in UnderWay' : q \in UnderWay /\ call'[q] = call[q]
        BY <2>2, <2>3 DEF UnderWay
      <4> QED BY <3>1, <4>1 DEF InOrder, Sent
    <3>8. LastMarkIsShown'
      <4>1. \A q \in Call : SentMark(q)' => call'[q] = call[q] /\ SentMark(q)
        BY <3>4, <3>5 DEF SentMark
      <4>2. \A q \in Call : SentMark(q) => call'[q] = call[q] /\ SentMark(q)'
        BY <3>4, <3>5 DEF SentMark
      <4> SUFFICES ASSUME NEW e \in Episode
                   PROVE  /\ \A q \in Call :
                               /\ SentMark(q)' /\ e \in call'[q].mark
                               /\ \A d \in Call : SentMark(d)' /\ e \in call'[d].mark => call'[d].post <= call'[q].post
                               => (e \in shown <=> call'[q].watched)
                          /\ (\A q \in Call : SentMark(q)' => e \notin call'[q].mark)
                               => (e \in shown <=> e \in series.episodes)
        BY <1>1, <3>3 DEF LastMarkIsShown
      <4> QED BY <3>1, <4>1, <4>2 DEF LastMarkIsShown
    <3>9. NewestIsShown'
      <4> SUFFICES ASSUME NEW q \in Call, Newest(q)'
                   PROVE  /\ record'.state = Derived(shown)
                          /\ call'[q].action \in {"mark", Derived(shown)}
                          /\ call'[q].at = "answered" =>
                               /\ call'[q].reply = series
                               /\ call'[q].action # "mark" => call'[q].reply.state = call'[q].action
        BY <1>1, <3>3 DEF NewestIsShown, Derived
      <4>1. q # c /\ call'[q] = call[q] /\ Newest(q)
        BY <2>1, <2>2, <2>3 DEF Newest, UnderWay
      <4>2. ~Newest(c)
        BY <4>1 DEF MInv, PostsAreDistinct, Newest
      <4> QED BY <2>1, <3>1, <3>2, <4>1, <4>2 DEF NewestIsShown
    <3>10. EndedAgrees'
      <4> SUFFICES ASSUME \A q \in Call : ~Newest(q)'
                   PROVE  (\A q \in Call : ~Sent(q)) /\ now = series /\ Settled(series)
        BY <1>1, <2>1, <3>4 DEF EndedAgrees, Settled, Derived
      <4>1. \A q \in Call : q # c => ~Newest(q)
        BY <2>1, <2>2, <2>3 DEF Newest, UnderWay
      <4>2. CASE Newest(c)
        <5>1. now = series /\ now.episodes = shown /\ \A q \in Call : ~Sent(q)
          BY <3>2, <4>2
        <5>2. CASE call[c].action = "mark"
          <6>1. ~NeedsState(now)
            BY <1>6, <5>2
          <6>2. now.state \in State
            BY <1>4 DEF Series
          <6>3. Derived(shown) = "not_watched" => shown = {}
            BY DEF Derived
          <6>4. now.state = Derived(shown) \/ (now.state = "none" /\ shown = {})
            BY <6>1, <6>2, <6>3 DEF NeedsState, State
          <6> QED BY <5>1, <6>4 DEF Settled
        <5>3. CASE call[c].action # "mark"
          BY <3>2, <4>2, <5>1, <5>3
        <5> QED BY <5>2, <5>3
      <4>3. CASE ~Newest(c)
        BY <3>1, <3>2, <4>1, <4>3 DEF EndedAgrees
      <4> QED BY <4>2, <4>3
    <3>11. AloneCanBeUndone'
      <4> SUFFICES ASSUME NEW q \in Call, SentMark(q)', Alone(q)' PROVE FALSE
        BY DEF AloneCanBeUndone
      <4>1. Sent(q) /\ SentMark(q) /\ Alone(q)
        BY <2>1, <3>4, <3>5 DEF SentMark, Alone
      <4>2. UnderWay = {q} /\ c \in UnderWay /\ q # c
        BY <1>1, <3>1, <4>1 DEF AloneCanBeUndone, UnderWay, Sent
      <4> QED BY <4>2
    <3> QED BY <3>6, <3>7, <3>8, <3>9, <3>10, <3>11 DEF Agreement
  <2> QED BY <2>5, <2>6, <2>7 DEF MInv
<1> QED BY <1>5, <1>6 DEF Answered, now

LEMMA FailedMInv ==
  ASSUME MInv, NEW c \in Call, Failed(c)
  PROVE  MInv'
<1>1. /\ call[c].at \in {"sent", "answered"}
      /\ shown' = (shown \ call[c].mark) \cup call[c].before
      /\ record' = call[c].earlier
      /\ call' = [call EXCEPT ![c] = Idle]
      /\ muddled' = (muddled \/ ~Alone(c) \/ call[c].at = "answered" \/ call[c].action # "mark")
      /\ UNCHANGED <<series, posts>>
  BY DEF Failed
<1>2. /\ call \in [Call -> CallState] /\ series \in Series /\ shown \in SUBSET Episode
      /\ posts \in Nat /\ muddled \in BOOLEAN
  BY DEF MInv, MarksTypeOK
<1>3. call[c].earlier \in Series /\ call[c].before \in SUBSET Episode
  BY <1>2 DEF CallState
<1>4. \A q \in Call : call'[q] = IF q = c THEN Idle ELSE call[q]
  BY <1>1, <1>2
<1>5. UnderWay' = UnderWay \ {c} /\ c \in UnderWay
  BY <1>1, <1>4, Records DEF UnderWay
<1>6. MarksTypeOK'
  <2>1. muddled' \in BOOLEAN
    BY <1>1
  <2>2. call' \in [Call -> CallState]
    BY <1>1, <1>2, Records
  <2>3. shown' \in SUBSET Episode
    BY <1>1, <1>2, <1>3
  <2> QED BY <1>1, <1>2, <1>3, <2>1, <2>2, <2>3 DEF MarksTypeOK
<1>7. PostsAreDistinct'
  <2>1. \A q \in UnderWay' : q \in UnderWay /\ call'[q] = call[q]
    BY <1>4, <1>5 DEF UnderWay
  <2> QED BY <1>1, <2>1 DEF MInv, PostsAreDistinct
<1>8. ASSUME ~muddled' PROVE Agreement'
  <2>1. SentMark(c) /\ Alone(c) /\ ~muddled
    BY <1>1, <1>8 DEF SentMark, Sent
  <2>2. /\ UnderWay = {c} /\ call[c].earlier = series /\ Settled(series)
        /\ series.episodes = (shown \ call[c].mark) \cup call[c].before
    BY <2>1 DEF MInv, Agreement, AloneCanBeUndone
  <2>3. UnderWay' = {} /\ record' = series /\ shown' = series.episodes
    BY <1>1, <1>5, <2>2
  <2>4. \A q \in Call : ~Sent(q)' /\ ~Newest(q)'
    BY <2>3 DEF UnderWay, Sent, Newest
  <2>5. Settled(series)'
    BY <1>1, <2>2 DEF Settled
  <2> QED BY <1>1, <2>3, <2>4, <2>5 DEF Agreement, RecordIsShown, InOrder, LastMarkIsShown,
                                       NewestIsShown, EndedAgrees, AloneCanBeUndone, SentMark
<1> QED BY <1>6, <1>7, <1>8 DEF MInv

LEMMA NextMInv ==
  ASSUME MInv, [MarksNext]_markVars
  PROVE  MInv'
<1>1. ASSUME NEW c \in Call, NEW e \in Episode, Mark(c, {e}, FALSE) PROVE MInv'
  BY <1>1, MarkMInv
<1>2. ASSUME NEW c \in Call, Mark(c, Episode, TRUE) PROVE MInv'
  BY <1>2, MarkMInv
<1>3. ASSUME NEW c \in Call, PiSaves(c) \/ Answered(c) \/ Failed(c) PROVE MInv'
  BY <1>3, SavesMInv, AnsweredMInv, FailedMInv
<1>4. ASSUME UNCHANGED markVars PROVE MInv'
  BY <1>4 DEF markVars, MInv, MarksTypeOK, PostsAreDistinct, UnderWay, Agreement, RecordIsShown,
              InOrder, LastMarkIsShown, NewestIsShown, EndedAgrees, AloneCanBeUndone, SentMark,
              Sent, Newest, Alone, Settled, Derived
<1> QED BY <1>1, <1>2, <1>3, <1>4 DEF MarksNext

\* However many marks of a series overlap, and in whatever order they are
\* answered, once they have ended the Pi has stored the episodes shown and the
\* state of the series that follows from them; unless the posts overtook each
\* other, or one failed half way or together with others.
THEOREM MarksComeToRest == MarksSpec => []MarksSettle
<1>1. MarksInit => MInv
  BY InitMInv
<1>2. MInv /\ [MarksNext]_markVars => MInv'
  BY NextMInv
<1>3. MInv => MarksSettle
  <2> SUFFICES ASSUME MInv, UnderWay = {}, ~muddled
               PROVE  /\ series.episodes = shown
                      /\ series.state = Derived(shown) \/ (series.state = "none" /\ shown = {})
    BY DEF MarksSettle
  <2>1. RecordIsShown /\ EndedAgrees
    BY DEF MInv, Agreement
  <2>2. \A c \in Call : ~Newest(c)
    BY DEF Newest
  <2> QED BY <2>1, <2>2 DEF RecordIsShown, EndedAgrees, Settled
<1> QED BY <1>1, <1>2, <1>3, PTL DEF MarksSpec

-----------------------------------------------------------------------------
At == {"rest", "prepare", "capacity", "announce", "fetch", "store", "finish", "pause"}
Manifest == [status : {"absent", "downloading", "paused", "complete"}, done : 0..Parts]
Work == [video : Video \cup {"none"}, at : At, aborted : BOOLEAN, done : 0..Parts]

TypeOK ==
  /\ manifest \in [Video -> Manifest]
  /\ chunks \in [Video -> SUBSET Whole]
  /\ controller \in [Video -> Run \cup {NoRun}]
  /\ run \in [Run -> Work]
  /\ \A r \in Run : run[r].at # "rest" => run[r].video \in Video

\* The part a run is at exists, and it finishes only behind the last one.
AtItsPart ==
  \A r \in Run :
    /\ run[r].at \in {"fetch", "store"} => run[r].done < Parts
    /\ run[r].at = "finish" => run[r].done = Parts

\* What a run has counted, from its first look at the manifest on.
Counting(r, v) == run[r].video = v /\ run[r].at \notin {"rest", "prepare"}

\* Whatever the manifest or a run has counted of a video is stored.
CountedIsStored ==
  \A v \in Video \ doubtful :
    /\ 1..manifest[v].done \subseteq chunks[v]
    /\ \A r \in Run : Counting(r, v) => 1..run[r].done \subseteq chunks[v]

CompleteCountsAll == \A v \in Video : manifest[v].status = "complete" => manifest[v].done = Parts

IInv == TypeOK /\ AtItsPart /\ CountedIsStored /\ CompleteCountsAll

USE PartsAssumption
-----------------------------------------------------------------------------
LEMMA InitIInv ==
  ASSUME Init
  PROVE  IInv
<1>1. Absent \in Manifest /\ Absent.done = 0 /\ Absent.status = "absent"
  BY DEF Absent, Manifest
<1>2. Resting \in Work /\ Resting.at = "rest"
  BY DEF Resting, Work, At
<1>3. TypeOK
  BY <1>1, <1>2 DEF Init, TypeOK
<1>4. AtItsPart /\ CompleteCountsAll
  BY <1>1, <1>2 DEF Init, AtItsPart, CompleteCountsAll
<1>5. CountedIsStored
  <2>1. \A v \in Video : manifest[v].done = 0
    BY <1>1 DEF Init
  <2>2. \A v \in Video, r \in Run : ~Counting(r, v)
    BY <1>2 DEF Init, Counting
  <2>3. ASSUME NEW v \in Video PROVE 1..manifest[v].done = {}
    <3>1. manifest[v].done = 0
      BY <2>1
    <3>2. 1..0 = {}
      OBVIOUS
    <3> QED BY <3>1, <3>2
  <2> QED BY <2>2, <2>3 DEF CountedIsStored
<1> QED BY <1>3, <1>4, <1>5 DEF IInv

\* Run r becomes w, which has counted only what is stored.
RunGoesOn(r, w) ==
  /\ w \in Work /\ run' = [run EXCEPT ![r] = w]
  /\ w.at # "rest" => w.video \in Video
  /\ w.at \in {"fetch", "store"} => w.done < Parts
  /\ w.at = "finish" => w.done = Parts
  /\ w.at \notin {"rest", "prepare"} /\ w.video \notin doubtful' =>
       1..w.done \subseteq chunks'[w.video]

\* A step that changes one run, counts in one manifest and only adds parts.
LEMMA Download1 ==
  ASSUME IInv, NEW r \in Run, NEW w, RunGoesOn(r, w),
         doubtful \subseteq doubtful',
         chunks' \in [Video -> SUBSET Whole], \A v \in Video : chunks[v] \subseteq chunks'[v],
         controller' \in [Video -> Run \cup {NoRun}],
         manifest' \in [Video -> Manifest],
         \A v \in Video : \/ manifest'[v] = manifest[v]
                          \/ /\ v \notin doubtful' => 1..manifest'[v].done \subseteq chunks'[v]
                             /\ manifest'[v].status = "complete" => manifest'[v].done = Parts
  PROVE  IInv'
<1>1. \A q \in Run : run'[q] = IF q = r THEN w ELSE run[q]
  BY DEF RunGoesOn, IInv, TypeOK
<1>2. TypeOK'
  BY <1>1 DEF RunGoesOn, IInv, TypeOK
<1>3. AtItsPart'
  BY <1>1 DEF RunGoesOn, IInv, AtItsPart
<1>4. CountedIsStored'
  <2> SUFFICES ASSUME NEW v \in Video \ doubtful'
               PROVE  /\ 1..manifest'[v].done \subseteq chunks'[v]
                      /\ \A q \in Run : Counting(q, v)' => 1..run'[q].done \subseteq chunks'[v]
    BY DEF CountedIsStored
  <2>1. chunks[v] \subseteq chunks'[v] /\ v \in Video \ doubtful
    OBVIOUS
  <2>2. 1..manifest'[v].done \subseteq chunks'[v]
    BY <2>1 DEF IInv, CountedIsStored
  <2>3. ASSUME NEW q \in Run, Counting(q, v)' PROVE 1..run'[q].done \subseteq chunks'[v]
    <3>1. CASE q = r
      BY <1>1, <2>3, <3>1 DEF RunGoesOn, Counting
    <3>2. CASE q # r
      BY <1>1, <2>1, <2>3, <3>2 DEF IInv, CountedIsStored, Counting
    <3> QED BY <3>1, <3>2
  <2> QED BY <2>2, <2>3
<1>5. CompleteCountsAll'
  BY DEF IInv, CompleteCountsAll
<1> QED BY <1>2, <1>3, <1>4, <1>5 DEF IInv

\* A run aborted by another hand has counted what it had counted.
LEMMA Aborted ==
  ASSUME IInv, NEW v \in Video, run' = Abort(v),
         UNCHANGED <<manifest, chunks, controller, doubtful>>
  PROVE  IInv'
<1>1. CASE controller[v] = NoRun
  <2>1. run' = run
    BY <1>1 DEF Abort
  <2> QED BY <2>1 DEF IInv, TypeOK, AtItsPart, CountedIsStored, CompleteCountsAll, Counting
<1>2. CASE controller[v] # NoRun
  <2> DEFINE c == controller[v]
             b == run[c].aborted \/ run[c].video = v
             w == [run[c] EXCEPT !.aborted = b]
  <2>1. c \in Run /\ run[c] \in Work
    BY <1>2 DEF IInv, TypeOK
  <2>2. b \in BOOLEAN
    OBVIOUS
  <2>3. run' = [run EXCEPT ![c] = w]
    BY <1>2, <2>1 DEF Abort, IInv, TypeOK
  <2> HIDE DEF b, c
  <2>4. /\ w \in Work /\ w.at = run[c].at /\ w.video = run[c].video
        /\ w.done = run[c].done
    BY <2>1, <2>2 DEF Work
  <2> HIDE DEF w
  <2>5. \A q \in Run : /\ run'[q].at = run[q].at /\ run'[q].video = run[q].video
                       /\ run'[q].done = run[q].done
    BY <2>1, <2>3, <2>4 DEF IInv, TypeOK
  <2>6. TypeOK'
    BY <2>1, <2>3, <2>4, <2>5 DEF IInv, TypeOK
  <2> QED BY <2>5, <2>6 DEF IInv, AtItsPart, CountedIsStored, CompleteCountsAll, Counting
<1> QED BY <1>1, <1>2

LEMMA DownloadIInv ==
  ASSUME IInv, NEW r \in Run, Download(r)
  PROVE  IInv'
<1> DEFINE v == run[r].video
<1>0. /\ run[r] \in Work /\ run[r].done \in 0..Parts
      /\ Resting \in Work /\ Resting.at = "rest"
      /\ run[r].at # "rest" => v \in Video
      /\ manifest \in [Video -> Manifest] /\ chunks \in [Video -> SUBSET Whole]
      /\ controller \in [Video -> Run \cup {NoRun}]
      /\ At = {"rest", "prepare", "capacity", "announce", "fetch", "store", "finish", "pause"}
  BY DEF IInv, TypeOK, Work, Resting, At
<1>1. run[r].at \notin {"rest", "prepare"} /\ v \notin doubtful =>
        1..run[r].done \subseteq chunks[v]
  BY <1>0 DEF IInv, CountedIsStored, Counting
<1>2. \A s \in {"downloading", "paused", "complete"}, n \in 0..Parts :
        [status |-> s, done |-> n] \in Manifest
  BY DEF Manifest
\* Back to rest.
<1>4. ASSUME run' = [run EXCEPT ![r] = Resting] PROVE RunGoesOn(r, Resting)
  BY <1>0, <1>4 DEF RunGoesOn
<1>5. ASSUME NEW vv \in Video, Start(r, vv) PROVE IInv'
  <2> DEFINE w == [Resting EXCEPT !.video = vv, !.at = "prepare"]
  <2>1. w \in Work /\ w.at = "prepare" /\ w.video = vv
    BY <1>0 DEF Work, Resting
  <2>2. run' = [run EXCEPT ![r] = w]
    BY <1>5 DEF Start
  <2> HIDE DEF w
  <2>3. RunGoesOn(r, w)
    BY <2>1, <2>2 DEF RunGoesOn
  <2> QED BY <1>0, <1>5, <2>3, Download1 DEF Start
<1>6. ASSUME Prepared(r) PROVE IInv'
  <2> DEFINE existing == manifest[v]
             w == [run[r] EXCEPT !.at = "capacity", !.done = existing.done]
  <2>1. run[r].at = "prepare" /\ UNCHANGED <<manifest, chunks, controller, doubtful>>
    BY <1>6 DEF Prepared
  <2>2. existing \in Manifest /\ existing.done \in 0..Parts
    BY <1>0, <2>1 DEF Manifest
  <2>3. v \notin doubtful => 1..existing.done \subseteq chunks[v]
    BY <1>0, <2>1 DEF IInv, CountedIsStored
  <2>4. run' = [run EXCEPT ![r] = Resting] \/ run' = [run EXCEPT ![r] = w]
    BY <1>0, <1>6 DEF Prepared, IInv, TypeOK
  <2> HIDE DEF existing
  <2>5. w \in Work /\ w.at = "capacity" /\ w.video = v /\ w.done = existing.done
    BY <1>0, <2>2 DEF Work
  <2> HIDE DEF w
  <2>6. run' = [run EXCEPT ![r] = w] => RunGoesOn(r, w)
    BY <1>0, <2>1, <2>3, <2>5 DEF RunGoesOn
  <2> QED BY <1>0, <1>4, <2>1, <2>4, <2>6, Download1
<1>7. ASSUME Refused(r) PROVE IInv'
  BY <1>0, <1>4, <1>7, Download1 DEF Refused
<1>8. ASSUME NEW a \in {"announce", "fetch", "store", "finish", "pause"},
             run[r].at \notin {"rest", "prepare"},
             run' = [run EXCEPT ![r].at = a],
             a = "fetch" => run[r].done < Parts,
             a = "store" => run[r].done < Parts,
             a = "finish" => run[r].done = Parts,
             UNCHANGED <<chunks, doubtful>>,
             controller' \in [Video -> Run \cup {NoRun}],
             UNCHANGED manifest \/ (Put(r, "downloading", run[r].done))
      PROVE  IInv'
  <2> DEFINE w == [run[r] EXCEPT !.at = a]
             row == [status |-> "downloading", done |-> run[r].done]
  <2>1. w \in Work /\ w.at = a /\ w.video = v /\ w.done = run[r].done
    <3>1. a \in At
      BY <1>0
    <3> HIDE DEF row
    <3> QED BY <1>0, <3>1 DEF Work
  <2>2. run' = [run EXCEPT ![r] = w]
    BY <1>8 DEF IInv, TypeOK
  <2> HIDE DEF w
  <2>3. RunGoesOn(r, w)
    BY <1>0, <1>1, <1>8, <2>1, <2>2 DEF RunGoesOn
  <2>4. row \in Manifest /\ row.done = run[r].done /\ row.status = "downloading"
    BY <1>0, <1>2
  <2>5. UNCHANGED manifest \/ manifest' = [manifest EXCEPT ![v] = row]
    BY <1>8 DEF Put
  <2> HIDE DEF row
  <2>6. manifest' \in [Video -> Manifest]
    BY <1>0, <2>4, <2>5
  <2>7. ASSUME NEW u \in Video
        PROVE  \/ manifest'[u] = manifest[u]
               \/ /\ u \notin doubtful' => 1..manifest'[u].done \subseteq chunks'[u]
                  /\ manifest'[u].status = "complete" => manifest'[u].done = Parts
    BY <1>0, <1>1, <1>8, <2>4, <2>5
  <2> QED BY <1>0, <1>8, <2>3, <2>6, <2>7, Download1
<1>9. ASSUME Enlist(r) PROVE IInv'
  <2>1. controller' \in [Video -> Run \cup {NoRun}]
    BY <1>0, <1>9 DEF Enlist
  <2> QED BY <1>8, <1>9, <2>1 DEF Enlist
<1>10. ASSUME Announce(r) PROVE IInv'
  <2>1. CASE /\ Put(r, "downloading", run[r].done)
             /\ run' = [run EXCEPT ![r].at = Onward(run[r].done)]
    <3>1. Onward(run[r].done) \in {"fetch", "finish"}
          /\ (Onward(run[r].done) = "fetch" => run[r].done < Parts)
          /\ (Onward(run[r].done) = "finish" => run[r].done = Parts)
      BY <1>0 DEF Onward
    <3> QED BY <1>0, <1>8, <1>10, <2>1, <3>1 DEF Announce
  <2>2. CASE run' = [run EXCEPT ![r] = Resting] /\ UNCHANGED manifest
    BY <1>0, <1>4, <1>10, <2>2, Download1 DEF Announce
  <2> QED BY <1>10, <2>1, <2>2 DEF Announce
<1>11. ASSUME Fetch(r) PROVE IInv'
  <2>1. run[r].done < Parts /\ run[r].at = "fetch"
    BY <1>11 DEF Fetch, IInv, AtItsPart
  <2> QED BY <1>0, <1>8, <1>11, <2>1 DEF Fetch
<1>12. ASSUME Store(r) PROVE IInv'
  <2> DEFINE part == run[r].done + 1
  <2>1. part \in 1..Parts /\ part \in 0..Parts /\ run[r].at = "store" /\ v \in Video
        /\ UNCHANGED controller
    BY <1>0, <1>12 DEF Store, IInv, AtItsPart
  <2>2. CASE /\ chunks' = [chunks EXCEPT ![v] = @ \cup {part}]
             /\ Put(r, "downloading", part)
             /\ run' = [run EXCEPT ![r].done = part, ![r].at = Onward(part)]
             /\ UNCHANGED doubtful
    <3> DEFINE w == [run[r] EXCEPT !.done = part, !.at = Onward(part)]
               row == [status |-> "downloading", done |-> part]
    <3>1. Onward(part) \in {"fetch", "finish"}
          /\ (Onward(part) = "fetch" => part < Parts)
          /\ (Onward(part) = "finish" => part = Parts)
      BY <2>1 DEF Onward
    <3>2. w \in Work /\ w.at = Onward(part) /\ w.video = v /\ w.done = part
      <4>1. Onward(part) \in At
        BY <1>0, <3>1
      <4> HIDE DEF row, part
      <4> QED BY <1>0, <2>1, <4>1 DEF Work
    <3>3. run' = [run EXCEPT ![r] = w]
      BY <2>2 DEF IInv, TypeOK
    <3> HIDE DEF w
    <3>4. chunks' \in [Video -> SUBSET Whole] /\ chunks'[v] = chunks[v] \cup {part}
          /\ \A u \in Video : chunks[u] \subseteq chunks'[u]
      BY <1>0, <2>1, <2>2 DEF Whole
    <3>5. v \notin doubtful => 1..part \subseteq chunks'[v]
      <4>1. 1..part = (1..run[r].done) \cup {part}
        BY <1>0
      <4> QED BY <1>1, <2>1, <3>4, <4>1
    <3>6. RunGoesOn(r, w)
      BY <2>1, <2>2, <3>1, <3>2, <3>3, <3>5 DEF RunGoesOn
    <3>7. row \in Manifest /\ row.done = part /\ row.status = "downloading"
      BY <1>2, <2>1
    <3>8. manifest' = [manifest EXCEPT ![v] = row]
      BY <2>2 DEF Put
    <3> HIDE DEF row
    <3>9. manifest' \in [Video -> Manifest]
      BY <1>0, <3>7, <3>8
    <3>10. ASSUME NEW u \in Video
           PROVE  \/ manifest'[u] = manifest[u]
                  \/ /\ u \notin doubtful' => 1..manifest'[u].done \subseteq chunks'[u]
                     /\ manifest'[u].status = "complete" => manifest'[u].done = Parts
      BY <1>0, <2>2, <3>5, <3>7, <3>8
    <3> QED BY <1>0, <2>1, <2>2, <3>4, <3>6, <3>9, <3>10, Download1
  <2>3. CASE /\ run' = [run EXCEPT ![r].done = part, ![r].at = "pause"]
             /\ doubtful' = doubtful \cup {v}
             /\ UNCHANGED <<manifest, chunks>>
    <3> DEFINE w == [run[r] EXCEPT !.done = part, !.at = "pause"]
    <3>1. w \in Work /\ w.at = "pause" /\ w.video = v /\ w.done = part
      <4>1. "pause" \in At
        BY <1>0
      <4> HIDE DEF part
      <4> QED BY <1>0, <2>1, <4>1 DEF Work
    <3>2. run' = [run EXCEPT ![r] = w]
      BY <2>3 DEF IInv, TypeOK
    <3> HIDE DEF w
    <3>3. RunGoesOn(r, w)
      BY <2>1, <2>3, <3>1, <3>2 DEF RunGoesOn
    <3> QED BY <1>0, <2>1, <2>3, <3>3, Download1
  <2> QED BY <1>12, <2>2, <2>3 DEF Store
<1>13. ASSUME NEW s \in {"paused", "complete"}, NEW n \in 0..Parts,
              run[r].at # "rest", Put(r, s, n) \/ UNCHANGED manifest, Ends(r),
              s = "complete" => n = Parts,
              v \notin doubtful => 1..n \subseteq chunks[v],
              UNCHANGED <<chunks, doubtful>>
       PROVE  IInv'
  <2> DEFINE row == [status |-> s, done |-> n]
  <2>1. row \in Manifest /\ row.done = n /\ row.status = s
    BY <1>2
  <2>2. UNCHANGED manifest \/ manifest' = [manifest EXCEPT ![v] = row]
    BY <1>13 DEF Put
  <2> HIDE DEF row
  <2>3. manifest' \in [Video -> Manifest]
    BY <1>0, <2>1, <2>2
  <2>4. controller' \in [Video -> Run \cup {NoRun}]
    BY <1>0, <1>13 DEF Ends
  <2>5. RunGoesOn(r, Resting)
    BY <1>4, <1>13 DEF Ends
  <2>6. ASSUME NEW u \in Video
        PROVE  \/ manifest'[u] = manifest[u]
               \/ /\ u \notin doubtful' => 1..manifest'[u].done \subseteq chunks'[u]
                  /\ manifest'[u].status = "complete" => manifest'[u].done = Parts
    BY <1>0, <1>13, <2>1, <2>2
  <2> QED BY <1>0, <1>13, <2>3, <2>4, <2>5, <2>6, Download1
<1>14. ASSUME Finish(r) PROVE IInv'
  <2>1. run[r].at = "finish" /\ run[r].done = Parts
    BY <1>14 DEF Finish, IInv, AtItsPart
  <2>2. CASE Put(r, "complete", Parts) /\ Ends(r)
    BY <1>0, <1>1, <1>13, <1>14, <2>1, <2>2 DEF Finish
  <2>3. CASE run' = [run EXCEPT ![r].at = "pause"] /\ UNCHANGED <<manifest, controller>>
    BY <1>0, <1>8, <1>14, <2>1, <2>3 DEF Finish
  <2> QED BY <1>14, <2>2, <2>3 DEF Finish
<1>15. ASSUME Pause(r) PROVE IInv'
  BY <1>0, <1>1, <1>13, <1>15 DEF Pause
<1> QED BY <1>5, <1>6, <1>7, <1>9, <1>10, <1>11, <1>12, <1>14, <1>15 DEF Download

LEMMA NextIInv ==
  ASSUME IInv, [Next]_vars
  PROVE  IInv'
<1>1. ASSUME NEW r \in Run, Download(r) PROVE IInv'
  BY <1>1, DownloadIInv
<1>2. ASSUME NEW v \in Video, PauseDownload(v) \/ RemoveDownload(v) PROVE IInv'
  BY <1>2, Aborted DEF PauseDownload, RemoveDownload
<1>3. ASSUME NEW v \in Video, Removed(v) PROVE IInv'
  <2>1. Absent \in Manifest /\ Absent.done = 0 /\ Absent.status = "absent"
    BY DEF Absent, Manifest
  <2>2. /\ manifest' = [manifest EXCEPT ![v] = Absent]
        /\ chunks' = [chunks EXCEPT ![v] = {}]
        /\ UNCHANGED <<controller, run>>
    BY <1>3 DEF Removed
  <2>3. TypeOK'
    BY <2>1, <2>2 DEF IInv, TypeOK
  <2>4. AtItsPart' /\ CompleteCountsAll'
    BY <2>1, <2>2 DEF IInv, TypeOK, AtItsPart, CompleteCountsAll
  <2>5. CountedIsStored'
    <3> SUFFICES ASSUME NEW u \in Video \ doubtful'
                 PROVE  /\ 1..manifest'[u].done \subseteq chunks'[u]
                        /\ \A q \in Run : Counting(q, u) => 1..run[q].done \subseteq chunks'[u]
      BY <2>2 DEF CountedIsStored, Counting
    <3>1. CASE u = v
      <4>1. manifest'[u].done = 0
        BY <2>1, <2>2, <3>1 DEF IInv, TypeOK
      <4>2. \A q \in RunsOf(v) : run[q].at = "prepare"
        BY <1>3, <3>1 DEF Removed
      <4> QED BY <3>1, <4>1, <4>2 DEF Counting, RunsOf
    <3>2. CASE u # v
      <4>1. u \notin doubtful
        BY <1>3, <3>2 DEF Removed
      <4> QED BY <2>2, <3>2, <4>1 DEF IInv, TypeOK, CountedIsStored
    <3> QED BY <3>1, <3>2
  <2> QED BY <2>3, <2>4, <2>5 DEF IInv
<1>4. ASSUME Reopen PROVE IInv'
  <2>1. Resting \in Work /\ Resting.at = "rest"
    BY DEF Resting, Work, At
  <2>2. /\ \A r \in Run : run'[r] = Resting
        /\ run' \in [Run -> Work] /\ controller' \in [Video -> Run \cup {NoRun}]
        /\ UNCHANGED <<manifest, chunks, doubtful>>
    BY <1>4, <2>1 DEF Reopen
  <2> QED BY <2>1, <2>2 DEF IInv, TypeOK, AtItsPart, CountedIsStored, CompleteCountsAll,
                              Counting
<1>5. ASSUME UNCHANGED vars PROVE IInv'
  BY <1>5 DEF vars, IInv, TypeOK, AtItsPart, CountedIsStored, CompleteCountsAll, Counting
<1> QED BY <1>1, <1>2, <1>3, <1>4, <1>5 DEF Next

\* A video shown as ready can be watched to its end, however its downloads were
\* paused, repeated, failed or ended with the app, for any number of videos, of
\* parts and of downloads of the same video at once; unless the video was
\* removed under a running download or the storage had no room for a part.
THEOREM ReadyUnlessDisturbed == Spec => []UndisturbedIsWhole
<1>1. Init => IInv
  BY InitIInv
<1>2. IInv /\ [Next]_vars => IInv'
  BY NextIInv
<1>3. IInv => UndisturbedIsWhole
  <2> SUFFICES ASSUME IInv, NEW v \in Video \ doubtful, manifest[v].status = "complete"
               PROVE  Whole \subseteq chunks[v]
    BY DEF UndisturbedIsWhole, Served
  <2> QED BY DEF IInv, CountedIsStored, CompleteCountsAll, Whole
<1> QED BY <1>1, <1>2, <1>3, PTL DEF Spec
-----------------------------------------------------------------------------
(* FamilyPlayer: stories and memories.  Every promise of play(), timer and    *)
(* answer of the Pi remembers the player it belongs to by its generation, and *)
(* within the memories the scene it belongs to by its serial.                 *)
DialogState ==
  [open : BOOLEAN, generation : Nat,
   shows : {None, "catalogue", "opening", "reading", "closing", "docking", "memories", "one memory"},
   story : Story \cup {None}, started : BOOLEAN]
AudioState ==
  [of : Story \cup {None, "music"}, playing : BOOLEAN, muted : BOOLEAN, known : BOOLEAN, at : 0..Length]
PromiseState ==
  [who : {"prime", "start"} \cup {"music", "again"} \cup OfClip, generation : Nat, serial : Nat, fate : Fates]
MemoriesState ==
  [serial : Nat, index : Nat, session : BOOLEAN, music : BOOLEAN, paused : BOOLEAN, refilling : BOOLEAN,
   timer : BOOLEAN, fade : {None, "down", "up"}, fading : Nat]

FamilyTypeOK ==
  /\ dialog \in DialogState
  /\ position \in [Story -> 0..Length]
  /\ audio \in AudioState
  /\ clip \in [playing : BOOLEAN, serial : Nat]
  /\ promise \subseteq PromiseState
  /\ shelf \in [timer : BOOLEAN, sound : BOOLEAN]
  /\ memories \in MemoriesState
  /\ sessions \subseteq Nat
  /\ familyTaps \in Nat

\* What the dialog shows decides whose the elements are.
DialogIsWhole ==
  /\ dialog.open <=> dialog.shows # None
  /\ Reading => dialog.story \in Story /\ audio.of = dialog.story
  /\ dialog.started => dialog.shows = "reading"
  /\ ~dialog.open => audio = NoAudio /\ clip = NoClip /\ shelf = QuietShelf
  /\ dialog.shows = "memories" => audio.of \notin Story

\* An element plays only where there is something to hear.
SoundHasItsPlace ==
  /\ audio.playing => dialog.shows \in {"opening", "reading", "memories"}
  /\ audio.playing /\ dialog.shows = "opening" => audio.muted
  /\ audio.playing /\ dialog.shows = "memories" => memories.session
  /\ clip.playing => dialog.shows \in {"memories", "one memory"}

\* Promises and requests of the player as it is now are of what it shows.
IsKept(p) ==
  /\ p.generation <= dialog.generation
  /\ OfThisPlayer(p) =>
       /\ p.who \in {"prime", "start"} => Reading
       /\ p.who = "prime" /\ p.fate = "rejected" /\ audio.playing => dialog.shows = "reading"
       /\ p.who \notin {"prime", "start"} => memories.session /\ p.serial <= memories.serial
  /\ p.who = "music" /\ Live(p) => Shows("photo") /\ ~memories.refilling

PromisesAreKept ==
  /\ \A p \in promise : IsKept(p)
  /\ \A g \in sessions :
       /\ g <= dialog.generation
       /\ g = dialog.generation /\ dialog.open =>
            dialog.shows = "memories" /\ (memories.session => memories.refilling)

\* The scene, its clip and the fading of the music are of one session.
SceneIsSet ==
  /\ dialog.shows # "memories" => memories = NoMemories
  /\ memories.session => memories.serial > 0 /\ memories.index \in DOMAIN Scenes
  /\ ~memories.session => ~memories.timer
  /\ clip.serial <= memories.serial
  /\ Shows("photo") => clip.serial = 0
  /\ memories.session /\ clip.serial = memories.serial /\ audio.playing =>
       memories.fade = "down" /\ memories.fading = memories.serial

FamilyInv == FamilyTypeOK /\ DialogIsWhole /\ SoundHasItsPlace /\ PromisesAreKept /\ SceneIsSet

-----------------------------------------------------------------------------
(* Promises.                                                                  *)
\* q is the promise p, whatever became of it.
Likes(q, p) == q.who = p.who /\ q.generation = p.generation /\ q.serial = p.serial

LEMMA AbortedIsLike ==
  ASSUME NEW ps, ps \subseteq PromiseState, NEW whose, NEW q \in PlayAborted(ps, whose)
  PROVE  q \in PromiseState /\ \E p \in ps : Likes(q, p) /\ (p.who \notin whose => q.fate = p.fate)
<1>1. PICK p \in ps : q = IF p.who \in whose THEN [p EXCEPT !.fate = "rejected"] ELSE p
  BY DEF PlayAborted
<1>2. p \in PromiseState
  BY <1>1
<1>3. CASE p.who \in whose
  <2>1. q = [p EXCEPT !.fate = "rejected"]
    BY <1>1, <1>3
  <2>2. q \in PromiseState /\ Likes(q, p)
    BY <1>2, <2>1 DEF PromiseState, Likes, Fates
  <2> QED BY <1>3, <2>2
<1>4. CASE p.who \notin whose
  BY <1>1, <1>2, <1>4 DEF Likes
<1> QED BY <1>3, <1>4

LEMMA AbortedArePromises ==
  ASSUME NEW ps, ps \subseteq PromiseState, NEW whose
  PROVE  PlayAborted(ps, whose) \subseteq PromiseState
BY AbortedIsLike

\* The step is one of the player as it is.
Continues ==
  /\ dialog'.generation = dialog.generation /\ dialog'.open = dialog.open
  /\ Reading => Reading'
  /\ dialog.shows = "reading" => dialog'.shows = "reading"
  /\ audio'.playing => audio.playing \/ dialog'.shows = "reading" \/ ~Reading'

\* The scene that plays is the one that played, or a later one.
SceneGoesOn ==
  /\ memories.session => memories'.session
  /\ memories.serial <= memories'.serial
  /\ memories'.serial = memories.serial /\ Shows("photo") /\ ~memories.refilling =>
       Shows("photo")' /\ ~memories'.refilling

\* q was there before, and was not given up under a voice that goes on.
WasThere(q) == \E p \in promise : Likes(q, p) /\ (p.who = "prime" => q.fate = p.fate \/ ~audio'.playing)

LEMMA PromisesStay ==
  ASSUME FamilyInv, Continues, SceneGoesOn, memories'.serial \in Nat, NEW q, WasThere(q)
  PROVE  IsKept(q)'
<1>1. PICK p \in promise : Likes(q, p) /\ (p.who = "prime" => q.fate = p.fate \/ ~audio'.playing)
  BY DEF WasThere
<1>2. IsKept(p) /\ p.serial \in Nat /\ p.generation \in Nat /\ memories.serial \in Nat
  BY <1>1 DEF FamilyInv, FamilyTypeOK, PromisesAreKept, PromiseState, MemoriesState
<1>3. q.generation <= dialog'.generation
  BY <1>1, <1>2 DEF IsKept, Likes, Continues
<1>4. OfThisPlayer(q)' => OfThisPlayer(p)
  BY <1>1 DEF OfThisPlayer, Likes, Continues
<1>5. OfThisPlayer(q)' /\ q.who \in {"prime", "start"} => Reading'
  BY <1>1, <1>2, <1>4 DEF IsKept, Likes, Continues
<1>6. OfThisPlayer(q)' /\ q.who = "prime" /\ q.fate = "rejected" /\ audio'.playing =>
        dialog'.shows = "reading"
  BY <1>1, <1>2, <1>4, <1>5 DEF IsKept, Likes, Continues
<1>7. OfThisPlayer(q)' /\ q.who \notin {"prime", "start"} => memories'.session /\ q.serial <= memories'.serial
  BY <1>1, <1>2, <1>4 DEF IsKept, Likes, SceneGoesOn
<1>8. q.who = "music" /\ Live(q)' => Shows("photo")' /\ ~memories'.refilling
  <2>1. SUFFICES ASSUME q.who = "music", Live(q)' PROVE Shows("photo")' /\ ~memories'.refilling
    OBVIOUS
  <2>2. OfThisPlayer(p) /\ p.who = "music" /\ p.serial = memories'.serial
    BY <1>1, <1>4, <2>1 DEF Live, Likes
  <2>3. p.serial <= memories.serial
    BY <1>2, <2>2 DEF IsKept
  <2>4. memories'.serial = memories.serial
    BY <1>2, <2>2, <2>3 DEF SceneGoesOn
  <2> QED BY <1>2, <2>2, <2>4 DEF SceneGoesOn, IsKept, Live
<1> QED BY <1>3, <1>5, <1>6, <1>7, <1>8 DEF IsKept

\* A new generation has nothing to do with the promises before it.
LEMMA ResetIsNew ==
  ASSUME FamilyInv
  PROVE  Reset \in Nat /\ dialog.generation \in Nat /\ dialog.generation < Reset
<1>1. dialog.generation \in Nat
  BY DEF FamilyInv, FamilyTypeOK, DialogState
<1> QED BY <1>1 DEF Reset

LEMMA PromisesAreForgotten ==
  ASSUME FamilyInv, dialog'.generation = Reset, NEW q,
         \E p \in promise : Likes(q, p)
  PROVE  IsKept(q)'
<1>1. PICK p \in promise : Likes(q, p)
  OBVIOUS
<1>2. IsKept(p) /\ p.generation \in Nat
  BY <1>1 DEF FamilyInv, FamilyTypeOK, PromisesAreKept, PromiseState, DialogState
<1>3. q.generation <= dialog'.generation /\ q.generation # dialog'.generation
  BY <1>1, <1>2, ResetIsNew DEF IsKept, Likes
<1> QED BY <1>3 DEF IsKept, OfThisPlayer, Live

LEMMA SilenceIsAudio == NoAudio \in AudioState
<1>1. 0 \in 0..Length
  BY FamilyAssumption
<1> QED BY <1>1 DEF NoAudio, AudioState

LEMMA FamilyInitHasInv == FamilyInit => FamilyInv
<1> SUFFICES ASSUME FamilyInit PROVE FamilyInv
  OBVIOUS
<1> USE FamilyAssumption DEF FamilyInit, NoAudio, NoClip, NoMemories, QuietShelf, None
<1>1. FamilyTypeOK
  BY DEF FamilyTypeOK, DialogState, AudioState, MemoriesState
<1>2. DialogIsWhole /\ SoundHasItsPlace /\ PromisesAreKept
  BY DEF DialogIsWhole, SoundHasItsPlace, PromisesAreKept, Reading
<1>3. SceneIsSet
  BY DEF SceneIsSet, Shows
<1> QED BY <1>1, <1>2, <1>3 DEF FamilyInv
-----------------------------------------------------------------------------
(* The dialog is opened for something, or closed.                             *)
Opens(shows) ==
  /\ shows \in {None, "catalogue", "memories", "one memory"}
  /\ ResetTo(shows, None) /\ audio' = NoAudio /\ promise' = PlayAborted(promise, OfAudio \cup OfClip)
  /\ position' = position
  /\ shelf' \in [timer : BOOLEAN, sound : BOOLEAN] /\ (shows = None => shelf' = QuietShelf)
  /\ memories' \in MemoriesState /\ ~memories'.session /\ ~memories'.timer /\ memories'.serial = 0
  /\ shows # "memories" => memories' = NoMemories
  /\ sessions' \subseteq sessions \cup {Reset} /\ (shows # "memories" => sessions' = sessions)
  /\ familyTaps' \in Nat

LEMMA OpensKeepsInv ==
  ASSUME FamilyInv, NEW shows, Opens(shows)
  PROVE  FamilyInv'
<1>1. /\ dialog' \in DialogState /\ (dialog'.open <=> shows # None) /\ dialog'.generation = Reset
      /\ dialog'.shows = shows /\ dialog'.story = None /\ ~dialog'.started
  BY ResetIsNew DEF Opens, ResetTo, DialogState
<1>2. clip' = NoClip /\ audio' = NoAudio
  BY DEF Opens, ResetTo
<1>3. FamilyTypeOK'
  <2>1. audio' \in AudioState
    BY <1>2, SilenceIsAudio
  <2>2. clip' \in [playing : BOOLEAN, serial : Nat]
    BY <1>2 DEF NoClip
  <2>3. promise' \subseteq PromiseState
    BY AbortedArePromises DEF FamilyInv, FamilyTypeOK, Opens
  <2>4. sessions' \subseteq Nat
    BY ResetIsNew DEF FamilyInv, FamilyTypeOK, Opens
  <2> QED BY <1>1, <2>1, <2>2, <2>3, <2>4 DEF FamilyInv, FamilyTypeOK, Opens
<1>4. DialogIsWhole'
  <2>1. shows = None => shelf' = QuietShelf
    BY DEF Opens
  <2>2. None \notin Story
    BY FamilyAssumption DEF None
  <2>3. audio'.of = None
    BY <1>2 DEF NoAudio
  <2>4. ~Reading'
    BY <1>1 DEF Reading, Opens, None
  <2> QED BY <1>1, <1>2, <2>1, <2>2, <2>3, <2>4 DEF DialogIsWhole
<1>5. SoundHasItsPlace'
  BY <1>1, <1>2 DEF SoundHasItsPlace, NoAudio, NoClip
<1>6. PromisesAreKept'
  <2>1. \A q \in promise' : \E p \in promise : Likes(q, p)
    BY AbortedIsLike DEF FamilyInv, FamilyTypeOK, Opens
  <2>2. \A q \in promise' : IsKept(q)'
    BY <1>1, <2>1, PromisesAreForgotten
  <2>3. \A g \in sessions : g \in Nat /\ g <= dialog.generation
    BY DEF FamilyInv, FamilyTypeOK, PromisesAreKept
  <2>4. \A g \in sessions' : g \in sessions \/ (g = Reset /\ shows = "memories")
    BY DEF Opens
  <2>5. \A g \in sessions' : g <= Reset /\ (g = Reset => shows = "memories")
    <3>1. PICK n \in Nat, r \in Nat : n = dialog.generation /\ r = Reset /\ n < r
      BY ResetIsNew
    <3>2. \A g \in sessions : g \in Nat /\ g <= n
      BY <2>3, <3>1
    <3>3. \A g \in sessions' : g <= r /\ (g = r => shows = "memories")
      BY <2>4, <3>1, <3>2
    <3> QED BY <3>1, <3>3
  <2>6. ~memories'.session
    BY DEF Opens
  <2> QED BY <1>1, <2>2, <2>5, <2>6 DEF PromisesAreKept
<1>7. SceneIsSet'
  <2>1. /\ ~memories'.session /\ ~memories'.timer /\ memories'.serial = 0
        /\ shows # "memories" => memories' = NoMemories
    BY DEF Opens
  <2>2. ~Shows("photo")' /\ clip'.serial = 0
    BY <1>2, <2>1 DEF Shows, NoClip
  <2>3. /\ ~(memories'.session /\ clip'.serial = memories'.serial /\ audio'.playing)
        /\ clip'.serial <= memories'.serial
    BY <2>1, <2>2
  <2> QED BY <1>1, <2>1, <2>2, <2>3 DEF SceneIsSet
<1> QED BY <1>3, <1>4, <1>5, <1>6, <1>7 DEF FamilyInv

LEMMA TapsAreCounted == ASSUME FamilyInv, Tap PROVE familyTaps' \in Nat
BY DEF FamilyInv, FamilyTypeOK, Tap

LEMMA NothingIsPlanned ==
  /\ NoMemories \in MemoriesState /\ ~NoMemories.session /\ ~NoMemories.timer /\ NoMemories.serial = 0
  /\ \A music \in BOOLEAN :
       LET m == [NoMemories EXCEPT !.music = music]
       IN  m \in MemoriesState /\ ~m.session /\ ~m.timer /\ m.serial = 0
BY DEF NoMemories, MemoriesState, None

LEMMA OpeningKeepsInv ==
  ASSUME FamilyInv, TapCatalogue \/ TapMemories \/ TapOneMemory \/ Close
  PROVE  FamilyInv'
<1>1. familyTaps' \in Nat
  BY TapsAreCounted DEF TapCatalogue, TapMemories, TapOneMemory, Close
<1>2. /\ QuietShelf \in [timer : BOOLEAN, sound : BOOLEAN]
      /\ [timer |-> TRUE, sound |-> FALSE] \in [timer : BOOLEAN, sound : BOOLEAN]
  BY DEF QuietShelf
<1>3. CASE TapCatalogue
  <2>1. Opens("catalogue")
    BY <1>1, <1>2, <1>3, NothingIsPlanned DEF TapCatalogue, Opens, None
  <2> QED BY <2>1, OpensKeepsInv
<1>4. CASE TapMemories
  <2>1. PICK music \in BOOLEAN : memories' = [NoMemories EXCEPT !.music = music]
    BY <1>4 DEF TapMemories
  <2>2. /\ memories' \in MemoriesState /\ ~memories'.session /\ ~memories'.timer /\ memories'.serial = 0
    BY <2>1, NothingIsPlanned
  <2>3. Opens("memories")
    BY <1>1, <1>2, <1>4, <2>2 DEF TapMemories, Opens, None
  <2> QED BY <2>3, OpensKeepsInv
<1>5. CASE TapOneMemory
  <2>1. Opens("one memory")
    BY <1>1, <1>2, <1>5, NothingIsPlanned DEF TapOneMemory, Opens, None
  <2> QED BY <2>1, OpensKeepsInv
<1>6. CASE Close
  <2>1. Opens(None)
    BY <1>1, <1>2, <1>6, NothingIsPlanned DEF Close, Opens, None
  <2> QED BY <2>1, OpensKeepsInv
<1> QED BY <1>3, <1>4, <1>5, <1>6

-----------------------------------------------------------------------------
(* A story is read.                                                           *)
LEMMA AudioIsOfItsDialog ==
  ASSUME FamilyInv
  PROVE  /\ audio \in AudioState /\ dialog \in DialogState /\ memories \in MemoriesState
         /\ position \in [Story -> 0..Length] /\ promise \subseteq PromiseState
         /\ clip \in [playing : BOOLEAN, serial : Nat] /\ shelf \in [timer : BOOLEAN, sound : BOOLEAN]
         /\ sessions \subseteq Nat /\ familyTaps \in Nat
         /\ Reading => dialog.story \in Story /\ audio.of = dialog.story
         /\ dialog.started => dialog.shows = "reading"
BY DEF FamilyInv, FamilyTypeOK, DialogIsWhole

LEMMA ResumedIsAudio ==
  ASSUME NEW a \in AudioState, NEW s \in Story, position \in [Story -> 0..Length]
  PROVE  /\ Resumed(a, s) \in AudioState /\ Resumed(a, s).of = a.of
         /\ Resumed(a, s).playing = a.playing /\ Resumed(a, s).muted = a.muted
<1>1. position[s] \in 0..Length
  OBVIOUS
<1> QED BY <1>1 DEF Resumed, AudioState

LEMMA SavedIsPosition ==
  ASSUME position \in [Story -> 0..Length], NEW at \in 0..Length, SavePosition(at)
  PROVE  position' \in [Story -> 0..Length]
BY DEF SavePosition

\* The scene and the requests stay, and every promise was there or is in its place.
Stays ==
  /\ clip' = clip /\ memories' = memories /\ sessions' \subseteq sessions
  /\ dialog'.generation = dialog.generation /\ dialog'.open = dialog.open
  /\ dialog'.shows = "memories" <=> dialog.shows = "memories"
  /\ Reading => Reading'
  /\ dialog.shows = "reading" => dialog'.shows = "reading"
  /\ audio'.playing => audio.playing \/ dialog'.shows = "reading"
  /\ \A q \in promise' : WasThere(q) \/ IsKept(q)'

LEMMA StaysKeepsScene ==
  ASSUME FamilyInv, Stays
  PROVE  PromisesAreKept' /\ SceneIsSet'
<1>1. PromisesAreKept'
  <2>1. Continues
    BY DEF Stays, Continues
  <2>2. memories.serial \in Nat /\ memories' = memories
    BY DEF FamilyInv, FamilyTypeOK, MemoriesState, Stays
  <2>3. SceneGoesOn
    BY <2>2 DEF SceneGoesOn, Shows
  <2>4. \A q \in promise' : IsKept(q)'
    BY <2>1, <2>2, <2>3, PromisesStay DEF Stays
  <2> QED BY <2>4 DEF PromisesAreKept, Stays, FamilyInv
<1>2. SceneIsSet'
  <2>1. memories.session => dialog.shows = "memories"
    BY DEF FamilyInv, SceneIsSet, NoMemories
  <2>2. memories.session /\ audio'.playing => audio.playing
    BY <2>1 DEF Stays
  <2> QED BY <2>2 DEF FamilyInv, SceneIsSet, Stays, Shows
<1> QED BY <1>1, <1>2

\* What a step of a story must show besides.
Tells ==
  /\ dialog' \in DialogState /\ position' \in [Story -> 0..Length] /\ audio' \in AudioState
  /\ promise' \subseteq PromiseState /\ shelf' \in [timer : BOOLEAN, sound : BOOLEAN] /\ familyTaps' \in Nat

LEMMA StoryKeepsInv ==
  ASSUME FamilyInv, Stays, Tells, DialogIsWhole', SoundHasItsPlace'
  PROVE  FamilyInv'
<1>1. FamilyTypeOK'
  BY DEF FamilyInv, FamilyTypeOK, Stays, Tells
<1> QED BY <1>1, StaysKeepsScene DEF FamilyInv

\* A promise that stays as it is.
LEMMA SameWasThere ==
  ASSUME NEW p \in promise
  PROVE  WasThere(p)
BY DEF WasThere, Likes

\* Promises that are given up where the audio is silent, or that are not of its priming.
LEMMA AbortedWereThere ==
  ASSUME FamilyInv, NEW ps, ps \subseteq promise, NEW whose, ~audio'.playing \/ "prime" \notin whose
  PROVE  \A q \in PlayAborted(ps, whose) : WasThere(q)
<1>1. ps \subseteq PromiseState
  BY DEF FamilyInv, FamilyTypeOK
<1> QED BY <1>1, AbortedIsLike DEF WasThere

LEMMA LengthKnownKeepsInv ==
  ASSUME FamilyInv, LengthKnown
  PROVE  FamilyInv'
<1>1. PICK a : /\ a = [audio EXCEPT !.known = TRUE]
               /\ audio' = a \/ (Reading /\ audio' = Resumed(a, dialog.story))
  BY DEF LengthKnown
<1>2. a \in AudioState /\ a.of = audio.of /\ a.playing = audio.playing /\ a.muted = audio.muted
  BY <1>1, AudioIsOfItsDialog DEF AudioState
<1>3. /\ audio' \in AudioState /\ audio'.of = audio.of
      /\ audio'.playing = audio.playing /\ audio'.muted = audio.muted
  <2>1. CASE audio' = a
    BY <1>2, <2>1
  <2>2. CASE Reading /\ audio' = Resumed(a, dialog.story)
    <3>1. dialog.story \in Story /\ position \in [Story -> 0..Length]
      BY <2>2, AudioIsOfItsDialog
    <3> QED BY <1>2, <2>2, <3>1, ResumedIsAudio
  <2> QED BY <1>1, <2>1, <2>2
<1>4. UNCHANGED <<dialog, position, clip, promise, shelf, memories, sessions, familyTaps>>
  BY DEF LengthKnown
<1>5. Stays
  BY <1>3, <1>4, SameWasThere DEF Stays, Reading
<1>6. Tells
  BY <1>3, <1>4, AudioIsOfItsDialog DEF Tells
<1>7. dialog.open /\ audio.of \in Story
  BY FamilyAssumption DEF LengthKnown, FamilyInv, DialogIsWhole, NoAudio, None
<1>8. DialogIsWhole' /\ SoundHasItsPlace'
  BY <1>3, <1>4, <1>7 DEF FamilyInv, DialogIsWhole, SoundHasItsPlace, Reading
<1> QED BY <1>5, <1>6, <1>8, StoryKeepsInv

LEMMA StartStoryKeepsInv ==
  ASSUME FamilyInv, StartStory
  PROVE  FamilyInv'
<1>1. /\ dialog' = [dialog EXCEPT !.shows = "reading", !.started = TRUE] /\ Reading
      /\ UNCHANGED <<position, clip, shelf, memories, sessions>>
  BY DEF StartStory
<1>2. /\ dialog' \in DialogState /\ dialog'.open = dialog.open /\ dialog'.generation = dialog.generation
      /\ dialog'.story = dialog.story /\ dialog'.shows = "reading" /\ Reading'
  BY <1>1, AudioIsOfItsDialog DEF DialogState, Reading
<1>3. PICK fate, a :
        /\ fate \in Fates
        /\ a = [audio EXCEPT !.muted = FALSE, !.playing = Plays(fate, @)]
        /\ audio' = Resumed(a, dialog.story)
        /\ promise' = promise \cup {Promise("start", dialog.generation, 0, fate)}
  BY DEF StartStory
<1>4. a \in AudioState /\ a.of = audio.of
  BY <1>3, AudioIsOfItsDialog DEF AudioState, Plays
<1>5. audio' \in AudioState /\ audio'.of = audio.of
  BY <1>1, <1>3, <1>4, ResumedIsAudio, AudioIsOfItsDialog
<1>6. dialog.generation \in Nat /\ dialog.open
  BY <1>1, AudioIsOfItsDialog DEF DialogState, FamilyInv, DialogIsWhole, Reading, None
<1>7. PICK p : /\ p = Promise("start", dialog.generation, 0, fate)
               /\ p \in PromiseState /\ p.who = "start" /\ p.generation = dialog.generation
  <2>1. 0 \in Nat /\ fate \in Fates
    BY <1>3
  <2>2. /\ Promise("start", dialog.generation, 0, fate) \in PromiseState
        /\ Promise("start", dialog.generation, 0, fate).who = "start"
        /\ Promise("start", dialog.generation, 0, fate).generation = dialog.generation
    BY <1>6, <2>1 DEF Promise, PromiseState, Fates
  <2> QED BY <2>2
<1>8. IsKept(p)'
  BY <1>2, <1>6, <1>7 DEF IsKept, OfThisPlayer
<1>9. Stays
  <2>1. promise' = promise \cup {p}
    BY <1>3, <1>7
  <2>2. \A q \in promise' : WasThere(q) \/ IsKept(q)'
    BY <1>8, <2>1, SameWasThere
  <2> QED BY <1>1, <1>2, <2>2 DEF Stays, Reading
<1>10. familyTaps' \in Nat
  BY <1>1, TapsAreCounted, AudioIsOfItsDialog DEF StartStory, Reading
<1>11. Tells
  BY <1>1, <1>2, <1>3, <1>5, <1>7, <1>10, AudioIsOfItsDialog DEF Tells
<1>12. DialogIsWhole'
  BY <1>1, <1>2, <1>5, <1>6, AudioIsOfItsDialog DEF DialogIsWhole, None
<1>13. SoundHasItsPlace'
  <2>1. ~clip.playing
    BY <1>1 DEF FamilyInv, SoundHasItsPlace, Reading
  <2> QED BY <1>1, <1>2, <2>1 DEF SoundHasItsPlace
<1> QED BY <1>9, <1>11, <1>12, <1>13, StoryKeepsInv

LEMMA PauseOrPlayKeepsInv ==
  ASSUME FamilyInv, PauseOrPlay
  PROVE  FamilyInv'
<1>1. dialog.shows = "reading" /\ UNCHANGED <<dialog, clip, shelf, memories, sessions>>
  BY DEF PauseOrPlay
<1>2. audio' = [audio EXCEPT !.playing = FALSE] \/ audio' = [audio EXCEPT !.playing = TRUE]
  BY DEF PauseOrPlay
<1>3. audio' \in AudioState /\ audio'.of = audio.of
  BY <1>2, AudioIsOfItsDialog DEF AudioState
<1>4. position' \in [Story -> 0..Length]
  <2>1. audio.at \in 0..Length
    BY AudioIsOfItsDialog DEF AudioState
  <2> QED BY <2>1, SavedIsPosition, AudioIsOfItsDialog DEF PauseOrPlay
<1>5. \A q \in promise' : q \in PromiseState /\ WasThere(q)
  <2>1. CASE promise' = promise
    BY <2>1, SameWasThere, AudioIsOfItsDialog
  <2>2. CASE promise' = PlayAborted(promise, OfAudio) /\ audio' = [audio EXCEPT !.playing = FALSE]
    <3>1. ~audio'.playing
      BY <2>2, AudioIsOfItsDialog DEF AudioState
    <3> QED BY <2>2, <3>1, AbortedWereThere, AbortedArePromises, AudioIsOfItsDialog
  <2> QED BY <2>1, <2>2 DEF PauseOrPlay
<1>6. Stays
  BY <1>1, <1>5 DEF Stays, Reading
<1>7. Tells
  BY <1>1, <1>3, <1>4, <1>5, TapsAreCounted, AudioIsOfItsDialog DEF Tells, PauseOrPlay
<1>8. DialogIsWhole' /\ SoundHasItsPlace'
  BY <1>1, <1>3 DEF FamilyInv, DialogIsWhole, SoundHasItsPlace, Reading, None
<1> QED BY <1>6, <1>7, <1>8, StoryKeepsInv

LEMMA RestartStoryKeepsInv ==
  ASSUME FamilyInv, RestartStory
  PROVE  FamilyInv'
<1>1. dialog.shows = "reading" /\ UNCHANGED <<dialog, clip, promise, shelf, memories, sessions>>
  BY DEF RestartStory
<1>2. 0 \in 0..Length
  BY FamilyAssumption
<1>3. audio' \in AudioState /\ audio'.of = audio.of
  BY <1>2, AudioIsOfItsDialog DEF RestartStory, AudioState
<1>4. Stays
  BY <1>1, SameWasThere DEF Stays, Reading
<1>5. Tells
  BY <1>1, <1>2, <1>3, SavedIsPosition, TapsAreCounted, AudioIsOfItsDialog DEF Tells, RestartStory
<1>6. DialogIsWhole' /\ SoundHasItsPlace'
  BY <1>1, <1>3 DEF FamilyInv, DialogIsWhole, SoundHasItsPlace, Reading, None
<1> QED BY <1>4, <1>5, <1>6, StoryKeepsInv

LEMMA ListenKeepsInv ==
  ASSUME FamilyInv, Listen
  PROVE  FamilyInv'
<1>1. UNCHANGED <<dialog, clip, promise, shelf, memories, sessions, familyTaps>> /\ audio.playing
  BY DEF Listen
<1>2. audio.at + 1 \in 0..Length
  BY AudioIsOfItsDialog, FamilyAssumption DEF Listen, AudioState
<1>3. /\ audio' \in AudioState /\ audio'.of = audio.of /\ audio'.playing = audio.playing
      /\ audio'.muted = audio.muted
  BY <1>2, AudioIsOfItsDialog DEF Listen, AudioState
<1>4. position' \in [Story -> 0..Length]
  BY <1>2, SavedIsPosition, AudioIsOfItsDialog DEF Listen
<1>5. Stays
  BY <1>1, <1>3, SameWasThere DEF Stays, Reading
<1>6. Tells
  BY <1>1, <1>3, <1>4, AudioIsOfItsDialog DEF Tells
<1>7. dialog.open
  BY <1>1 DEF FamilyInv, DialogIsWhole, NoAudio
<1>8. DialogIsWhole' /\ SoundHasItsPlace'
  BY <1>1, <1>3, <1>7 DEF FamilyInv, DialogIsWhole, SoundHasItsPlace, Reading
<1> QED BY <1>5, <1>6, <1>8, StoryKeepsInv

LEMMA TapStoryKeepsInv ==
  ASSUME FamilyInv, NEW s \in Story, TapStory(s)
  PROVE  FamilyInv'
<1>1. /\ dialog' = [open |-> TRUE, generation |-> Reset, shows |-> "opening", story |-> s, started |-> FALSE]
      /\ clip' = NoClip /\ shelf' = QuietShelf /\ memories' = NoMemories
      /\ UNCHANGED <<position, sessions>>
  BY DEF TapStory, ResetTo, None
<1>2. PICK fate, ps :
        /\ fate \in Fates
        /\ audio' = [NoAudio EXCEPT !.of = s, !.muted = TRUE, !.playing = Plays(fate, FALSE)]
        /\ ps = PlayAborted(promise, OfAudio \cup OfClip)
        /\ promise' = ps \cup {Promise("prime", Reset, 0, fate)}
  BY DEF TapStory
<1>3. PICK p : p = Promise("prime", Reset, 0, fate)
  OBVIOUS
<1>4. /\ p \in PromiseState /\ p.who = "prime" /\ p.generation = Reset /\ p.fate = fate
  BY <1>2, <1>3, ResetIsNew DEF Promise, PromiseState, Fates
<1>5. audio' \in AudioState /\ audio'.of = s /\ audio'.muted /\ (audio'.playing <=> fate = "pending")
  BY <1>2, SilenceIsAudio DEF AudioState, Plays, NoAudio
<1>6. dialog' \in DialogState /\ Reading'
  BY <1>1, ResetIsNew DEF DialogState, Reading
<1>7. FamilyTypeOK'
  <2>1. promise' \subseteq PromiseState
    BY <1>2, <1>3, <1>4, AbortedArePromises, AudioIsOfItsDialog
  <2>2. clip' \in [playing : BOOLEAN, serial : Nat] /\ shelf' \in [timer : BOOLEAN, sound : BOOLEAN]
    BY <1>1 DEF NoClip, QuietShelf
  <2>3. familyTaps' \in Nat
    BY TapsAreCounted DEF TapStory
  <2> QED BY <1>1, <1>5, <1>6, <2>1, <2>2, <2>3, NothingIsPlanned, AudioIsOfItsDialog DEF FamilyTypeOK
<1>8. DialogIsWhole' /\ SoundHasItsPlace'
  BY <1>1, <1>5 DEF DialogIsWhole, SoundHasItsPlace, Reading, NoClip, None
<1>9. PromisesAreKept'
  <2>1. IsKept(p)'
    BY <1>1, <1>4, <1>5, <1>6, ResetIsNew DEF IsKept, Fates
  <2>2. \A q \in ps : IsKept(q)'
    <3>1. \A q \in ps : \E r \in promise : Likes(q, r)
      BY <1>2, AbortedIsLike, AudioIsOfItsDialog
    <3> QED BY <1>1, <3>1, PromisesAreForgotten
  <2>3. \A g \in sessions' : g <= Reset /\ g # Reset
    <3>1. PICK n \in Nat, r \in Nat : n = dialog.generation /\ r = Reset /\ n < r
      BY ResetIsNew
    <3>2. \A g \in sessions : g \in Nat /\ g <= n
      BY <3>1, AudioIsOfItsDialog DEF FamilyInv, PromisesAreKept
    <3>3. \A g \in sessions' : g <= r /\ g # r
      BY <1>1, <3>1, <3>2
    <3> QED BY <3>1, <3>3
  <2> QED BY <1>1, <1>2, <1>3, <2>1, <2>2, <2>3 DEF PromisesAreKept
<1>10. SceneIsSet'
  BY <1>1 DEF SceneIsSet, Shows, NoMemories, NoClip
<1> QED BY <1>7, <1>8, <1>9, <1>10 DEF FamilyInv

LEMMA PrimedKeepsInv ==
  ASSUME FamilyInv, NEW p \in promise, Primed(p), UNCHANGED <<position, shelf, sessions, familyTaps>>
  PROVE  FamilyInv'
<1>1. p.who = "prime" /\ UNCHANGED <<dialog, memories, clip>>
  BY DEF Primed
<1>2. IsKept(p)
  BY DEF FamilyInv, PromisesAreKept
<1>3. \A q \in promise \ {p} : q \in PromiseState /\ WasThere(q)
  BY SameWasThere, AudioIsOfItsDialog
<1>4. CASE UNCHANGED audio /\ promise' = promise \ {p}
  <2>1. Stays
    BY <1>1, <1>3, <1>4 DEF Stays, Reading
  <2>2. Tells
    BY <1>1, <1>3, <1>4, AudioIsOfItsDialog DEF Tells
  <2>3. DialogIsWhole' /\ SoundHasItsPlace'
    BY <1>1, <1>4 DEF FamilyInv, DialogIsWhole, SoundHasItsPlace, Reading
  <2> QED BY <2>1, <2>2, <2>3, StoryKeepsInv
<1>5. CASE /\ OfThisPlayer(p) /\ p.fate = "rejected"
           /\ audio' = [audio EXCEPT !.muted = FALSE] /\ promise' = promise \ {p}
  <2>1. Reading /\ (audio.playing => dialog.shows = "reading")
    BY <1>1, <1>2, <1>5 DEF IsKept
  <2>2. audio' \in AudioState /\ audio'.of = audio.of /\ audio'.playing = audio.playing
    BY <1>5, AudioIsOfItsDialog DEF AudioState
  <2>3. Stays
    BY <1>1, <1>3, <1>5, <2>2 DEF Stays, Reading
  <2>4. Tells
    BY <1>1, <1>3, <1>5, <2>2, AudioIsOfItsDialog DEF Tells
  <2>5. dialog.open /\ dialog'.shows \in {"opening", "reading"}
    BY <1>1, <1>5, <2>1 DEF OfThisPlayer, Reading
  <2>6. DialogIsWhole' /\ SoundHasItsPlace'
    BY <1>1, <2>1, <2>2, <2>5 DEF FamilyInv, DialogIsWhole, SoundHasItsPlace, Reading
  <2> QED BY <2>3, <2>4, <2>6, StoryKeepsInv
<1>6. CASE /\ OfThisPlayer(p)
           /\ audio' = Resumed([audio EXCEPT !.playing = FALSE, !.muted = FALSE], dialog.story)
           /\ promise' = PlayAborted(promise \ {p}, OfAudio)
  <2>1. Reading /\ dialog.story \in Story
    BY <1>1, <1>2, <1>6, AudioIsOfItsDialog DEF IsKept
  <2>2. PICK a : a = [audio EXCEPT !.playing = FALSE, !.muted = FALSE] /\ audio' = Resumed(a, dialog.story)
    BY <1>6
  <2>3. a \in AudioState /\ a.of = audio.of /\ ~a.playing
    BY <2>2, AudioIsOfItsDialog DEF AudioState
  <2>4. audio' \in AudioState /\ audio'.of = audio.of /\ ~audio'.playing
    BY <2>1, <2>2, <2>3, ResumedIsAudio, AudioIsOfItsDialog
  <2>5. \A q \in promise' : q \in PromiseState /\ WasThere(q)
    <3>1. promise \ {p} \subseteq promise /\ promise \ {p} \subseteq PromiseState
      BY AudioIsOfItsDialog
    <3> QED BY <1>6, <2>4, <3>1, AbortedWereThere, AbortedArePromises
  <2>6. Stays
    BY <1>1, <2>4, <2>5 DEF Stays, Reading
  <2>7. Tells
    BY <1>1, <2>4, <2>5, AudioIsOfItsDialog DEF Tells
  <2>8. dialog.open
    BY <1>6 DEF OfThisPlayer
  <2>9. DialogIsWhole' /\ SoundHasItsPlace'
    BY <1>1, <2>1, <2>4, <2>8 DEF FamilyInv, DialogIsWhole, SoundHasItsPlace, Reading
  <2> QED BY <2>6, <2>7, <2>9, StoryKeepsInv
<1> QED BY <1>4, <1>5, <1>6 DEF Primed

LEMMA StartedKeepsInv ==
  ASSUME FamilyInv, NEW p \in promise, Started(p), UNCHANGED <<position, shelf, sessions, familyTaps>>
  PROVE  FamilyInv'
<1>1. promise' = promise \ {p} /\ UNCHANGED <<audio, memories, clip>>
  BY DEF Started
<1>2. /\ dialog' \in DialogState /\ dialog'.open = dialog.open /\ dialog'.generation = dialog.generation
      /\ dialog'.shows = dialog.shows /\ dialog'.story = dialog.story /\ (dialog'.started => dialog.started)
  BY AudioIsOfItsDialog DEF Started, DialogState, OfThisPlayer
<1>3. Stays
  BY <1>1, <1>2, SameWasThere DEF Stays, Reading
<1>4. Tells
  BY <1>1, <1>2, AudioIsOfItsDialog DEF Tells
<1>5. DialogIsWhole' /\ SoundHasItsPlace'
  BY <1>1, <1>2 DEF FamilyInv, DialogIsWhole, SoundHasItsPlace, Reading
<1> QED BY <1>3, <1>4, <1>5, StoryKeepsInv

LEMMA PutAwayKeepsInv ==
  ASSUME FamilyInv, Reading, PutAway, position' \in [Story -> 0..Length], familyTaps' \in Nat
  PROVE  FamilyInv'
<1>1. /\ dialog' = [dialog EXCEPT !.generation = @ + 1, !.shows = "closing", !.story = None, !.started = FALSE]
      /\ audio' = [audio EXCEPT !.playing = FALSE] /\ promise' = PlayAborted(promise, OfAudio)
      /\ shelf' = QuietShelf /\ UNCHANGED <<clip, memories, sessions>>
  BY DEF PutAway
<1>2. /\ dialog' \in DialogState /\ dialog'.open = dialog.open /\ dialog'.generation = Reset
      /\ dialog'.shows = "closing" /\ ~dialog'.started /\ ~Reading'
  <2>1. dialog' = [dialog EXCEPT !.generation = Reset, !.shows = "closing", !.story = None, !.started = FALSE]
    BY <1>1 DEF Reset
  <2> QED BY <2>1, ResetIsNew, AudioIsOfItsDialog DEF DialogState, Reading
<1>3. audio' \in AudioState /\ ~audio'.playing
  BY <1>1, AudioIsOfItsDialog DEF AudioState
<1>4. dialog.open /\ dialog.shows # "memories" /\ ~clip.playing
  BY DEF Reading, FamilyInv, DialogIsWhole, SoundHasItsPlace, None
<1>5. FamilyTypeOK'
  <2>1. promise' \subseteq PromiseState
    BY <1>1, AbortedArePromises, AudioIsOfItsDialog
  <2>2. shelf' \in [timer : BOOLEAN, sound : BOOLEAN]
    BY <1>1 DEF QuietShelf
  <2> QED BY <1>1, <1>2, <1>3, <2>1, <2>2, AudioIsOfItsDialog DEF FamilyTypeOK
<1>6. DialogIsWhole' /\ SoundHasItsPlace'
  BY <1>1, <1>2, <1>3, <1>4 DEF DialogIsWhole, SoundHasItsPlace, None
<1>7. PromisesAreKept'
  <2>1. \A q \in promise' : \E p \in promise : Likes(q, p)
    BY <1>1, AbortedIsLike, AudioIsOfItsDialog
  <2>2. \A q \in promise' : IsKept(q)'
    BY <1>2, <2>1, PromisesAreForgotten
  <2>3. \A g \in sessions' : g <= Reset /\ g # Reset
    <3>1. PICK n \in Nat, r \in Nat : n = dialog.generation /\ r = Reset /\ n < r
      BY ResetIsNew
    <3>2. \A g \in sessions : g \in Nat /\ g <= n
      BY <3>1, AudioIsOfItsDialog DEF FamilyInv, PromisesAreKept
    <3>3. \A g \in sessions' : g <= r /\ g # r
      BY <1>1, <3>1, <3>2
    <3> QED BY <3>1, <3>3
  <2> QED BY <1>2, <2>2, <2>3 DEF PromisesAreKept
<1>8. SceneIsSet'
  BY <1>1, <1>3, <1>4 DEF FamilyInv, SceneIsSet, Shows
<1> QED BY <1>5, <1>6, <1>7, <1>8 DEF FamilyInv

LEMMA StoryIsPutAway ==
  ASSUME FamilyInv, BackFromStory \/ StoryEnds
  PROVE  FamilyInv'
<1>1. Reading /\ PutAway
  BY DEF BackFromStory, StoryEnds
<1>2. audio.at \in 0..Length /\ 0 \in 0..Length
  BY AudioIsOfItsDialog, FamilyAssumption DEF AudioState
<1>3. position' \in [Story -> 0..Length]
  BY <1>2, SavedIsPosition, AudioIsOfItsDialog DEF BackFromStory, StoryEnds
<1>4. familyTaps' \in Nat
  BY TapsAreCounted, AudioIsOfItsDialog DEF BackFromStory, StoryEnds
<1> QED BY <1>1, <1>3, <1>4, PutAwayKeepsInv

\* The shelf, and the book on its way there.
LEMMA ShelfKeepsInv ==
  ASSUME FamilyInv, Dock \/ BookIsBack \/ SelectBook \/ Preview \/ Hide
  PROVE  FamilyInv'
<1>1. /\ UNCHANGED <<audio, clip, promise, memories, sessions>>
      /\ \/ UNCHANGED dialog
         \/ /\ dialog.shows \in {"closing", "docking"}
            /\ dialog' = [dialog EXCEPT !.shows = "docking"] \/ dialog' = [dialog EXCEPT !.shows = "catalogue"]
  BY DEF Dock, BookIsBack, SelectBook, Preview, Hide
<1>2. /\ dialog' \in DialogState /\ dialog'.open = dialog.open /\ dialog'.generation = dialog.generation
      /\ dialog'.story = dialog.story /\ dialog'.started = dialog.started
      /\ \/ dialog'.shows = dialog.shows
         \/ dialog.shows \in {"closing", "docking"} /\ dialog'.shows \in {"docking", "catalogue"}
  BY <1>1, AudioIsOfItsDialog DEF DialogState
<1>3. shelf' \in [timer : BOOLEAN, sound : BOOLEAN]
  <2>1. \A timer, sound \in BOOLEAN : [timer |-> timer, sound |-> sound] \in [timer : BOOLEAN, sound : BOOLEAN]
    OBVIOUS
  <2>2. QuietShelf \in [timer : BOOLEAN, sound : BOOLEAN]
    BY <2>1 DEF QuietShelf
  <2>3. [shelf EXCEPT !.sound = FALSE] \in [timer : BOOLEAN, sound : BOOLEAN]
    BY AudioIsOfItsDialog
  <2>4. (dialog.shows = "catalogue") \in BOOLEAN
    OBVIOUS
  <2> QED BY <2>1, <2>2, <2>3, <2>4 DEF Dock, BookIsBack, SelectBook, Preview, Hide
<1>4. dialog.open
  BY DEF Dock, BookIsBack, SelectBook, Preview, Hide, FamilyInv, DialogIsWhole, QuietShelf, None
<1>5. position' \in [Story -> 0..Length]
  <2>1. audio.at \in 0..Length
    BY AudioIsOfItsDialog DEF AudioState
  <2> QED BY <2>1, SavedIsPosition, AudioIsOfItsDialog DEF Dock, BookIsBack, SelectBook, Preview, Hide
<1>6. familyTaps' \in Nat
  BY TapsAreCounted, AudioIsOfItsDialog DEF Dock, BookIsBack, SelectBook, Preview, Hide
<1>7. Stays
  BY <1>1, <1>2, SameWasThere DEF Stays, Reading
<1>8. Tells
  BY <1>1, <1>2, <1>3, <1>5, <1>6, AudioIsOfItsDialog DEF Tells
<1>9. DialogIsWhole' /\ SoundHasItsPlace'
  BY <1>1, <1>2, <1>4 DEF FamilyInv, DialogIsWhole, SoundHasItsPlace, Reading, None
<1> QED BY <1>7, <1>8, <1>9, StoryKeepsInv

-----------------------------------------------------------------------------
(* The memories play.                                                         *)
LEMMA PlayOneMemoryKeepsInv ==
  ASSUME FamilyInv, PlayOneMemory
  PROVE  FamilyInv'
<1>1. /\ dialog.shows = "one memory" /\ clip' = [clip EXCEPT !.playing = ~@]
      /\ UNCHANGED <<dialog, position, audio, promise, shelf, memories, sessions>>
  BY DEF PlayOneMemory
<1>2. clip' \in [playing : BOOLEAN, serial : Nat] /\ clip'.serial = clip.serial
  BY <1>1, AudioIsOfItsDialog
<1>3. familyTaps' \in Nat
  BY TapsAreCounted DEF PlayOneMemory
<1>4. FamilyTypeOK'
  BY <1>1, <1>2, <1>3, AudioIsOfItsDialog DEF FamilyTypeOK
<1>5. DialogIsWhole' /\ SoundHasItsPlace'
  BY <1>1 DEF FamilyInv, DialogIsWhole, SoundHasItsPlace, Reading, None
<1>6. PromisesAreKept'
  BY <1>1 DEF FamilyInv, PromisesAreKept, IsKept, OfThisPlayer, Live, Shows, Reading
<1>7. SceneIsSet'
  BY <1>1, <1>2 DEF FamilyInv, SceneIsSet, Shows
<1> QED BY <1>4, <1>5, <1>6, <1>7 DEF FamilyInv

LEMMA SessionIsShown ==
  ASSUME FamilyInv, memories # NoMemories
  PROVE  /\ dialog.shows = "memories" /\ dialog.open /\ ~Reading /\ ~dialog.started
         /\ audio.of \notin Story /\ dialog.generation \in Nat
BY AudioIsOfItsDialog DEF FamilyInv, SceneIsSet, DialogIsWhole, DialogState, Reading, None

\* What a step of the memories must show.
Rolls ==
  /\ UNCHANGED <<dialog, position, shelf>> /\ dialog.shows = "memories" /\ familyTaps' \in Nat
  /\ audio' \in AudioState /\ audio'.of \notin Story
  /\ clip' \in [playing : BOOLEAN, serial : Nat] /\ memories' \in MemoriesState
  /\ promise' \subseteq PromiseState /\ (\A q \in promise' : WasThere(q) \/ IsKept(q)')
  /\ \A g \in sessions' :
       \/ g \in sessions /\ (g = dialog.generation => (memories'.session => memories'.refilling))
       \/ g = dialog.generation /\ (memories'.session => memories'.refilling)
  /\ audio'.playing => memories'.session
  /\ SceneGoesOn /\ SceneIsSet'

LEMMA RollsKeepsInv ==
  ASSUME FamilyInv, Rolls
  PROVE  FamilyInv'
<1>1. dialog' = dialog /\ dialog.shows = "memories" /\ dialog.open /\ ~Reading /\ dialog.generation \in Nat
  BY AudioIsOfItsDialog DEF Rolls, FamilyInv, DialogIsWhole, DialogState, Reading, None
<1>2. FamilyTypeOK'
  <2>1. sessions' \subseteq Nat
    BY <1>1, AudioIsOfItsDialog DEF Rolls
  <2> QED BY <1>1, <2>1, AudioIsOfItsDialog DEF Rolls, FamilyTypeOK
<1>3. DialogIsWhole' /\ SoundHasItsPlace'
  BY <1>1 DEF Rolls, FamilyInv, DialogIsWhole, SoundHasItsPlace, Reading, None
<1>4. PromisesAreKept'
  <2>1. Continues
    BY <1>1 DEF Continues, Reading
  <2>2. memories'.serial \in Nat
    BY DEF Rolls, MemoriesState
  <2>3. \A q \in promise' : IsKept(q)'
    BY <2>1, <2>2, PromisesStay DEF Rolls
  <2>4. \A g \in sessions' : g <= dialog.generation
    BY <1>1 DEF Rolls, FamilyInv, PromisesAreKept
  <2>5. \A g \in sessions' : g = dialog.generation => (memories'.session => memories'.refilling)
    BY DEF Rolls
  <2> QED BY <1>1, <2>3, <2>4, <2>5 DEF PromisesAreKept
<1> QED BY <1>2, <1>3, <1>4 DEF FamilyInv, Rolls

\* The state of the memories, field by field.
LEMMA SceneOfNow ==
  ASSUME FamilyInv
  PROVE  /\ memories.serial \in Nat /\ memories.index \in Nat /\ clip.serial \in Nat /\ memories.fading \in Nat
         /\ clip.serial <= memories.serial
         /\ memories.session => memories.serial > 0 /\ memories.index \in DOMAIN Scenes
         /\ ~memories.session => ~memories.timer
         /\ Shows("photo") => clip.serial = 0
         /\ dialog.shows # "memories" => memories = NoMemories
         /\ memories.session /\ clip.serial = memories.serial /\ audio.playing =>
              memories.fade = "down" /\ memories.fading = memories.serial
BY AudioIsOfItsDialog DEF FamilyInv, SceneIsSet, MemoriesState

LEMMA ScenesAreScenes ==
  /\ Len(Scenes) \in Nat /\ DOMAIN Scenes = 1..Len(Scenes) /\ 1 \in DOMAIN Scenes /\ Len(Scenes) \in DOMAIN Scenes
  /\ \A i \in DOMAIN Scenes : Scenes[i] \in {"photo", "clip"}
<1>1. /\ Len(Scenes) \in Nat /\ DOMAIN Scenes = 1..Len(Scenes) /\ Scenes # <<>>
      /\ \A i \in DOMAIN Scenes : Scenes[i] \in {"photo", "clip"}
  BY FamilyAssumption
<1>2. Len(Scenes) # 0
  BY FamilyAssumption
<1> QED BY <1>1, <1>2

LEMMA PromisesAreOfTheirSteps ==
  ASSUME FamilyInv, NEW q, q \in promise
  PROVE  q \in PromiseState /\ WasThere(q)
BY SameWasThere, AudioIsOfItsDialog

\* m is what the memories are when the scene i of a session starts.
Starts(m, i) ==
  /\ m \in MemoriesState /\ m.session /\ ~m.refilling /\ i \in DOMAIN Scenes
  /\ m.serial > 0 /\ memories.serial <= m.serial
  /\ memories.session /\ ~memories.refilling => memories.serial < m.serial

LEMMA SceneKeepsInv ==
  ASSUME FamilyInv, dialog.shows = "memories", NEW m, NEW i, Starts(m, i), Scene(m, i),
         UNCHANGED <<dialog, position, shelf>>, familyTaps' \in Nat,
         sessions' \subseteq sessions, \A g \in sessions' : g # dialog.generation
  PROVE  FamilyInv'
<1>1. PICK quiet : /\ quiet = PlayAborted(promise, OfClip) /\ quiet \subseteq PromiseState
                   /\ \A q \in quiet : WasThere(q)
  BY AbortedWereThere, AbortedArePromises, AudioIsOfItsDialog DEF OfClip
<1>2. dialog.open /\ dialog.generation \in Nat /\ audio.of \notin Story
  BY AudioIsOfItsDialog DEF FamilyInv, DialogIsWhole, DialogState, None
<1>3. m.serial \in Nat /\ m.serial > 0 /\ memories.serial \in Nat /\ i \in Nat /\ i \in DOMAIN Scenes
  BY ScenesAreScenes, SceneOfNow DEF Starts, MemoriesState
<1>4. ASSUME memories'.session, ~memories'.refilling, memories'.serial = m.serial
      PROVE  SceneGoesOn
  BY <1>3, <1>4 DEF Starts, SceneGoesOn, Shows
<1>5. ASSUME audio' \in AudioState, audio'.of \notin Story, clip' \in [playing : BOOLEAN, serial : Nat],
             memories' \in MemoriesState, memories'.session, ~memories'.refilling, memories'.serial = m.serial,
             promise' \subseteq PromiseState, \A q \in promise' : WasThere(q) \/ IsKept(q)', SceneIsSet'
      PROVE  FamilyInv'
  <2>1. Rolls
    BY <1>4, <1>5 DEF Rolls
  <2> QED BY <2>1, RollsKeepsInv
<1>6. CASE Scenes[i] = "photo"
  <2>1. /\ memories' = [m EXCEPT !.index = i, !.paused = FALSE] /\ clip' = NoClip
        /\ \/ audio' = NoAudio /\ promise' = quiet
           \/ \E fate \in Fates :
                /\ audio' = [NoAudio EXCEPT !.of = "music", !.playing = Plays(fate, audio.playing)]
                /\ promise' = quiet \cup {Promise("music", dialog.generation, m.serial, fate)}
    BY <1>1, <1>6 DEF Scene
  <2>2. /\ memories' \in MemoriesState /\ memories'.session /\ ~memories'.refilling
        /\ memories'.serial = m.serial /\ memories'.index = i
    BY <1>3, <2>1 DEF Starts, MemoriesState
  <2>3. clip' \in [playing : BOOLEAN, serial : Nat] /\ clip'.serial = 0
    BY <2>1 DEF NoClip
  <2>4. SceneIsSet'
    BY <1>3, <2>2, <2>3 DEF SceneIsSet
  <2>5. Shows("photo")'
    BY <1>6, <2>2 DEF Shows
  <2>6. CASE audio' = NoAudio /\ promise' = quiet
    <3>1. audio' \in AudioState /\ audio'.of = None
      BY <2>6, SilenceIsAudio DEF NoAudio
    <3>2. audio'.of \notin Story
      BY <3>1, FamilyAssumption DEF None
    <3> QED BY <1>1, <1>5, <2>2, <2>3, <2>4, <2>6, <3>1, <3>2
  <2>7. CASE \E fate \in Fates :
               /\ audio' = [NoAudio EXCEPT !.of = "music", !.playing = Plays(fate, audio.playing)]
               /\ promise' = quiet \cup {Promise("music", dialog.generation, m.serial, fate)}
    <3>1. PICK fate, q :
             /\ fate \in Fates
             /\ audio' = [NoAudio EXCEPT !.of = "music", !.playing = Plays(fate, audio.playing)]
             /\ q = Promise("music", dialog.generation, m.serial, fate)
             /\ promise' = quiet \cup {q}
      BY <2>7
    <3>2. audio' \in AudioState /\ audio'.of = "music"
      BY <3>1, SilenceIsAudio, AudioIsOfItsDialog DEF AudioState, Plays
    <3>3. audio'.of \notin Story
      BY <3>2, FamilyAssumption
    <3>4. q \in PromiseState /\ q.who = "music" /\ q.generation = dialog.generation /\ q.serial = m.serial
      BY <1>2, <1>3, <3>1 DEF Promise, PromiseState, Fates
    <3>5. IsKept(q)'
      BY <1>2, <1>3, <2>2, <2>5, <3>4 DEF IsKept
    <3>6. promise' \subseteq PromiseState /\ \A p \in promise' : WasThere(p) \/ IsKept(p)'
      BY <1>1, <3>1, <3>4, <3>5
    <3> QED BY <1>5, <2>2, <2>3, <2>4, <3>2, <3>3, <3>6
  <2> QED BY <2>1, <2>6, <2>7
<1>7. CASE Scenes[i] # "photo"
  <2>1. PICK fate, q :
          /\ fate \in Fates
          /\ memories' = [m EXCEPT !.index = i, !.paused = FALSE, !.fade = "down", !.fading = m.serial]
          /\ clip' = [playing |-> Plays(fate, FALSE), serial |-> m.serial]
          /\ q = Promise("clip", dialog.generation, m.serial, fate)
          /\ promise' = quiet \cup {q} /\ audio' = audio
    BY <1>1, <1>7 DEF Scene
  <2>2. /\ memories' \in MemoriesState /\ memories'.session /\ ~memories'.refilling
        /\ memories'.serial = m.serial /\ memories'.index = i
        /\ memories'.fade = "down" /\ memories'.fading = m.serial
    BY <1>3, <2>1 DEF Starts, MemoriesState
  <2>3. clip' \in [playing : BOOLEAN, serial : Nat] /\ clip'.serial = m.serial
    BY <1>3, <2>1 DEF Plays
  <2>4. SceneIsSet'
    BY <1>3, <1>7, <2>2, <2>3 DEF SceneIsSet, Shows
  <2>5. q \in PromiseState /\ q.who = "clip" /\ q.generation = dialog.generation /\ q.serial = m.serial
    BY <1>2, <1>3, <2>1 DEF Promise, PromiseState, Fates, OfClip
  <2>6. IsKept(q)'
    BY <1>2, <1>3, <2>2, <2>5 DEF IsKept
  <2>7. promise' \subseteq PromiseState /\ \A p \in promise' : WasThere(p) \/ IsKept(p)'
    BY <1>1, <2>1, <2>5, <2>6
  <2>8. audio' \in AudioState /\ audio'.of \notin Story
    BY <1>2, <2>1, AudioIsOfItsDialog
  <2> QED BY <1>5, <2>2, <2>3, <2>4, <2>7, <2>8
<1> QED BY <1>6, <1>7

\* More of the memories are asked for.
LEMMA RefillKeepsInv ==
  ASSUME FamilyInv, memories.session, Refill, UNCHANGED <<dialog, position, shelf>>, familyTaps' \in Nat
  PROVE  FamilyInv'
<1>1. /\ memories' = [memories EXCEPT !.serial = @ + 1, !.refilling = TRUE]
      /\ sessions' = sessions \cup {dialog.generation} /\ UNCHANGED <<audio, clip, promise>>
  BY DEF Refill
<1>2. /\ memories' \in MemoriesState /\ memories'.serial = memories.serial + 1 /\ memories'.refilling
      /\ memories'.session /\ memories'.index = memories.index
  <2>1. PICK n \in Nat : n = memories.serial + 1
    BY SceneOfNow
  <2>2. memories' = [memories EXCEPT !.serial = n, !.refilling = TRUE]
    BY <1>1, <2>1
  <2> QED BY <2>1, <2>2, AudioIsOfItsDialog DEF MemoriesState
<1>3. memories # NoMemories
  BY DEF NoMemories
<1>4. SceneGoesOn /\ SceneIsSet'
  <2>1. SceneGoesOn
    BY <1>2, SceneOfNow DEF SceneGoesOn
  <2>2. SceneIsSet'
    BY <1>1, <1>2, <1>3, SceneOfNow, SessionIsShown DEF SceneIsSet, Shows
  <2> QED BY <2>1, <2>2
<1>5. Rolls
  BY <1>1, <1>2, <1>3, <1>4, SessionIsShown, PromisesAreOfTheirSteps, AudioIsOfItsDialog DEF Rolls
<1> QED BY <1>5, RollsKeepsInv

LEMMA GoToKeepsInv ==
  ASSUME FamilyInv, NEW i \in Nat, i > 0, GoTo(i), familyTaps' \in Nat
  PROVE  FamilyInv'
<1>1. memories.session /\ ~memories.refilling /\ UNCHANGED <<dialog, position, shelf>>
  BY DEF GoTo
<1>2. memories # NoMemories
  BY <1>1 DEF NoMemories
<1>3. CASE Refill
  BY <1>1, <1>3, RefillKeepsInv
<1>4. CASE ~(i > Len(Scenes)) /\ Scene([memories EXCEPT !.serial = @ + 1], i) /\ UNCHANGED sessions
  <2>1. PICK m : m = [memories EXCEPT !.serial = @ + 1] /\ Scene(m, i)
    BY <1>4
  <2>2. m \in MemoriesState /\ m.serial = memories.serial + 1 /\ m.session /\ ~m.refilling
    BY <1>1, <2>1, AudioIsOfItsDialog DEF MemoriesState
  <2>3. i \in DOMAIN Scenes
    BY <1>4, ScenesAreScenes
  <2>4. Starts(m, i)
    BY <2>2, <2>3, SceneOfNow DEF Starts
  <2>5. \A g \in sessions' : g # dialog.generation
    BY <1>1, <1>2, <1>4, SessionIsShown DEF FamilyInv, PromisesAreKept
  <2> QED BY <1>1, <1>2, <1>4, <2>1, <2>4, <2>5, SessionIsShown, SceneKeepsInv
<1> QED BY <1>3, <1>4 DEF GoTo

LEMMA NextSceneKeepsInv ==
  ASSUME FamilyInv, PhotoIsOver \/ ClipIsOver \/ Skip
  PROVE  FamilyInv'
<1>1. familyTaps' \in Nat
  BY TapsAreCounted DEF PhotoIsOver, ClipIsOver, Skip
<1>2. PICK i : GoTo(i) /\ (\/ i = memories.index + 1
                          \/ i = IF memories.index > 1 THEN memories.index - 1 ELSE Len(Scenes))
  BY DEF PhotoIsOver, ClipIsOver, Skip
<1>3. i \in Nat /\ i > 0
  <2>1. memories.index \in Nat
    BY SceneOfNow
  <2>2. Len(Scenes) \in Nat /\ Len(Scenes) > 0
    BY ScenesAreScenes
  <2>3. \/ i = memories.index + 1 \/ i = Len(Scenes)
        \/ memories.index > 1 /\ i = memories.index - 1
    BY <1>2
  <2> QED BY <2>1, <2>2, <2>3
<1> QED BY <1>1, <1>2, <1>3, GoToKeepsInv

LEMMA SessionComesKeepsInv ==
  ASSUME FamilyInv, NEW g \in sessions, SessionComes(g)
  PROVE  FamilyInv'
<1>1. sessions' = sessions \ {g} /\ UNCHANGED <<dialog, position, shelf, familyTaps>> /\ g \in Nat
  BY AudioIsOfItsDialog DEF SessionComes
<1>2. CASE dialog.open /\ g = dialog.generation
  <2>1. PICK m : /\ m = [memories EXCEPT !.session = TRUE, !.refilling = FALSE, !.timer = TRUE,
                           !.serial = IF memories.session THEN @ ELSE @ + 1]
                 /\ Scene(m, 1)
    BY <1>2 DEF SessionComes
  <2>2. PICK n : n = (IF memories.session THEN memories.serial ELSE memories.serial + 1)
    OBVIOUS
  <2>3. n \in Nat /\ memories.serial <= n /\ n > 0
    BY <2>2, SceneOfNow
  <2>4. m = [memories EXCEPT !.session = TRUE, !.refilling = FALSE, !.timer = TRUE, !.serial = n]
    BY <2>1, <2>2
  <2>5. m \in MemoriesState /\ m.session /\ ~m.refilling /\ m.serial = n
    BY <2>3, <2>4, AudioIsOfItsDialog DEF MemoriesState
  <2>6. dialog.shows = "memories" /\ (memories.session => memories.refilling)
    BY <1>2 DEF FamilyInv, PromisesAreKept
  <2>7. Starts(m, 1)
    BY <2>3, <2>5, <2>6, ScenesAreScenes DEF Starts
  <2> QED BY <1>1, <1>2, <2>1, <2>6, <2>7, SceneKeepsInv, AudioIsOfItsDialog
<1>3. CASE ~(dialog.open /\ g = dialog.generation)
  <2>1. UNCHANGED <<audio, clip, promise, memories>>
    BY <1>3 DEF SessionComes
  <2>2. Stays
    BY <1>1, <2>1, SameWasThere DEF Stays, Reading
  <2>3. Tells
    BY <1>1, <2>1, AudioIsOfItsDialog DEF Tells
  <2>4. DialogIsWhole' /\ SoundHasItsPlace'
    BY <1>1, <2>1 DEF FamilyInv, DialogIsWhole, SoundHasItsPlace, Reading
  <2> QED BY <2>2, <2>3, <2>4, StoryKeepsInv
<1> QED BY <1>2, <1>3

LEMMA SessionFailsKeepsInv ==
  ASSUME FamilyInv, NEW g \in sessions, SessionFails(g)
  PROVE  FamilyInv'
<1>1. /\ sessions' = sessions \ {g} /\ UNCHANGED <<dialog, position, audio, clip, promise, shelf>>
      /\ g \in Nat /\ familyTaps' \in Nat
  BY TapsAreCounted, AudioIsOfItsDialog DEF SessionFails
<1>2. CASE dialog.open /\ g = dialog.generation
  <2>1. memories' = [memories EXCEPT !.refilling = FALSE, !.paused = @ \/ memories.session]
    BY <1>2 DEF SessionFails
  <2>2. /\ memories' \in MemoriesState /\ ~memories'.refilling /\ memories'.serial = memories.serial
        /\ memories'.session = memories.session /\ memories'.index = memories.index
        /\ memories'.timer = memories.timer /\ memories'.fade = memories.fade /\ memories'.fading = memories.fading
    BY <2>1, AudioIsOfItsDialog DEF MemoriesState
  <2>3. dialog.shows = "memories"
    BY <1>2 DEF FamilyInv, PromisesAreKept
  <2>4. SceneGoesOn /\ SceneIsSet'
    BY <1>1, <2>2, <2>3, SceneOfNow DEF SceneGoesOn, SceneIsSet, Shows
  <2>5. audio.of \notin Story /\ (audio.playing => memories.session)
    BY <2>3 DEF FamilyInv, DialogIsWhole, SoundHasItsPlace
  <2>6. \A h \in sessions' : h \in sessions /\ h # dialog.generation
    BY <1>1, <1>2
  <2>7. Rolls
    BY <1>1, <2>2, <2>3, <2>4, <2>5, <2>6, PromisesAreOfTheirSteps, AudioIsOfItsDialog DEF Rolls
  <2> QED BY <2>7, RollsKeepsInv
<1>3. CASE ~(dialog.open /\ g = dialog.generation)
  <2>1. memories' = memories
    BY <1>3 DEF SessionFails
  <2>2. Stays
    BY <1>1, <2>1, SameWasThere DEF Stays, Reading
  <2>3. Tells
    BY <1>1, <2>1, AudioIsOfItsDialog DEF Tells
  <2>4. DialogIsWhole' /\ SoundHasItsPlace'
    BY <1>1, <2>1 DEF FamilyInv, DialogIsWhole, SoundHasItsPlace, Reading
  <2> QED BY <2>2, <2>3, <2>4, StoryKeepsInv
<1> QED BY <1>2, <1>3

\* A step of the session that is shown leaves its scene as it is.
SameScene ==
  /\ UNCHANGED <<dialog, position, shelf, sessions>> /\ familyTaps' \in Nat
  /\ memories' \in MemoriesState /\ memories'.serial = memories.serial /\ memories'.index = memories.index
  /\ memories'.session = memories.session /\ memories'.timer = memories.timer
  /\ memories'.refilling = memories.refilling
  /\ audio' \in AudioState /\ audio'.of = audio.of
  /\ clip' \in [playing : BOOLEAN, serial : Nat] /\ clip'.serial = clip.serial
  /\ memories.session /\ clip.serial = memories.serial /\ audio'.playing =>
       memories'.fade = "down" /\ memories'.fading = memories.serial
  /\ promise' \subseteq PromiseState /\ (\A q \in promise' : WasThere(q) \/ IsKept(q)')

LEMMA SameSceneKeepsInv ==
  ASSUME FamilyInv, memories # NoMemories, SameScene, audio'.playing => memories.session
  PROVE  FamilyInv'
<1>1. SceneGoesOn
  BY SceneOfNow DEF SameScene, SceneGoesOn, Shows
<1>2. SceneIsSet'
  BY SceneOfNow, SessionIsShown DEF SameScene, SceneIsSet, Shows
<1>3. \A g \in sessions : g = dialog.generation => (memories.session => memories.refilling)
  BY SessionIsShown DEF FamilyInv, PromisesAreKept
<1>4. Rolls
  BY <1>1, <1>2, <1>3, SessionIsShown DEF SameScene, Rolls
<1> QED BY <1>4, RollsKeepsInv

\* The fields of the memories that every step of a scene leaves alone.
SameFields(m) ==
  /\ m \in MemoriesState /\ m.serial = memories.serial /\ m.index = memories.index
  /\ m.session = memories.session /\ m.timer = memories.timer /\ m.refilling = memories.refilling
  /\ m.fading = memories.fading

LEMMA FieldsAreTheSame ==
  ASSUME FamilyInv
  PROVE  /\ SameFields(memories) /\ SameFields(Held(memories))
         /\ SameFields([memories EXCEPT !.fade = "up"]) /\ [memories EXCEPT !.fade = "up"].fade = "up"
         /\ SameFields([memories EXCEPT !.fade = None])
         /\ SameFields([memories EXCEPT !.paused = TRUE]) /\ [memories EXCEPT !.paused = TRUE].fade = memories.fade
         /\ SameFields([memories EXCEPT !.paused = FALSE]) /\ [memories EXCEPT !.paused = FALSE].fade = memories.fade
<1>1. memories \in MemoriesState
  BY AudioIsOfItsDialog
<1>2. SameFields(memories)
  BY <1>1 DEF SameFields
<1>3. SameFields(Held(memories))
  BY <1>1 DEF SameFields, Held, MemoriesState
<1>4. SameFields([memories EXCEPT !.fade = "up"]) /\ [memories EXCEPT !.fade = "up"].fade = "up"
  BY <1>1 DEF SameFields, MemoriesState
<1>5. SameFields([memories EXCEPT !.fade = None])
  BY <1>1 DEF SameFields, MemoriesState
<1>6. SameFields([memories EXCEPT !.paused = TRUE]) /\ [memories EXCEPT !.paused = TRUE].fade = memories.fade
  BY <1>1 DEF SameFields, MemoriesState
<1>7. SameFields([memories EXCEPT !.paused = FALSE]) /\ [memories EXCEPT !.paused = FALSE].fade = memories.fade
  BY <1>1 DEF SameFields, MemoriesState
<1> QED BY <1>2, <1>3, <1>4, <1>5, <1>6, <1>7

\* A pause of both elements gives up what waits to play.
LEMMA HoldKeepsInv ==
  ASSUME FamilyInv, memories.session, Hold, NEW ps, ps \subseteq promise, promise' = PlayAborted(ps, OfAudio \cup OfClip),
         UNCHANGED <<dialog, position, shelf, sessions>>, familyTaps' \in Nat
  PROVE  FamilyInv'
<1>1. memories # NoMemories
  BY DEF NoMemories
<1>2. SameFields(memories')
  BY FieldsAreTheSame DEF Hold
<1>3. audio' \in AudioState /\ audio'.of = audio.of /\ ~audio'.playing
  BY AudioIsOfItsDialog DEF Hold, AudioState
<1>4. clip' \in [playing : BOOLEAN, serial : Nat] /\ clip'.serial = clip.serial
  BY AudioIsOfItsDialog DEF Hold
<1>5. promise' \subseteq PromiseState /\ \A q \in promise' : WasThere(q)
  <2>1. ps \subseteq PromiseState
    BY AudioIsOfItsDialog
  <2> QED BY <1>3, <2>1, AbortedWereThere, AbortedArePromises
<1>6. SameScene
  BY <1>2, <1>3, <1>4, <1>5 DEF SameScene, SameFields
<1> QED BY <1>1, <1>3, <1>6, SameSceneKeepsInv

LEMMA PauseMemoriesKeepsInv ==
  ASSUME FamilyInv, PauseMemories
  PROVE  FamilyInv'
<1>1. /\ memories.session /\ Hold /\ promise' = PlayAborted(promise, OfAudio \cup OfClip)
      /\ UNCHANGED <<dialog, position, shelf, sessions>>
  BY DEF PauseMemories
<1>2. familyTaps' \in Nat
  BY TapsAreCounted DEF PauseMemories
<1> QED BY <1>1, <1>2, HoldKeepsInv

LEMMA PlayMemoriesKeepsInv ==
  ASSUME FamilyInv, PlayMemories
  PROVE  FamilyInv'
<1>1. /\ memories.session /\ memories' = [memories EXCEPT !.paused = FALSE]
      /\ UNCHANGED <<dialog, position, shelf, sessions>>
  BY DEF PlayMemories
<1>2. memories # NoMemories /\ familyTaps' \in Nat
  <2>1. memories # NoMemories
    BY <1>1 DEF NoMemories
  <2>2. Tap
    BY DEF PlayMemories
  <2> QED BY <2>1, <2>2, TapsAreCounted
<1>3. SameFields(memories') /\ memories'.fade = memories.fade
  BY <1>1, FieldsAreTheSame
<1>4. dialog' = dialog /\ dialog.generation \in Nat /\ memories.serial \in Nat /\ memories.session
  BY <1>1, <1>2, SessionIsShown, SceneOfNow
<1>5. CASE \E fate \in Fates :
             /\ clip' = [clip EXCEPT !.playing = Plays(fate, @)]
             /\ promise' = promise \cup {Promise("clip again", dialog.generation, memories.serial, fate)}
             /\ UNCHANGED audio
  <2>1. PICK fate, q :
          /\ fate \in Fates
          /\ clip' = [clip EXCEPT !.playing = Plays(fate, @)]
          /\ q = Promise("clip again", dialog.generation, memories.serial, fate)
          /\ promise' = promise \cup {q} /\ UNCHANGED audio
    BY <1>5
  <2>2. clip' \in [playing : BOOLEAN, serial : Nat] /\ clip'.serial = clip.serial
    BY <2>1, AudioIsOfItsDialog DEF Plays
  <2>3. q \in PromiseState /\ q.generation = dialog.generation /\ q.serial = memories.serial
    BY <1>4, <2>1 DEF Promise, PromiseState, Fates, OfClip
  <2>4. IsKept(q)'
    <3>1. q.who \notin {"prime", "start", "music"}
      BY <2>1 DEF Promise
    <3>2. q.generation <= dialog'.generation /\ memories'.session /\ q.serial <= memories'.serial
      BY <1>3, <1>4, <2>3 DEF SameFields
    <3> QED BY <3>1, <3>2 DEF IsKept
  <2>5. promise' \subseteq PromiseState /\ \A r \in promise' : WasThere(r) \/ IsKept(r)'
    BY <2>1, <2>3, <2>4, PromisesAreOfTheirSteps
  <2>6. audio' = audio /\ audio' \in AudioState
    BY <2>1, AudioIsOfItsDialog
  <2>7. memories.session /\ clip.serial = memories.serial /\ audio'.playing =>
          memories'.fade = "down" /\ memories'.fading = memories.serial
    BY <1>3, <2>6, SceneOfNow DEF SameFields
  <2>8. SameScene
    BY <1>1, <1>2, <1>3, <2>2, <2>5, <2>6, <2>7 DEF SameScene, SameFields
  <2> QED BY <1>1, <1>2, <2>8, SameSceneKeepsInv
<1>6. CASE ~Shows("clip") /\ \E fate \in Fates :
             /\ audio' = [audio EXCEPT !.playing = Plays(fate, @)]
             /\ promise' = promise \cup {Promise("again", dialog.generation, memories.serial, fate)}
             /\ UNCHANGED clip
  <2>1. PICK fate, q :
          /\ fate \in Fates
          /\ audio' = [audio EXCEPT !.playing = Plays(fate, @)]
          /\ q = Promise("again", dialog.generation, memories.serial, fate)
          /\ promise' = promise \cup {q} /\ UNCHANGED clip
    BY <1>6
  <2>2. audio' \in AudioState /\ audio'.of = audio.of
    BY <2>1, AudioIsOfItsDialog DEF AudioState, Plays
  <2>3. q \in PromiseState /\ q.who = "again" /\ q.generation = dialog.generation /\ q.serial = memories.serial
    BY <1>4, <2>1 DEF Promise, PromiseState, Fates
  <2>4. IsKept(q)'
    <3>1. q.who \notin {"prime", "start", "music"} /\ q.generation <= dialog'.generation
      BY <1>4, <2>3
    <3>2. memories'.session /\ q.serial <= memories'.serial
      BY <1>3, <1>4, <2>3 DEF SameFields
    <3> QED BY <3>1, <3>2 DEF IsKept
  <2>5. promise' \subseteq PromiseState /\ \A r \in promise' : WasThere(r) \/ IsKept(r)'
    BY <2>1, <2>3, <2>4, PromisesAreOfTheirSteps
  <2>6. clip.serial # memories.serial
    <3>1. Scenes[memories.index] \in {"photo", "clip"}
      BY <1>1, SceneOfNow, ScenesAreScenes
    <3>2. Shows("photo")
      BY <1>1, <1>6, <3>1 DEF Shows
    <3> QED BY <1>1, <3>2, SceneOfNow
  <2>7. clip' \in [playing : BOOLEAN, serial : Nat] /\ clip'.serial = clip.serial
    BY <2>1, AudioIsOfItsDialog
  <2>8. SameScene
    BY <1>1, <1>2, <1>3, <2>2, <2>5, <2>6, <2>7 DEF SameScene, SameFields
  <2> QED BY <1>1, <1>2, <2>8, SameSceneKeepsInv
<1>7. CASE UNCHANGED <<audio, clip, promise>>
  <2>1. memories.session /\ clip.serial = memories.serial /\ audio'.playing =>
          memories'.fade = "down" /\ memories'.fading = memories.serial
    BY <1>3, <1>7, SceneOfNow DEF SameFields
  <2>2. SameScene
    BY <1>1, <1>2, <1>3, <1>7, <2>1, PromisesAreOfTheirSteps, AudioIsOfItsDialog DEF SameScene,
       SameFields
  <2> QED BY <1>1, <1>2, <2>2, SameSceneKeepsInv
<1> QED BY <1>5, <1>6, <1>7 DEF PlayMemories

\* A promise is settled and nothing else happens.
LEMMA SettledKeepsInv ==
  ASSUME FamilyInv, promise' \subseteq promise,
         UNCHANGED <<dialog, audio, clip, memories, position, shelf, sessions, familyTaps>>
  PROVE  FamilyInv'
<1>1. Stays
  BY SameWasThere DEF Stays, Reading
<1>2. Tells
  BY AudioIsOfItsDialog DEF Tells
<1>3. DialogIsWhole' /\ SoundHasItsPlace'
  BY DEF FamilyInv, DialogIsWhole, SoundHasItsPlace, Reading
<1> QED BY <1>1, <1>2, <1>3, StoryKeepsInv

\* A promise of this player's memories is one of a session.
LEMMA SessionIsPlayed ==
  ASSUME FamilyInv, NEW p \in promise, OfThisPlayer(p), p.who \notin {"prime", "start"}
  PROVE  memories.session /\ memories # NoMemories
<1>1. memories.session
  BY DEF FamilyInv, PromisesAreKept, IsKept
<1> QED BY <1>1 DEF NoMemories

LEMMA MusicPlaysKeepsInv ==
  ASSUME FamilyInv, NEW p \in promise, MusicPlays(p), UNCHANGED <<position, shelf, sessions, familyTaps>>
  PROVE  FamilyInv'
<1>1. p.who \in {"music", "again"} /\ dialog' = dialog /\ familyTaps' \in Nat
  BY AudioIsOfItsDialog DEF MusicPlays
<1>2. promise \ {p} \subseteq promise
  OBVIOUS
<1>3. CASE promise' = promise \ {p} /\ UNCHANGED <<audio, clip, memories>>
  BY <1>1, <1>3, SettledKeepsInv
<1>4. CASE /\ promise' = promise \ {p} /\ memories' = [memories EXCEPT !.fade = "up"] /\ UNCHANGED <<audio, clip>>
           /\ IF p.who = "music" THEN Live(p) ELSE OfThisPlayer(p) /\ Shows("photo")
  <2>1. OfThisPlayer(p)
    BY <1>4 DEF Live
  <2>2. memories.session /\ memories # NoMemories
    BY <1>1, <2>1, SessionIsPlayed
  <2>3. Shows("photo")
    BY <1>4 DEF FamilyInv, PromisesAreKept, IsKept
  <2>4. clip.serial # memories.serial
    BY <2>2, <2>3, SceneOfNow
  <2>5. SameFields(memories')
    BY <1>4, FieldsAreTheSame
  <2>6. promise' \subseteq PromiseState /\ \A q \in promise' : WasThere(q)
    BY <1>4, PromisesAreOfTheirSteps
  <2>7. SameScene
    BY <1>1, <1>4, <2>4, <2>5, <2>6, AudioIsOfItsDialog DEF SameScene, SameFields
  <2> QED BY <2>2, <2>7, SameSceneKeepsInv
<1>5. CASE /\ Hold /\ promise' = PlayAborted(promise \ {p}, OfAudio \cup OfClip)
           /\ IF p.who = "music" THEN Live(p) ELSE OfThisPlayer(p)
  <2>1. OfThisPlayer(p)
    BY <1>5 DEF Live
  <2>2. memories.session
    BY <1>1, <2>1, SessionIsPlayed
  <2> QED BY <1>1, <1>2, <1>5, <2>2, HoldKeepsInv
<1> QED BY <1>3, <1>4, <1>5 DEF MusicPlays

LEMMA ClipPlaysKeepsInv ==
  ASSUME FamilyInv, NEW p \in promise, ClipPlays(p), UNCHANGED <<position, shelf, sessions, familyTaps>>
  PROVE  FamilyInv'
<1>1. p.who \in OfClip /\ promise' = promise \ {p} /\ UNCHANGED <<dialog, audio, clip>> /\ familyTaps' \in Nat
  BY AudioIsOfItsDialog DEF ClipPlays
<1>2. CASE memories' = memories
  BY <1>1, <1>2, SettledKeepsInv
<1>3. CASE memories' = [memories EXCEPT !.paused = TRUE] /\ IF p.who = "clip" THEN Live(p) ELSE OfThisPlayer(p)
  <2>1. OfThisPlayer(p)
    BY <1>3 DEF Live
  <2>2. memories.session /\ memories # NoMemories
    BY <1>1, <2>1, SessionIsPlayed DEF OfClip
  <2>3. SameFields(memories') /\ memories'.fade = memories.fade
    BY <1>3, FieldsAreTheSame
  <2>4. promise' \subseteq PromiseState /\ \A q \in promise' : WasThere(q)
    BY <1>1, PromisesAreOfTheirSteps
  <2>5. memories.session /\ clip.serial = memories.serial /\ audio'.playing =>
          memories'.fade = "down" /\ memories'.fading = memories.serial
    BY <1>1, <2>3, SceneOfNow DEF SameFields
  <2>6. SameScene
    BY <1>1, <2>3, <2>4, <2>5, AudioIsOfItsDialog DEF SameScene, SameFields
  <2> QED BY <2>2, <2>6, SameSceneKeepsInv
<1> QED BY <1>2, <1>3 DEF ClipPlays

LEMMA FadeEndsKeepsInv ==
  ASSUME FamilyInv, FadeEnds
  PROVE  FamilyInv'
<1>1. /\ memories.fade # None /\ memories' = [memories EXCEPT !.fade = None]
      /\ UNCHANGED <<dialog, position, clip, shelf, sessions, familyTaps>>
  BY DEF FadeEnds
<1>2. memories # NoMemories
  BY <1>1 DEF NoMemories
<1>3. SameFields(memories')
  BY <1>1, FieldsAreTheSame
<1>4. audio.playing => memories.session
  BY <1>2, SessionIsShown DEF FamilyInv, SoundHasItsPlace
<1>5. CASE /\ audio' = [audio EXCEPT !.playing = FALSE] /\ promise' = PlayAborted(promise, OfAudio)
  <2>1. audio' \in AudioState /\ audio'.of = audio.of /\ ~audio'.playing
    BY <1>5, AudioIsOfItsDialog DEF AudioState
  <2>2. promise' \subseteq PromiseState /\ \A q \in promise' : WasThere(q)
    BY <1>5, <2>1, AbortedWereThere, AbortedArePromises, AudioIsOfItsDialog
  <2>3. SameScene
    BY <1>1, <1>3, <2>1, <2>2, AudioIsOfItsDialog DEF SameScene, SameFields
  <2> QED BY <1>2, <2>1, <2>3, SameSceneKeepsInv
<1>6. CASE UNCHANGED <<audio, promise>> /\ ~(memories.fade = "down" /\ memories.fading = memories.serial)
  <2>1. ~(memories.session /\ clip.serial = memories.serial /\ audio'.playing)
    BY <1>6, SceneOfNow
  <2>2. SameScene
    BY <1>1, <1>3, <1>6, <2>1, PromisesAreOfTheirSteps, AudioIsOfItsDialog DEF SameScene, SameFields
  <2> QED BY <1>2, <1>4, <1>6, <2>2, SameSceneKeepsInv
<1> QED BY <1>5, <1>6 DEF FadeEnds

LEMMA SettleKeepsInv ==
  ASSUME FamilyInv, NEW p \in promise, Settle(p)
  PROVE  FamilyInv'
<1>1. Primed(p) \/ Started(p) \/ MusicPlays(p) \/ ClipPlays(p)
  BY DEF Settle
<1>2. UNCHANGED <<position, shelf, sessions, familyTaps>>
  BY DEF Settle
<1> QED BY <1>1, <1>2, PrimedKeepsInv, StartedKeepsInv, MusicPlaysKeepsInv, ClipPlaysKeepsInv

LEMMA FamilyStillKeepsInv ==
  ASSUME FamilyInv, UNCHANGED familyVars
  PROVE  FamilyInv'
<1> USE DEF familyVars
<1>1. FamilyTypeOK'
  BY DEF FamilyInv, FamilyTypeOK
<1>2. DialogIsWhole' /\ SoundHasItsPlace'
  BY DEF FamilyInv, DialogIsWhole, SoundHasItsPlace, Reading
<1>3. PromisesAreKept'
  BY DEF FamilyInv, PromisesAreKept, IsKept, OfThisPlayer, Live, Shows, Reading
<1>4. SceneIsSet'
  BY DEF FamilyInv, SceneIsSet, Shows
<1> QED BY <1>1, <1>2, <1>3, <1>4 DEF FamilyInv

\* Every step keeps the invariant.
LEMMA FamilyNextKeepsInv ==
  ASSUME FamilyInv, [FamilyNext]_familyVars
  PROVE  FamilyInv'
<1>1. CASE \E s \in Story : TapStory(s)
  BY <1>1, TapStoryKeepsInv
<1>2. CASE LengthKnown \/ StartStory \/ PauseOrPlay \/ RestartStory \/ Listen
  BY <1>2, LengthKnownKeepsInv, StartStoryKeepsInv, PauseOrPlayKeepsInv, RestartStoryKeepsInv,
     ListenKeepsInv
<1>3. CASE BackFromStory \/ StoryEnds
  BY <1>3, StoryIsPutAway
<1>4. CASE Dock \/ BookIsBack \/ SelectBook \/ Preview \/ Hide
  BY <1>4, ShelfKeepsInv
<1>5. CASE TapCatalogue \/ TapMemories \/ TapOneMemory \/ Close
  BY <1>5, OpeningKeepsInv
<1>6. CASE PlayOneMemory
  BY <1>6, PlayOneMemoryKeepsInv
<1>7. CASE \E g \in sessions : SessionComes(g) \/ SessionFails(g)
  BY <1>7, SessionComesKeepsInv, SessionFailsKeepsInv
<1>8. CASE PhotoIsOver \/ ClipIsOver \/ Skip
  BY <1>8, NextSceneKeepsInv
<1>9. CASE PauseMemories \/ PlayMemories \/ FadeEnds
  BY <1>9, PauseMemoriesKeepsInv, PlayMemoriesKeepsInv, FadeEndsKeepsInv
<1>10. CASE \E p \in promise : Settle(p)
  BY <1>10, SettleKeepsInv
<1>11. CASE UNCHANGED familyVars
  BY <1>11, FamilyStillKeepsInv
<1> QED BY <1>1, <1>2, <1>3, <1>4, <1>5, <1>6, <1>7, <1>8, <1>9, <1>10, <1>11 DEF FamilyNext

LEMMA FamilyInvAlways == FamilySpec => []FamilyInv
<1>1. FamilyInit => FamilyInv
  BY FamilyInitHasInv
<1>2. FamilyInv /\ [FamilyNext]_familyVars => FamilyInv'
  BY FamilyNextKeepsInv
<1> QED BY <1>1, <1>2, PTL DEF FamilySpec

\* Type correctness of the stories and the memories of a phone.
THEOREM FamilyTypeCorrect == FamilySpec => []FamilyTypeOK
<1>1. FamilyInv => FamilyTypeOK
  BY DEF FamilyInv
<1> QED BY <1>1, FamilyInvAlways, PTL

\* A closed player is silent and holds nothing that would start again, a voice is
\* heard only of the story whose opened book is shown, and a clip plays over no music
\* but what is being faded, whenever the promises, timers and answers of the players
\* and scenes before it come (device-player.js, memories-player.js, storybook.js).
THEOREM SoundStaysWanted == FamilySpec => []SoundIsWanted
<1>1. FamilyInv => SoundIsWanted
  <2> SUFFICES ASSUME FamilyInv PROVE SoundIsWanted
    OBVIOUS
  <2>1. ClosedIsSilent
    BY DEF FamilyInv, DialogIsWhole, SceneIsSet, ClosedIsSilent, NoAudio, NoClip, None
  <2>2. NarrationIsWanted
    BY DEF FamilyInv, DialogIsWhole, SoundHasItsPlace, NarrationIsWanted, Reading, None
  <2>3. ClipHasTheFloor
    <3>1. ASSUME clip.playing, audio.playing, clip.serial = memories.serial PROVE memories.fade = "down"
      <4>1. dialog.shows = "memories"
        BY <3>1 DEF FamilyInv, SoundHasItsPlace
      <4>2. memories.session
        BY <3>1, <4>1 DEF FamilyInv, SoundHasItsPlace
      <4> QED BY <3>1, <4>2, SceneOfNow
    <3> QED BY <3>1 DEF ClipHasTheFloor
  <2> QED BY <2>1, <2>2, <2>3 DEF SoundIsWanted
<1> QED BY <1>1, FamilyInvAlways, PTL
-----------------------------------------------------------------------------
(* The cards of My TV.                                                        *)

CardSubject == TitleCard \cup Person \cup Season
CardState ==
  [revision : Nat, subject : CardSubject \cup {Nothing},
   level : {"preview", "cached", "fresh", "restored"}, providers : CardSubject \cup {Nothing}]
ReadState ==
  [subject : CardSubject, revision : Nat, cache : {"due", "hit", "miss"},
   network : {"due", "later", "done", "failed"}, providers : BOOLEAN]

CardEntry == [subject : CardSubject, returnTo : CardSubject \cup {Nothing}]

CardsTypeOK ==
  /\ journey \in [entries : Seq(CardEntry), depth : Nat]
  /\ journey.depth <= Len(journey.entries)
  /\ sheet \in [Sheet -> CardState]
  /\ request \in Seq(ReadState)
  /\ returned \in BOOLEAN

KindOf(i) == SheetOf(request[i].subject)

\* A sheet has had a revision for each card that was read for it.
RevisionsAreUsedOnce ==
  /\ \A i \in DOMAIN request : request[i].revision <= sheet[KindOf(i)].revision
  /\ \A i \in DOMAIN request, j \in DOMAIN request :
       i # j /\ KindOf(i) = KindOf(j) => request[i].revision # request[j].revision

\* The reads that may still be painted are of the card that was opened.
ReadsAreOfTheCard ==
  Top # Nothing /\ ~returned =>
    \A i \in DOMAIN request : KindOf(i) = SheetOf(Top) /\ IsCurrent(i) => request[i].subject = Top

\* A card that is as the Pi has it waits for no cache.
FreshIsAnswered ==
  sheet["title"].level = "fresh" =>
    \A i \in DOMAIN request : KindOf(i) = "title" /\ IsCurrent(i) => request[i].network = "done"

\* Only titles have providers.
ProvidersAreOfTitles == \A i \in DOMAIN request : request[i].providers => KindOf(i) = "title"

CardsInv ==
  /\ CardsTypeOK /\ RevisionsAreUsedOnce /\ ReadsAreOfTheCard /\ FreshIsAnswered
  /\ ProvidersAreOfTitles /\ OpenedCardIsItsOwn

LEMMA SheetsAreSheets == \A s : SheetOf(s) \in Sheet
BY DEF SheetOf, Sheet

LEMMA CardsInitHasInv == CardsInit => CardsInv
<1> SUFFICES ASSUME CardsInit PROVE CardsInv
  OBVIOUS
<1>1. journey.depth = 0 /\ journey.entries = <<>> /\ request = <<>> /\ ~returned /\ Top = Nothing
  BY DEF CardsInit, NoJourney, Top
<1>2. /\ sheet \in [Sheet -> CardState] /\ sheet["title"].level = "preview"
  BY DEF CardsInit, CardState, Sheet
<1>3. CardsTypeOK
  <2>1. \A S : <<>> \in Seq(S)
    OBVIOUS
  <2>2. journey \in [entries : Seq(CardEntry), depth : Nat] /\ request \in Seq(ReadState)
    BY <1>1, <2>1 DEF CardsInit, NoJourney
  <2>3. Len(journey.entries) = 0
    BY <1>1
  <2>4. journey.depth <= Len(journey.entries)
    BY <1>1, <2>3
  <2>5. returned \in BOOLEAN
    BY DEF CardsInit
  <2> QED BY <1>2, <2>2, <2>4, <2>5 DEF CardsTypeOK
<1> QED BY <1>1, <1>2, <1>3 DEF CardsInv, RevisionsAreUsedOnce, ReadsAreOfTheCard, FreshIsAnswered,
                               ProvidersAreOfTitles, OpenedCardIsItsOwn

\* The reads stay those of their cards, whatever has become of them.
SameReads ==
  /\ request' \in Seq(ReadState) /\ DOMAIN request' = DOMAIN request
  /\ \A i \in DOMAIN request :
       /\ request'[i].subject = request[i].subject /\ request'[i].revision = request[i].revision
       /\ request[i].network = "done" => request'[i].network = "done"
       /\ request'[i].providers => request[i].providers \/ KindOf(i) = "title"

\* A sheet is painted anew, for the same card or for none.
SameSheets ==
  /\ sheet' \in [Sheet -> CardState]
  /\ \A k \in Sheet : sheet[k].revision <= sheet'[k].revision

LEMMA OlderReadsStay ==
  ASSUME CardsInv, SameReads, SameSheets
  PROVE  /\ RevisionsAreUsedOnce'
         /\ \A i \in DOMAIN request' : IsCurrent(i)' => IsCurrent(i) /\ KindOf(i)' = KindOf(i)
<1> DEFINE k(i) == KindOf(i)
<1>1. \A i \in DOMAIN request : /\ request[i].revision \in Nat /\ sheet[KindOf(i)].revision \in Nat
                                /\ sheet'[KindOf(i)].revision \in Nat
                                /\ sheet[KindOf(i)].revision <= sheet'[KindOf(i)].revision
                                /\ request[i].revision <= sheet[KindOf(i)].revision
  <2>1. SUFFICES ASSUME NEW i \in DOMAIN request
                 PROVE  /\ request[i].revision \in Nat /\ sheet[KindOf(i)].revision \in Nat
                        /\ sheet'[KindOf(i)].revision \in Nat
                        /\ sheet[KindOf(i)].revision <= sheet'[KindOf(i)].revision
                        /\ request[i].revision <= sheet[KindOf(i)].revision
    OBVIOUS
  <2>2. request[i] \in ReadState /\ KindOf(i) \in Sheet
    BY <2>1, SheetsAreSheets DEF CardsInv, CardsTypeOK, KindOf
  <2>3. sheet[KindOf(i)] \in CardState /\ sheet'[KindOf(i)] \in CardState
    BY <2>2 DEF CardsInv, CardsTypeOK, SameSheets
  <2> QED BY <2>1, <2>2, <2>3 DEF ReadState, CardState, CardsInv, RevisionsAreUsedOnce, SameSheets
<1>2. \A i \in DOMAIN request' : KindOf(i)' = KindOf(i)
  BY DEF SameReads, KindOf, SheetOf
<1>3. RevisionsAreUsedOnce'
  BY <1>1, <1>2 DEF SameReads, CardsInv, RevisionsAreUsedOnce
<1>4. \A i \in DOMAIN request' : IsCurrent(i)' => IsCurrent(i)
  BY <1>1, <1>2 DEF SameReads, IsCurrent, KindOf
<1> QED BY <1>2, <1>3, <1>4

\* A card is painted for a read that is current, or by Back.
LEMMA PaintedIsTyped ==
  ASSUME CardsInv, NEW of \in CardSubject \cup {Nothing}, NEW level \in {"preview", "cached", "fresh", "restored"},
         Paint(of, level)
  PROVE  /\ SameSheets
         /\ \A k \in Sheet : k # SheetOf(of) => sheet'[k] = sheet[k]
         /\ sheet'[SheetOf(of)].subject = of /\ sheet'[SheetOf(of)].level = level
         /\ sheet'[SheetOf(of)].providers \in {sheet[SheetOf(of)].providers, of}
<1>1. PICK whose \in {sheet[SheetOf(of)].providers} \cup ({of} \cap TitleCard) :
        sheet' = [sheet EXCEPT ![SheetOf(of)] =
                   [sheet[SheetOf(of)] EXCEPT !.subject = of, !.level = level, !.providers = whose]]
  BY DEF Paint
<1>2. SheetOf(of) \in Sheet /\ sheet \in [Sheet -> CardState]
  BY SheetsAreSheets DEF CardsInv, CardsTypeOK
<1>3. PICK card : card = [sheet[SheetOf(of)] EXCEPT !.subject = of, !.level = level, !.providers = whose]
  OBVIOUS
<1>4. /\ card \in CardState /\ card.subject = of /\ card.level = level /\ card.providers = whose
      /\ card.revision = sheet[SheetOf(of)].revision
  BY <1>1, <1>2, <1>3 DEF CardState, CardSubject
<1>5. sheet' = [sheet EXCEPT ![SheetOf(of)] = card]
  BY <1>1, <1>3
<1>6. \A k \in Sheet : sheet[k].revision \in Nat
  BY <1>2 DEF CardState
<1> QED BY <1>1, <1>2, <1>4, <1>5, <1>6 DEF SameSheets

\* What a read paints is of a card that may still be painted.
PaintsOfReads ==
  \A k \in Sheet :
    \/ sheet'[k] = sheet[k]
    \/ \E i \in DOMAIN request :
         /\ KindOf(i) = k /\ IsCurrent(i)
         /\ sheet'[k].subject \in {sheet[k].subject, request[i].subject}
         /\ sheet'[k].providers \in {sheet[k].providers, request[i].subject}

LEMMA ReadsKeepInv ==
  ASSUME CardsInv, SameReads, SameSheets, PaintsOfReads, FreshIsAnswered', UNCHANGED <<journey, returned>>
  PROVE  CardsInv'
<1>1. /\ RevisionsAreUsedOnce'
      /\ \A i \in DOMAIN request' : IsCurrent(i)' => IsCurrent(i) /\ KindOf(i)' = KindOf(i)
  BY OlderReadsStay
<1>2. Top' = Top
  BY DEF Top
<1>3. CardsTypeOK'
  BY DEF CardsInv, CardsTypeOK, SameReads, SameSheets
<1>4. ReadsAreOfTheCard'
  BY <1>1, <1>2 DEF CardsInv, ReadsAreOfTheCard, SameReads, SheetOf
<1>5. ProvidersAreOfTitles'
  BY <1>1 DEF CardsInv, ProvidersAreOfTitles, SameReads, KindOf, SheetOf
<1>6. OpenedCardIsItsOwn'
  <2>1. SUFFICES ASSUME Top # Nothing, ~returned
                 PROVE  sheet'[SheetOf(Top)].subject = Top /\ sheet'[SheetOf(Top)].providers \in {Nothing, Top}
    BY <1>2 DEF OpenedCardIsItsOwn, SheetOf
  <2>2. sheet[SheetOf(Top)].subject = Top /\ sheet[SheetOf(Top)].providers \in {Nothing, Top}
    BY <2>1 DEF CardsInv, OpenedCardIsItsOwn
  <2>3. \A i \in DOMAIN request : KindOf(i) = SheetOf(Top) /\ IsCurrent(i) => request[i].subject = Top
    BY <2>1 DEF CardsInv, ReadsAreOfTheCard
  <2>4. SheetOf(Top) \in Sheet
    BY SheetsAreSheets
  <2> QED BY <2>2, <2>3, <2>4 DEF PaintsOfReads
<1> QED BY <1>1, <1>3, <1>4, <1>6, <1>5 DEF CardsInv

\* A title that is as the Pi has it stays so while no sheet is painted "fresh".
LEMMA FreshStaysAnswered ==
  ASSUME CardsInv, SameReads, SameSheets, sheet'["title"].level = "fresh" => sheet["title"].level = "fresh"
  PROVE  FreshIsAnswered'
BY OlderReadsStay DEF CardsInv, FreshIsAnswered, SameReads

LEMMA ReadIsTyped ==
  ASSUME CardsInv, NEW i \in DOMAIN request
  PROVE  /\ request[i] \in ReadState /\ request[i].subject \in CardSubject /\ request \in Seq(ReadState)
         /\ KindOf(i) \in Sheet /\ SheetOf(request[i].subject) = KindOf(i)
<1>1. request \in Seq(ReadState) /\ request[i] \in ReadState
  BY DEF CardsInv, CardsTypeOK
<1>2. request[i].subject \in CardSubject
  BY <1>1 DEF ReadState
<1> QED BY <1>1, <1>2, SheetsAreSheets DEF KindOf

LEMMA SheetsAreTheSame ==
  ASSUME CardsInv, UNCHANGED sheet
  PROVE  SameSheets /\ PaintsOfReads
<1>1. sheet \in [Sheet -> CardState]
  BY DEF CardsInv, CardsTypeOK
<1>2. \A k \in Sheet : sheet[k].revision \in Nat
  BY <1>1 DEF CardState
<1> QED BY <1>1, <1>2 DEF SameSheets, PaintsOfReads

\* One read is changed: neither its card nor its revision.
LEMMA OneReadChanges ==
  ASSUME CardsInv, NEW i \in DOMAIN request, NEW q \in ReadState,
         q.subject = request[i].subject, q.revision = request[i].revision,
         request[i].network = "done" => q.network = "done",
         q.providers => request[i].providers \/ KindOf(i) = "title",
         request' = [request EXCEPT ![i] = q]
  PROVE  SameReads /\ request'[i] = q
BY DEF CardsInv, CardsTypeOK, SameReads

LEMMA CacheReadKeepsInv ==
  ASSUME CardsInv, NEW i \in DOMAIN request, CacheRead(i)
  PROVE  CardsInv' /\ (sheet["title"].level = "fresh" => sheet'["title"].level # "cached")
<1>1. PICK found \in {"hit", "miss"}, recent \in BOOLEAN :
        /\ \E c \in {found, "miss"}, asks \in BOOLEAN :
             request' = [request EXCEPT ![i].cache = c,
               ![i].network = IF @ # "later" THEN @ ELSE IF asks THEN "due" ELSE "done"]
        /\ IF found = "hit" /\ CachePaints(i) THEN Paint(request[i].subject, "cached") ELSE UNCHANGED sheet
  BY DEF CacheRead
<1>2. PICK c \in {found, "miss"}, asks \in BOOLEAN :
        request' = [request EXCEPT ![i].cache = c,
          ![i].network = IF @ # "later" THEN @ ELSE IF asks THEN "due" ELSE "done"]
  BY <1>1
<1>3. PICK n : n = IF request[i].network # "later" THEN request[i].network ELSE IF asks THEN "due" ELSE "done"
  OBVIOUS
<1>4. PICK q : q = [request[i] EXCEPT !.cache = c, !.network = n]
  OBVIOUS
<1>5. request' = [request EXCEPT ![i] = q]
  BY <1>2, <1>3, <1>4, ReadIsTyped DEF ReadState
<1>6. UNCHANGED <<journey, returned>>
  BY DEF CacheRead
<1>7. /\ q \in ReadState /\ q.subject = request[i].subject /\ q.revision = request[i].revision
      /\ request[i].network = "done" => q.network = "done"
      /\ q.providers = request[i].providers
  BY <1>2, <1>3, <1>4, ReadIsTyped DEF ReadState
<1>8. SameReads
  BY <1>7, <1>5, OneReadChanges
<1>9. CASE found = "hit" /\ CachePaints(i)
  <2>1. Paint(request[i].subject, "cached")
    BY <1>1, <1>9
  <2>2. /\ SameSheets
        /\ \A k \in Sheet : k # KindOf(i) => sheet'[k] = sheet[k]
        /\ sheet'[KindOf(i)].subject = request[i].subject /\ sheet'[KindOf(i)].level = "cached"
        /\ sheet'[KindOf(i)].providers \in {sheet[KindOf(i)].providers, request[i].subject}
    BY <2>1, ReadIsTyped, PaintedIsTyped
  <2>3. IsCurrent(i) /\ (KindOf(i) = "title" => request[i].network # "done")
    BY <1>9 DEF CachePaints, KindOf
  <2>4. PaintsOfReads
    BY <2>2, <2>3 DEF PaintsOfReads
  <2>5. "title" \in Sheet
    BY DEF Sheet
  <2>6. sheet["title"].level = "fresh" => sheet'["title"].level # "cached"
    BY <2>2, <2>3, <2>5 DEF CardsInv, FreshIsAnswered
  <2>7. sheet'["title"].level = "fresh" => sheet["title"].level = "fresh"
    BY <2>2, <2>5
  <2> QED BY <1>6, <1>8, <2>2, <2>4, <2>6, <2>7, FreshStaysAnswered, ReadsKeepInv
<1>10. CASE UNCHANGED sheet
  BY <1>6, <1>8, <1>10, SheetsAreTheSame, FreshStaysAnswered, ReadsKeepInv
<1> QED BY <1>1, <1>9, <1>10

\* The providers of a title that is current, in the list of the title's sheet.
LEMMA TitleListIsTyped ==
  ASSUME CardsInv, NEW i \in DOMAIN request, IsCurrent(i), KindOf(i) = "title",
         sheet' = [sheet EXCEPT !["title"].providers = request[i].subject]
  PROVE  PaintsOfReads /\ SameSheets /\ sheet'["title"].level = sheet["title"].level
<1>1. PICK card : card = [sheet["title"] EXCEPT !.providers = request[i].subject]
  OBVIOUS
<1>2. "title" \in Sheet /\ sheet \in [Sheet -> CardState]
  BY DEF CardsInv, CardsTypeOK, Sheet
<1>3. /\ card \in CardState /\ card.subject = sheet["title"].subject /\ card.level = sheet["title"].level
      /\ card.providers = request[i].subject /\ card.revision = sheet["title"].revision
  BY <1>1, <1>2, ReadIsTyped DEF CardState
<1>4. sheet' = [sheet EXCEPT !["title"] = card]
  BY <1>1
<1>5. \A k \in Sheet : sheet[k].revision \in Nat
  BY <1>2 DEF CardState
<1> QED BY <1>2, <1>3, <1>4, <1>5 DEF PaintsOfReads, SameSheets

LEMMA AnswerKeepsInv ==
  ASSUME CardsInv, NEW i \in DOMAIN request, Answer(i)
  PROVE  CardsInv' /\ (sheet["title"].level = "fresh" => sheet'["title"].level # "cached")
<1>1. UNCHANGED <<journey, returned>> /\ "title" \in Sheet
  BY DEF Answer, Sheet
<1>2. PICK q : /\ \E n \in {"done", "failed"}, b \in BOOLEAN :
                      /\ q = [request[i] EXCEPT !.network = n, !.providers = b]
                      /\ b => request[i].providers \/ request[i].subject \in TitleCard
               /\ request' = [request EXCEPT ![i] = q] /\ request[i].network = "due"
               /\ \/ UNCHANGED sheet
                  \/ q.network = "done" /\ Applies(i) /\ Paint(request[i].subject, "fresh")
                  \/ /\ Applies(i) /\ request[i].subject \in TitleCard
                     /\ sheet' = [sheet EXCEPT !["title"].providers = request[i].subject]
  <2>1. CASE /\ request' = [request EXCEPT ![i].network = "done",
                             ![i].providers = Applies(i) /\ request[i].subject \in TitleCard]
             /\ IF Applies(i) /\ request[i].cache # "hit" THEN Paint(request[i].subject, "fresh")
                ELSE IF Applies(i) /\ request[i].subject \in TitleCard
                  THEN sheet' = [sheet EXCEPT !["title"].providers = request[i].subject]
                ELSE UNCHANGED sheet
    <3>1. PICK b \in BOOLEAN : b = (Applies(i) /\ request[i].subject \in TitleCard)
      OBVIOUS
    <3>2. PICK q : q = [request[i] EXCEPT !.network = "done", !.providers = b]
      OBVIOUS
    <3>3. q.network = "done"
      BY <3>2, ReadIsTyped DEF ReadState
    <3>4. request' = [request EXCEPT ![i] = q]
      BY <2>1, <3>1, <3>2, ReadIsTyped
    <3> QED BY <2>1, <3>2, <3>3, <3>4 DEF Answer
  <2>2. CASE request' = [request EXCEPT ![i].network = "failed"] /\ UNCHANGED sheet
    <3>1. PICK q : q = [request[i] EXCEPT !.network = "failed", !.providers = @]
      OBVIOUS
    <3>2. request' = [request EXCEPT ![i] = q] /\ request[i].providers \in BOOLEAN
      BY <2>2, <3>1, ReadIsTyped DEF ReadState
    <3> QED BY <2>2, <3>1, <3>2 DEF Answer
  <2> QED BY <2>1, <2>2 DEF Answer
<1>3. /\ q \in ReadState /\ q.subject = request[i].subject /\ q.revision = request[i].revision
      /\ request[i].network # "done"
      /\ q.providers => request[i].providers \/ request[i].subject \in TitleCard
  BY <1>2, ReadIsTyped DEF ReadState
<1>4. q.providers => request[i].providers \/ KindOf(i) = "title"
  BY <1>3 DEF KindOf, SheetOf
<1>5. SameReads /\ request'[i] = q
  BY <1>2, <1>3, <1>4, OneReadChanges
<1>6. CASE UNCHANGED sheet
  BY <1>1, <1>5, <1>6, SheetsAreTheSame, FreshStaysAnswered, ReadsKeepInv
<1>7. CASE q.network = "done" /\ Applies(i) /\ Paint(request[i].subject, "fresh")
  <2>1. /\ SameSheets
        /\ \A k \in Sheet : k # KindOf(i) => sheet'[k] = sheet[k]
        /\ sheet'[KindOf(i)].subject = request[i].subject /\ sheet'[KindOf(i)].level = "fresh"
        /\ sheet'[KindOf(i)].providers \in {sheet[KindOf(i)].providers, request[i].subject}
    BY <1>7, ReadIsTyped, PaintedIsTyped
  <2>2. IsCurrent(i)
    BY <1>7 DEF Applies
  <2>3. PaintsOfReads
    BY <2>1, <2>2 DEF PaintsOfReads
  <2>4. FreshIsAnswered'
    <3>1. CASE KindOf(i) = "title"
      <4>1. \A j \in DOMAIN request' : KindOf(j)' = "title" /\ IsCurrent(j)' => j = i
        BY <1>5, <2>1, <2>2, <3>1, OlderReadsStay DEF SameReads, CardsInv, RevisionsAreUsedOnce,
           IsCurrent, KindOf
      <4> QED BY <1>5, <1>7, <4>1 DEF FreshIsAnswered
    <3>2. CASE KindOf(i) # "title"
      BY <1>1, <1>5, <2>1, <3>2, FreshStaysAnswered
    <3> QED BY <3>1, <3>2
  <2>5. sheet["title"].level = "fresh" => sheet'["title"].level # "cached"
    BY <1>1, <2>1
  <2> QED BY <1>1, <1>5, <2>1, <2>3, <2>4, <2>5, ReadsKeepInv
<1>8. CASE /\ Applies(i) /\ request[i].subject \in TitleCard
           /\ sheet' = [sheet EXCEPT !["title"].providers = request[i].subject]
  <2>1. PaintsOfReads /\ SameSheets /\ sheet'["title"].level = sheet["title"].level
    <3>1. KindOf(i) = "title" /\ IsCurrent(i)
      BY <1>8 DEF Applies, KindOf, SheetOf
    <3> QED BY <1>8, <3>1, ReadIsTyped, TitleListIsTyped
  <2> QED BY <1>1, <1>5, <2>1, FreshStaysAnswered, ReadsKeepInv
<1> QED BY <1>2, <1>6, <1>7, <1>8

LEMMA ProvidersKeepsInv ==
  ASSUME CardsInv, NEW i \in DOMAIN request, Providers(i)
  PROVE  CardsInv' /\ (sheet["title"].level = "fresh" => sheet'["title"].level # "cached")
<1>1. UNCHANGED <<journey, returned>>
  BY DEF Providers
<1>2. PICK q : q = [request[i] EXCEPT !.providers = FALSE]
  OBVIOUS
<1>3. /\ q \in ReadState /\ q.subject = request[i].subject /\ q.revision = request[i].revision
      /\ q.network = request[i].network /\ ~q.providers
  BY <1>2, ReadIsTyped DEF ReadState
<1>4. request' = [request EXCEPT ![i] = q]
  BY <1>2 DEF Providers
<1>5. KindOf(i) = "title"
  BY DEF Providers, CardsInv, ProvidersAreOfTitles
<1>6. SameReads
  BY <1>3, <1>4, OneReadChanges
<1>7. CASE UNCHANGED sheet
  BY <1>1, <1>6, <1>7, SheetsAreTheSame, FreshStaysAnswered, ReadsKeepInv
<1>8. CASE /\ IsCurrent(i) /\ sheet["title"].subject = request[i].subject
           /\ sheet' = [sheet EXCEPT !["title"].providers = request[i].subject]
  <2>1. PaintsOfReads /\ SameSheets /\ sheet'["title"].level = sheet["title"].level
    BY <1>8, <1>5, TitleListIsTyped
  <2> QED BY <1>1, <1>6, <2>1, FreshStaysAnswered, ReadsKeepInv
<1> QED BY <1>7, <1>8 DEF Providers

\* The card opened has a revision of its own in its sheet.
LEMMA OpenCardKeepsInv ==
  ASSUME CardsInv, NEW s \in CardSubject, OpenCard(s)
  PROVE  CardsInv' /\ (sheet["title"].level = "fresh" => sheet'["title"].level # "cached")
<1>1. PICK kind \in Sheet, from \in CardSubject \cup {Nothing}, revision \in Nat :
        /\ kind = SheetOf(s) /\ revision = sheet[kind].revision + 1
        /\ sheet' = [sheet EXCEPT ![kind] =
             [revision |-> revision, subject |-> s, level |-> "preview", providers |-> Nothing]]
        /\ journey' = [entries |-> SubSeq(journey.entries, 1, journey.depth)
                                     \o <<[subject |-> s, returnTo |-> from]>>,
                       depth |-> journey.depth + 1]
        /\ request' = Append(request,
             [subject |-> s, revision |-> revision, cache |-> "due",
              network |-> IF kind = "title" THEN "due" ELSE "later", providers |-> FALSE])
  <2>1. SheetOf(s) \in Sheet /\ SheetOf(Top) \in Sheet
    BY SheetsAreSheets
  <2>2. sheet[SheetOf(s)] \in CardState /\ sheet[SheetOf(Top)] \in CardState
    BY <2>1 DEF CardsInv, CardsTypeOK
  <2>3. sheet[SheetOf(s)].revision + 1 \in Nat
    BY <2>2 DEF CardState
  <2>4. PICK from : from = IF Top = Nothing THEN Nothing ELSE sheet[SheetOf(Top)].subject
    OBVIOUS
  <2>5. from \in CardSubject \cup {Nothing}
    BY <2>2, <2>4 DEF CardState
  <2> QED BY <2>1, <2>3, <2>4, <2>5 DEF OpenCard
<1>2. PICK card : card = [revision |-> revision, subject |-> s, level |-> "preview", providers |-> Nothing]
  OBVIOUS
<1>3. /\ card \in CardState /\ card.revision = revision /\ card.subject = s /\ card.level = "preview"
      /\ card.providers = Nothing
  BY <1>1, <1>2 DEF CardState
<1>4. PICK q : q = [subject |-> s, revision |-> revision, cache |-> "due",
                    network |-> IF kind = "title" THEN "due" ELSE "later", providers |-> FALSE]
  OBVIOUS
<1>5. q \in ReadState /\ q.subject = s /\ q.revision = revision /\ ~q.providers
  BY <1>1, <1>4 DEF ReadState
<1>6. /\ request \in Seq(ReadState) /\ request' = Append(request, q) /\ Len(request) \in Nat
      /\ sheet \in [Sheet -> CardState] /\ sheet' = [sheet EXCEPT ![kind] = card]
  BY <1>1, <1>2, <1>4 DEF CardsInv, CardsTypeOK
<1>7. PICK last : last = Len(request) + 1
  OBVIOUS
<1>8. /\ request' \in Seq(ReadState) /\ DOMAIN request' = DOMAIN request \cup {last}
      /\ last \notin DOMAIN request
      /\ request'[last] = q /\ \A i \in DOMAIN request : request'[i] = request[i]
  BY <1>5, <1>6, <1>7
<1>9. returned' = FALSE
  BY DEF OpenCard
<1>10. /\ journey' \in [entries : Seq(CardEntry), depth : Nat]
      /\ journey'.depth = Len(journey'.entries) /\ Top' = s
  <2>1. /\ journey.entries \in Seq(CardEntry) /\ journey.depth \in Nat
        /\ journey.depth <= Len(journey.entries)
    BY DEF CardsInv, CardsTypeOK
  <2>2. PICK old : old = SubSeq(journey.entries, 1, journey.depth)
    OBVIOUS
  <2>3. old \in Seq(CardEntry) /\ Len(old) = journey.depth
    BY <2>1, <2>2
  <2>4. PICK e : e = [subject |-> s, returnTo |-> from]
    OBVIOUS
  <2>5. e \in CardEntry /\ e.subject = s
    BY <1>1, <2>4 DEF CardEntry
  <2>6. PICK new : new = old \o <<e>>
    OBVIOUS
  <2>7. new \in Seq(CardEntry) /\ Len(new) = journey.depth + 1 /\ new[journey.depth + 1] = e
    BY <2>1, <2>3, <2>5, <2>6
  <2>8. journey' = [entries |-> new, depth |-> journey.depth + 1]
    BY <1>1, <2>2, <2>4, <2>6
  <2>9. journey'.entries = new /\ journey'.depth = journey.depth + 1
    BY <2>8
  <2> QED BY <2>1, <2>5, <2>7, <2>8, <2>9 DEF Top
<1>11. /\ \A k \in Sheet : k # kind => sheet'[k] = sheet[k]
       /\ sheet'[kind] = card /\ sheet' \in [Sheet -> CardState]
  BY <1>3, <1>6
<1>12. CardsTypeOK'
  <2>1. journey'.depth \in Nat /\ journey'.depth <= Len(journey'.entries)
    BY <1>10
  <2>2. returned' \in BOOLEAN
    BY <1>9
  <2> QED BY <1>8, <1>10, <1>11, <2>1, <2>2 DEF CardsTypeOK
<1>13. \A i \in DOMAIN request : /\ KindOf(i)' = KindOf(i) /\ KindOf(i) \in Sheet
                                 /\ request[i].revision \in Nat
                                 /\ request[i].revision <= sheet[KindOf(i)].revision
  BY <1>8, ReadIsTyped DEF KindOf, SheetOf, ReadState, CardsInv, RevisionsAreUsedOnce
<1>14. KindOf(last)' = kind
  BY <1>1, <1>5, <1>8 DEF KindOf, SheetOf
<1>15. \A i \in DOMAIN request : KindOf(i) = kind => request[i].revision < revision
  <2>1. sheet[kind].revision \in Nat
    BY <1>6 DEF CardState
  <2> QED BY <1>1, <1>13, <2>1
<1>16. RevisionsAreUsedOnce'
  <2>1. \A i \in DOMAIN request' : request'[i].revision <= sheet'[KindOf(i)'].revision
    <3>1. ASSUME NEW i \in DOMAIN request
          PROVE  request'[i].revision <= sheet'[KindOf(i)'].revision
      <4>1. CASE KindOf(i) = kind
        BY <1>1, <1>3, <1>8, <1>11, <1>13, <1>15, <4>1
      <4>2. CASE KindOf(i) # kind
        BY <1>8, <1>11, <1>13, <4>2
      <4> QED BY <4>1, <4>2
    <3>2. request'[last].revision <= sheet'[KindOf(last)'].revision
      BY <1>1, <1>3, <1>5, <1>8, <1>11, <1>14
    <3> QED BY <1>8, <3>1, <3>2
  <2>2. ASSUME NEW i \in DOMAIN request', NEW j \in DOMAIN request', i # j, KindOf(i)' = KindOf(j)'
        PROVE  request'[i].revision # request'[j].revision
    <3>1. CASE i \in DOMAIN request /\ j \in DOMAIN request
      BY <1>8, <1>13, <2>2, <3>1 DEF CardsInv, RevisionsAreUsedOnce
    <3>2. CASE i = last
      BY <1>1, <1>5, <1>8, <1>13, <1>14, <1>15, <2>2, <3>2
    <3>3. CASE j = last
      BY <1>1, <1>5, <1>8, <1>13, <1>14, <1>15, <2>2, <3>3
    <3> QED BY <1>8, <2>2, <3>1, <3>2, <3>3
  <2> QED BY <2>1, <2>2 DEF RevisionsAreUsedOnce
<1>17. \A i \in DOMAIN request' : KindOf(i)' = kind /\ IsCurrent(i)' => i = last
  BY <1>3, <1>6, <1>8, <1>11, <1>13, <1>15 DEF IsCurrent, KindOf
<1>18. ReadsAreOfTheCard'
  <2>1. SheetOf(Top)' = kind
    BY <1>1, <1>10 DEF SheetOf
  <2> QED BY <1>5, <1>8, <1>10, <1>17, <2>1 DEF ReadsAreOfTheCard
<1>19. "title" \in Sheet
  BY DEF Sheet
<1>20. FreshIsAnswered'
  <2>1. CASE kind = "title"
    BY <1>3, <1>11, <2>1 DEF FreshIsAnswered
  <2>2. CASE kind # "title"
    <3>1. \A i \in DOMAIN request' : KindOf(i)' = "title" => i \in DOMAIN request
      BY <1>8, <1>14, <2>2
    <3>2. \A i \in DOMAIN request : KindOf(i) = "title" /\ IsCurrent(i)' => IsCurrent(i)
      BY <1>8, <1>11, <1>13, <1>19, <2>2 DEF IsCurrent, KindOf
    <3> QED BY <1>8, <1>11, <1>13, <1>19, <2>2, <3>1, <3>2 DEF CardsInv, FreshIsAnswered
  <2> QED BY <2>1, <2>2
<1>21. ProvidersAreOfTitles'
  BY <1>5, <1>6, <1>8, <1>13 DEF CardsInv, ProvidersAreOfTitles
<1>22. OpenedCardIsItsOwn'
  <2>1. SheetOf(Top)' = kind
    BY <1>1, <1>10 DEF SheetOf
  <2> QED BY <1>3, <1>10, <1>11, <2>1 DEF OpenedCardIsItsOwn
<1>23. sheet["title"].level = "fresh" => sheet'["title"].level # "cached"
  BY <1>3, <1>11, <1>19
<1> QED BY <1>12, <1>16, <1>18, <1>20, <1>21, <1>22, <1>23 DEF CardsInv

LEMMA CloseCardKeepsInv ==
  ASSUME CardsInv, CloseCard
  PROVE  CardsInv' /\ (sheet["title"].level = "fresh" => sheet'["title"].level # "cached")
<1>1. SheetOf(Top) \in Sheet /\ sheet \in [Sheet -> CardState] /\ request \in Seq(ReadState)
  BY SheetsAreSheets DEF CardsInv, CardsTypeOK
<1>2. PICK kind \in Sheet : kind = SheetOf(Top)
  BY <1>1
<1>3. PICK card : card = [sheet[kind] EXCEPT !.revision = sheet[kind].revision + 1]
  OBVIOUS
<1>4. card \in CardState /\ card.level = sheet[kind].level
  BY <1>1, <1>2, <1>3 DEF CardState
<1>5. sheet' = [sheet EXCEPT ![kind] = card]
  BY <1>2, <1>3 DEF CloseCard
<1>6. \A k \in Sheet : /\ sheet[k].revision \in Nat /\ sheet'[k].level = sheet[k].level
                       /\ sheet[k].revision <= sheet'[k].revision
  BY <1>1, <1>2, <1>3, <1>4, <1>5 DEF CardState
<1>7. SameSheets
  BY <1>1, <1>4, <1>5, <1>6 DEF SameSheets
<1>8. SameReads
  BY <1>1 DEF CloseCard, SameReads
<1>9. RevisionsAreUsedOnce'
  BY <1>7, <1>8, OlderReadsStay
<1>10. "title" \in Sheet
  BY DEF Sheet
<1>11. FreshIsAnswered'
  BY <1>6, <1>7, <1>8, <1>10, FreshStaysAnswered
<1>12. Top' = Nothing
  BY DEF CloseCard, NoJourney, Top
<1>13. CardsTypeOK'
  <2>1. journey'.entries = <<>> /\ journey'.depth = 0 /\ journey' = [entries |-> <<>>, depth |-> 0]
    BY DEF CloseCard, NoJourney
  <2>2. \A S : <<>> \in Seq(S)
    OBVIOUS
  <2>3. journey' \in [entries : Seq(CardEntry), depth : Nat]
    BY <2>1, <2>2
  <2>4. Len(journey'.entries) = 0
    BY <2>1
  <2> QED BY <1>1, <1>7, <2>1, <2>3, <2>4 DEF CardsInv, CardsTypeOK, CloseCard, SameSheets
<1>14. ProvidersAreOfTitles'
  BY DEF CloseCard, CardsInv, ProvidersAreOfTitles, KindOf, SheetOf
<1> QED BY <1>6, <1>9, <1>10, <1>11, <1>12, <1>13, <1>14
        DEF CardsInv, ReadsAreOfTheCard, OpenedCardIsItsOwn

LEMMA BackOneCardKeepsInv ==
  ASSUME CardsInv, BackOneCard
  PROVE  CardsInv' /\ (sheet["title"].level = "fresh" => sheet'["title"].level # "cached")
<1>1. /\ journey \in [entries : Seq(CardEntry), depth : Nat] /\ request \in Seq(ReadState)
      /\ journey.depth <= Len(journey.entries) /\ returned \in BOOLEAN
  BY DEF CardsInv, CardsTypeOK
<1>2. journey.depth \in Nat /\ journey.depth # 0 /\ Len(journey.entries) \in Nat
  BY <1>1 DEF BackOneCard, Top
<1>3. /\ journey' \in [entries : Seq(CardEntry), depth : Nat]
      /\ journey'.depth = journey.depth - 1 /\ journey'.entries = journey.entries
      /\ journey'.depth <= Len(journey'.entries)
  BY <1>1, <1>2 DEF BackOneCard
<1>4. SameReads
  BY <1>1 DEF BackOneCard, SameReads
<1>5. /\ SameSheets /\ sheet'["title"].level \in {sheet["title"].level, "restored"}
      /\ returned' \in BOOLEAN /\ (returned' \/ Top' = Nothing)
  <2>1. CASE journey.depth > 1
    <3>1. PICK of : of = journey.entries[journey.depth].returnTo
      OBVIOUS
    <3>2. journey.entries[journey.depth] \in CardEntry
      BY <1>1, <1>2
    <3>3. of \in CardSubject \cup {Nothing}
      BY <3>1, <3>2 DEF CardEntry
    <3>4. Paint(of, "restored") /\ returned' = TRUE
      BY <2>1, <3>1 DEF BackOneCard
    <3>5. "title" \in Sheet
      BY DEF Sheet
    <3>6. /\ SameSheets /\ \A k \in Sheet : k # SheetOf(of) => sheet'[k] = sheet[k]
          /\ sheet'[SheetOf(of)].level = "restored"
      BY <3>3, <3>4, PaintedIsTyped
    <3> QED BY <3>4, <3>5, <3>6
  <2>2. CASE ~(journey.depth > 1)
    <3>1. UNCHANGED <<sheet, returned>>
      BY <2>2 DEF BackOneCard
    <3>2. Top' = Nothing
      BY <1>2, <1>3, <2>2 DEF Top
    <3> QED BY <1>1, <3>1, <3>2, SheetsAreTheSame
  <2> QED BY <2>1, <2>2
<1>6. RevisionsAreUsedOnce'
  BY <1>4, <1>5, OlderReadsStay
<1>7. FreshIsAnswered'
  BY <1>4, <1>5, FreshStaysAnswered
<1>8. CardsTypeOK'
  BY <1>3, <1>4, <1>5 DEF CardsTypeOK, SameReads, SameSheets
<1>9. ProvidersAreOfTitles'
  BY DEF BackOneCard, CardsInv, ProvidersAreOfTitles, KindOf, SheetOf
<1> QED BY <1>5, <1>6, <1>7, <1>8, <1>9 DEF CardsInv, ReadsAreOfTheCard, OpenedCardIsItsOwn

LEMMA ForwardOneCardKeepsInv ==
  ASSUME CardsInv, ForwardOneCard
  PROVE  CardsInv' /\ (sheet["title"].level = "fresh" => sheet'["title"].level # "cached")
<1>1. /\ journey \in [entries : Seq(CardEntry), depth : Nat] /\ request \in Seq(ReadState)
  BY DEF CardsInv, CardsTypeOK
<1>2. /\ journey' \in [entries : Seq(CardEntry), depth : Nat] /\ journey'.depth <= Len(journey'.entries)
  BY <1>1 DEF ForwardOneCard
<1>3. SameReads /\ returned' = TRUE /\ UNCHANGED sheet
  BY <1>1 DEF ForwardOneCard, SameReads
<1>4. SameSheets
  BY <1>3, SheetsAreTheSame
<1>5. RevisionsAreUsedOnce'
  BY <1>3, <1>4, OlderReadsStay
<1>6. FreshIsAnswered'
  BY <1>3, <1>4, FreshStaysAnswered
<1>7. CardsTypeOK'
  BY <1>2, <1>3, <1>4 DEF CardsTypeOK, SameReads, SameSheets
<1>8. ProvidersAreOfTitles'
  BY DEF ForwardOneCard, CardsInv, ProvidersAreOfTitles, KindOf, SheetOf
<1> QED BY <1>3, <1>5, <1>6, <1>7, <1>8 DEF CardsInv, ReadsAreOfTheCard, OpenedCardIsItsOwn

LEMMA CardsStandKeepsInv ==
  ASSUME CardsInv, UNCHANGED cardVars
  PROVE  CardsInv' /\ (sheet["title"].level = "fresh" => sheet'["title"].level # "cached")
BY DEF cardVars, CardsInv, CardsTypeOK, RevisionsAreUsedOnce, ReadsAreOfTheCard, FreshIsAnswered,
       ProvidersAreOfTitles, OpenedCardIsItsOwn, KindOf, SheetOf, IsCurrent, Top

LEMMA CardsNextKeepsInv ==
  ASSUME CardsInv, [CardsNext]_cardVars
  PROVE  CardsInv' /\ (sheet["title"].level = "fresh" => sheet'["title"].level # "cached")
<1>1. CASE CardsNext
  <2>1. ASSUME NEW s \in TitleCard \cup Person \cup Season, OpenCard(s)
        PROVE  CardsInv' /\ (sheet["title"].level = "fresh" => sheet'["title"].level # "cached")
    BY <2>1, OpenCardKeepsInv DEF CardSubject
  <2>2. ASSUME NEW i \in DOMAIN request, CacheRead(i) \/ Answer(i) \/ Providers(i)
        PROVE  CardsInv' /\ (sheet["title"].level = "fresh" => sheet'["title"].level # "cached")
    BY <2>2, CacheReadKeepsInv, AnswerKeepsInv, ProvidersKeepsInv
  <2> QED
    BY <1>1, <2>1, <2>2, CloseCardKeepsInv, BackOneCardKeepsInv, ForwardOneCardKeepsInv
    DEF CardsNext
<1>2. CASE UNCHANGED cardVars
  BY <1>2, CardsStandKeepsInv
<1> QED BY <1>1, <1>2

\* Type correctness of the journey of cards, its sheets and its reads.
THEOREM CardsTypeCorrect == CardsSpec => []CardsTypeOK
<1>1. CardsInit => CardsInv
  BY CardsInitHasInv
<1>2. CardsInv /\ [CardsNext]_cardVars => CardsInv'
  BY CardsNextKeepsInv
<1>3. CardsInv => CardsTypeOK
  BY DEF CardsInv
<1> QED BY <1>1, <1>2, <1>3, PTL DEF CardsSpec

\* However late the reads of other cards come, and however many cards were
\* opened, an opened card shows its own subject and providers until Back or
\* Forward are used, and what came from the Pi is not painted over with what the
\* phone had kept (details.js, person.js, seasons.js).
THEOREM CardsStayTrue == CardsSpec => CardsAreTrue
<1>1. CardsInit => CardsInv
  BY CardsInitHasInv
<1>2. CardsInv /\ [CardsNext]_cardVars => CardsInv'
  BY CardsNextKeepsInv
<1>3. CardsInv => OpenedCardIsItsOwn
  BY DEF CardsInv
<1>4. CardsInv /\ [CardsNext]_cardVars =>
        [sheet["title"].level = "fresh" => sheet'["title"].level # "cached"]_cardVars
  BY CardsNextKeepsInv
<1> QED BY <1>1, <1>2, <1>3, <1>4, PTL DEF CardsSpec, CardsAreTrue, FreshStays
-----------------------------------------------------------------------------
(* The frame of the portal.                                                   *)

PageState ==
  [screen : {"blank", "setup", "login", "app"}, step : Nat, view : View, route : View,
   memory : {"watch", "downloads"}, offline : BOOLEAN, surface : BOOLEAN,
   connection : {"connecting", "connected", "auth-required", "unreachable", "offline"},
   access : BOOLEAN, library : Nat, known : Nat, live : BOOLEAN, home : BOOLEAN,
   poll : {"none", "sent", "told", "denied"}, picture : BOOLEAN, hidden : BOOLEAN]
FlowState ==
  [at : {"rest", "setup", "bootstrap", "restore", "ready"}, read : {"none", "asked", "told"},
   awaited : BOOLEAN, data : Nat]
ServerState ==
  [configured : BOOLEAN, pinned : BOOLEAN, recovering : BOOLEAN, session : BOOLEAN, revision : Nat]

ShellTypeOK ==
  /\ server \in ServerState
  /\ device \in [online : BOOLEAN, storage : BOOLEAN]
  /\ page \in PageState
  /\ flow \in [Kind -> FlowState]
  /\ cache \in [data : Nat, revision : Nat]
  /\ shellEvents \in Nat

\* A page that is cut off says so, whatever its screen.
CutOff(p) ==
  p.offline => (p.surface <=> p.view # "downloads") /\ ~p.live /\ ~p.home /\ ~p.picture

\* Frames and status are fetched while the remote, or the page, is looked at.
Watching(p) ==
  /\ p.live => p.view = "live"
  /\ p.picture => p.live
  /\ p.picture \/ p.poll # "none" => ~p.hidden

ShowsLibrary(p) == p.screen = "app" /\ ~p.offline => p.library # 0 /\ p.known # 0
SaysOffline(p) == p.connection = "offline" => ~device.online

PageIsSound(p) == p \in PageState /\ CutOff(p) /\ Watching(p) /\ ShowsLibrary(p)

\* A flow that is about to open the page has brought it a library, and a
\* reload is made by a page that had one.
FlowHolds(k, f, p) ==
  /\ f \in FlowState
  /\ f.read = "told" => f.data # 0
  /\ f.at \in {"restore", "ready"} => p.known # 0
  /\ f.at = "ready" => p.library # 0 \/ (f.awaited /\ f.read # "none")
  /\ k = "reload" => f.at \in {"rest", "bootstrap"} /\ (f.at = "bootstrap" => p.library # 0)

\* What the Pi and the cache tell the page is something.
SourcesAreSound ==
  /\ server \in ServerState /\ server.revision # 0
  /\ device \in [online : BOOLEAN, storage : BOOLEAN]
  /\ cache \in [data : Nat, revision : Nat] /\ (cache # NoSnapshot => cache.data # 0)
  /\ shellEvents \in Nat

ShellInv ==
  /\ PageIsSound(page) /\ SaysOffline(page) /\ SourcesAreSound
  /\ flow \in [Kind -> FlowState] /\ \A k \in Kind : FlowHolds(k, flow[k], page)

\* What a page has been shown or told stays.
Keeps(p) == (page.library # 0 => p.library # 0) /\ (page.known # 0 => p.known # 0)

\* The fields of a page that opening a view leaves alone.
SameBehind(p, q) ==
  /\ q.screen = p.screen /\ q.offline = p.offline /\ q.connection = p.connection
  /\ q.library = p.library /\ q.known = p.known

LEMMA StoppedIsSound ==
  ASSUME NEW p \in PageState, Watching(p)
  PROVE  /\ Stopped(p) \in PageState /\ Watching(Stopped(p)) /\ SameBehind(p, Stopped(p))
         /\ Stopped(p).view = p.view /\ Stopped(p).surface = p.surface /\ Stopped(p).home = p.home
         /\ ~Stopped(p).live /\ ~Stopped(p).picture
BY DEF Stopped, PageState, Watching, SameBehind

LEMMA WatchedIsSound ==
  ASSUME NEW p \in PageState, p.view = "live", p.picture => p.live, p.picture \/ p.poll # "none" => ~p.hidden
  PROVE  /\ Watched(p) \in PageState /\ Watching(Watched(p)) /\ SameBehind(p, Watched(p))
         /\ Watched(p).view = p.view /\ Watched(p).surface = p.surface /\ Watched(p).home = p.home
<1>1. CASE p.live
  BY <1>1 DEF Watched, Watching, SameBehind
<1>2. CASE ~p.live
  <2>1. PICK poll : poll = IF p.hidden \/ p.poll # "none" THEN p.poll ELSE "sent"
    OBVIOUS
  <2>2. Watched(p) = [p EXCEPT !.live = TRUE, !.poll = poll]
    BY <1>2, <2>1 DEF Watched, PageState
  <2>3. poll \in {"none", "sent", "told", "denied"} /\ (poll # "none" => ~p.hidden)
    BY <2>1 DEF PageState
  <2> QED BY <1>2, <2>2, <2>3 DEF Watching, SameBehind, PageState
<1> QED BY <1>1, <1>2

LEMMA OpenedIsSound ==
  ASSUME NEW p \in PageState, NEW v \in View, Watching(p), ShowsLibrary(p)
  PROVE  PageIsSound(Opened(p, v)) /\ SameBehind(p, Opened(p, v))
<1>1. PICK q : q = [p EXCEPT !.view = v, !.surface = Unavailable(p, v),
                      !.memory = IF v \in {"watch", "downloads"} THEN v ELSE @]
  OBVIOUS
<1>2. PICK r : r = IF v = "live" /\ ~q.surface THEN Watched(q) ELSE Stopped(q)
  OBVIOUS
<1>3. Opened(p, v) = [r EXCEPT !.home = v = "overview" /\ ~q.surface]
  BY <1>1, <1>2 DEF Opened
<1>4. /\ q \in PageState /\ q.view = v /\ SameBehind(p, q)
      /\ q.live = p.live /\ q.picture = p.picture /\ q.poll = p.poll /\ q.hidden = p.hidden
  <2>1. PICK m \in {"watch", "downloads"} :
          q = [p EXCEPT !.view = v, !.surface = Unavailable(p, v), !.memory = m]
    BY <1>1 DEF PageState
  <2>2. Unavailable(p, v) \in BOOLEAN
    BY DEF Unavailable, PageState
  <2>3. PICK u \in BOOLEAN : u = Unavailable(p, v)
    BY <2>2
  <2>4. q = [p EXCEPT !.view = v, !.surface = u, !.memory = m]
    BY <2>1, <2>3
  <2> QED BY <2>4 DEF PageState, SameBehind
<1>5. q.surface = Unavailable(p, v)
  BY <1>1 DEF PageState
<1>6. /\ r \in PageState /\ Watching(r) /\ SameBehind(q, r)
      /\ r.view = v /\ r.surface = q.surface
      /\ ~(v = "live" /\ ~q.surface) => ~r.live /\ ~r.picture
  <2>1. CASE v = "live" /\ ~q.surface
    BY <1>2, <1>4, <2>1, WatchedIsSound DEF Watching
  <2>2. CASE ~(v = "live" /\ ~q.surface)
    <3>1. PICK s : s = [q EXCEPT !.live = FALSE, !.poll = "none", !.picture = FALSE]
      OBVIOUS
    <3>2. r = s
      BY <1>2, <2>2, <3>1 DEF Stopped
    <3>3. /\ s \in PageState /\ SameBehind(q, s) /\ s.view = q.view /\ s.surface = q.surface
          /\ s.live = FALSE /\ s.poll = "none" /\ s.picture = FALSE
      BY <1>4, <3>1 DEF PageState, SameBehind
    <3> QED BY <1>4, <2>2, <3>2, <3>3 DEF Watching
  <2> QED BY <2>1, <2>2
<1>7. PICK h \in BOOLEAN : h = (v = "overview" /\ ~q.surface)
  OBVIOUS
<1>8. Opened(p, v) = [r EXCEPT !.home = h]
  BY <1>3, <1>7
<1>9. PICK o : o = Opened(p, v)
  OBVIOUS
<1>10. /\ o \in PageState /\ SameBehind(r, o) /\ o.view = v /\ o.surface = q.surface /\ o.home = h
       /\ o.live = r.live /\ o.picture = r.picture /\ o.poll = r.poll /\ o.hidden = r.hidden
  BY <1>6, <1>8, <1>9 DEF PageState, SameBehind
<1>11. Watching(o)
  BY <1>6, <1>10 DEF Watching
<1>12. SameBehind(p, o)
  BY <1>4, <1>6, <1>10 DEF SameBehind
<1>13. ShowsLibrary(o)
  BY <1>12 DEF ShowsLibrary, SameBehind
<1>14. CutOff(o)
  <2>1. o.offline = p.offline
    BY <1>12 DEF SameBehind
  <2>2. p.offline => (o.surface <=> v # "downloads")
    BY <1>5, <1>10 DEF Unavailable
  <2>3. p.offline => ~o.home /\ ~o.live /\ ~o.picture
    BY <1>6, <1>7, <1>10, <2>2
  <2> QED BY <1>10, <2>1, <2>2, <2>3 DEF CutOff
<1> QED BY <1>9, <1>10, <1>11, <1>12, <1>13, <1>14 DEF PageIsSound

\* Only the page moves, and it keeps what it has.
LEMMA OnlyThePageMoves ==
  ASSUME ShellInv, PageIsSound(page'), SaysOffline(page'), Keeps(page'),
         UNCHANGED <<server, flow, cache>>, device' = device, shellEvents' \in Nat
  PROVE  ShellInv'
BY DEF ShellInv, SaysOffline, SourcesAreSound, FlowHolds, Keeps

\* One flow moves, and the page with it; the sources of what it shows are sound.
LEMMA AFlowMoves ==
  ASSUME ShellInv, PageIsSound(page'), SaysOffline(page'), Keeps(page'),
         server' = server, device' = device, shellEvents' \in Nat,
         cache' \in [data : Nat, revision : Nat], cache' # NoSnapshot => cache'.data # 0,
         NEW k \in Kind, NEW f, flow' = [flow EXCEPT ![k] = f], FlowHolds(k, f, page')
  PROVE  ShellInv'
<1>1. flow' \in [Kind -> FlowState]
  BY DEF ShellInv, FlowHolds
<1>2. \A j \in Kind : FlowHolds(j, flow'[j], page')
  BY DEF ShellInv, FlowHolds, Keeps
<1> QED BY <1>1, <1>2 DEF ShellInv, SaysOffline, SourcesAreSound

LEMMA RequestedIsSound ==
  ASSUME NEW p \in PageState, Watching(p), ShowsLibrary(p)
  PROVE  PageIsSound(Requested(p)) /\ SameBehind(p, Requested(p))
<1>1. p.route \in View
  BY DEF PageState
<1> QED BY <1>1, OpenedIsSound DEF Requested

LEMMA RoutedIsSound ==
  ASSUME NEW p \in PageState, NEW v \in View, Watching(p), ShowsLibrary(p)
  PROVE  PageIsSound(Routed(p, v)) /\ SameBehind(p, Routed(p, v))
<1>1. PICK q : q = [p EXCEPT !.route = v]
  OBVIOUS
<1>2. q \in PageState /\ SameBehind(p, q) /\ Watching(q) /\ ShowsLibrary(q)
  BY <1>1 DEF PageState, SameBehind, Watching, ShowsLibrary
<1>3. PageIsSound(Opened(q, v)) /\ SameBehind(q, Opened(q, v))
  BY <1>2, OpenedIsSound
<1>4. Routed(p, v) = Opened(q, v)
  BY <1>1 DEF Routed
<1> QED BY <1>2, <1>3, <1>4 DEF SameBehind

\* A page that is locked has no connection to be told of.
LEMMA LockedIsSound ==
  ASSUME NEW p, PageIsSound(p)
  PROVE  /\ PageIsSound(Locked(p)) /\ Locked(p).connection = "auth-required"
         /\ Locked(p).library = p.library /\ Locked(p).known = p.known
BY DEF Locked, PageIsSound, PageState, CutOff, Watching, ShowsLibrary

LEMMA RefusalIsSound ==
  ASSUME NEW p, PageIsSound(p), NEW k
  PROVE  /\ PageIsSound(Refusal(k, p)) /\ Refusal(k, p).connection = "auth-required"
         /\ Refusal(k, p).library = p.library /\ Refusal(k, p).known = p.known
<1>1. PICK q : q = Locked(p)
  OBVIOUS
<1>2. PageIsSound(q) /\ q.connection = "auth-required" /\ q.library = p.library /\ q.known = p.known
  BY <1>1, LockedIsSound
<1>3. q.screen = "login"
  BY <1>1 DEF Locked, PageIsSound, PageState
<1>4. CASE k = "reconnect"
  <2>1. PICK o : o = [q EXCEPT !.offline = FALSE, !.surface = FALSE]
    OBVIOUS
  <2>2. Refusal(k, p) = o
    BY <1>1, <1>4, <2>1 DEF Refusal
  <2>3. /\ PageIsSound(o) /\ o.connection = "auth-required" /\ o.library = q.library /\ o.known = q.known
    BY <1>2, <1>3, <2>1 DEF PageIsSound, PageState, CutOff, Watching, ShowsLibrary
  <2> QED BY <1>2, <2>2, <2>3
<1>5. CASE k # "reconnect"
  BY <1>1, <1>2, <1>5 DEF Refusal
<1> QED BY <1>4, <1>5

\* Without the network the page is cut off and says so, on the view it opens.
LEMMA AwayIsSound ==
  ASSUME NEW p \in PageState, Watching(p), device \in [online : BOOLEAN, storage : BOOLEAN]
  PROVE  /\ Away(p) \in PageState /\ Watching(Away(p)) /\ ShowsLibrary(Away(p)) /\ SaysOffline(Away(p))
         /\ Away(p).offline = TRUE /\ Away(p).library = p.library /\ Away(p).known = p.known
         /\ Away(p).route = p.route /\ Away(p).view = p.view
<1>1. PICK c \in {"unreachable", "offline"} : c = IF device.online THEN "unreachable" ELSE "offline"
  OBVIOUS
<1>2. PICK q : q = [p EXCEPT !.offline = TRUE, !.connection = c]
  OBVIOUS
<1>3. Away(p) = q
  BY <1>1, <1>2 DEF Away
<1>4. /\ q \in PageState /\ q.offline = TRUE /\ q.connection = c /\ q.library = p.library
      /\ q.known = p.known /\ q.route = p.route /\ q.view = p.view /\ q.live = p.live
      /\ q.picture = p.picture /\ q.poll = p.poll /\ q.hidden = p.hidden
  BY <1>2 DEF PageState
<1> QED BY <1>1, <1>3, <1>4 DEF Watching, ShowsLibrary, SaysOffline

LEMMA CutIsSound ==
  ASSUME NEW p \in PageState, Watching(p), device \in [online : BOOLEAN, storage : BOOLEAN]
  PROVE  /\ PageIsSound(Cut(p)) /\ SaysOffline(Cut(p))
         /\ Cut(p).library = p.library /\ Cut(p).known = p.known
<1>1. PICK a : a = Away(p)
  OBVIOUS
<1>2. PICK q : q = [a EXCEPT !.access = FALSE, !.screen = "app"]
  OBVIOUS
<1>3. /\ a \in PageState /\ Watching(a) /\ SaysOffline(a)
      /\ a.offline = TRUE /\ a.library = p.library /\ a.known = p.known
  BY <1>1, AwayIsSound
<1>4. /\ q \in PageState /\ Watching(q) /\ SaysOffline(q) /\ ShowsLibrary(q)
      /\ q.library = p.library /\ q.known = p.known
  <2>1. /\ q \in PageState /\ q.offline = TRUE /\ q.library = p.library /\ q.known = p.known
        /\ q.live = a.live /\ q.view = a.view /\ q.picture = a.picture /\ q.poll = a.poll
        /\ q.hidden = a.hidden /\ q.connection = a.connection
    BY <1>2, <1>3 DEF PageState
  <2> QED BY <1>3, <2>1 DEF Watching, SaysOffline, ShowsLibrary
<1>5. PageIsSound(Requested(q)) /\ SameBehind(q, Requested(q))
  BY <1>4, RequestedIsSound
<1>6. Cut(p) = Requested(q)
  BY <1>1, <1>2 DEF Cut
<1> QED BY <1>4, <1>5, <1>6 DEF SameBehind, SaysOffline

LEMMA FailedIsSound ==
  ASSUME ShellInv, NEW k \in Kind
  PROVE  /\ PageIsSound(NetworkFailed(k, page)) /\ SaysOffline(NetworkFailed(k, page))
         /\ Keeps(NetworkFailed(k, page))
<1>1. /\ page \in PageState /\ Watching(page) /\ PageIsSound(page) /\ SaysOffline(page) /\ page.view \in View
      /\ device \in [online : BOOLEAN, storage : BOOLEAN]
  BY DEF ShellInv, PageIsSound, SourcesAreSound, PageState
<1>2. CASE k = "start" /\ device.storage /\ (flow[k].at = "setup" \/ ~server.pinned)
  BY <1>1, <1>2, CutIsSound DEF NetworkFailed, Keeps
<1>3. CASE k = "start" /\ ~(device.storage /\ (flow[k].at = "setup" \/ ~server.pinned))
  <2>1. PICK q : q = [page EXCEPT !.screen = "login"]
    OBVIOUS
  <2>2. PageIsSound(q) /\ SaysOffline(q) /\ Keeps(q)
    BY <1>1, <2>1 DEF PageIsSound, PageState, CutOff, Watching, ShowsLibrary, SaysOffline, Keeps
  <2> QED BY <1>3, <2>1, <2>2 DEF NetworkFailed
<1>4. CASE k = "reconnect"
  <2>1. PICK a : a = Away(page)
    OBVIOUS
  <2>2. /\ a \in PageState /\ Watching(a) /\ ShowsLibrary(a) /\ SaysOffline(a)
        /\ a.library = page.library /\ a.known = page.known
    BY <1>1, <2>1, AwayIsSound
  <2>3. PageIsSound(Opened(a, page.view)) /\ SameBehind(a, Opened(a, page.view))
    BY <1>1, <2>2, OpenedIsSound
  <2>4. NetworkFailed(k, page) = Opened(a, page.view)
    BY <1>4, <2>1 DEF NetworkFailed
  <2> QED BY <2>2, <2>3, <2>4 DEF SameBehind, SaysOffline, Keeps
<1>5. CASE k # "start" /\ k # "reconnect"
  BY <1>1, <1>5 DEF NetworkFailed, Keeps
<1> QED BY <1>2, <1>3, <1>4, <1>5

\* A flow that has ended holds nothing.
LEMMA IdleHolds == \A k, p : FlowHolds(k, IdleFlow, p)
BY DEF FlowHolds, IdleFlow, FlowState

LEMMA FlowIsTyped ==
  ASSUME ShellInv, NEW k \in Kind
  PROVE  /\ flow[k] \in FlowState /\ FlowHolds(k, flow[k], page) /\ page \in PageState
         /\ PageIsSound(page) /\ SaysOffline(page) /\ Keeps(page)
         /\ device \in [online : BOOLEAN, storage : BOOLEAN] /\ server \in ServerState
         /\ cache \in [data : Nat, revision : Nat] /\ (cache # NoSnapshot => cache.data # 0)
BY DEF ShellInv, PageIsSound, SourcesAreSound, Keeps

LEMMA PageIsTyped ==
  ASSUME ShellInv
  PROVE  /\ page \in PageState /\ PageIsSound(page) /\ SaysOffline(page) /\ Keeps(page)
         /\ device \in [online : BOOLEAN, storage : BOOLEAN]
BY DEF ShellInv, PageIsSound, SourcesAreSound, Keeps

LEMMA CountedEvents ==
  ASSUME ShellInv, Moved \/ Disturbed \/ Calm
  PROVE  shellEvents' \in Nat
BY DEF ShellInv, SourcesAreSound, Moved, Disturbed, Calm

LEMMA FailsKeepsInv ==
  ASSUME ShellInv, NEW k \in Kind, Fails(k)
  PROVE  ShellInv'
<1>1. /\ PageIsSound(page') /\ SaysOffline(page') /\ Keeps(page')
  BY FailedIsSound DEF Fails
<1>2. flow' = [flow EXCEPT ![k] = IdleFlow] /\ FlowHolds(k, IdleFlow, page')
  BY IdleHolds DEF Fails, Ended
<1>3. UNCHANGED <<server, device, cache>> /\ shellEvents' \in Nat
  BY CountedEvents DEF Fails
<1> QED BY <1>1, <1>2, <1>3, FlowIsTyped, AFlowMoves

\* The page starts anew, and so do its flows.
LEMMA FreshKeepsInv ==
  ASSUME ShellInv, page' = Fresh, flow' = Starting, SourcesAreSound'
  PROVE  ShellInv'
<1>1. PageIsSound(Fresh) /\ Fresh.connection = "connecting"
  BY DEF Fresh, PageIsSound, PageState, View, CutOff, Watching, ShowsLibrary
<1>2. \A k \in Kind : Starting[k] \in FlowState /\ FlowHolds(k, Starting[k], Fresh)
  BY DEF Starting, IdleFlow, FlowState, FlowHolds
<1>3. Starting \in [Kind -> FlowState]
  BY <1>2 DEF Starting
<1> QED BY <1>1, <1>2, <1>3 DEF ShellInv, SaysOffline

LEMMA SetupAnsweredKeepsInv ==
  ASSUME ShellInv, NEW k \in Kind, SetupAnswered(k)
  PROVE  ShellInv'
<1>1. UNCHANGED <<server, device, cache>> /\ shellEvents' \in Nat /\ flow[k].at = "setup"
  BY CountedEvents DEF SetupAnswered
<1>2. CASE flow' = FlowAt(k, "bootstrap") /\ UNCHANGED page
  <2>1. PICK f : f = [flow[k] EXCEPT !.at = "bootstrap"]
    OBVIOUS
  <2>2. FlowHolds(k, f, page')
    BY <1>1, <1>2, <2>1, FlowIsTyped DEF FlowHolds, FlowState
  <2>3. flow' = [flow EXCEPT ![k] = f]
    BY <1>2, <2>1 DEF FlowAt
  <2> QED BY <1>1, <1>2, <2>2, <2>3, FlowIsTyped, AFlowMoves
<1>3. CASE page' = [page EXCEPT !.screen = "setup"] /\ flow' = Ended(k)
  <2>1. PageIsSound(page') /\ SaysOffline(page') /\ Keeps(page')
    BY <1>3, FlowIsTyped DEF PageIsSound, PageState, CutOff, Watching, ShowsLibrary, SaysOffline, Keeps
  <2>2. flow' = [flow EXCEPT ![k] = IdleFlow] /\ FlowHolds(k, IdleFlow, page')
    BY <1>3, IdleHolds DEF Ended
  <2> QED BY <1>1, <2>1, <2>2, FlowIsTyped, AFlowMoves
<1>4. CASE page' = Fresh /\ flow' = Starting
  <2>1. SourcesAreSound'
    BY <1>1 DEF ShellInv, SourcesAreSound
  <2> QED BY <1>4, <2>1, FreshKeepsInv
<1> QED BY <1>2, <1>3, <1>4 DEF SetupAnswered
LEMMA BootstrappedKeepsInv ==
  ASSUME ShellInv, NEW k \in Kind, Bootstrapped(k)
  PROVE  ShellInv'
<1>1. UNCHANGED <<server, device, cache>> /\ shellEvents' \in Nat /\ flow[k].at = "bootstrap"
  BY CountedEvents DEF Bootstrapped
<1>2. CASE SessionRefused
  <2>1. page' = Refusal(k, page) /\ flow' = [flow EXCEPT ![k] = IdleFlow]
    BY <1>2 DEF Bootstrapped, Ended
  <2>2. PageIsSound(page') /\ SaysOffline(page') /\ Keeps(page')
    BY <2>1, FlowIsTyped, RefusalIsSound DEF SaysOffline, Keeps
  <2> QED BY <1>1, <2>1, <2>2, FlowIsTyped, IdleHolds, AFlowMoves
<1>3. CASE ~SessionRefused
  <2>1. PICK c, o : /\ c = (IF k = "reload" THEN "connected" ELSE page.connection)
                    /\ o = (IF k = "reload" THEN FALSE ELSE page.offline)
    OBVIOUS
  <2>2. page' = [page EXCEPT !.known = server.revision, !.connection = c, !.offline = o]
    BY <1>3, <2>1, FlowIsTyped DEF Bootstrapped, PageState
  <2>3. server.revision \in Nat /\ server.revision # 0
    BY DEF ShellInv, SourcesAreSound, ServerState
  <2>4. /\ c \in {"connecting", "connected", "auth-required", "unreachable", "offline"} /\ o \in BOOLEAN
        /\ (c = "offline" => page.connection = "offline") /\ (o => page.offline)
        /\ (k # "reload" => o = page.offline)
    BY <2>1, FlowIsTyped DEF PageState
  <2>5. /\ page' \in PageState /\ page'.known # 0 /\ page'.offline = o /\ page'.connection = c
        /\ page'.library = page.library /\ page'.screen = page.screen /\ page'.surface = page.surface
        /\ page'.view = page.view /\ page'.live = page.live /\ page'.home = page.home
        /\ page'.picture = page.picture /\ page'.poll = page.poll /\ page'.hidden = page.hidden
    BY <2>2, <2>3, <2>4, FlowIsTyped DEF PageState
  <2>6. k = "reload" => page.library # 0
    BY <1>1, FlowIsTyped DEF FlowHolds
  <2>7. PageIsSound(page')
    BY <2>4, <2>5, <2>6, FlowIsTyped DEF PageIsSound, CutOff, Watching, ShowsLibrary
  <2>8. SaysOffline(page') /\ Keeps(page')
    BY <2>4, <2>5, FlowIsTyped DEF SaysOffline, Keeps
  <2>9. CASE k = "reload"
    <3>1. PICK f : f = [IdleFlow EXCEPT !.read = "asked"]
      OBVIOUS
    <3>2. flow' = [flow EXCEPT ![k] = f]
      BY <1>3, <2>9, <3>1 DEF Bootstrapped
    <3>3. FlowHolds(k, f, page')
      BY <3>1 DEF IdleFlow, FlowHolds, FlowState
    <3> QED BY <1>1, <2>7, <2>8, <3>2, <3>3, FlowIsTyped, AFlowMoves
  <2>10. CASE k # "reload"
    <3>1. PICK f : f = [flow[k] EXCEPT !.at = "restore"]
      OBVIOUS
    <3>2. flow' = [flow EXCEPT ![k] = f]
      BY <1>3, <2>10, <3>1 DEF Bootstrapped, FlowAt
    <3>3. FlowHolds(k, f, page')
      BY <2>5, <2>10, <3>1, FlowIsTyped DEF FlowHolds, FlowState
    <3> QED BY <1>1, <2>7, <2>8, <3>2, <3>3, FlowIsTyped, AFlowMoves
  <2> QED BY <2>9, <2>10
<1> QED BY <1>2, <1>3

LEMMA RestoredKeepsInv ==
  ASSUME ShellInv, NEW k \in Kind, Restored(k)
  PROVE  ShellInv'
<1>1. UNCHANGED <<server, device, cache>> /\ shellEvents' \in Nat /\ flow[k].at = "restore"
  BY CountedEvents DEF Restored
<1>2. PICK p : p = IF cache = NoSnapshot THEN page ELSE [page EXCEPT !.library = cache.data]
  OBVIOUS
<1>3. PICK f : f = [flow[k] EXCEPT !.at = "ready", !.awaited = cache = NoSnapshot,
                      !.read = IF cache.revision # page.known THEN "asked" ELSE "none"]
  OBVIOUS
<1>4. flow' = [flow EXCEPT ![k] = f]
  BY <1>3 DEF Restored
<1>5. page' = p \/ page' = Locked(p)
  BY <1>2 DEF Restored
<1>6. /\ PageIsSound(p) /\ SaysOffline(p) /\ Keeps(p)
      /\ p.known = page.known /\ (cache # NoSnapshot => p.library # 0)
  <2>1. CASE cache = NoSnapshot
    BY <1>2, <2>1, FlowIsTyped
  <2>2. CASE cache # NoSnapshot
    <3>1. p = [page EXCEPT !.library = cache.data] /\ cache.data \in Nat /\ cache.data # 0
      BY <1>2, <2>2, FlowIsTyped
    <3> QED
      BY <3>1, FlowIsTyped DEF PageIsSound, PageState, CutOff, Watching, ShowsLibrary, SaysOffline,
         Keeps
  <2> QED BY <2>1, <2>2
<1>7. /\ PageIsSound(page') /\ SaysOffline(page') /\ Keeps(page')
      /\ page'.known = p.known /\ page'.library = p.library
  BY <1>5, <1>6, LockedIsSound DEF SaysOffline, Keeps
<1>8. page.known # 0 /\ k # "reload"
  BY <1>1, FlowIsTyped DEF FlowHolds
<1>9. FlowHolds(k, f, page')
  <2>1. PICK a \in BOOLEAN, r \in {"none", "asked"} :
          /\ a = (cache = NoSnapshot) /\ r = IF cache.revision # page.known THEN "asked" ELSE "none"
    OBVIOUS
  <2>2. f = [flow[k] EXCEPT !.at = "ready", !.awaited = a, !.read = r]
    BY <1>3, <2>1
  <2>3. f \in FlowState /\ f.at = "ready" /\ f.awaited = a /\ f.read = r
    BY <2>2, FlowIsTyped DEF FlowState
  <2>4. NoSnapshot.revision = 0
    BY DEF NoSnapshot
  <2>5. a => cache = NoSnapshot
    BY <2>1
  <2>6. a => cache.revision # page.known
    BY <1>8, <2>4, <2>5
  <2>7. a => r = "asked"
    BY <2>1, <2>6
  <2> QED BY <1>6, <1>7, <1>8, <2>1, <2>3, <2>7 DEF FlowHolds
<1> QED BY <1>1, <1>4, <1>7, <1>9, FlowIsTyped, AFlowMoves

LEMMA OpensPageKeepsInv ==
  ASSUME ShellInv, NEW k \in Kind, OpensPage(k)
  PROVE  ShellInv'
<1>1. /\ UNCHANGED <<server, device, cache>> /\ shellEvents' \in Nat
      /\ flow[k].at = "ready" /\ ~(flow[k].awaited /\ flow[k].read # "none")
  BY CountedEvents DEF OpensPage, Waits
<1>2. page.library # 0 /\ page.known # 0 /\ k # "reload"
  BY <1>1, FlowIsTyped DEF FlowHolds
<1>3. PICK a \in BOOLEAN, o \in BOOLEAN : /\ a = (page.access \/ k = "start")
                                          /\ o = (page.offline /\ k # "reconnect")
  BY FlowIsTyped DEF PageState
<1>4. PICK p : p = [page EXCEPT !.connection = "connected", !.screen = "app", !.access = a, !.offline = o]
  OBVIOUS
<1>5. page' = Requested(p)
  BY <1>3, <1>4, FlowIsTyped DEF OpensPage, PageState
<1>6. /\ p \in PageState /\ p.connection = "connected" /\ p.library = page.library /\ p.known = page.known
      /\ p.view = page.view /\ p.live = page.live /\ p.picture = page.picture /\ p.poll = page.poll
      /\ p.hidden = page.hidden
  BY <1>4, FlowIsTyped DEF PageState
<1>7. Watching(p) /\ ShowsLibrary(p)
  BY <1>2, <1>6, FlowIsTyped DEF PageIsSound, Watching, ShowsLibrary
<1>8. PageIsSound(page') /\ SaysOffline(page') /\ Keeps(page')
  BY <1>5, <1>6, <1>7, RequestedIsSound DEF SameBehind, SaysOffline, Keeps
<1>9. PICK f : f = [flow[k] EXCEPT !.at = "rest", !.awaited = FALSE]
  OBVIOUS
<1>10. flow' = [flow EXCEPT ![k] = f]
  BY <1>9 DEF OpensPage
<1>11. FlowHolds(k, f, page')
  BY <1>2, <1>9, FlowIsTyped DEF FlowHolds, FlowState
<1> QED BY <1>1, <1>8, <1>10, <1>11, FlowIsTyped, AFlowMoves

LEMMA LibraryReadKeepsInv ==
  ASSUME ShellInv, NEW k \in Kind, LibraryRead(k)
  PROVE  ShellInv'
<1>1. UNCHANGED <<server, device, cache>> /\ shellEvents' \in Nat /\ flow[k].read = "asked"
  BY CountedEvents DEF LibraryRead
<1>2. CASE SessionRefused
  <2>1. PICK f : f = IF flow[k].awaited THEN IdleFlow ELSE [flow[k] EXCEPT !.read = "none"]
    OBVIOUS
  <2>2. page' = Refusal(k, page) /\ flow' = [flow EXCEPT ![k] = f]
    BY <1>2, <2>1 DEF LibraryRead
  <2>3. /\ PageIsSound(page') /\ SaysOffline(page') /\ Keeps(page')
        /\ page'.library = page.library /\ page'.known = page.known
    BY <2>2, FlowIsTyped, RefusalIsSound DEF SaysOffline, Keeps
  <2>4. FlowHolds(k, f, page')
    <3>1. CASE flow[k].awaited
      BY <2>1, <3>1, IdleHolds
    <3>2. CASE ~flow[k].awaited
      BY <2>1, <2>3, <3>2, FlowIsTyped DEF FlowHolds, FlowState
    <3> QED BY <3>1, <3>2
  <2> QED BY <1>1, <2>2, <2>3, <2>4, FlowIsTyped, AFlowMoves
<1>3. CASE ~SessionRefused
  <2>1. PICK f : f = [flow[k] EXCEPT !.read = "told", !.data = server.revision]
    OBVIOUS
  <2>2. page' = page /\ flow' = [flow EXCEPT ![k] = f]
    BY <1>3, <2>1, FlowIsTyped DEF LibraryRead, ShellInv
  <2>3. server.revision \in Nat /\ server.revision # 0
    BY DEF ShellInv, SourcesAreSound, ServerState
  <2>4. FlowHolds(k, f, page')
    BY <1>1, <2>1, <2>2, <2>3, FlowIsTyped DEF FlowHolds, FlowState
  <2> QED BY <1>1, <2>2, <2>4, FlowIsTyped, AFlowMoves
<1> QED BY <1>2, <1>3

LEMMA LibraryShownKeepsInv ==
  ASSUME ShellInv, NEW k \in Kind, LibraryShown(k)
  PROVE  ShellInv'
<1>1. UNCHANGED <<server, device>> /\ shellEvents' \in Nat /\ flow[k].read = "told"
  BY CountedEvents DEF LibraryShown
<1>2. flow[k].data \in Nat /\ flow[k].data # 0 /\ server.revision \in Nat /\ server.revision # 0
  BY <1>1, FlowIsTyped DEF FlowHolds, FlowState, ShellInv, SourcesAreSound, ServerState
<1>3. page' = [page EXCEPT !.library = flow[k].data, !.known = server.revision]
  BY DEF LibraryShown
<1>4. /\ PageIsSound(page') /\ SaysOffline(page') /\ Keeps(page')
      /\ page'.library # 0 /\ page'.known # 0
  BY <1>2, <1>3, FlowIsTyped DEF PageIsSound, PageState, CutOff, Watching, ShowsLibrary,
     SaysOffline, Keeps
<1>5. cache' \in [data : Nat, revision : Nat] /\ cache'.data # 0
  BY <1>2 DEF LibraryShown
<1>6. PICK f : f = [flow[k] EXCEPT !.read = "none", !.data = 0]
  OBVIOUS
<1>7. flow' = [flow EXCEPT ![k] = f]
  BY <1>6 DEF LibraryShown
<1>8. FlowHolds(k, f, page')
  BY <1>4, <1>6, FlowIsTyped DEF FlowHolds, FlowState
<1> QED BY <1>1, <1>4, <1>5, <1>7, <1>8, AFlowMoves

LEMMA RefreshFailsKeepsInv ==
  ASSUME ShellInv, NEW k \in Kind, RefreshFails(k)
  PROVE  ShellInv'
<1>1. UNCHANGED <<server, device, page, cache>> /\ shellEvents' \in Nat /\ ~flow[k].awaited
  BY CountedEvents DEF RefreshFails
<1>2. PICK f : f = [flow[k] EXCEPT !.read = "none", !.data = 0]
  OBVIOUS
<1>3. flow' = [flow EXCEPT ![k] = f]
  BY <1>2 DEF RefreshFails
<1>4. FlowHolds(k, f, page')
  BY <1>1, <1>2, FlowIsTyped DEF FlowHolds, FlowState
<1> QED BY <1>1, <1>3, <1>4, FlowIsTyped, AFlowMoves
LEMMA NavigateKeepsInv ==
  ASSUME ShellInv, Navigate
  PROVE  ShellInv'
<1>1. UNCHANGED <<server, device, flow, cache>> /\ shellEvents' \in Nat
  BY CountedEvents DEF Navigate
<1>2. page \in PageState /\ Watching(page) /\ ShowsLibrary(page) /\ SaysOffline(page)
  BY DEF ShellInv, PageIsSound
<1>3. \E v \in View : page' = Routed(page, v) \/ page' = Opened(page, v)
  <2>1. ASSUME NEW s \in {"overview", "watch", "live"}, page' = Section(page, s)
        PROVE  \E v \in View : page' = Routed(page, v)
    <3>1. Destination(page, s) \in View
      BY <1>2 DEF Destination, PageState, View
    <3> QED BY <2>1, <3>1 DEF Section
  <2> QED BY <2>1 DEF Navigate
<1>4. PageIsSound(page') /\ SameBehind(page, page')
  BY <1>2, <1>3, RoutedIsSound, OpenedIsSound
<1> QED BY <1>1, <1>2, <1>4, OnlyThePageMoves DEF SameBehind, SaysOffline, Keeps

LEMMA RetryKeepsInv ==
  ASSUME ShellInv, Retry
  PROVE  ShellInv'
<1>1. UNCHANGED <<server, device, page, cache>> /\ shellEvents' \in Nat /\ "reconnect" \in Kind
  BY CountedEvents DEF Retry, Kind
<1>2. PICK f : f = [IdleFlow EXCEPT !.at = "setup"]
  OBVIOUS
<1>3. flow' = [flow EXCEPT !["reconnect"] = f]
  BY <1>2 DEF Retry, Begin
<1>4. FlowHolds("reconnect", f, page')
  BY <1>2 DEF IdleFlow, FlowHolds, FlowState
<1> QED BY <1>1, <1>3, <1>4, FlowIsTyped, AFlowMoves

LEMMA ReloadKeepsInv ==
  ASSUME ShellInv, Reload
  PROVE  ShellInv'
<1>1. /\ UNCHANGED <<server, device, page, cache>> /\ shellEvents' \in Nat /\ "reload" \in Kind
      /\ page.library # 0
  BY CountedEvents DEF Reload, Kind
<1>2. PICK f : f = [IdleFlow EXCEPT !.at = "bootstrap"]
  OBVIOUS
<1>3. flow' = [flow EXCEPT !["reload"] = f]
  BY <1>2 DEF Reload, Begin
<1>4. FlowHolds("reload", f, page')
  BY <1>1, <1>2 DEF IdleFlow, FlowHolds, FlowState
<1> QED BY <1>1, <1>3, <1>4, FlowIsTyped, AFlowMoves

\* The Pi changes under the page.
LEMMA OnlyThePiMoves ==
  ASSUME ShellInv, UNCHANGED <<device, flow, cache>>, shellEvents' \in Nat,
         server' \in ServerState, server'.revision # 0,
         PageIsSound(page'), SaysOffline(page'), Keeps(page')
  PROVE  ShellInv'
BY DEF ShellInv, SaysOffline, SourcesAreSound, FlowHolds, Keeps

LEMMA SignInKeepsInv ==
  ASSUME ShellInv, SignIn
  PROVE  ShellInv'
<1>1. UNCHANGED <<device, cache>> /\ shellEvents' \in Nat /\ "login" \in Kind
  BY CountedEvents DEF SignIn, Kind
<1>2. page' = [page EXCEPT !.access = TRUE] /\ server' = [server EXCEPT !.session = TRUE]
  BY DEF SignIn
<1>3. PageIsSound(page') /\ SaysOffline(page') /\ Keeps(page')
  BY <1>2, PageIsTyped DEF PageIsSound, PageState, CutOff, Watching, ShowsLibrary, SaysOffline, Keeps
<1>4. server' \in ServerState /\ server'.revision # 0
  BY <1>2 DEF ShellInv, SourcesAreSound, ServerState
<1>5. PICK f : f = [IdleFlow EXCEPT !.at = "bootstrap"]
  OBVIOUS
<1>6. flow' = [flow EXCEPT !["login"] = f]
  BY <1>5 DEF SignIn, Begin
<1>7. f \in FlowState /\ FlowHolds("login", f, page')
  BY <1>5 DEF IdleFlow, FlowHolds, FlowState
<1>8. \A j \in Kind : FlowHolds(j, flow'[j], page')
  BY <1>1, <1>3, <1>6, <1>7 DEF ShellInv, FlowHolds, Keeps
<1>9. flow' \in [Kind -> FlowState]
  BY <1>6, <1>7 DEF ShellInv
<1> QED BY <1>1, <1>3, <1>4, <1>8, <1>9 DEF ShellInv, SourcesAreSound, SaysOffline

LEMMA LockKeepsInv ==
  ASSUME ShellInv, Lock
  PROVE  ShellInv'
<1>1. UNCHANGED <<device, cache>> /\ shellEvents' \in Nat
  BY CountedEvents DEF Lock
<1>2. CASE device.online
  <2>1. server' = [server EXCEPT !.session = FALSE] /\ page' = Fresh /\ flow' = Starting
    BY <1>2 DEF Lock
  <2>2. SourcesAreSound'
    BY <1>1, <2>1 DEF ShellInv, SourcesAreSound, ServerState
  <2> QED BY <2>1, <2>2, FreshKeepsInv
<1>3. CASE ~device.online
  <2>1. page' = [page EXCEPT !.access = FALSE] /\ UNCHANGED <<server, flow>>
    BY <1>3 DEF Lock
  <2>2. PageIsSound(page') /\ SaysOffline(page') /\ Keeps(page')
    BY <2>1, PageIsTyped DEF PageIsSound, PageState, CutOff, Watching, ShowsLibrary, SaysOffline, Keeps
  <2> QED BY <1>1, <2>1, <2>2, OnlyThePageMoves
<1> QED BY <1>2, <1>3

LEMMA SetUpKeepsInv ==
  ASSUME ShellInv, SetUp
  PROVE  ShellInv'
<1>1. UNCHANGED <<device, flow, cache>> /\ shellEvents' \in Nat /\ page.screen = "setup"
  BY CountedEvents DEF SetUp
<1>2. ASSUME NEW step \in Nat, page' = [page EXCEPT !.step = step]
      PROVE  PageIsSound(page') /\ SaysOffline(page') /\ Keeps(page')
  BY <1>2, PageIsTyped DEF PageIsSound, PageState, CutOff, Watching, ShowsLibrary, SaysOffline, Keeps
<1>3. page.step \in Nat /\ page.step + 1 \in Nat /\ (page.step > 1 => page.step - 1 \in Nat) /\ 1 \in Nat
  BY PageIsTyped DEF PageState
<1>4. server \in ServerState /\ server.revision # 0
  BY DEF ShellInv, SourcesAreSound
<1>5. CASE UNCHANGED server /\ \E step \in Nat : page' = [page EXCEPT !.step = step]
  BY <1>1, <1>2, <1>5, OnlyThePageMoves
<1>6. CASE /\ page' = [page EXCEPT !.access = FALSE, !.screen = "login"]
           /\ server' = [server EXCEPT !.configured = TRUE]
  <2>1. PageIsSound(page') /\ SaysOffline(page') /\ Keeps(page')
    BY <1>6, PageIsTyped DEF PageIsSound, PageState, CutOff, Watching, ShowsLibrary, SaysOffline, Keeps
  <2>2. server' \in ServerState /\ server'.revision # 0
    BY <1>4, <1>6 DEF ServerState
  <2> QED BY <1>1, <2>1, <2>2, OnlyThePiMoves
<1> QED BY <1>3, <1>5, <1>6 DEF SetUp

LEMMA LookKeepsInv ==
  ASSUME ShellInv, Look
  PROVE  ShellInv'
<1>1. UNCHANGED <<server, device, flow, cache>> /\ shellEvents' \in Nat
  BY CountedEvents DEF Look
<1>2. PICK q \in {"none", "sent"}, h \in BOOLEAN, f \in BOOLEAN :
        /\ q = (IF page.hidden /\ page.live THEN "sent" ELSE "none")
        /\ h = ~page.hidden /\ f = (page.picture /\ page.hidden)
  OBVIOUS
<1>3. page' = [page EXCEPT !.hidden = h, !.picture = f, !.poll = q]
  BY <1>2, PageIsTyped DEF Look, PageState
<1>4. (q = "sent" => page.hidden) /\ (h <=> ~page.hidden) /\ (f => page.picture /\ page.hidden)
  BY <1>2
<1>5. PageIsSound(page') /\ SaysOffline(page') /\ Keeps(page')
  <2>1. /\ page' \in PageState /\ page'.hidden = h /\ page'.picture = f /\ page'.poll = q
        /\ page'.library = page.library /\ page'.screen = page.screen /\ page'.surface = page.surface
        /\ page'.view = page.view /\ page'.live = page.live /\ page'.home = page.home
        /\ page'.known = page.known /\ page'.offline = page.offline
        /\ page'.connection = page.connection
    BY <1>3, PageIsTyped DEF PageState
  <2> QED BY <1>4, <2>1, PageIsTyped DEF PageIsSound, CutOff, Watching, ShowsLibrary, SaysOffline, Keeps
<1> QED BY <1>1, <1>5, OnlyThePageMoves

\* The status is asked for only while the page is looked at.
LEMMA PolledIsSound ==
  ASSUME ShellInv, NEW q \in {"none", "sent", "told", "denied"}, q # "none" => ~page.hidden,
         page' = [page EXCEPT !.poll = q]
  PROVE  PageIsSound(page') /\ SaysOffline(page') /\ Keeps(page')
BY PageIsTyped DEF PageIsSound, PageState, CutOff, Watching, ShowsLibrary, SaysOffline, Keeps

LEMMA AskKeepsInv ==
  ASSUME ShellInv, Ask \/ Command
  PROVE  ShellInv'
<1>1. UNCHANGED <<server, device, flow, cache>> /\ shellEvents' \in Nat
  BY CountedEvents DEF Ask, Command
<1>2. page' = [page EXCEPT !.poll = "sent"] /\ ~page.hidden
  BY DEF Ask, Command
<1> QED BY <1>1, <1>2, PolledIsSound, OnlyThePageMoves

LEMMA PiAnswersKeepsInv ==
  ASSUME ShellInv, PiAnswers
  PROVE  ShellInv'
<1>1. UNCHANGED <<server, device, flow, cache>> /\ shellEvents' \in Nat
  BY CountedEvents DEF PiAnswers
<1>2. PICK q \in {"told", "denied"} : page' = [page EXCEPT !.poll = q]
  BY DEF PiAnswers
<1>3. ~page.hidden
  BY DEF PiAnswers, ShellInv, PageIsSound, Watching
<1> QED BY <1>1, <1>2, <1>3, PolledIsSound, OnlyThePageMoves

LEMMA StatusAnsweredKeepsInv ==
  ASSUME ShellInv, StatusAnswered
  PROVE  ShellInv'
<1>1. UNCHANGED <<server, device, flow, cache>> /\ shellEvents' \in Nat
  BY CountedEvents DEF StatusAnswered
<1>2. PICK p : p = [page EXCEPT !.poll = "none"]
  OBVIOUS
<1>3. /\ p \in PageState /\ p.poll = "none" /\ p.live = page.live /\ p.picture = page.picture
      /\ p.hidden = page.hidden /\ p.view = page.view /\ p.offline = page.offline
      /\ p.surface = page.surface /\ p.home = page.home /\ p.screen = page.screen
      /\ p.library = page.library /\ p.known = page.known /\ p.connection = page.connection
  BY <1>2, PageIsTyped DEF PageState
<1>4. PageIsSound(p)
  BY <1>3, PageIsTyped DEF PageIsSound, CutOff, Watching, ShowsLibrary
<1>5. ~page.hidden
  BY DEF StatusAnswered, ShellInv, PageIsSound, Watching
<1>6. page' = Locked(p) \/ page' = p \/ page' = [p EXCEPT !.picture = page.live]
  BY <1>2 DEF StatusAnswered
<1>7. CASE page' = Locked(p)
  BY <1>1, <1>3, <1>4, <1>7, LockedIsSound, OnlyThePageMoves DEF SaysOffline, Keeps
<1>8. CASE page' = p
  BY <1>1, <1>3, <1>4, <1>8, PageIsTyped, OnlyThePageMoves DEF SaysOffline, Keeps
<1>9. CASE page' = [p EXCEPT !.picture = page.live]
  <2>1. PICK o : o = [p EXCEPT !.picture = page.live]
    OBVIOUS
  <2>2. page.live \in BOOLEAN
    BY PageIsTyped DEF PageState
  <2>3. /\ o \in PageState /\ o.picture = p.live /\ o.poll = p.poll /\ o.live = p.live
        /\ o.hidden = p.hidden /\ o.view = p.view /\ o.offline = p.offline
        /\ o.surface = p.surface /\ o.home = p.home /\ o.screen = p.screen
        /\ o.library = p.library /\ o.known = p.known /\ o.connection = p.connection
    BY <1>3, <2>1, <2>2 DEF PageState
  <2>4. PageIsSound(o)
    BY <1>3, <1>4, <1>5, <2>3 DEF PageIsSound, CutOff, Watching, ShowsLibrary
  <2> QED BY <1>1, <1>3, <1>9, <2>1, <2>3, <2>4, PageIsTyped, OnlyThePageMoves DEF SaysOffline, Keeps
<1> QED BY <1>6, <1>7, <1>8, <1>9

LEMMA UnansweredKeepsInv ==
  ASSUME ShellInv, Unanswered
  PROVE  ShellInv'
<1>1. UNCHANGED <<server, device, flow, cache>> /\ shellEvents' \in Nat
  BY CountedEvents DEF Unanswered
<1>2. page' = [page EXCEPT !.poll = "none"]
  BY DEF Unanswered
<1> QED BY <1>1, <1>2, PolledIsSound, OnlyThePageMoves

LEMMA CalledKeepsInv ==
  ASSUME ShellInv, Called
  PROVE  ShellInv'
<1>1. UNCHANGED <<server, device, flow, cache>> /\ shellEvents' \in Nat /\ page' = Locked(page)
  BY CountedEvents DEF Called
<1> QED BY <1>1, PageIsTyped, LockedIsSound, OnlyThePageMoves DEF SaysOffline, Keeps

LEMMA LosesNetworkKeepsInv ==
  ASSUME ShellInv, LosesNetwork
  PROVE  ShellInv'
<1>1. UNCHANGED <<server, flow, cache>> /\ shellEvents' \in Nat
  BY CountedEvents DEF LosesNetwork
<1>2. device' \in [online : BOOLEAN, storage : BOOLEAN] /\ device'.online = FALSE
  BY PageIsTyped DEF LosesNetwork
<1>3. PICK p : p = [page EXCEPT !.offline = TRUE, !.connection = "offline"]
  OBVIOUS
<1>4. /\ p \in PageState /\ p.offline = TRUE /\ p.poll = page.poll /\ p.live = page.live
      /\ p.picture = page.picture /\ p.hidden = page.hidden /\ p.view = page.view
      /\ p.library = page.library /\ p.known = page.known /\ page.view \in View
  BY <1>3, PageIsTyped DEF PageState
<1>5. Watching(p) /\ ShowsLibrary(p)
  BY <1>4, PageIsTyped DEF PageIsSound, Watching, ShowsLibrary
<1>6. page' = Opened(p, page.view)
  BY <1>3 DEF LosesNetwork
<1>7. PageIsSound(page') /\ Keeps(page')
  BY <1>4, <1>5, <1>6, OpenedIsSound DEF SameBehind, Keeps
<1> QED BY <1>1, <1>2, <1>7 DEF ShellInv, SaysOffline, SourcesAreSound, FlowHolds, Keeps

LEMMA FindsNetworkKeepsInv ==
  ASSUME ShellInv, FindsNetwork
  PROVE  ShellInv'
<1>1. UNCHANGED <<server, cache>> /\ shellEvents' \in Nat
  BY CountedEvents DEF FindsNetwork
<1>2. device' \in [online : BOOLEAN, storage : BOOLEAN]
  BY PageIsTyped DEF FindsNetwork
<1>3. page' = [page EXCEPT !.connection = "connecting"]
  BY DEF FindsNetwork
<1>4. PageIsSound(page') /\ Keeps(page') /\ page'.connection = "connecting"
  BY <1>3, PageIsTyped DEF PageIsSound, PageState, CutOff, Watching, ShowsLibrary, Keeps
<1>5. PICK f : f = [IdleFlow EXCEPT !.at = "setup"]
  OBVIOUS
<1>6. UNCHANGED flow \/ flow' = [flow EXCEPT !["reconnect"] = f]
  BY <1>5 DEF FindsNetwork, Begin
<1>7. FlowHolds("reconnect", f, page') /\ f \in FlowState /\ "reconnect" \in Kind
  BY <1>5 DEF IdleFlow, FlowHolds, FlowState, Kind
<1>8. flow' \in [Kind -> FlowState] /\ \A k \in Kind : FlowHolds(k, flow'[k], page')
  BY <1>4, <1>6, <1>7 DEF ShellInv, FlowHolds, Keeps
<1> QED BY <1>1, <1>2, <1>4, <1>8 DEF ShellInv, SaysOffline, SourcesAreSound

LEMMA PiChangesKeepsInv ==
  ASSUME ShellInv, PiChanges
  PROVE  ShellInv'
<1>1. UNCHANGED <<device, page, flow, cache>> /\ shellEvents' \in Nat
  BY CountedEvents DEF PiChanges
<1>2. server \in ServerState /\ server.revision \in Nat /\ server.revision # 0
  BY DEF ShellInv, SourcesAreSound, ServerState
<1>3. server' \in ServerState /\ server'.revision # 0
  <2>1. PICK n \in Nat : n = server.revision + 1
    BY <1>2
  <2>2. server' = [server EXCEPT !.revision = n] \/ server' = [server EXCEPT !.session = FALSE]
    BY <2>1 DEF PiChanges
  <2>3. n # 0
    BY <1>2, <2>1
  <2> QED BY <1>2, <2>2, <2>3 DEF ServerState
<1> QED BY <1>1, <1>3, PageIsTyped, OnlyThePiMoves

LEMMA LaunchKeepsInv ==
  ASSUME ShellInv, Launch
  PROVE  ShellInv'
<1>1. UNCHANGED <<server, device, cache>> /\ shellEvents' \in Nat /\ page' = Fresh /\ flow' = Starting
  BY CountedEvents DEF Launch
<1>2. SourcesAreSound'
  BY <1>1 DEF ShellInv, SourcesAreSound
<1> QED BY <1>1, <1>2, FreshKeepsInv

LEMMA ShellInitHasInv == ShellInit => ShellInv
<1> SUFFICES ASSUME ShellInit PROVE ShellInv
  OBVIOUS
<1>1. PageIsSound(page) /\ SaysOffline(page)
  BY DEF ShellInit, Fresh, PageIsSound, PageState, View, CutOff, Watching, ShowsLibrary, SaysOffline
<1>2. flow \in [Kind -> FlowState] /\ \A k \in Kind : FlowHolds(k, flow[k], page)
  BY DEF ShellInit, Starting, IdleFlow, FlowState, FlowHolds
<1>3. server \in ServerState /\ server.revision # 0
  <2>1. PICK c \in BOOLEAN, p \in BOOLEAN, r \in BOOLEAN, s \in BOOLEAN :
          server = [configured |-> c, pinned |-> p, recovering |-> ~c /\ r, session |-> s, revision |-> 1]
    BY DEF ShellInit
  <2>2. (~c /\ r) \in BOOLEAN
    OBVIOUS
  <2> QED BY <2>1, <2>2 DEF ServerState
<1>4. device \in [online : BOOLEAN, storage : BOOLEAN] /\ shellEvents \in Nat
  BY DEF ShellInit
<1>5. cache \in [data : Nat, revision : Nat] /\ (cache # NoSnapshot => cache.data # 0)
  BY DEF ShellInit, NoSnapshot
<1> QED BY <1>1, <1>2, <1>3, <1>4, <1>5 DEF ShellInv, SourcesAreSound

LEMMA ShellStandsKeepsInv ==
  ASSUME ShellInv, UNCHANGED shellVars
  PROVE  ShellInv'
BY DEF shellVars, ShellInv, SaysOffline, SourcesAreSound

LEMMA ShellNextKeepsInv ==
  ASSUME ShellInv, [ShellNext]_shellVars
  PROVE  ShellInv'
<1>1. ASSUME NEW k \in Kind, Advance(k) \/ Fails(k) \/ RefreshFails(k)
      PROVE  ShellInv'
  BY <1>1, SetupAnsweredKeepsInv, BootstrappedKeepsInv, RestoredKeepsInv, OpensPageKeepsInv,
     LibraryReadKeepsInv, LibraryShownKeepsInv, FailsKeepsInv, RefreshFailsKeepsInv DEF Advance
<1>2. CASE Navigate \/ Retry \/ Reload \/ SignIn \/ Lock \/ SetUp \/ Look
  BY <1>2, NavigateKeepsInv, RetryKeepsInv, ReloadKeepsInv, SignInKeepsInv, LockKeepsInv, SetUpKeepsInv,
     LookKeepsInv
<1>3. CASE Ask \/ Command \/ PiAnswers \/ StatusAnswered \/ Unanswered \/ Called
  BY <1>3, AskKeepsInv, PiAnswersKeepsInv, StatusAnsweredKeepsInv, UnansweredKeepsInv, CalledKeepsInv
<1>4. CASE LosesNetwork \/ FindsNetwork \/ PiChanges \/ Launch
  BY <1>4, LosesNetworkKeepsInv, FindsNetworkKeepsInv, PiChangesKeepsInv, LaunchKeepsInv
<1> QED BY <1>1, <1>2, <1>3, <1>4, ShellStandsKeepsInv DEF ShellNext

\* Type correctness of the page, its flows, its cache and the Pi it knows.
THEOREM ShellTypeCorrect == ShellSpec => []ShellTypeOK
<1>1. ShellInit => ShellInv
  BY ShellInitHasInv
<1>2. ShellInv /\ [ShellNext]_shellVars => ShellInv'
  BY ShellNextKeepsInv
<1>3. ShellInv => ShellTypeOK
  BY DEF ShellInv, PageIsSound, SourcesAreSound, ShellTypeOK
<1> QED BY <1>1, <1>2, <1>3, PTL DEF ShellSpec

\* However many starts, sign-ins, reconnections, reloads and faults overlap, the
\* page says so when it is cut off, opens with a library it has, and fetches the
\* television's picture only while it is looked at (core/navigation.js, load.js).
THEOREM ShellStaysHonest == ShellSpec => []ShellIsHonest
<1>1. ShellInit => ShellInv
  BY ShellInitHasInv
<1>2. ShellInv /\ [ShellNext]_shellVars => ShellInv'
  BY ShellNextKeepsInv
<1>3. ShellInv => ShellIsHonest
  BY DEF ShellInv, PageIsSound, SaysOffline, CutOff, Watching, ShowsLibrary, ShellIsHonest,
     CutOffPageSaysSo,
         OpenPageHasLibrary, PictureOnlyWhenWatched
<1> QED BY <1>1, <1>2, <1>3, PTL DEF ShellSpec
=============================================================================
