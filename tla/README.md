# MabelTV: TLA+ models and proofs

MabelTV turns a Raspberry Pi into a child's television. This directory holds
TLA+ models of the parts of MabelTV where several programs share state or where
a long sequence of ordinary steps decides what a child sees next, the TLC
configurations that check them, and proofs that TLAPS checks. Paths are relative
to the repository root; `src/core`, `src/library`, `src/media`, `src/qml` hold the
native player, `scripts/pi/mabeltv_backend` the Library service and
`scripts/pi/portal` the browser portal.

## 1. The system

| Component | Where | State it keeps | Operations | What is hard | What makes it correct |
|---|---|---|---|---|---|
| Up Next queue database | `src/core/MabelQueueState.cpp`, `repositories/mabel_queue.py`, `repositories/playlists.py`, `database_schema.py` | entries, state row (owner, phase, current entry, resume position, flags), history, repeat snapshot | reserve, confirm, advance, previous, stop, fail, select, events, edits, playlist copies, channel deletion | two programs and many request threads write one row; a trigger inserts rows behind a DELETE | owner, phase and current entry agree; only what was playing is consumed; a repeating list never runs out |
| Up Next hand-over | `mabel_queue.py`, `remote.py`, `src/core/TvControllerQueue.cpp`, `src/qml/MabelQueueCoordinator.qml`, `portal/js/playback/mabel-queue.js` | request threads, the remote stream, browser players, a deferred start | play on TV, watch on this device, automatic next entry | multi-step requests, late signals, lost browsers | the queue says what is on the screen, and a started entry is played or given back |
| Channel timeline | `src/core/TvControllerPlayback.cpp`, `TvControllerActions.cpp`, `TvControllerPortal.cpp`, `TvControllerPersistence.cpp`, `TvController.cpp` | per channel: programme, anchor and its time, stored positions, leaving times, failed and hidden programmes, bag | tune, leave, next, random, restart, choose by name, hide, fail, pause, sleep, change mode, restart, reload | a dozen paths must freeze, mark and prepare in the right order; what was chosen now is resolved when the tuning timer fires | a programme goes on where it was left; the guide tells the truth; nothing is asked beyond the end of a file |
| Shuffle bag | `src/library/ShuffleBag.cpp` | items left in the round, last item | take, refill | first item of a new round | once per round, never twice running |
| My TV resume writer | `src/core/MyTvResumeWriter.cpp`, `src/core/StateDatabase.cpp` | a waiting bookmark per film, one in flight, a retry timer | save, start, finish, retry, flush | failures, snapshots of the same rows, shutdown | the last bookmark wins and is never dropped |
| My TV progress | `portal/js/playback/progress.js`, `players.js`, `playback_progress.py`, `repositories/playback.py`, `remote.py` | outbox and memory of every phone, the film's row, the television's bookmark | checkpoint, flush, acknowledge, apply, clear, choose where to resume | late, repeated, reordered and lost requests; pages that go away | the newest thing anybody watched wins, a phone never loses its own |
| Native navigation, parent access and settings | `src/core/TvController*.cpp`, `src/qml/RemoteInputHandler.qml` | tuned channel, numeric entry, lock, volume | remote keys, portal commands | timers that outlive the state they were started in | a locked remote stays locked; only enabled channels are reachable |
| Decoder | `src/media/MpvVideo.cpp` and the rest of `src/media` | load in progress, end reason | play, stop, events | events of the file before | one ended or failed per started file |
| Channel library and media index | `src/library/ChannelLibrary.cpp`, `MediaIndex.cpp` | scan results | scan, probe | files that change during a scan | (file system I/O) |
| State database | `src/core/StateDatabase.cpp`, `database.py`, `database_schema.py` | settings, viewing and library state, revisions | load, save, migrate | two writers of the same rows | both programs read what either has written |
| CEC, display, start-up, watchdogs | `src/hardware`, `src/app/main.cpp`, `src/diagnostics` | TV power, decoder health | power, restart | hardware timing | |
| Uploads, conversion, compression | `portal/js/actions.js`, `uploads.py`, `transcoding.py`, `compression.py` | a manifest and a part file per upload, one transfer slot, the worker's queue | create, chunk, start, pause, resume, retry, cancel, publish | threads that hold different locks, lost answers, restarts of the service | a part file is a beginning of the video, what was received is prepared, the slot is never lost |
| Remote viewing, live streams, USB | `remote.py`, `live_stream.py`, `usb.py` | tokens, one stream, drives | start, heartbeat, release, expire | expiry against late requests | one viewer at a time |
| Viewing, family media, notifications | `viewing*.py`, `family_*.py`, `upload_notifications.py` | samples, collections, an outbox | record, merge, deliver | out-of-order samples, retries | |
| Sign-in, system, HTTP | `auth.py`, `system.py`, `http.py` | sessions, throttle | sign in, restart, update | lockout windows | |
| Studio's processing queue | `tools/studio/lib/queue.cjs`, `stage-resources.cjs`, `media-cleanup.cjs`, `portal.cjs`, `store.cjs` | a journal of jobs, slots per stage, timers, working files | add, download, prepare, upload, wait, retry, cancel, clean up | awaits of the Pi between reading the journal and writing it, aborts in the moment of a hand-over | nothing cancelled is published, no only copy is removed, a waiting job is taken up again |
| Studio companion | `tools/studio/lib/companion.cjs`, `companion-jobs.cjs`, `companion-cleanup.cjs`, `repositories/studio.py` | claims and leases on the Pi, runs and copies on the laptop | poll, claim, report, stop, publish, archive, free | leases that end while the work goes on, answers older than the work | a job is complete when it is done, an expired lease can be recovered |
| Downloads on a phone | `mabeltv-offline.js`, `service-worker.js`, `portal/js/playback/downloads.js` | manifests and parts in IndexedDB, one controller per video | start, pause, resume, remove, play | runs that overlap a removal or another run, a full phone | a video shown as ready is whole |
| My TV records and cards in the browser | `portal/js/my-tv-viewing/*.js`, `core/load.js`, `ui-components.js`, `my_tv_metadata.py` | optimistic records, snapshots with revisions, a journey of open cards | edit, roll back, refresh, open, back, forward, mark episodes | answers that arrive late or out of order, roll-backs into a list that was renewed | a page at rest and a snapshot that is trusted are what the Pi has; a card shows its own title |
| Player of films and episodes on a phone | `portal/js/playback/players.js`, `stream-recovery.js`, `remote.py` | a generation, a session, the one stream of the Pi | open, recover, next episode, close | everything awaits the Pi or the phone's database | only what was asked plays, and a closed player holds no stream |
| Pages of the portal | `portal/js/core`, `playback/mabel-queue.js`, `playback/my-tv-series.js`, `playback/film-library.js`, `family/*.js`, `library/*.js`, `my-tv-viewing/explore.js`, `up-next-order.js` | what was last read, optimistic orders, open sheets and what they lead back to, timers, snapshots | open, go back, edit, move, confirm, read again, reconnect | reads that are shared or overlap edits, close events after the fact, objects that a reload replaced | a page says what the Pi has once it is left in peace, and a button acts on what it was drawn for |
| Integrations, packaging | `integrations`, `packaging`, `scripts` | pairing | install, announce | | |

The native player and the Library service are separate processes. They share the
SQLite database (every transaction `BEGIN IMMEDIATE`) and a Unix socket on which
the service sends commands: `PortalControlServer` answers `ok` when a command has
been *queued* in the Qt event loop, not when it has been executed. Inside the
player one event loop runs keys, timers, decoder signals and queued commands; only
the resume writer has a thread of its own. Browsers speak HTTP with the service,
whose request threads run concurrently.

## 2. Modules

| Module | What it models |
|---|---|
| `MabelQueueStore` | The queue tables, the repeat trigger and every transaction on them, under the most general client. |
| `MabelQueuePlayback` | The clients of that store: the player's event loop, `play_queue_on_tv`, `start_remote_stream`, the browser player and the parent's edits. EXTENDS the store and implements its specification. |
| `ShuffleBag`, `ShuffleBagRounds` | The bag as operators, and a specification that draws from it for ever (used by the proofs only; the timeline draws from the bag too). |
| `ChannelTimeline` | Everything the player does with one channel. EXTENDS `ShuffleBag`. |
| `MyTvResumeWriter` | The television's bookmarks from memory to disk. |
| `MyTvProgress` | The phones, the service and the television's bookmark, and where a film resumes. |
| `MyTvViewing` | Edits of one title of My TV in a page, the Pi's answers, the page's two ways of reading its list again, and the snapshot the next start paints from. |
| `LocalSeries`, `FilmSheets`, `MyTvSheets` | The sheets of a series kept on the Pi and of a film: which sheet leads back where, and which object a late answer changes; and both together. |
| `MyTvExplore`, `UpNextOrder` | The feed of suggestions with its paging and feedback; the personal Up Next list under a finger. |
| `EpisodeMarks` | Ticking episodes of a series one after the other. |
| `ContentCards` | The stack of cards of titles and people, the answers that paint them, and Back and Forward. |
| `RemotePlayer` | The player of films, episodes, USB files and downloads on a phone, and the one stream of the Pi. |
| `OfflineVideos` | Videos kept on the phone: runs of a download, the parts, the manifest, and what the service worker serves. |
| `PortalShell` | The portal's frame: start, sign-in, reconnection, views, bottom navigation, polls. |
| `UpNextPage`, `PlaylistPage` | The page of Mabel's Up Next with its buttons and questions; a saved playlist under its arrows. |
| `ChannelPages`, `ViewingInsights` | Channel pages while channels are renumbered; the insights with their resources, snapshots and deletions. |
| `FamilyLibrary`, `FamilyPlayer` | The gallery of photos and videos the Pi prepares; stories and memories in one dialog. |
| `PortalUploads` | Browser pages that upload, the service's threads, the owner's actions and the conversion worker. |
| `StageGate`, `FifoSlots` | One semaphore of the Studio with its abort signals, and the first-come-first-served slots it stands for. |
| `StudioQueue` | The laptop's processing queue, with a `StageGate` per stage. |
| `StudioCompanion` | One portal job between the Pi and the laptops that may do it. |
| `MabelQueueStoreProofs`, `MabelQueuePlaybackProofs`, `StudioCompanionProofs` | Theorems about the module of that name, for all values of its constants. |
| `NativeCoreProofs` | Theorems about `ShuffleBag`, `MyTvResumeWriter` and `ChannelTimeline`. |
| `PhoneProofs` | Theorems about `MyTvProgress`, `RemotePlayer`, `FamilyLibrary`, `ViewingInsights`, `LocalSeries` and `FilmSheets`. |
| `PiProofs` | Theorems about `PortalUploads`, `PlaylistPage`, `UpNextPage` and `MyTvViewing`. |
| `PortalProofs` | Theorems about `EpisodeMarks`, `OfflineVideos`, `FamilyPlayer`, `ContentCards` and `PortalShell`. |
| `StudioQueueProofs` | Theorems about `StageGate` and `StudioQueue`. |
| `MCMabelQueuePlayback`, `MCChannelTimeline`, `MCStudioQueue` | Small instances for TLC. |
| `MCMabelQueueStore`, `MCMyTvProgress`, `MCMyTvRecords`, `MCClients` | Small instances that also put programs side by side, see below. |

**Side by side.** Many programs of the portal share no table, file or request
with each other. Four MC modules check several of them in one run: a variable `atWork`,
chosen in the initial state and never changed, says which one moves in this behaviour;
the others rest in one initial state. So the reachable states are the union of those of the
parts, not their product, and each property is checked against every behaviour of its
own part. A module that theorems are proved about is EXTENDed by the MC module that
checks it, so that run and theorem speak of the same definition; the others are
instances.

### MabelQueueStore

`db` is one record: the entry table (`entries`, identity to position and
programme), the state row (`current`, `owner`, `phase`, `active`, `paused`,
`completed`, `ending`, `repeat`, `position`), `history`, the repeat snapshot
`cycle`, the `channels` that still exist and the next fresh identity `nextId`
(identities are UUIDs in the code; the model hands out numbers). Each transaction
is an operator from the database before it to the database after it. Abstractions:

* one programme stands for one file of one channel, so deleting a channel deletes
  one programme's entries;
* a resume position is the programme it was measured in, which is what the
  properties tell apart, never a number of seconds;
* titles, artwork and error texts are left out.

A transaction that raises `ValueError` rolls back, so its `...Ok` operator is the
guard of the step. `RowsAreUnique` is the reason the SQLite `UNIQUE` constraints
never abort a transaction.

### MabelQueuePlayback

`tv` is the player (mode, programme, the entry it was loaded for, the video
pipeline, the deferred start), `commands` its queue of socket commands, `play` and
`open` the two multi-step requests of the service, `session` the one remote stream
with its queue entry, `player` the browser player of every stream token. One action
is one handler of the event loop, one step of a request thread between two
transactions, or one callback of the browser. `remote_session` and
`start_remote_stream` take the same lock, so a browser's event waits while a stream
is being opened (`open = Idle`).

`Faults` selects what else may happen: `"retune"` (a disabled channel or programme
or a reloaded library changes the programme and leaves the queue alone), `"crash"`
(watchdog or crash), `"lost"` (a browser vanishes and its stream expires) and
`"timeout"` (the socket times out although the command is executed later).

### ShuffleBag and ChannelTimeline

`Take` returns the set of outcomes of `ShuffleBag::take`, one for every order
`std::shuffle` may produce; `TakeUntil(bag, usable)` is the loop of
`takeUsableEpisode` around it, computed from the last usable item of what is left
(`LastUsable`) and of a refill (`FromRefill`) instead of step by step.

`ChannelTimeline` is one channel as the viewer sees it. `rt` is the
`ChannelRuntime`; the code's absolute times (`anchorMilliseconds`,
`programmeLastLeftMilliseconds`) are times that have passed (`rt.idle`, `rt.left`), so the
clock needs no bound of its own. `picture` is what `m_tuning`, `m_noSignal` and
the decoder make of the screen and `real` is the position of the picture, which
the code can only estimate. `seen` and `asked` are history: where each programme
was last seen, and which programme was chosen while the channel tunes. The
operators `Freeze`, `MarkLeft`, `Prepare`, `Visit`, `Sanitised`, `Clamped`,
`Resolved`, `SavedPosition` and `Loaded` carry the names of the C++ functions and
are composed by each action in the order in which its handler calls them.
Randomness (`seedTimeline`, `std::shuffle`) is nondeterminism.

What the model leaves out of this component: dragging the progress bar; other
channels (`LeaveChannel` and `ReturnToChannel` stand for any visit elsewhere); a
crash between two saves (`RestartProcess` ends in an orderly save,
`WatchdogRestart` in the save its handler makes); the Up Next queue. Facts a
reader may stumble over, all of them in the code: `playPortalProgramme` for the
channel that is on does not freeze it first; a library scan that ends during
tuning stops the tuning timer (`picture = "black"`) and one that ends in standby
leaves nothing tuned; changing the playback mode freezes every channel; hiding and
showing a programme inside the 450 ms of tuning can leave the inactivity clock
running, which is why the settings with positions have no `"hide"`.

### MyTvResumeWriter

`memory` is `m_myTvPlaybackPositions` with its times, `row` the table
`my_tv_resume`, `pending`, `saving` and `retrying` are `m_pending`,
`m_current`/`m_busy` and `m_retry`. The background thread is two actions of its own
(`Written`, `WriteFailed`); its result reaches the event loop later
(`SaveFinished`, `SaveDeferred`). `SaveState` is the snapshot, which deletes and
rewrites the same rows. `Restart` is the destructor (flush, snapshot) and the next
start's `loadState`; at least one of the two writes succeeds. `Crash` keeps the rows
only. Durations are left out. The wall clock does not go back: a Pi without a
real-time clock that starts in the past would have its saves refused by the
upsert's guard until the clock is set, which the model does not cover, and neither
does it cover a `loadState` whose query fails and leaves the memory empty.

### MyTvProgress

`media` is the film's row in `local_media` (position, `remote_last_watched`,
`progress_cleared_at`, `ignored_player_position`, `playback_writers`), `row` the
television's bookmark as in `MyTvResumeWriter`, of which only the contract is kept:
it remembers a bookmark (`tv`) and writes that one or a later one. `device` has for
each phone the open player, the checkpoint in memory, the row of the IndexedDB
store, the request that waits for its answer and the puts on their way; `wire` is
the set of requests that may reach the service, in any order and more than once;
`processed` is history. `Resume` is `remote_resume_position` and `StartPoint` the
choice of `startIosRemotePlayer`.

Abstractions: one film; a position is an interval of more than five seconds, so
the two five-second rules are nondeterminism or equality; clocks agree and no two
observations fall into one moment; a writer's sequence number is the moment of
the sample. Left out: episodes (whose rows also know `watched` and
`pre_watched_resume`), titles that are removed (the 400 branch), the trim to
sixteen writers, the older `/api/remote/position` path, which My TV no longer
uses, and the interval between a phone's read of its own store and the service's
answer. Locking the portal is `Kill`.

### MyTvViewing, EpisodeMarks and ContentCards

The portal shows an edit before the Pi has stored it. `MyTvViewing` follows one title.
`kept` is the Pi's record of it with the revision of the domain; `title` is what the page's list shows: the record, the
object of the list it is in (a refresh keeps objects, a roll-back takes one out or puts one back), the count of mutations and
the revision last told; `job` has the posts and the reads under way, `snapshot` is the entry
`my-tv-viewing-v1` of the app cache. A record is listed or not and has a set of fields. A post
ends at its answer and goes on as a snapshot job (`persistMyTvViewingCache` is not awaited: bootstrap, then
write); a read is the list's (`loadMyTvViewing`) or that of `refreshPortalDomains`, which reads first,
asks for the revisions next, stores the library, and only then shows and stores the titles.
`PiSaves` is `my_tv_viewing_update` whole. `RolledBack` is the `catch` of `updateMyTvViewing`: it takes a title that
the edit brought into the list out of it again, whoever wrote to it since, and for a title that was in the list puts back
the *object* it found there, which by now carries the edit that failed, so that nothing is undone. `doubt` is history:
why the page, or the snapshot, need not be what the Pi keeps. Left out: `title.viewing`, the copy an open card draws
its own buttons from (the list is what is read, stored and drawn again), and the order of the list.
`EpisodeMarks` follows one series: a tick is shown, sent, and answered with
the state of the whole season. `ContentCards` has the journey of cards as the
sequence `ui-components.js` keeps beside the browser's history, the sheet that is
painted, and the requests for it (cache, network, providers, season), each with the revision
in which it began.

### RemotePlayer

`player` is the shell with its generation, the session it holds and what the video
plays; a call is one `async` function from its first `await` to its end, and knows
the generation it began in. `asked` is history: what the owner last tapped and the
episodes that may follow it, set at the tap. `belated` is what a permission that comes after the owner has gone on opens
all the same (section 5). `orphans` is history too: streams of which a request was lost and
those a second recovery forgot; they are left to the expiry of the Pi's session.

### OfflineVideos

A run is one call of `startDownload`; each `await` of the Pi, of IndexedDB or of the
storage estimate ends a step. `chunks` are the parts that IndexedDB has, `manifest`
what the list of downloads shows. `doubtful` marks the videos whose removal or
storage met a run.

### PortalUploads

A manifest is read and written as a whole, and three kinds of callers do so under
different locks: `upload_create` and `upload_action` under `config_lock`,
`append_upload` under the lock of its upload, the hand-over of the slot at the end of
an upload under that lock only. So each is a step that reads and a step that writes. A chunk is
its number; the offset a page sends is the number of chunks it believes stored. An upload has
one lock for good. A cancellation also drops the lock from `upload_locks` (`uploads.py:909`), so
that a manifest which a stale hand wrote back would get a new one; such uploads are `mislaid` anyway.
The worker may end by handing the video to a laptop (`waiting-laptop`, `uploads.py:285-317`); there the model ends. What
follows is not modelled: the laptop that asks for the work (`studio_prepare_upload`, `studio_pi.py:227-239`), the owner's actions
on such an upload (`uploads.py:804-809`) and the original that comes back (`studio_finish_original_upload`, `studio_pi.py:241-251`).

### StudioQueue, StageGate and StudioCompanion

`StudioQueue` is the journal of jobs, their runs (`work`), the timer of the waiting ones, the
stage gates, what the Pi has of each upload, and the files. A step ends where `queue.cjs`
awaits: the portal, a process, a slot. A job's stages are those of its kind and of
the targets the owner chose. `StageGate` is `AsyncSemaphore` of `stage-resources.cjs`
exactly, abort listener and hand-over included, and implements `FifoSlots`.
`StudioCompanion` has the Pi's record of one job (status, claim, lease, stage, the
sessions it knows), the poll of each laptop between its sending and its answer, the
runs and the copies. A claim is a number; `local` is the job in the laptop's own
journal, of which it keeps the contract of `StudioQueue`: a published job has its
video on the Pi.

### Pages of the portal

*Sheets of My TV.* `LocalSeries` has the dialogs that are open, each with
the sheet it lies over, and `closing`, the dialogs whose close event has not run: the
browser dispatches it after the handler that closed the dialog, so the handler's own changes
come first. A mark that completes the series waits for two more requests (`finishLocalSeriesIfComplete`) before its sheet is
drawn again (`MarkEnds`), and the owner may have gone elsewhere by then. `FilmSheets` keeps `objects`, the film in every library the page has read: a
sheet goes on showing the object it was opened with after a reload put another one in its
place. `MyTvExplore` is `explore.js` between its awaits, feedback before page; `UpNextOrder`
the rows of the pane with how often each was bound to the finger, and the queue of the Pi,
which takes a whole order or refuses it. The up and down buttons of its rows (`grid.js:104-116`) are made but never
shown: every pane is a grid (`grid.js:24`) and `experience-viewing.css:231` hides them there, so they have no action.

*Mabel's pages.* `UpNextPage` abstracts the queue to an order whose first entry may be
starting or playing, and models the page: the one read that is shared by all who ask
(`queueRead`), the poll, the buttons drawn from what was read (`Offers`, against what the Pi `Accepts`),
the requests under way (`queueChange`), and the question whose accept button keeps the
handler of the last question asked. Beside it the TV plays, finishes, stops and fails (`TvPlays`, `TvFinishes`, `TvStops`), and
`AnotherDevice` edits, starts or clears the same queue; `elsewhere` is history: what others added. `PlaylistPage` has `chain`, the moves that were shown
at once and are saved one after the other behind the page, and another device that edits
the same list.

*Frame, channels, insights.* `PortalShell` tells libraries apart by their revision; its
flows (start, sign-in, reconnection, reload) are sequences of awaited requests of which any
may overlap. `ChannelPages` has the number of each folder's channel on the Pi and as the
page knows it; a command on its way carries a number, a page its folder. `ViewingInsights`
has for every resource what is in memory, in the snapshot and on its way.

*Family.* `FamilyLibrary` is the gallery with the read it shares, its second try and the
timer that reads again while something is being prepared. A read that was drawn still waits for the write of its snapshot
(`ReadEnds`), and whoever asks meanwhile joins it; `overlooked` is history: media that somebody joined such a read for. `FamilyPlayer` is one dialog
whose audio and video elements belong to the story, the music or the clip of the moment,
with every promise of `play()`, timer and session answer settling when it will.

## 3. Runs

| Run | Module | Programs at work | What it shows |
|---|---|---|---|
| `store` | `MCMabelQueueStore` | the queue tables, the page of Up Next, a playlist page, uploads | `StateRowAgrees`, `RowsAreUnique` and `EntryEndsWithItsPlayback` of every interleaving of transactions; the page offers what the Pi accepts, asks once, and once it stopped to poll misses nothing but what other devices added (`UpNextPageIsTrue`); a playlist comes to rest on what was saved and a move does what the row showed (`PlaylistIsHonest`); a received file is a beginning of the video and is prepared (`ReceivedIsInGoodHands`) |
| `queue_players` | `MCMabelQueuePlayback` | the players of the queue | every step is a transaction of the store or none (`ImplementsStore`); late signals never confirm, consume, move or take over another entry (`PlayingIsConfirmed`, `ResumePointIsOwn`, `OwnerIsRespected`); a start is resolved, a displaced browser stops |
| `timeline` | `MCChannelTimeline` | one channel | what is on the screen is what is stored, and no signal means nothing is usable or, with a shuffled order of three programmes or more, that at least half of them are lost (`PictureIsTrue`); a programme goes on where it was left and is reset only after its absence; what was chosen is what plays; the guide is true of programmes that fill a slot of it |
| `my_tv_records` | `MCMyTvRecords` | the resume writer, the page's records, the sheets, the feed, the personal queue | the television's bookmarks are never dropped or set back and reach the disk; a page at rest shows what the Pi keeps and a trusted snapshot is true, but for named doubts (`ViewingIsTrue`); sheets act on what they show (`SheetsAreTrue`); feed and order are what was chosen and accepted (`ListsAreTrue`) |
| `my_tv_progress` | `MCMyTvProgress` | checkpoints, the phone's player | the service knows the newest thing it was told; a phone never falls behind its own checkpoint; only what the owner asked for last plays (`PlayerIsTheOwners`) |
| `studio_queue` | `MCStudioQueue` | the laptop's queue | nothing cancelled is published and no only copy removed (`IrrevocableIsWanted`), the stages are first-come-first-served lines, a waiting job is taken up again |
| `clients` | `MCClients` | downloads, the companion, cards, marks, the frame, family player, channel pages, gallery, insights | one property of each |
| `late_completion` | `MyTvProgress` | | violated: `repositories/playback.py:32` |
| `resume_after_sleep` | `MCChannelTimeline` | | violated: `docs/acceptance-checklist.md:21` |
| `studio_lost_completion` | `StudioCompanion` | | violated: `repositories/studio.py:276` |
| `storage_full` | `OfflineVideos` | | violated: `downloads.js:262` |
| `upload_slot` | `PortalUploads` | | violated: `uploads.py:537` |

Why the bounds are enough. Two channels tell "the same programme" from "another
one", which is all the queue code compares. Three identities allow a playlist of
two and one more entry, or the refill of a repeating playlist of one; a history of
one row makes the trim happen on the second completed entry. Two requests are a
hand-over and one back. The players are checked with two browsers that stay, with one that
may be lost and with every fault; the theorems below have no such bound. Two programmes of different lengths are the least for
which "next", "the other one" and "the shortest" differ, and a position of
`Duration - 1` is the unit `clampPlaybackPosition` keeps before the end. The guide
needs more than two rounds, since its property speaks of the second. Three moments
are a first sample, a newer one of somebody else and a late request; position 0 is
the completion, which the code treats specially.

Two jobs with one slot per stage are enough for every hand-over of a gate: one job
inside, one in line, and the abort of either. Two laptops and two claims are a lease
that ends and is given away. Two parts and two runs of a download are a first and a last part,
and a run that meets another; two chunks, two pages and two threads are the same
for uploads. Two episodes are one that is ticked and one that decides whether the
season is complete. Three titles or people (two titles and a person) are a card, the card opened from it and the
one gone back to. Three rows are one that moves, one it passes and one beside them. Two
spans of the insights are the one that is shown and one that is kept. Every fault,
removal, failure and owner's action comes out of a bound named `Max...`, which stands in the guards.

`CHECK_DEADLOCK FALSE` stands in every configuration, because every one of these systems may
really rest: a queue whose players are stopped and whose budget of requests is spent waits
for a person, and so does a page whose owner is out of taps; a channel at `maxPosition` and
a film at `MaxTime` are at a bound of the model. That nothing rests that should move is
what the liveness properties say.

Every property of a passing run has a mutant: an operator `...Mutant` that stands
before the definition it could replace and makes a plausible mistake (a dropped
owner check, a forgotten reset, a comparison that admits equality). With the mutant
in place the run finds the property violated.

### Fairness

*Queue.* `Fairness` of `MabelQueuePlayback` assumes only what the programs do on
their own: the event loop executes queued commands and due timers, a decoder that
loads a file reports Playing or a failure, a request thread that has begun
continues, a browser that is open sends the event it owes and polls every 2.5
seconds. Nobody is assumed to press a key, no programme has to end and no position
has to be saved. `TvStartResolves` is stated while the TV stays in its child mode
(a start deferred in standby waits for somebody to switch the TV on), and excludes
the one case in which the code leaves an entry loaded and silent: a transfer that
stopped the TV and is then refused because its entry has just been played to the
end.

*Resume writer.* The two results of the background thread are delivered and the
retry timer fires (weak fairness of `SaveFinished`, `SaveDeferred`, `Retry`). The
save itself gets strong fairness (`Written`): the database is not locked at every
single attempt. Nothing is assumed about snapshots, restarts or the viewer.

*Studio's queue.* A job that `kick` has started reaches its first await, timers fire,
requests are answered, the owner's action that is under way ends, and the Pi works off what
it has received. The Pi need not be reachable: a retry that finds it away waits again.

*Companion.* The polling interval, the answers and the delays of a run end, a transfer
that was told to stop stops, and a claim that no poll of its laptop mentions runs out.
`studio_lost_completion` is a counterexample under all of that.

The remaining properties are safety properties. The portal's pages among them are not assumed to read again by themselves:
the list of My TV is read when a page becomes visible on it (`grid.js:339-343`) or by a refresh of the domains, and
nothing says that either ever happens.

## 4. Proofs

All theorems hold for every value of the constants the named assumption allows. Each
module proves one inductive invariant (`Init => Inv`, `Inv /\ [Next]_vars => Inv'`)
with a lemma per action, and its theorems from that.

**`MabelQueueStoreProofs`** (`StoreAssumption`: stream tokens differ from `free` and
`tv`, playlists are sequences of programmes, the history keeps at least one row)
proves `StoreTypeCorrect`, `StoreStateRowAgrees`, `StoreCurrentIsQueued`,
`StoreRepeatNeverCompletes`, `StoreRowsAreUnique` and `StoreEntryEndsWithItsPlayback`.
The first four rest on `IInv == TypeOK /\ Sound(db)`. None of the listed
invariants is inductive alone: `RepeatNeverCompletes`, for example, needs that a
repeating queue has a snapshot to refill from (`Sound`'s clause on `cycle`), that a
paused player never holds a repeating queue (otherwise the trigger would stay
silent) and that the entry being consumed is in the table (otherwise no row is
deleted and no trigger fires), which is `CurrentIsQueued`. For each transaction
there is a lemma that it preserves the type (`...Type`) and one that it preserves
`Sound` (`...Sound`). The last two rest on `RInv == IInv /\ RowsSound(db)`: positions and
identities of Up Next are distinct, the history names no entry twice and none that is
still queued. The hard part is renumbering: `ToFront`, `Swap` and the refill move rows through
positions that other rows hold, and a refill adds identities that no row and no history may
have seen, hence the bound `nextId` on both.

**`MabelQueuePlaybackProofs`** (`PlaybackAssumption`) proves `PlaybackTypeCorrect`,
`PlaybackImplementsStore`, `PlaybackPlayingIsConfirmed`, `PlaybackResumePointIsOwn` and
`PlaybackOwnerIsRespected` for any number of browsers, programmes and requests.
`PlaybackImplementsStore` is the refinement: the initial states are the store's, and every step of the event loop, of a
request thread or of a browser is one transaction of `StoreNext` or leaves `db` as it is,
so that every theorem above holds of the running system too. The invariant `PInv` adds to
the store's `RInv` what ties the players to the tables:
`TvIsConfirmed` (a queue the TV plays is on its screen, while nothing retuned it behind the
queue's back) and `StreamIsConfirmed` (the browser that plays has confirmed this very entry),
without which a late end could consume somebody else's entry; `PlayersLabelled` (an identity
keeps its programme in Up Next and in the history, so a browser that remembers an identity
remembers the right film); and `NextIsUnconfirmed` (the browser whose next entry opens by itself
plays nothing of the queue meanwhile), which is why an automatic selection takes nothing
from anybody. What a transaction may do to a player's claim is said once per transaction
by `Calm`, `Loyal` and `NoNewHistory`.

**`NativeCoreProofs`**, of `ShuffleBag` (`ItemCountAssumption`), proves `BagTypeCorrect`, `RoundsDrawOnce` (an item comes back only
after all the others of its round) and `NeverRepeatsAtOnce`, for any number of
items, of `ShuffleBagRounds`, the specification that draws for ever; TLC runs the same
operators as part of `ChannelTimeline`. The invariant ties the set of items drawn in this round to what the bag
still holds; the last lemma is that a refill never puts the last item at the end
that is taken from first.

Of `MyTvResumeWriter` (`WriterAssumption`) it proves `WriterTypeCorrect`, `WriterKeepsLastBookmark`,
`WriterNeverSleepsOnWork`, `RestartForgetsNothing` and `RowsNeverGoBack`. The
invariant adds that no row and nothing on its way is newer than the memory, and
that what waits is the latest bookmark or is about to be replaced by one that is.

Of `ChannelTimeline` (`ConstantsAssumption`) it proves `TimelineTypeCorrect` and `PictureStaysTrue` (`PictureIsTrue`) for any
number of programmes, any lengths, the guide on or off, and any interruptions. `TimelineInv` adds little to the property: a
TV that sleeps or shows another channel shows nothing of this one (`OffIsStopped`), and what plays may be played
(`PlaysUsable`), without which neither the clamp at the end of a file nor a reload of the library would keep the position. The work is in the
operators. Each is shown to lead from a runtime to a runtime of the same channel, of the same programmes (`SameChannel`):
the search in filename order passes every programme (`NextPassesAll`), the walk through the broadcast finds a programme at every
step (`WalkStepKeeps`, `WalkedKeeps`), and the lengths it adds up are numbers (`TotalIsNat`). That the draws of a shuffled
channel find a programme unless at least half are lost is a count: a refill that is drawn from in vain
has every usable programme in the part beyond reach, which is as long as what was left in the bag, where nothing was usable
either (`MissedAreOutnumbered`); that it takes three programmes is the swap that keeps the last item from coming first.

The walk and the sum are recursive functions. The library's induction theorems are about a predicate, which
the provers cannot be given, so two lemmas say the same of a set: `SetInduction`, from a least
counterexample (`LeastOf`, by the library's well-founded order of the naturals), and `RecursionExists`, that a
recursive function over `0..n` exists and stays in its set.

**`PhoneProofs`**, of `MyTvProgress` (`ProgressAssumption`), proves `ProgressTypeCorrect`, `SentWasProcessed`,
`ServiceKnowsTheNewest`, `PhoneNeverFallsBack` and `OutboxOnlyAdvances`, for any
number of phones and any positions. The invariant adds two facts the checked
properties do not state: samples are at distinct moments, none of them that of the
clear (`Distinct`), so that "not newer" and "older" are the same; and the
service's bookmark is one it was told, with nothing it was told, and no writer's
last sample, newer than it (`Newer`).

Of `RemotePlayer` (`TitleAssumption`: the episodes of the series are different titles) it
proves `PlayerTypeCorrect` and `PlayerStaysTheOwners` (`PlayerIsTheOwners`) for any titles, calls
under way, streams and faults. What the video plays was tapped last (or is what a late permission opened, `belated`, which
the code does not prevent), and a closed player
holds no stream, only because of what is true of the calls that still wait for an answer. `PlayerInv` says it: a call whose
generation is the player's is about the title that is open, and no call is of a generation to
come (`CallsKnowTheirPlayer`), so that a late answer either is the right one or gives its stream back;
only one of the calls starts the player, the video plays nothing meanwhile, and no recovery runs
before it does (`OneStartAtATime`), so that a session is never overwritten while it
is held; an episode that may follow was asked for with the one that plays (`NextIsAsked`); and the Pi's
stream is the player's, that of a call with its answer in hand, on its way back, or one of the `orphans` (`StreamIsHeld`).

Of `FamilyLibrary` (`MediaAssumption`) it proves `GalleryTypeCorrect` and `GalleryStaysCurrent`
(`GalleryIsCurrent`) for any media, changes under way and faults. The property speaks of a gallery at rest with nothing
on its way, which no upload made `overlooked`. `GalleryInv` says what leads there: whoever waits for the library waits for a read that is
under way (`ReadIsUnderWay`); in an open gallery without a read or a timer, what the Pi still prepares has a retry whose end
reads again, and what the page does not know yet is about to be told by the upload or by a change (`RestIsLookedAfter`);
and what is shown as ready is ready or gone (`ReadyIsReady`). The attempt corrected `NothingGoesBack`: it
allowed a step back only in the step in which an answer is overtaken, and with more taps than
the run's three TLC finds one that comes later, from what the overtaken answer had shown.

Of `ViewingInsights` (`InsightsAssumption`) it proves `InsightsTypeCorrect` and `InsightsStayTrue` (`InsightsAreTrue`).
`InsightsInv` relates five copies of each resource. Memory and the device hold one answer, with all the Pi has
(`HeldOnTheDevice`); of a resource one question is under way, and its answer is no older than the device's (`AnswersAreNewer`); a screen
shows no less than the device has (`PaintedBefore`), which is why nothing reappears; and an entry that is gone is
still being deleted, or left out of an answer to its item, or of the device's copy (`NoticedGone`, `EmptyItemIsAsked`).

Of the sheets of My TV (`SeasonAssumption`: no season is called as the series or as none) it proves `FilmTypeCorrect`,
`SeriesTypeCorrect` and `SheetsStayTrue` (`SheetsAreTrue`) for any films, seasons, files, taps and lost requests.
`FilmInv` says when the shelf is the Pi's: whenever nothing went adrift, no answer that did something is still to be told
and no reload is under way (`ShelfIsTold`); an answer that is alone on its way leads there, a
reading because it saw what the Pi has, a change because it is all the shelf lacks (`LoneAnswerIsTrue`); and requests are
told apart by their numbers (`RequestsAreTold`), so that an answer cannot be taken for another's.
`SeriesInv` says which sheets can be open together: one, unless an answer crossed another tap, and a source sheet only
while files are being picked (`SheetsInPlace`); that files that were chosen or stored belong to the season their sheet
names (`FilesBelong`); and that a mark the Pi has and the page does not show has a request that will tell it (`MarksCatchUp`).
The attempt corrected the model twice. The source sheet had kept a season of its own, where the code's two sheets of an upload
share `myTvSeriesUploadTarget`: with more taps than the run's nine a file was booked for a season no sheet named. And the close
event of the episode sheet never ran, so that the owner could do nothing after leaving it.

**`PortalProofs`** proves theorems of five parts of the portal that share nothing.
`MarksComeToRest` says `MarksSettle` of `EpisodeMarks` for any number of episodes, of
marks under way and of posts. The property speaks of the moment when every mark has ended; the invariant `MInv` has to say
what holds before. While nothing went wrong that the code does not repair (`muddled`: posts
that overtook each other, or a failure beside another mark): the page's record counts what is shown (`RecordIsShown`), answers
come in the order of their posts (`InOrder`), the last unanswered mark of an episode says what is shown of it and the Pi
has the rest (`LastMarkIsShown`), the newest call carries the state that follows (`NewestIsShown`),
once it has ended page and Pi agree (`EndedAgrees`), and a mark that is alone can still be
undone whole (`AloneCanBeUndone`), which is what the roll-back of a failure needs.
`ReadyUnlessDisturbed` says `UndisturbedIsWhole` of `OfflineVideos` for any number of videos, parts
(`PartsAssumption`) and overlapping downloads of one video. A manifest that counts
`n` parts proves nothing about which parts are stored; the invariant says that whatever a
manifest *or a run* has counted is stored (`CountedIsStored`), since a run writes its own count into the manifest.

Of `FamilyPlayer` (`FamilyAssumption`: no story is called `none` or `music`, lengths are numbers and
a session has scenes, which `memories-player.js:76` makes sure of) it proves `FamilyTypeCorrect` and
`SoundStaysWanted` (`SoundIsWanted`) for any stories, scenes and taps. Nothing that is heard is wanted
by itself: a promise or an answer that comes late must know that it is late. `FamilyInv` says what each of
them may still assume (`IsKept`): one of this player's generation is of what the
dialog shows; the priming of a story that is given up while its sound plays belongs to a
story that has begun; the music that may still rise is that of the photo on show while
nothing is being asked for, and a request of this player means exactly that more is
being asked for (`PromisesAreKept`). The scene that an answered
refill starts keeps the number the refill took, so those two clauses are what keeps the music of
the photo before away from it.
`DialogIsWhole` and `SoundHasItsPlace` say whose the two elements are and where they may
play, `SceneIsSet` that music beside the clip of the scene is the music that this scene is fading. Steps that
open another player are handled once (`OpensKeepsInv`, nothing that waits is of the new generation), so are
the steps of a story (`Stays`) and of the memories (`Rolls`, `SameScene`).

Of `ContentCards` it proves `CardsTypeCorrect` and `CardsStayTrue` (`CardsAreTrue`) for any titles, people and
seasons and any number of cards opened. The code compares revisions, so the invariant `CardsInv` is about them: a sheet has had
a revision for every card that was read for it and no two cards of a sheet had the same (`RevisionsAreUsedOnce`), hence the
reads that may still be painted in the open card's sheet are the open card's (`ReadsAreOfTheCard`), until Back or
Forward bring a card without a new revision. That the cache never paints over the Pi's answer needs that
the one read that is current for a fresh title has been answered (`FreshIsAnswered`), and that nothing but titles
asks for providers (`ProvidersAreOfTitles`). What any read may do is said once (`SameReads`, `SameSheets`, `PaintsOfReads`).

Of `PortalShell` it proves `ShellTypeCorrect` and `ShellStaysHonest` (`ShellIsHonest`) for any number of events. The four flows
meet only in the page, so `ShellInv` speaks of one flow at a time (`FlowHolds`): a flow past its bootstrap knows a
revision, one that is about to open the page has brought it a library or is still waiting for one it asked for, and a
reload is made by a page that had one. Of the page it says what the property says only of an open one: a page that is
cut off says so whatever its screen (`CutOff`), so that an opening which comes late shows nothing else, and a poll, not only a
picture, ends when the page is hidden (`Watching`), since an answer on its way would otherwise bring the picture back.

**`PiProofs`**, of `PortalUploads` (`UploadsAssumption`), proves `UploadsTypeCorrect` and
`ReceivedStaysInGoodHands` (`ReceivedIsInGoodHands`) for any pages, threads, uploads and
chunks. That a part file is a beginning of the video says nothing about the thread that is about to
append to it, and that a received file is prepared nothing about the manifest somebody read before.
`UploadsInv` adds that each upload's lock has one owner, be it a chunk, the worker or an
action (`LocksExclude`); that what a chunk found under the lock is still true when it
writes (`ChunkIsInPlace`), above all that its offset is the length of the file; that whatever waits for
the worker is whole and stays so while the worker lets go of it (`ReceivedIsFull`,
`NoChunkWhileLettingGo`); that the status an action read of its own upload is the one it overwrites (`HeldKeepsItsStatus`), which the other
uploads in its list of manifests need not be: those are `mislaid`; and that nothing is known of an id that
was not handed out yet (`IdsAreFresh`).

Of `PlaylistPage` it proves `PlaylistTypeCorrect` and `PlaylistStaysHonest` (`PlaylistIsHonest`) for any playlist, moves
and edits of another device. The argument is that of a chain: every tap that waits shows what it makes of the tap
before it, the first of them of the order on the Pi (`TapsFollowEachOther`), so that each saved move
arrives where its row showed it; one request is out at a time, and none while what follows
the last one is under way (`MovesGoOneByOne`); and whatever may become the list once, answers and reads on their
way included, was an order of the Pi (`OrdersAreReal`).

Of `UpNextPage` (`UpNextAssumption`) it proves `UpNextTypeCorrect` and `UpNextPageStaysTrue` (`UpNextPageIsTrue`).
That page and Pi agree on what may be moved needs the queue to be of different entries with an active one
only if there is one, which needs that an entry is added once, whichever of its requests is late
(`EntriesAreUsedOnce`); that a question is answered once needs the button to be disabled
for as long as an answer is out (`QuestionsAreAskedOnce`); and that a page which has stopped to poll misses
nothing but what others added needs `EmptyIsUpToDate`: if a page whose last answer was not late shows an empty queue, whatever is in
the queue was added by other devices, or the answer to an addition of its own, which is not empty, is on its way.

Of `MyTvViewing` it proves `ViewingTypeCorrect` and `ViewingStaysTrue` (`ViewingIsTrue`) for any fields and any number of edits,
refreshes, changes made elsewhere, failures and starts. The property speaks of a page at rest and says nothing of the edits and
reads that lead there. `ViewingInv` does. Nobody knows a revision the Pi has not had, and an answer that names the Pi's revision
is what the Pi keeps (`RevisionsAreTold`); edits are numbered, and what is answered is saved (`EditsAreNumbered`). While nothing is
in doubt: the answer to the latest edit is what the Pi keeps (`LatestAnswerIsKept`); when the latest edit has ended its
record is shown, and every older one is saved (`EndedIsShown`), so that an older edit which ends after it, one way or the other,
changes nothing; a roll-back of an edit that was alone leads back to what the Pi keeps (`RollBackIsTrue`); a read that began alone,
with no edit since, has the Pi's latest answer (`QuietReadIsLatest`); and a page that started behind the Pi waits for its
read (`BehindWaits`). What a read may show is said once for the list's and the domains' (`MergedTitle`, `DetachedJob`, `DrawnDoubt`).

**`StudioQueueProofs`**, of `StageGate`, proves `GateTypeCorrect`, `GateCountsSlots` and `GateIsFifo`: the
semaphore, abort signals and hand-overs included, implements `FifoSlots` for any jobs and any number of slots.
Of `StudioQueue` (`JobsAreNumbered`) it proves `QueueTypeCorrect` and `CancelledStaysUnpublished` (`IrrevocableIsWanted`)
for any jobs of any kind and any faults. `QueueInv` speaks of each job's row apart (`RowIsSound`), since jobs meet only
in the gates. A cancelled job must stay out of the library whatever was on its way: `NotOnItsWay` says that what
the Pi has of a job that nobody wants is nothing, half received or paused, that its run is over,
that nothing sends what the journal does not name, and that a cancellation which reached the Pi
left nothing there. That the last copy is not removed needs the run between its awaits (`CopyIsThere`): while a
copy is being verified, and between the removal of the original and the note of it, the copy is there
and the original is a download, never the owner's file.

**`StudioCompanionProofs`** (`ClaimsAssumption`) proves `CompanionTypeCorrect` and
`HandOverNeverLies` (`HandOverIsSafe`) for any number of laptops, claims, stops and faults.
`CompleteIsDone`, `LastCopyIsKept` and `WorkCanBeStopped` are not inductive even
together. `CompanionInv` adds that a claim belongs to one laptop and is begun at most once, and
that an answer on its way is about the work the laptop still does (`ClaimsAreOwn`); that every run is
the laptop's own, or was told to stop (`WorkIsOwned`); that the station a run has reached is what the laptop's journal
says, whichever claim reached it (`StationsAreTrue`), so that a laptop which takes its earlier
job up again and reports "complete" is right; and how the journal's notes follow from each
other (`JournalIsTrue`). The steps of a run are handled once: `OwnStep`, `OwnState`,
`OwnStation` and `OwnJournal` are what any of them may do, and each step is shown to be one of those.

Only model-checked, and why:

* liveness (`TvStartResolves`, `DisplacedPlayerStops`, `QuietDatabaseCatchesUp`,
  `WaitingIsRetried`): out of this prover's reach;
* the history properties of `ChannelTimeline` (`ResumesWhereLeft`, `ResetOnlyAfterAbsence`, `ChoiceIsPlayed`, `GuideIsTrueSoon`):
  they hold of the settings of the run, not of every set of interruptions (section 5 has the exceptions), so that there is
  nothing to prove for all constants;
* `StagesAreGates` of `StudioQueue`: that each gate inside the queue behaves as `StageGate`. One
  step of the queue (a shutdown) may be several of a gate, so it is no refinement step by step;
  that a gate is a line is proved of `StageGate` itself;
* the action properties of `MyTvExplore`, `UpNextOrder` and `ChannelPages`: not proved yet, see section 6.

Every state invariant that a passing run checks is stated by a theorem.

## 5. Where the code and its documentation disagree

Five runs show a disagreement on a behaviour of the model:

* `late_completion`: a phone's completion that is older than the television's
  bookmark is still applied, and marks the newer position of the television as
  ignored (`repositories/playback.py:39`); the comment at line 32 says that
  "arrival order is not watch order".
* `resume_after_sleep`: `saveState` lets the current channel run on while the TV
  sleeps, so a process that ends asleep saves the time asleep as watched
  (`TvControllerPersistence.cpp:495`); `docs/acceptance-checklist.md:21` promises the
  exact position.
* `studio_lost_completion`: `tick` forgets work that is done when an answer arrives, although the
  report the answer is about was taken before (`companion.cjs:75`); its completion is never
  sent, and the living worker's session keeps the job from everybody, where the
  comment at `repositories/studio.py:276` says that an expired lease can be recovered.
* `storage_full`: a part is counted in the manifest before it is stored, and the `catch` of
  a full phone writes that manifest (`mabeltv-offline.js:317`); resumed, the download
  ends as "Saved here. No connection needed." (`downloads.js:262`) with the part missing.
* `upload_slot`: the end of an upload hands the slot on without `config_lock`
  (`uploads.py:1017`), and a heartbeat that holds it writes the heir back as waiting; the
  docstring at line 537 says that the slot is handed to the earliest waiting job.

Others were met while modelling. The models follow the code in each, and no
property claims what the code does not do:

| Code | What it does | What is said |
|---|---|---|
| `repositories/playlists.py:121` | adding to a repeating queue rebuilds the round from what is left, without the programmes already played | `docs/family-collections.md:32` |
| `database_schema.py:891` | the trigger refills when the last entry is deleted while it plays, also when that is the removal of its channel and not playback | `docs/state-database.md:181` |
| `MabelQueueState.cpp:85` | the playing entry may stand anywhere in the list | `docs/portal-architecture.md:51` |
| `MabelQueueState.cpp:70` | the end of any programme completes the current entry: owner and phase are compared, the programme is not | `docs/state-database.md:73` |
| `mabel_queue.py:45` | a transfer to the TV changes the owner before the displaced browser's session is dropped, and a stream that expires leaves its queue owned | `docs/state-database.md:74` |
| `TvControllerQueue.cpp:72` | a transfer does not stop the tuning timer, so the TV may speak again | `tests/python/test_mabel_queue.py:142` |
| `TvControllerPlayback.cpp:541` | with a shuffled order the walk may leave a position beyond the file | comment at line 531 |
| `TvControllerActions.cpp:195`, `TvControllerPlayback.cpp:535` | in continuous mode a choice by hand differs from the guide | `docs/media-library.md:113-115` |
| `TvController.cpp:604, 612` | the guide gives every programme a minute at least, the walk that tunes gives it its length: with a programme of less than a minute, or of unknown length, guide and screen drift apart | `docs/media-library.md:113-115`; `GuideIsTrueSoon` asks that every usable programme fills its slot (`FillsItsSlot`) |
| `TvControllerPortal.cpp:70` | a programme chosen in the portal on the channel that is on does not freeze the one it replaces: what was watched of that since is lost | `docs/acceptance-checklist.md:21`; the settings with positions have no portal choice |
| `TvControllerPlayback.cpp:462` | with a shuffled order the bounded number of draws may miss the one usable programme and show no signal although a programme is left | nothing; `PictureIsTrue` has the bound: three programmes or more, at least half of them lost |
| `TvControllerPlayback.cpp:67` | in resume mode a retune of the channel that is on restarts the anchor without freezing: what was watched since is lost | `docs/acceptance-checklist.md:21` |
| `TvControllerPortal.cpp:58` | a hidden programme chosen in the portal is replaced by another one when it is tuned | comment at line 33 |
| `TvControllerPortal.cpp:72` | a portal choice keeps the old leaving time of the programme it starts, so a visit to My TV may reset a show that was not away | comment at `TvControllerPlayback.cpp:353` |
| `repositories/media.py:718, 806` | "watched" and "restart" of an episode leave no `progress_cleared_at`, so a late sample brings the old position back | `tests/python/test_playback_progress.py:30` |
| `players.js:304`, `remote.py:610` | a phone with an unsent sample that opens a cleared film resumes at its own old position | `tests/python/test_playback_progress.py:30` |
| `remote.py:610` | while the television's bookmark is ignored its time still counts in `resume_updated`, so a phone may resume at an older position than its own | nothing; `PhoneResumesWhereItLeft` excludes `TvIgnored` |
| `TvController.cpp:106` | a library scan that ends during the tuning delay stops the tuning timer, keeps the active programme and leaves a black picture | nothing; `PictureIsTrue` knows it |
| `core/load.js:160-168` | the library is read first and the revisions afterwards, so a change between the two stores the older answer under the newer revision, and the next start from the snapshot believes it | `docs/pwa-offline-cache.md:33` |
| `explore.js:314` | a list chosen while another one is being loaded is not loaded, since `loadMyTvExplore` returns before it resets | `docs/portal-architecture.md:424` |
| `explore.js:323` | a reset that comes while an older load is still telling its feedback is followed by that load's page | nothing |
| `grid.js:272` | every drawing binds the rows of the queue once more and nothing releases them, so that a drag can be posted twice and a row can be dragged in a search | nothing |
| `actions.js:496-507` | an upload of episodes that ends closes the upload sheet and forgets its target, also when the sheet has been opened for another season meanwhile | nothing |
| `film-library.js:525` | a favourite is noted on the object the sheet was opened with, which a reload may have replaced | nothing |
| `channels.js:205` | the address of a channel page carries the number, which moving another channel changes; going back to it opens the wrong one | nothing |
| `family/library.js:24` | whoever asks for the library joins a read that may have begun before the change it was asked for, or even one that is already drawn and only waits for its cache write (lines 32-41): an upload that is received in that window is not shown and no timer looks for it | `family/uploads.js:58`; `GalleryIsCurrent` knows both (`crossed`, `overlooked`) |
| `players.js:637-658` | a permission (`allowIndependentViewing`) that comes late opens its title over the one tapped since, or a player that was closed: nothing compares a generation there | nothing; `PlayerIsTheOwners` excepts what was `belated` |
| `playback/mabel-queue.js:368-373` | a home page whose queue was empty stops to poll, so it does not see what another phone adds | nothing; `StoppedPollMissesOnlyOthers` says exactly that |
| `ui-components.js`, `details.js:664` | Back to a card brings no new revision, so an answer for the card that was left may be painted over the one gone back to | `docs/studio-optimisation-delivery-2026-11-04.md:559`; `CardsAreTrue` ends with Back and Forward (`returned`) |
| `catalogue.js:473` | the roll-back of an edit of a title that was in the list puts back the object it found, which the edit has written to: the list keeps the failed edit until it is read again | nothing; a doubt of `ViewingIsTrue` |
| `catalogue.js:475` | the roll-back of the edit that brought a title in takes it out again although a later edit was confirmed meanwhile | nothing; a doubt of `ViewingIsTrue` |
| `grid.js:275-278` | the snapshot is what the page shows by then, edits included that the Pi has not saved, under the revision of a bootstrap asked for before; the next start believes it | `docs/pwa-offline-cache.md:33`; a doubt of `ViewingIsTrue` |
| `studio_pi.py:228` | an upload that the owner paused while it waits for the laptop and that is chosen again in the browser is validated anew, but has its preparation job already: it stays "validating" with nobody at work on it | nothing; outside the model, see section 2 |
| `playback/mabel-queue.js:247-262` | the question's accept button is shared: an earlier answer that arrives late closes, and enables, a later question | nothing |
| `viewing-insights.js:575-581` | a deleted entry is dropped from the resources that are shown; other ranges and snapshots go on showing it until they are asked again (also for the moment of the cache write, lines 76-80, which the model counts to the drawing) | `docs/state-database.md:111` |

## 6. Plan

Done: everything in section 2, with the theorems of section 4. Next:

1. Prove the action properties of pages that are only model-checked: `ListsAreTrue`, `ChannelPagesAreTrue`.
2. Prove the history properties of `ChannelTimeline`, setting by setting.
3. `TvController`'s navigation: numeric entry, parent access, remote lock, volume
   and power timers, and several channels, with the remote's keys as environment.
4. The decoder's play and stop protocol (`MpvVideo`): one end or failure per
   started file, whatever events of the file before are still queued.
5. Publication, backups and recovery of the Studio on the Pi.

Hazards known but outside the present models: an automatic next entry whose start
fails in the browser (`players.js:560`), *Previous* at the first position, and the standby
state read before the transaction (`mabel_queue.py:41`).

## 7. Not modelled

`PROJECT.json` lists every component with the reason. In short: rendering, layout
and artwork; hardware timing (CEC, V4L2); metadata providers, packaging and
third-party services; schema migrations, which run alone; forms and wording of the
portal; and, so far, the state of the components in steps 3 to 5 of the plan.
