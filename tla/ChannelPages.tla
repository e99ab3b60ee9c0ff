---------------------------- MODULE ChannelPages ----------------------------
(* The channel pages of the portal and the list of channel numbers           *)
(* (portal/js/library/channels.js): opening a channel, coming back to it by   *)
(* its address, changing its settings, moving it in the order, adding and     *)
(* deleting.  The Pi knows a channel by its number, which moving another one  *)
(* changes; the page knows the folder as well.  The hub and the watch page,   *)
(* both lists of channel cards, are one view here; favourites, programmes and *)
(* what is typed into the forms are left out.                                 *)
EXTENDS Naturals, FiniteSets, SequencesExt, FiniteSetsExt

CONSTANTS
  Folder,     \* the folders that may be channels; a folder never changes
  MaxTaps,    \* bound on the owner's taps
  MaxOthers,  \* bound on changes by other devices
  MaxFaults   \* bound on lost requests and lost reads

VARIABLES
  numbers,   \* the Pi: the number of each folder's channel, 0 for no channel
  kept,      \* the folder on whose page the settings of each were last given
  list,      \* library.channels: the numbers the page knows
  page,      \* [view, folder, number, work, address], see PageAt
  flows,     \* management requests, and the reload each ends with
  poll,      \* a library read that a timer started: <<>> or <<data>>
  taps, others, faults,
  disturbed  \* the page's numbers may not be the Pi's

vars == <<numbers, kept, list, page, flows, poll, taps, others, faults, disturbed>>

None == "none"
-----------------------------------------------------------------------------
(* Channels in the order of their numbers; numbers may have gaps after one    *)
(* was deleted, until the next reorder.                                       *)
Channels(n) == {f \in Folder : n[f] > 0}
InOrder(n) == SetToSortSeq(Channels(n), LAMBDA f, g : n[f] < n[g])
Numbered(order) == [f \in Folder |-> IF Contains(order, f)
                                     THEN CHOOSE i \in DOMAIN order : order[i] = f ELSE 0]
At(n, number) == IF \E f \in Channels(n) : n[f] = number
                 THEN CHOOSE f \in Channels(n) : n[f] = number ELSE None

(* One step up or down the list.                                              *)
Swapped(n, f, step) ==
  LET order == InOrder(n)
      i == CHOOSE k \in DOMAIN order : order[k] = f
      j == IF step = "up" THEN i - 1 ELSE i + 1
  IN IF j \in DOMAIN order THEN Numbered([order EXCEPT ![i] = order[j], ![j] = f]) ELSE n

(* A new channel goes to the end of the order.                                *)
Added(n, f) == Numbered(Append(InOrder(n), f))
-----------------------------------------------------------------------------
(* The page.  folder and number are selectedManageChannelFolder and           *)
(* selectedManageChannel, work the channel the workspace is painted with,     *)
(* address the number in the channel page's history entry, which lies behind  *)
(* the settings when they were opened from it.                                *)
Hub == [view |-> "watch", folder |-> None, number |-> 0, work |-> None, address |-> 0]
PageAt(f, n, address) ==
  [view |-> "channel", folder |-> f, number |-> n[f], work |-> f, address |-> address]

(* Plausible bug: the page goes by the number it was opened with.             *)
SelectedMutant(p, n) == At(n, p.number)

(* The folder decides while it is still a channel, the number otherwise.      *)
Selected(p, n) == IF p.folder \in Channels(n) THEN p.folder ELSE At(n, p.number)

(* Painting the open channel page; nothing selected shows the hub.            *)
Painted(p, n) == IF Selected(p, n) = None THEN Hub ELSE PageAt(Selected(p, n), n, p.address)

(* openChannel with the number of an address.                                 *)
Addressed(p, n) == IF At(n, p.address) = None THEN Hub ELSE PageAt(At(n, p.address), n, p.address)

(* A library that has arrived: a selection nothing answers to is forgotten,   *)
(* and the open view is drawn again.                                          *)
Kept(p, n) == IF Selected(p, n) = None THEN [p EXCEPT !.folder = None, !.number = 0] ELSE p
Drawn(p, n) == IF p.view = "channel" THEN Painted(Kept(p, n), n) ELSE Kept(p, n)

Applies(n) ==
  /\ list' = n
  /\ page' = Drawn(page, n)
  /\ disturbed' = (n # numbers)
-----------------------------------------------------------------------------
(* A management request: the number it names, the channel whose page it was   *)
(* given on, the order it was given against, and where it has got to.         *)
Flow(kind, number, meant, will) ==
  [kind |-> kind, number |-> number, meant |-> meant, was |-> list, will |-> will,
   step |-> "asked", data |-> list, replaced |-> FALSE, left |-> FALSE,
   excused |-> disturbed]
Busy == flows # {}
Tap == taps < MaxTaps /\ taps' = taps + 1
Starts(flow) == flows' = flows \cup {flow}

(* The owner walked to another page: an answer no longer selects a channel.   *)
Leaving == flows' = {[w EXCEPT !.left = TRUE] : w \in flows}
pi == <<numbers, kept>>
bounds == <<others, faults>>

OpenCard(f) ==
  /\ page.view = "watch" /\ f \in Channels(list) /\ Tap
  /\ page' = PageAt(f, list, list[f])
  /\ Leaving
  /\ UNCHANGED <<pi, list, poll, bounds, disturbed>>

OpenNumbers ==
  /\ page.view # "settings" /\ Tap
  /\ page' = [page EXCEPT !.view = "settings"]
  /\ UNCHANGED <<pi, list, flows, poll, bounds, disturbed>>

(* Back from the numbers: to the channel page whose address lies behind, or   *)
(* to the cards.                                                              *)
BackFromNumbers ==
  /\ page.view = "settings" /\ Tap
  /\ page' = IF page.address = 0 THEN Hub ELSE Addressed(page, list)
  /\ Leaving
  /\ UNCHANGED <<pi, list, poll, bounds, disturbed>>

ClosePage ==
  /\ page.view = "channel" /\ Tap
  /\ page' = Hub
  /\ Leaving
  /\ UNCHANGED <<pi, list, poll, bounds, disturbed>>

(* The connection came back: the requested view is opened from its address.   *)
Reopen ==
  /\ page.view = "channel" /\ faults < MaxFaults
  /\ page' = Addressed(page, list)
  /\ Leaving /\ faults' = faults + 1
  /\ UNCHANGED <<pi, list, poll, taps, others, disturbed>>

(* The buttons of the channel page.  Visibility uses the number of the        *)
(* painted channel, the form and deletion the selected number.                *)
Toggle ==
  /\ page.view = "channel" /\ ~Busy /\ Tap
  /\ Starts(Flow("toggle", list[page.work], page.work, list))
  /\ UNCHANGED <<pi, list, page, poll, bounds, disturbed>>

SaveForm ==
  /\ page.view = "channel" /\ ~Busy /\ Tap
  /\ Starts(Flow("edit", page.number, page.work, list))
  /\ UNCHANGED <<pi, list, page, poll, bounds, disturbed>>

Delete ==
  /\ page.view = "channel" /\ ~Busy /\ At(list, page.number) # None /\ Tap
  /\ Starts(Flow("delete", page.number, page.work, list))
  /\ UNCHANGED <<pi, list, page, poll, bounds, disturbed>>

(* The list of numbers and the form for a new channel.                        *)
Move(f, step) ==
  /\ page.view = "settings" /\ ~Busy /\ f \in Channels(list)
  /\ Swapped(list, f, step) # list /\ Tap
  /\ Starts(Flow("move", 0, At(list, page.number), Swapped(list, f, step)))
  /\ UNCHANGED <<pi, list, page, poll, bounds, disturbed>>

Add(f) ==
  /\ page.view # "channel" /\ ~Busy /\ f \notin Channels(list) /\ Tap
  /\ Starts(Flow("add", 0, f, list))
  /\ UNCHANGED <<pi, list, page, poll, bounds, disturbed>>
-----------------------------------------------------------------------------
(* The Pi.  A reorder must name the order the Pi has; an addition puts the    *)
(* numbers in order first; the last channel stays.                            *)
Refuses(w) ==
  CASE w.kind = "move" -> numbers # w.was
    [] w.kind = "add" -> numbers[w.meant] > 0
    [] w.kind = "delete" -> At(numbers, w.number) = None \/ Cardinality(Channels(numbers)) = 1
    [] OTHER -> At(numbers, w.number) = None

PiDoes(w) ==
  /\ w.step = "asked"
  /\ flows' = (flows \ {w}) \cup {[w EXCEPT !.step = IF Refuses(w) THEN "refused" ELSE "done"]}
  /\ IF Refuses(w) THEN UNCHANGED pi
     ELSE CASE w.kind = "move" -> numbers' = w.will /\ kept' = kept
            [] w.kind = "add" -> numbers' = Added(numbers, w.meant) /\ kept' = [kept EXCEPT ![w.meant] = w.meant]
            [] w.kind = "delete" -> numbers' = [numbers EXCEPT ![At(numbers, w.number)] = 0] /\ kept' = kept
            [] OTHER -> numbers' = numbers /\ kept' = [kept EXCEPT ![At(numbers, w.number)] = w.meant]
  /\ UNCHANGED <<list, page, poll, taps, bounds, disturbed>>

Disturbs ==
  /\ others' = others + 1 /\ disturbed' = TRUE
  /\ flows' = {[w EXCEPT !.excused = TRUE] : w \in flows}

OtherMoves(f) ==
  /\ others < MaxOthers /\ f \in Channels(numbers) /\ Swapped(numbers, f, "up") # numbers
  /\ numbers' = Swapped(numbers, f, "up")
  /\ Disturbs
  /\ UNCHANGED <<kept, list, page, poll, taps, faults>>

OtherDeletes(f) ==
  /\ others < MaxOthers /\ f \in Channels(numbers) /\ Cardinality(Channels(numbers)) > 1
  /\ numbers' = [numbers EXCEPT ![f] = 0]
  /\ Disturbs
  /\ UNCHANGED <<kept, list, page, poll, taps, faults>>
-----------------------------------------------------------------------------
(* Answers.  A saved order is written into the channels the move was given    *)
(* on, whose numbers the page shows unless another library replaced them, and *)
(* the selected number follows its channel; a saved form selects its number   *)
(* again unless the owner went elsewhere.  Then the library is read.          *)
Reading(w) == flows' = (flows \ {w}) \cup {[w EXCEPT !.step = "reads"]}

Renumbered(w) == IF w.meant = None THEN page ELSE [page EXCEPT !.number = w.will[w.meant]]

Ordered(w) ==
  /\ w.kind = "move" /\ w.step = "done"
  /\ list' = IF w.replaced THEN list ELSE w.will
  /\ page' = Renumbered(w)
  /\ Reading(w)
  /\ UNCHANGED <<pi, poll, taps, bounds, disturbed>>

Managed(w) ==
  /\ w.kind # "move" /\ w.step = "done"
  /\ page' = IF w.kind = "edit" /\ ~w.left THEN [page EXCEPT !.number = w.number] ELSE page
  /\ Reading(w)
  /\ UNCHANGED <<pi, list, poll, taps, bounds, disturbed>>

Refused(w) ==
  /\ w.step = "refused"
  /\ flows' = flows \ {w}
  /\ UNCHANGED <<pi, list, page, poll, taps, bounds, disturbed>>

(* A request, its answer or its reload may be lost.                           *)
Lost(w) ==
  /\ faults < MaxFaults
  /\ flows' = flows \ {w}
  /\ faults' = faults + 1
  /\ disturbed' = (disturbed \/ w.step \notin {"asked", "refused"})
  /\ UNCHANGED <<pi, list, page, poll, taps, others>>

(* The reload, and a reload a timer started (the optimisation poll), which    *)
(* may cross a management request.                                            *)
PiReads(w) ==
  /\ w.step = "reads"
  /\ flows' = (flows \ {w}) \cup {[w EXCEPT !.step = "read", !.data = numbers]}
  /\ UNCHANGED <<pi, list, page, poll, taps, bounds, disturbed>>

Reloaded(w) ==
  /\ w.step = "read"
  /\ Applies(w.data)
  /\ flows' = flows \ {w}
  /\ UNCHANGED <<pi, poll, taps, bounds>>

PiPolled ==
  /\ poll = <<>>
  /\ poll' = <<numbers>>
  /\ UNCHANGED <<pi, list, page, flows, taps, bounds, disturbed>>

Polled ==
  /\ poll # <<>>
  /\ Applies(poll[1])
  /\ poll' = <<>>
  /\ flows' = {[w EXCEPT !.replaced = TRUE] : w \in flows}
  /\ UNCHANGED <<pi, taps, bounds>>
-----------------------------------------------------------------------------
Init ==
  /\ numbers \in {Numbered(order) : order \in {SetToSeq(Folder)}}
  /\ list = numbers
  /\ kept = [f \in Folder |-> f]
  /\ page = Hub
  /\ flows = {} /\ poll = <<>>
  /\ taps = 0 /\ others = 0 /\ faults = 0
  /\ disturbed = FALSE

Next ==
  \/ \E f \in Folder : OpenCard(f)
  \/ OpenNumbers \/ BackFromNumbers \/ ClosePage \/ Reopen
  \/ Toggle \/ SaveForm \/ Delete
  \/ \E f \in Folder, step \in {"up", "down"} : Move(f, step)
  \/ \E f \in Folder : Add(f)
  \/ \E f \in Folder : OtherMoves(f)
  \/ \E f \in Folder : OtherDeletes(f)
  \/ \E w \in flows : PiDoes(w)
  \/ \E w \in flows : Ordered(w)
  \/ \E w \in flows : Managed(w)
  \/ \E w \in flows : Refused(w)
  \/ \E w \in flows : Lost(w)
  \/ \E w \in flows : PiReads(w)
  \/ \E w \in flows : Reloaded(w)
  \/ PiPolled \/ Polled

Spec == Init /\ [][Next]_vars
-----------------------------------------------------------------------------
(* Settings given on the page of a channel change that channel, although its  *)
(* number may be another one by the time the Pi gets them; unless a late read *)
(* had moved the numbers under the page (actions.js:30).                      *)
SettingsReachTheirChannel ==
  \A f \in Folder : kept'[f] # kept[f] => kept'[f] = f \/ \E w \in flows : w.excused

(* A page that is open goes over to another channel only when its own is      *)
(* gone, whatever is renumbered (selectedManageChannelFolder).                *)
PageStaysOnItsChannel ==
  page.view = "channel" /\ page'.view = "channel" /\ page'.work # page.work
  => page.work \notin Channels(list') \/ faults' # faults

(* With nothing under way the page knows the numbers of the Pi, unless        *)
(* another device changed them, a read was lost or reads crossed.             *)
QuietListIsThePis == flows = {} /\ ~disturbed => list = numbers

(* Then what is painted, what is selected and the number commands carry are   *)
(* one channel.                                                               *)
PageIsSelected ==
  page.view = "channel" /\ ~disturbed /\ flows = {}
  => page.folder = page.work /\ page.number = list[page.work]

(* A channel's page is about one channel, and so are its commands.            *)
ChannelPagesAreTrue ==
  [](QuietListIsThePis /\ PageIsSelected)
  /\ [][SettingsReachTheirChannel /\ PageStaysOnItsChannel]_vars
=============================================================================
