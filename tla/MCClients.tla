------------------------------ MODULE MCClients ------------------------------
(* Programs that reach the Pi over the network and may lose it at any moment: *)
(* a phone's downloads, its cards and episode marks of My TV, the portal's    *)
(* frame, its pages for channels and insights, the family's collections and   *)
(* their player, and the Studio of a laptop.  Each has tables, files or       *)
(* requests of its own, so a behaviour is one of them at work, chosen at its  *)
(* start.  The modules that are proved about are extended, the other one is   *)
(* an instance.                                                               *)
EXTENDS OfflineVideos, EpisodeMarks, StudioCompanion, FamilyPlayer, ContentCards, PortalShell,
        FamilyLibrary, ViewingInsights

CONSTANTS Folder, MaxChannelTaps, MaxOtherDevices, MaxChannelFaults         \* of ChannelPages

VARIABLES
  atWork,
  numbers, kept, channelList, channelPage, flows, poll, channelTaps, otherDevices, faults, disturbed

channelVars == <<numbers, kept, channelList, channelPage, flows, poll, channelTaps, otherDevices, faults,
                 disturbed>>

Channels == INSTANCE ChannelPages
  WITH MaxTaps <- MaxChannelTaps, MaxOthers <- MaxOtherDevices, MaxFaults <- MaxChannelFaults,
       list <- channelList, page <- channelPage, taps <- channelTaps, others <- otherDevices

(* A session of memories: a photo and a clip.                                 *)
MCScenes == <<"photo", "clip">>

(* Who is not at work starts in one state.                                    *)
ClientsInit ==
  /\ atWork \in {"downloads", "companion", "cards", "marks", "shell", "family", "channels", "gallery", "insights"}
  /\ Init /\ CompanionInit /\ CardsInit
  /\ MarksInit /\ (atWork # "marks" => shown = {})
  /\ ShellInit /\ (atWork # "shell" => /\ cache # NoSnapshot /\ server.pinned /\ server.session
                                      /\ device.online /\ device.storage)
  /\ FamilyInit /\ (atWork # "family" => position = [s \in Story |-> 0])
  /\ Channels!Init
  /\ GalleryInit /\ (atWork # "gallery" => mediaFiles = Empty)
  /\ InsightsInit /\ (atWork # "insights" => \A k \in Keys : snapshot[k] = NoResource)

Rests(part) ==
  /\ IF part = "downloads" THEN TRUE ELSE UNCHANGED vars
  /\ IF part = "companion" THEN TRUE ELSE UNCHANGED companionVars
  /\ IF part = "cards" THEN TRUE ELSE UNCHANGED cardVars
  /\ IF part = "marks" THEN TRUE ELSE UNCHANGED markVars
  /\ IF part = "shell" THEN TRUE ELSE UNCHANGED shellVars
  /\ IF part = "family" THEN TRUE ELSE UNCHANGED familyVars
  /\ IF part = "channels" THEN TRUE ELSE UNCHANGED channelVars
  /\ IF part = "gallery" THEN TRUE ELSE UNCHANGED galleryVars
  /\ IF part = "insights" THEN TRUE ELSE UNCHANGED insightVars

ClientsNext ==
  /\ UNCHANGED atWork
  /\ \/ atWork = "downloads" /\ Next /\ Rests("downloads")
     \/ atWork = "companion" /\ CompanionNext /\ Rests("companion")
     \/ atWork = "cards" /\ CardsNext /\ Rests("cards")
     \/ atWork = "marks" /\ MarksNext /\ Rests("marks")
     \/ atWork = "shell" /\ ShellNext /\ Rests("shell")
     \/ atWork = "family" /\ FamilyNext /\ Rests("family")
     \/ atWork = "channels" /\ Channels!Next /\ Rests("channels")
     \/ atWork = "gallery" /\ GalleryNext /\ Rests("gallery")
     \/ atWork = "insights" /\ InsightsNext /\ Rests("insights")

ClientsVars ==
  <<atWork, vars, companionVars, cardVars, markVars, shellVars,
    familyVars, channelVars, galleryVars, insightVars>>

ClientsSpec == ClientsInit /\ [][ClientsNext]_ClientsVars
-----------------------------------------------------------------------------
(* ChannelPages: a page stays with its channel, and its commands reach it,    *)
(* while channels are renumbered under it (playback/channels.js, actions.js). *)
ChannelPagesAreTrue == Channels!ChannelPagesAreTrue
=============================================================================
