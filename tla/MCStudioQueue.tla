---------------------------- MODULE MCStudioQueue ----------------------------
(* Two jobs: a programme downloaded for the Pi, and a file of the laptop.     *)
EXTENDS StudioQueue

MCKind == <<[media |-> "programme", source |-> "iplayer", targets |-> {"film", "local"}],
            [media |-> "film", source |-> "file", targets |-> {"film", "later"}]>>

MCSlots == [stage \in Stage |-> 1]
=============================================================================
