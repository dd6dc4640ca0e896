---------------------------- MODULE FrameStream ----------------------------
(***************************************************************************)
(* What the video path promises, with everything between the host's seal   *)
(* and the client's hand-off slot left out: the host produces frames, and  *)
(* the client publishes some of them, newest last, in a slot of depth one  *)
(* that the user interface empties.  Frames may be skipped; none is shown  *)
(* twice, out of order, or without having been produced.                   *)
(***************************************************************************)
EXTENDS Naturals

CONSTANT NoFrame        \* the slot is empty

VARIABLES produced,     \* the frames the host has sealed
          shown,        \* the id of the newest frame published, 0 if none
          slot          \* the hand-off slot

vars == <<produced, shown, slot>>

Init == produced = {} /\ shown = 0 /\ slot = NoFrame

Produce == produced \subseteq produced' /\ UNCHANGED <<shown, slot>>

Publish == \E f \in produced : /\ f.id > shown
                               /\ shown' = f.id
                               /\ slot' = f
                               /\ UNCHANGED produced

Take == slot' = NoFrame /\ UNCHANGED <<produced, shown>>

Next == Produce \/ Publish \/ Take

Spec == Init /\ [][Next]_vars
=============================================================================
