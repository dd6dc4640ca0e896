-------------------------- MODULE MCWindowsCapture --------------------------
(* A capture source on a display that composes, resizes and may go away. *)
EXTENDS WindowsCapture

=============================================================================
