--------------------------- MODULE MCClientRuntime ---------------------------
(* A client that may control, one that may only view, and ones that must not start. *)
EXTENDS ClientRuntime

Setup(verifies, view, ctl, stream) ==
  [verifies |-> verifies, view |-> view, control |-> ctl, stream |-> stream]

MCSetups == {Setup(TRUE, TRUE, TRUE, TRUE), Setup(TRUE, TRUE, FALSE, TRUE),
             Setup(FALSE, TRUE, TRUE, TRUE), Setup(TRUE, FALSE, TRUE, TRUE),
             Setup(TRUE, TRUE, TRUE, FALSE)}

MCController == {Setup(TRUE, TRUE, TRUE, TRUE)}

=============================================================================
