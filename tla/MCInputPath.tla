----------------------------- MODULE MCInputPath -----------------------------
(* Finite instances of InputPath. *)
EXTENDS InputPath

MCUnits == {\h41, \hD83D, \hDE00}
MCTexts == UNION {[1..n -> MCUnits] : n \in 0..5}
MCMonitors == [origin : {-3, 0, 2}, width : 1..5]
MCColumns == -6..9
MCMonitor == [origin |-> 0, width |-> 4]

\* The right Shift key, which only its scan code tells from the left one.
MCKeys == {k \in UsKeyboard : k.vk = \h10 /\ k.scan = \h36}

MCLeft == [button |-> "Left"]

Scenario(c, items, others, i, f, a, t) ==
  [control |-> c, items |-> items, others |-> others,
   inputs |-> i, focus |-> f, commands |-> a, time |-> t]

\* Keys pressed and released while the focus moves; a button beside the pointer; text and
\* sizes; a view-only session; the application's commands and the diagnostics they cause.
MCScenarios ==
  { Scenario(TRUE, MCKeys, {}, 3, 2, 0, 0),
    Scenario(TRUE, {MCLeft}, {"move"}, 3, 1, 0, 1),
    Scenario(TRUE, {}, {"text", "size"}, 2, 1, 0, 0),
    Scenario(FALSE, {}, {"move"}, 2, 1, 0, 0),
    Scenario(TRUE, {}, {"move"}, 1, 1, 3, 0) }

=============================================================================
