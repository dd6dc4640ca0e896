--------------------------- MODULE MCClientMedia ---------------------------
\* Small instance: a transform limited to two pending frames; three jobs in a sound
\* environment, two with a window that is resized twice, and one with failing,
\* slow and blocked native calls.
EXTENDS ClientMedia

MCContents ==
  [ts : {0, 1}, key : BOOLEAN, empty : {FALSE}]
  \cup {[ts |-> 2, key |-> TRUE, empty |-> FALSE], [ts |-> 0, key |-> TRUE, empty |-> TRUE]}

MCScenarios ==
  {[jobs |-> 3, hangs |-> 0, resizes |-> 0, faults |-> FALSE],
   [jobs |-> 2, hangs |-> 0, resizes |-> 2, faults |-> FALSE],
   [jobs |-> 1, hangs |-> 1, resizes |-> 0, faults |-> TRUE]}

MCFillings == {<<0, 16>>, <<0, 235>>, <<85, 0>>, <<37, 240>>, <<101, 7>>, <<255, 128>>}
============================================================================
