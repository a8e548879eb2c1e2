----------------------------- MODULE MCItemPlan -----------------------------
EXTENDS ItemPlanRefinement
CONSTANTS d1, d2, a, b, x

\* Two files with names of their own.
MCBase == [f \in Files |-> IF f = 1 THEN a ELSE b]
MCPair == [f \in Files |-> IF f = 1 THEN x ELSE b]

\* x is another release of the episode in b.
MCSame == {<<x, b>>}

\* What the user queues in the runs.
MCPlan == {<<"plan">>}
MCPlanMove == MCPlan \cup {<<"file", 2, "move">>}
MCRework == MCPlan \cup {<<"reclassify">>}
MCPlanFolder == MCPlan \cup {<<"folder">>, <<"file", 2, "delete">>}
=============================================================================
