----------------------------- MODULE MCDecisions -----------------------------
(***************************************************************************)
(* What is decided from answers, forms and failures: the components share  *)
(* nothing that is modelled, so that one of them moves in a behaviour, and *)
(* Init chooses which.  The others are at rest in one initial state.       *)
(***************************************************************************)
EXTENDS Classification, Settings, Backoff

VARIABLE moves

Film == <<"", "film">>
Copy == <<"sub", "film">>
Sample == <<"sub", "sample">>
MCPaths == {Film, Copy, Sample}

\* The film, and a second video of that size or another.
MCEntry(path, size1, size2) ==
  <<[path |-> Film, size |-> size1, video |-> TRUE],
    [path |-> path, size |-> size2, video |-> TRUE]>>
MCEntries == {MCEntry(Copy, 2, 1), MCEntry(Copy, 1, 2), MCEntry(Sample, 1, 2)}

MCFolders == {<<"show", 1>>, <<"show", 2>>}
MCJitter == {-20, -7, 0, 13, 20}

MCInit ==
  /\ ClassInit /\ SettingsInit /\ BackoffInit
  /\ moves \in {"classification", "settings", "backoff"}
  /\ moves # "classification" =>
       entry = MCEntry(Copy, 2, 1) /\ ~nested /\ ~whatIf /\ folders = {}

MCNext ==
  /\ UNCHANGED moves
  /\ \/ moves = "classification" /\ ClassNext /\ UNCHANGED <<settingsVars, backoffVars>>
     \/ moves = "settings" /\ SettingsNext /\ UNCHANGED <<classVars, backoffVars>>
     \/ moves = "backoff" /\ BackoffNext /\ UNCHANGED <<classVars, settingsVars>>

MCSpec == MCInit /\ [][MCNext]_<<classVars, settingsVars, backoffVars, moves>>
=============================================================================
