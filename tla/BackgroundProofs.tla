--------------------------- MODULE BackgroundProofs ---------------------------
(***************************************************************************)
(* Theorems about the components of MCBackground, for any number of tasks, *)
(* activities, pages and deployments.                                      *)
(***************************************************************************)
EXTENDS SourceRefresh, Progress, Deployments, TLAPS

----------------------------------------------------------------------------
(* SourceRefresh.  A task that ends clears the status, whichever it is: it  *)
(* must be the only one, and that is what the status says.                  *)

RefreshIInv ==
  /\ \/ running = FALSE /\ tasks = 0
     \/ running = TRUE /\ tasks = 1
  /\ unread \in Nat /\ unread <= tasks

LEMMA ScheduleKeeps ==
  ASSUME RefreshIInv, NEW force \in BOOLEAN, Schedule(force) PROVE RefreshIInv'
<1>1. CASE running = TRUE
  <2>1. UNCHANGED <<running, cooling, tasks, unread>>
    BY <1>1, Zenon DEF Schedule
  <2> QED
    BY <2>1 DEF RefreshIInv
<1>2. CASE running = FALSE
  <2>1. BeginRefresh \/ UNCHANGED <<running, cooling, tasks, unread>>
    BY <1>2, Zenon DEF Schedule
  <2> QED
    BY <1>2, <2>1 DEF RefreshIInv, BeginRefresh
<1> QED
  BY <1>1, <1>2 DEF RefreshIInv

\* "Concurrent polls never start additional refresh tasks" (README.md), nor do
\* forced ones: there is one task while the status says that it runs.
THEOREM OneTaskRuns == RefreshSpec => []OneTask
<1>1. RefreshInit => RefreshIInv
  BY DEF RefreshInit, RefreshIInv
<1>2. RefreshIInv /\ [RefreshNext]_refreshVars => RefreshIInv'
  <2> SUFFICES ASSUME RefreshIInv, [RefreshNext]_refreshVars PROVE RefreshIInv'
    OBVIOUS
  <2>1. CASE Poll
    BY <2>1, ScheduleKeeps DEF Poll
  <2>2. CASE ClearQueue
    BY <2>2, ScheduleKeeps DEF ClearQueue
  <2>3. CASE ReadSources
    BY <2>3 DEF ReadSources, RefreshIInv
  <2>4. CASE Finish
    BY <2>4 DEF Finish, RefreshIInv
  <2>5. CASE Cool
    BY <2>5 DEF Cool, RefreshIInv
  <2>6. CASE Change
    BY <2>6 DEF Change, RefreshIInv
  <2>7. CASE OpenOrClose
    BY <2>7 DEF OpenOrClose, RefreshIInv
  <2>8. CASE UNCHANGED refreshVars
    BY <2>8 DEF refreshVars, RefreshIInv
  <2> QED
    BY <2>1, <2>2, <2>3, <2>4, <2>5, <2>6, <2>7, <2>8 DEF RefreshNext
<1>3. RefreshIInv => OneTask
  BY Zenon DEF RefreshIInv, OneTask
<1> QED
  BY <1>1, <1>2, <1>3, PTL DEF RefreshSpec

----------------------------------------------------------------------------
(* Progress.                                                                *)

ProgressIInv ==
  /\ QuietIsShown
  /\ stage \in [Activities -> {"off", "scan", "listed", "work"}]

\* When nothing is done the page says so, in whatever order the activities that
\* share the record begin and end.
THEOREM QuietShown == ProgressSpec => []QuietIsShown
<1> USE DEF ProgressIInv, QuietIsShown, Quiet
<1>1. ProgressInit => ProgressIInv
  BY DEF ProgressInit
<1>2. ProgressIInv /\ [ProgressNext]_progressVars => ProgressIInv'
  <2> SUFFICES ASSUME ProgressIInv, [ProgressNext]_progressVars PROVE ProgressIInv'
    OBVIOUS
  <2>1. ASSUME NEW x \in Activities, StartPhase(x) PROVE ProgressIInv'
    <3>1. stage' \in [Activities -> {"off", "scan", "listed", "work"}] /\ stage'[x] # "off"
      BY <2>1 DEF StartPhase
    <3> QED
      BY <3>1
  <2>2. ASSUME NEW x \in Activities, SetPhase(x) PROVE ProgressIInv'
    <3>1. stage' \in [Activities -> {"off", "scan", "listed", "work"}] /\ stage'[x] # "off"
      BY <2>2 DEF SetPhase
    <3> QED
      BY <3>1
  <2>3. ASSUME NEW x \in Activities, SetTotal(x) PROVE ProgressIInv'
    <3>1. stage' \in [Activities -> {"off", "scan", "listed", "work"}] /\ stage'[x] # "off"
      BY <2>3 DEF SetTotal
    <3> QED
      BY <3>1
  <2>4. ASSUME NEW x \in Activities, UpdateProgress(x) PROVE ProgressIInv'
    BY <2>4 DEF UpdateProgress
  <2>5. ASSUME NEW x \in Activities, FinishProgress(x) PROVE ProgressIInv'
    BY <2>5 DEF FinishProgress
  <2>6. CASE UNCHANGED progressVars
    BY <2>6 DEF progressVars, shown, doing
  <2> QED
    BY <2>1, <2>2, <2>3, <2>4, <2>5, <2>6 DEF ProgressNext
<1>3. ProgressIInv => QuietIsShown
  OBVIOUS
<1> QED
  BY <1>1, <1>2, <1>3, PTL DEF ProgressSpec

----------------------------------------------------------------------------
(* Deployments.  Whatever the links of the pages that have been read lead to *)
(* has been read as well, or is what is asked for next (Frontier); names     *)
(* that are offered are remembered (Named).                                  *)

Wanted(p) == {d \in ToSet(list.pages[p]) : SupportsChat(d)}

Frontier ==
  /\ list \in Lists
  /\ \A p \in seenPages : Wanted(p) \subseteq offered
  /\ list.first \in seenPages \cup {next}
  /\ \A q \in seenPages : list.links[q] \in seenPages \cup {next}
  /\ listing = "done" => next = End

Named ==
  /\ \A d, e \in offered : d.name = e.name => d = e
  /\ \A d \in offered : d.name \in seenNames

Supported == \A d \in offered : SupportsChat(d)

ListIInv == Frontier /\ Named /\ Supported

\* Only a page that is accepted changes what is offered.
LEMMA OtherwiseUnchanged ==
  ASSUME ListIInv, QueryFails \/ TooLong \/ Refused \/ UNCHANGED deploymentVars
  PROVE  ListIInv'
<1> USE DEF ListIInv, Frontier, Named, Supported, Wanted
<1>1. /\ UNCHANGED <<list, next, seenPages, seenNames, offered>>
      /\ listing' = "done" => listing = "done"
  BY DEF QueryFails, TooLong, Refused, Failed, deploymentVars
<1> QED
  BY <1>1

LEMMA ReadPageKeeps ==
  ASSUME ListIInv, ReadPage
  PROVE  ListIInv'
<1> DEFINE new == {d \in ToSet(Content) : SupportsChat(d)}
<1>1. /\ UNCHANGED list /\ seenPages' = seenPages \cup {next}
      /\ seenNames' = seenNames \cup NamesOf(Content)
      /\ offered' = offered \cup new /\ next' = list.links[next]
      /\ listing' = After(next')
  BY DEF ReadPage
<1>2. Frontier'
  <2>1. list' \in Lists
    BY <1>1 DEF ListIInv, Frontier
  <2>2. \A p \in seenPages' : Wanted(p)' \subseteq offered'
    <3> SUFFICES ASSUME NEW p \in seenPages' PROVE Wanted(p)' \subseteq offered'
      OBVIOUS
    <3>1. Wanted(p)' = Wanted(p)
      BY <1>1 DEF Wanted
    <3>2. CASE p \in seenPages
      BY <1>1, <3>1, <3>2 DEF ListIInv, Frontier
    <3>3. CASE p = next
      BY <1>1, <3>1, <3>3 DEF Wanted, Content
    <3> QED
      BY <1>1, <3>2, <3>3
  <2>3. /\ list'.first \in seenPages' \cup {next'}
        /\ \A q \in seenPages' : list'.links[q] \in seenPages' \cup {next'}
    BY <1>1 DEF ListIInv, Frontier
  <2>4. listing' = "done" => next' = End
    <3>1. After(next') = "done" => next' = End
      BY DEF After
    <3> QED
      BY <1>1, <3>1
  <2> QED
    BY <2>1, <2>2, <2>3, <2>4 DEF Frontier
<1>3. Named'
  <2>1. \A d \in new : d.name \in NamesOf(Content) /\ d.name \notin seenNames
    BY DEF ReadPage, Valid, NamesOf, ToSet
  <2>2. \A d, e \in new : d.name = e.name => d = e
    <3>1. \A i, j \in DOMAIN Content : Content[i].name = Content[j].name => i = j
      BY DEF ReadPage, Valid, IsInjective
    <3> QED
      BY <3>1 DEF ToSet
  <2>3. \A d, e \in offered : d.name = e.name => d = e
    BY DEF ListIInv, Named
  <2>4. \A d \in offered : d.name \in seenNames
    BY DEF ListIInv, Named
  <2> HIDE DEF new
  <2> QED
    BY <1>1, <2>1, <2>2, <2>3, <2>4 DEF Named
<1>4. Supported'
  BY <1>1 DEF ListIInv, Supported
<1> QED
  BY <1>2, <1>3, <1>4 DEF ListIInv

LEMMA ListInvariant == DeploymentsSpec => []ListIInv
<1>1. DeploymentsInit => ListIInv
  BY DEF DeploymentsInit, ListIInv, Frontier, Named, Supported
<1>2. ListIInv /\ [DeploymentsNext]_deploymentVars => ListIInv'
  BY OtherwiseUnchanged, ReadPageKeeps DEF DeploymentsNext
<1> QED
  BY <1>1, <1>2, PTL DEF DeploymentsSpec

\* A list that is offered is the whole one, however its pages are linked.
THEOREM ListIsWhole == DeploymentsSpec => []NothingMissed
<1>1. ListIInv => NothingMissed
  BY ListsAssumption DEF ListIInv, Frontier, Wanted, NothingMissed
<1> QED
  BY <1>1, ListInvariant, PTL

\* What is offered can be told apart by its name, across all pages.
THEOREM NamesTellApart == DeploymentsSpec => []OneOfEachName
<1>1. ListIInv => OneOfEachName
  BY DEF ListIInv, Named, OneOfEachName
<1> QED
  BY <1>1, ListInvariant, PTL

\* A temperature is sent only to an OpenAI model that is known to take one.
THEOREM OnlyKnownTakeTemperature == DeploymentsSpec => []TemperatureIsSafe
<1>1. ListIInv => TemperatureIsSafe
  BY ProfilesAssumption DEF ListIInv, Supported, SupportsChat, Known, Reasoning,
                            OpenAI, TemperatureIsSafe
<1> QED
  BY <1>1, ListInvariant, PTL
=============================================================================
