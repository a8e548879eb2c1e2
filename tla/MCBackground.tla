---------------------------- MODULE MCBackground ----------------------------
(***************************************************************************)
(* What runs beside the life of an item, side by side: the components      *)
(* share nothing that is modelled, so that one of them moves in a          *)
(* behaviour; Init chooses which.  The others are at rest: no watcher, no  *)
(* open page, no list, no goroutine at a lock.                             *)
(***************************************************************************)
EXTENDS ItemLocksRefinement, Watcher, SourceRefresh, Progress, Deployments

VARIABLE moves

MCPublisher == [partner |-> "mistral"]
MCCaps == [batchOnly : {"absent", "false", "true", "junk"},
           responsesOnly : {"absent", "true", "junk"},
           protocol : {"absent", "openai", "junk"},
           chatCompletion : {"absent", "false", "true", "junk"}]
MCDeployments ==
  [name : {"a"}, own : {TRUE}, ready : {TRUE},
   format : {"openai", "mistral", "other", "anthropic", "none"},
   model : {"plain", "reasoning", "partner", "excluded", "unfamiliar"}, caps : MCCaps]

MCUsual(n, model, o) ==
  [name |-> n, own |-> o, ready |-> TRUE, format |-> "openai", model |-> model,
   caps |-> [c \in {"batchOnly", "responsesOnly", "protocol", "chatCompletion"} |-> "absent"]]
\* Pages: nothing, one deployment, the same name for another one, a pair too many.
MCContents == {<<>>, <<MCUsual("a", "plain", TRUE)>>, <<MCUsual("a", "reasoning", TRUE)>>,
               <<MCUsual("b", "plain", TRUE)>>, <<MCUsual("b", "plain", FALSE)>>,
               <<MCUsual("b", "plain", TRUE), MCUsual("c", "plain", TRUE)>>}
MCShort == [first : {"p"}, pages : {("p" :> <<d>>) : d \in MCDeployments},
            links : {"p" :> End}]
MCSpread == [first : {"p"}, pages : [{"p", "q"} -> MCContents],
             links : [{"p", "q"} -> {"p", "q", End, Elsewhere}]]
MCLong == [first : {"p"}, pages : [{"p", "q", "r"} -> {<<>>, <<MCUsual("a", "plain", TRUE)>>}],
           links : [{"p", "q", "r"} -> {"p", "q", "r", End, Elsewhere}]]
MCLists == MCShort \cup MCSpread \cup MCLong
MCNoList == [first |-> "p", pages |-> "p" :> <<>>, links |-> "p" :> End]

MCInit ==
  /\ Init /\ WatcherInit /\ RefreshInit /\ ProgressInit
  /\ moves \in {"locks", "watcher", "refresh", "progress", "deployments"}
  /\ (run = "start") = (moves = "watcher")
  /\ moves # "watcher" => sources \cup away \cup broken = {}
  /\ moves # "refresh" => ~open
  /\ \/ moves = "deployments" /\ DeploymentsInit
     \/ /\ moves # "deployments" /\ list = MCNoList /\ next = "p" /\ seenPages = {}
        /\ seenNames = {} /\ listed = 0 /\ offered = {} /\ listing = "failed"

MCVars == <<vars, watcherVars, refreshVars, progressVars, deploymentVars>>

MCNext ==
  /\ UNCHANGED moves
  /\ \/ moves = "locks" /\ Next
        /\ UNCHANGED <<watcherVars, refreshVars, progressVars, deploymentVars>>
     \/ moves = "watcher" /\ WatcherNext
        /\ UNCHANGED <<vars, refreshVars, progressVars, deploymentVars>>
     \/ moves = "refresh" /\ RefreshNext
        /\ UNCHANGED <<vars, watcherVars, progressVars, deploymentVars>>
     \/ moves = "progress" /\ ProgressNext
        /\ UNCHANGED <<vars, watcherVars, refreshVars, deploymentVars>>
     \/ moves = "deployments" /\ DeploymentsNext
        /\ UNCHANGED <<vars, watcherVars, refreshVars, progressVars>>

MCSpec ==
  /\ MCInit /\ [][MCNext]_<<MCVars, moves>>
  /\ Fairness /\ WatcherFairness /\ RefreshFairness /\ DeploymentsFairness
=============================================================================
