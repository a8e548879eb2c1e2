----------------------------- MODULE Deployments -----------------------------
(***************************************************************************)
(* Which deployments of the Azure account are offered, and with which      *)
(* options they are used (listDeployments in internal/foundry/client.go,   *)
(* foundry.go): the pages of the list are read one after the other; links  *)
(* may lead back, elsewhere or on for ever.  Discovery has this as a step. *)
(*                                                                         *)
(* A deployment is [name, own, ready, format, model, caps]: own says that  *)
(* its ID belongs to the account, ready that it is provisioned and no      *)
(* batch SKU.  A model is a profile of foundry.go, "excluded" or           *)
(* "unfamiliar".  caps has a value for each capability, or "absent".       *)
(***************************************************************************)
EXTENDS Naturals, FiniteSets, SequencesExt

CONSTANTS
  Lists,          \* the lists Azure may send: first, content of pages, links
  Plain,          \* OpenAI profiles that take a temperature
  ReasoningOnes,  \* OpenAI profiles that take none
  Publisher,      \* other profiles: model |-> format
  End, Elsewhere, \* no further page; a link out of the account's list
  MaxPages, MaxDeployments

ASSUME DeploymentsAssumption == MaxPages \in Nat /\ MaxDeployments \in Nat
ASSUME ListsAssumption == \A l \in Lists : End \notin DOMAIN l.pages
ASSUME ProfilesAssumption == Plain \cap DOMAIN Publisher = {}

VARIABLES list, next, seenPages, seenNames, listed, offered, listing
deploymentVars == <<list, next, seenPages, seenNames, listed, offered, listing>>

OpenAI == Plain \cup ReasoningOnes

----------------------------------------------------------------------------
\* capability: what is neither true nor false counts as the worse of the two.
Harmless(d, cap) == d.caps[cap] \in {"absent", "false"}
Advertises(d) == d.caps["chatCompletion"] = "true"

Known(d) == \/ d.model \in OpenAI /\ d.format = "openai"
            \/ d.model \in DOMAIN Publisher /\ d.format = Publisher[d.model]

\* A model with a profile needs no capability, an unfamiliar one has to advertise
\* chat, and the protocol as well if it is not OpenAI's.
SupportsChat(d) ==
  /\ d.ready /\ d.format \notin {"none", "anthropic"} /\ d.model # "excluded"
  /\ Harmless(d, "batchOnly") /\ Harmless(d, "responsesOnly")
  /\ d.caps["protocol"] \in {"absent", "openai"}
  /\ d.caps["chatCompletion"] \in {"absent", "true"}
  /\ \/ Known(d)
     \/ /\ d.model \notin OpenAI \cup DOMAIN Publisher
        /\ Advertises(d) /\ (d.format = "openai" \/ d.caps["protocol"] = "openai")

\* reasoningSafe: no temperature unless a profile says that there may be one.
Reasoning(d) == d.model \notin Plain

----------------------------------------------------------------------------
DeploymentsInit ==
  /\ list \in Lists /\ next = list.first /\ seenPages = {} /\ seenNames = {}
  /\ listed = 0 /\ offered = {} /\ listing = "asking"

Failed ==
  listing' = "failed" /\ UNCHANGED <<list, next, seenPages, seenNames, listed, offered>>

\* A query fails, is over budget or no list.
QueryFails == listing = "asking" /\ Failed

TooLong ==
  /\ listing = "asking"
  /\ next \in seenPages \/ Cardinality(seenPages) >= MaxPages
  /\ Failed

Content == list.pages[next]
NamesOf(s) == {s[i].name : i \in DOMAIN s}

Valid ==
  /\ listed + Len(Content) <= MaxDeployments
  /\ \A i \in DOMAIN Content : Content[i].own /\ Content[i].name \notin seenNames
  /\ IsInjective([i \in DOMAIN Content |-> Content[i].name])

Refused == listing = "asking" /\ ~Valid /\ Failed

\* A link that leads elsewhere is refused (paginationURL).
After(link) == CASE link = End -> "done" [] link = Elsewhere -> "failed" [] OTHER -> "asking"

\* Mutant: the pages are not remembered.
ReadPageAgain ==
  /\ listing = "asking" /\ Valid
  /\ listed' = listed + Len(Content) /\ seenNames' = seenNames \cup NamesOf(Content)
  /\ offered' = offered \cup {d \in ToSet(Content) : SupportsChat(d)}
  /\ next' = list.links[next]
  /\ listing' = After(next')
  /\ UNCHANGED <<list, seenPages>>

\* Mutant: the page without a link is not read.
ReadLinkedPage ==
  /\ listing = "asking" /\ next \notin seenPages /\ Cardinality(seenPages) < MaxPages
  /\ Valid
  /\ seenPages' = seenPages \cup {next}
  /\ listed' = listed + Len(Content) /\ seenNames' = seenNames \cup NamesOf(Content)
  /\ next' = list.links[next]
  /\ offered' = offered \cup {d \in ToSet(Content) : next' # End /\ SupportsChat(d)}
  /\ listing' = After(next')
  /\ UNCHANGED list

ReadPage ==
  /\ listing = "asking" /\ next \notin seenPages /\ Cardinality(seenPages) < MaxPages
  /\ Valid
  /\ seenPages' = seenPages \cup {next}
  /\ listed' = listed + Len(Content) /\ seenNames' = seenNames \cup NamesOf(Content)
  /\ offered' = offered \cup {d \in ToSet(Content) : SupportsChat(d)}
  /\ next' = list.links[next]
  /\ listing' = After(next')
  /\ UNCHANGED list

DeploymentsNext == QueryFails \/ TooLong \/ Refused \/ ReadPage

\* Azure is given a limited time for each answer.
DeploymentsFairness == WF_deploymentVars(TooLong \/ Refused \/ ReadPage)

DeploymentsSpec ==
  DeploymentsInit /\ [][DeploymentsNext]_deploymentVars /\ DeploymentsFairness

----------------------------------------------------------------------------
\* The listing ends though pages lead back to earlier ones, and may be empty.
ListingEnds == listing = "asking" ~> listing # "asking"

\* What is offered can be told apart by its name (Snapshot.Find), also when a
\* name is used again on a later page.
OneOfEachName == listing = "done" => \A d, e \in offered : d.name = e.name => d = e

\* A list that is offered is the whole one: nothing on a page that links lead to
\* is left out, whatever is refused on the way.
NothingMissed == listing = "done" => \A p \in DOMAIN list.pages :
  p = list.first \/ (\E q \in seenPages : list.links[q] = p)
  => \A d \in ToSet(list.pages[p]) : SupportsChat(d) => d \in offered

\* "Unknown sampling constraints" (foundry.go): a temperature is sent only to an
\* OpenAI model that is known to take one, whatever other publishers call theirs.
TemperatureIsSafe == \A d \in offered :
  ~Reasoning(d) => d.format = "openai" /\ d.model \in Plain
=============================================================================
