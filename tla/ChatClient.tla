----------------------------- MODULE ChatClient -----------------------------
(***************************************************************************)
(* internal/ai over internal/foundry: a scan or a connection test that got *)
(* an endpoint from Discovery sends chat requests to it.  Client.Authorize *)
(* signs a request only for the endpoint it trusts; a request carries a    *)
(* temperature until the model is known to reject it.                      *)
(***************************************************************************)
EXTENDS Discovery, FiniteSets

CONSTANTS
  Models,     \* the deployments one may select
  Reasoning,  \* those whose profile says that they take no temperature
  Picky       \* those that really take none

ASSUME ChatAssumption == Reasoning \subseteq Models /\ Picky \subseteq Models

VARIABLES
  model, temperature, again,  \* of each caller: its request, and if it is the retry
  verified,                   \* generation when its target was compared
  noTemperature,              \* models that rejected it; kept for all clients
  rejections                  \* history: how often each model rejected one

request == <<model, temperature, again, verified>>
chatVars == <<request, noTemperature, rejections>>
vars == <<discoveryVars, chatVars>>

Init ==
  /\ DiscoveryInit
  /\ model \in [Callers -> Models]
  /\ temperature = [c \in Callers |-> FALSE] /\ again = [c \in Callers |-> FALSE]
  /\ verified = [c \in Callers |-> 0]
  /\ noTemperature = {} /\ rejections = [m \in Models |-> 0]

Step(c, l) == Go(c, l) /\ UNCHANGED <<azure, client, gate, provider, force, ended, got, mine, calls>>

----------------------------------------------------------------------------
\* ChatJSON.  A deployment that is not in the list is taken for a reasoning
\* model (foundryConfig).  A scan asks more than once with what it was given.
Ask(c) ==
  /\ pc[c] \in {"ready", "answered"}
  /\ \E m \in Models, listed \in BOOLEAN :
       /\ model' = [model EXCEPT ![c] = m]
       /\ temperature' = [temperature EXCEPT ![c] =
            listed /\ m \notin Reasoning /\ m \notin noTemperature]
  /\ again' = [again EXCEPT ![c] = FALSE]
  /\ Step(c, "sign")
  /\ UNCHANGED <<verified, noTemperature, rejections>>

\* The connection test sends no temperature and does not try again.
Ping(c) ==
  /\ At(c, "ready")
  /\ \E m \in Models : model' = [model EXCEPT ![c] = m]
  /\ temperature' = [temperature EXCEPT ![c] = FALSE]
  /\ again' = [again EXCEPT ![c] = TRUE]
  /\ Step(c, "sign")
  /\ UNCHANGED <<verified, noTemperature, rejections>>

\* Authorize compares the target with the trusted endpoint ...
Verify(c) ==
  /\ At(c, "sign")
  /\ verified' = [verified EXCEPT ![c] = generation]
  /\ Step(c, IF endpoint = None \/ endpoint # got[c] THEN "refused" ELSE "token")
  /\ UNCHANGED <<model, temperature, again, noTemperature, rejections>>

\* Mutant: ... once.
SignAtOnce(c) ==
  /\ At(c, "token")
  /\ Step(c, "sent")
  /\ UNCHANGED chatVars

\* ... and again when it has the token, for which it may have had to sign in.
Sign(c) ==
  /\ At(c, "token")
  /\ Step(c, IF generation # verified[c] \/ endpoint # got[c] THEN "refused" ELSE "sent")
  /\ verified' = [verified EXCEPT ![c] = 0]
  /\ UNCHANGED <<model, temperature, again, noTemperature, rejections>>

\* No token, no answer, another status or an answer without a choice.
AskFails(c) ==
  /\ pc[c] \in {"token", "sent"}
  /\ Step(c, "unavailable")
  /\ UNCHANGED chatVars

\* Mutant: the model is not remembered.
RejectForgets(c) ==
  /\ At(c, "sent") /\ temperature[c] /\ model[c] \in Picky
  /\ rejections' = [rejections EXCEPT ![model[c]] = @ + 1]
  /\ temperature' = [temperature EXCEPT ![c] = FALSE]
  /\ again' = [again EXCEPT ![c] = TRUE]
  /\ Step(c, IF again[c] THEN "rejected" ELSE "sign")
  /\ UNCHANGED <<model, verified, noTemperature>>

\* HTTP 400 for the temperature: remembered, and sent once more without.
Reject(c) ==
  /\ At(c, "sent") /\ temperature[c] /\ model[c] \in Picky
  /\ rejections' = [rejections EXCEPT ![model[c]] = @ + 1]
  /\ noTemperature' = noTemperature \cup {model[c]}
  /\ temperature' = [temperature EXCEPT ![c] = FALSE]
  /\ again' = [again EXCEPT ![c] = TRUE]
  /\ Step(c, IF again[c] THEN "rejected" ELSE "sign")
  /\ UNCHANGED <<model, verified>>

Answer(c) ==
  /\ At(c, "sent") /\ ~(temperature[c] /\ model[c] \in Picky)
  /\ Step(c, "answered")
  /\ UNCHANGED chatVars

\* The caller is done: its client is dropped.
Leave(c) ==
  /\ pc[c] \in {"ready", "unavailable", "answered", "refused", "rejected"}
  /\ Go(c, "idle")
  /\ got' = [got EXCEPT ![c] = None] /\ mine' = [mine EXCEPT ![c] = 0]
  /\ force' = [force EXCEPT ![c] = FALSE] /\ ended' = [ended EXCEPT ![c] = FALSE]
  /\ temperature' = [temperature EXCEPT ![c] = FALSE]
  /\ again' = [again EXCEPT ![c] = FALSE] /\ verified' = [verified EXCEPT ![c] = 0]
  /\ UNCHANGED <<azure, client, gate, provider, calls,
                 model, noTemperature, rejections>>

Chat(c) ==
  \/ Ask(c) \/ Ping(c) \/ Verify(c) \/ Sign(c) \/ AskFails(c) \/ Reject(c)
  \/ Answer(c) \/ Leave(c)

Next ==
  \/ World /\ UNCHANGED chatVars
  \/ \E c \in Callers : Catalog(c) /\ UNCHANGED chatVars
  \/ \E c \in Callers : Chat(c)

Spec == Init /\ [][Next]_vars

\* Azure is given a limited time; a channel serves senders in their order.
InTime(c) == Cached(c) \/ Begin(c) \/ ReadAccount(c) \/ ListDeployments(c)
             \/ RefreshFails(c) \/ Commit(c) \/ Fail(c)
Fairness == \A c \in Callers :
  /\ WF_vars(InTime(c) /\ UNCHANGED chatVars)
  /\ SF_vars(Enter(c) /\ UNCHANGED chatVars)
FairSpec == Spec /\ Fairness

----------------------------------------------------------------------------
\* No request is signed for an endpoint the account has not had since the
\* newest discovery began, also when the sign-in takes longer than one.
SignedForCurrent == [][
  \A c \in Callers : At(c, "token") /\ pc'[c] = "sent" => got[c] \in recent
  ]_vars

\* A client that was given an endpoint is refused only because a discovery has
\* begun since: what is selectable works.
RefusedAfterRefresh == \A c \in Callers : At(c, "refused") => mine[c] # generation

\* "The first rejection is remembered per model" (client.go): each caller that
\* was under way pays for it once, and nobody later.
RejectedOnce == \A m \in Models : rejections[m] <= Cardinality(Callers)

\* A model that takes no temperature is a reason to ask once more, never to fail.
NeverRejected == \A c \in Callers : ~At(c, "rejected")
=============================================================================
