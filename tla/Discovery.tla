------------------------------ MODULE Discovery ------------------------------
(***************************************************************************)
(* internal/foundry: Provider.Catalog, which settings requests, connection *)
(* tests and scans call at the same time, over Client.Refresh, which reads *)
(* the endpoint of the account from Azure.                                 *)
(*                                                                         *)
(* Client trusts an endpoint from the end of a successful Refresh to the   *)
(* beginning of the next one; Provider keeps what Refresh returned and     *)
(* when, and a channel of capacity one (gate) admits one caller at a time. *)
(* Time is what the code compares: whether the short and the long lifetime *)
(* of what is kept are over.                                               *)
(***************************************************************************)
EXTENDS Naturals

CONSTANTS
  Callers,    \* goroutines that call Catalog, one call after the other
  Endpoints,  \* what the account may answer
  None, Nobody,
  MaxCalls    \* bound: calls of Catalog in a behaviour

ASSUME DiscoveryAssumption ==
  None \notin Endpoints /\ Nobody \notin Callers /\ MaxCalls \in Nat

VARIABLES
  account,              \* the endpoint in Azure
  endpoint, generation, \* Client
  gate, snapshot, refreshErr, lastAttempt,  \* Provider
  pc, force, ended,     \* of each caller: where it is, its arguments,
  got, mine,            \* what it has read, and generation at that time
  calls,
  recent                \* history: what the account was since the last Refresh began

azure == <<account, recent>>
client == <<endpoint, generation>>
provider == <<snapshot, refreshErr, lastAttempt>>
caller == <<pc, force, ended, got, mine>>
discoveryVars == <<azure, client, gate, provider, caller, calls>>

At(c, l) == pc[c] = l
Go(c, l) == pc' = [pc EXCEPT ![c] = l]
Refreshing == {"account", "deployments", "commit", "failed"}

DiscoveryInit ==
  /\ account \in Endpoints /\ recent = {}
  /\ endpoint = None /\ generation = 0
  /\ gate = Nobody /\ snapshot = None /\ refreshErr = FALSE /\ lastAttempt = "never"
  /\ pc = [c \in Callers |-> "idle"]
  /\ force = [c \in Callers |-> FALSE] /\ ended = [c \in Callers |-> FALSE]
  /\ got = [c \in Callers |-> None] /\ mine = [c \in Callers |-> 0]
  /\ calls = 0

----------------------------------------------------------------------------
\* A call of Catalog: a page or a scan, or (forced) the refresh button.
Call(c) ==
  /\ At(c, "idle") /\ calls < MaxCalls
  /\ calls' = calls + 1
  /\ \E f \in BOOLEAN : force' = [force EXCEPT ![c] = f]
  /\ ended' = [ended EXCEPT ![c] = FALSE]
  /\ Go(c, "gate")
  /\ UNCHANGED <<azure, client, gate, provider, got, mine>>

\* Mutant: nobody waits.
EnterAny(c) ==
  /\ At(c, "gate")
  /\ gate' = c /\ Go(c, "held")
  /\ UNCHANGED <<azure, client, provider, force, ended, got, mine, calls>>

Enter(c) ==
  /\ At(c, "gate") /\ gate = Nobody
  /\ gate' = c /\ Go(c, "held")
  /\ UNCHANGED <<azure, client, provider, force, ended, got, mine, calls>>

GiveUp(c) ==
  /\ At(c, "gate") /\ ended[c]
  /\ Go(c, "unavailable")
  /\ UNCHANGED <<azure, client, gate, provider, force, ended, got, mine, calls>>

\* catalogTTL, and failedCatalogTTL after a failure.
Kept == lastAttempt = "new" \/ (lastAttempt = "minutes" /\ ~refreshErr)

\* The call returns what is kept.
Cached(c) ==
  /\ At(c, "held") /\ ~force[c] /\ Kept
  /\ got' = [got EXCEPT ![c] = snapshot]
  /\ mine' = [mine EXCEPT ![c] = generation]
  /\ gate' = Nobody
  /\ Go(c, IF refreshErr THEN "unavailable" ELSE "ready")
  /\ UNCHANGED <<azure, client, provider, force, ended, calls>>

\* Refresh takes back the endpoint before it asks.
Begin(c) ==
  /\ At(c, "held") /\ (force[c] \/ ~Kept)
  /\ generation' = generation + 1 /\ endpoint' = None
  /\ mine' = [mine EXCEPT ![c] = generation + 1]
  /\ recent' = {account}
  /\ Go(c, "account")
  /\ UNCHANGED <<account, gate, provider, force, ended, got, calls>>

\* The account is read with a token, must be the configured one and expose one
\* verified endpoint.
ReadAccount(c) ==
  /\ At(c, "account") /\ ~ended[c]
  /\ got' = [got EXCEPT ![c] = account]
  /\ Go(c, "deployments")
  /\ UNCHANGED <<azure, client, gate, provider, force, ended, mine, calls>>

ListDeployments(c) ==
  /\ At(c, "deployments")
  /\ Go(c, "commit")
  /\ UNCHANGED <<azure, client, gate, provider, force, ended, got, mine, calls>>

\* A sign-in or a query fails or takes too long, its answer is refused, or the
\* context has ended.
RefreshFails(c) ==
  /\ pc[c] \in {"account", "deployments"}
  /\ Go(c, "failed")
  /\ UNCHANGED <<azure, client, gate, provider, force, ended, got, mine, calls>>

\* Trusted, unless a newer Refresh has begun, and kept; the gate is left. One
\* step: between the two a caller can only read either of them.
Commit(c) ==
  /\ At(c, "commit")
  /\ IF generation = mine[c]
     THEN /\ endpoint' = got[c] /\ snapshot' = got[c]
          /\ refreshErr' = FALSE /\ Go(c, "ready")
     ELSE /\ snapshot' = None /\ refreshErr' = TRUE
          /\ Go(c, "unavailable") /\ UNCHANGED endpoint
  /\ lastAttempt' = "new" /\ gate' = Nobody
  /\ UNCHANGED <<azure, generation, force, ended, got, mine, calls>>

\* Mutant: the last snapshot is kept when a discovery fails.
FailKeeps(c) ==
  /\ At(c, "failed")
  /\ refreshErr' = FALSE /\ lastAttempt' = "new"
  /\ gate' = Nobody /\ Go(c, "unavailable")
  /\ UNCHANGED <<azure, client, snapshot, force, ended, got, mine, calls>>

\* Mutant: the gate is left only after a success.
FailStays(c) ==
  /\ At(c, "failed")
  /\ snapshot' = None /\ refreshErr' = TRUE /\ lastAttempt' = "new"
  /\ Go(c, "unavailable")
  /\ UNCHANGED <<azure, client, gate, force, ended, got, mine, calls>>

\* The failure is kept as well.
Fail(c) ==
  /\ At(c, "failed")
  /\ snapshot' = None /\ refreshErr' = TRUE /\ lastAttempt' = "new"
  /\ gate' = Nobody /\ Go(c, "unavailable")
  /\ UNCHANGED <<azure, client, force, ended, got, mine, calls>>

----------------------------------------------------------------------------
\* The request behind a call is cancelled or its time is over: it gives up at
\* the gate, or its Refresh fails.  While it runs, RefreshFails stands for it.
End(c) ==
  /\ At(c, "gate") /\ ~ended[c]
  /\ ended' = [ended EXCEPT ![c] = TRUE]
  /\ UNCHANGED <<azure, client, gate, provider, pc, force, got, mine, calls>>

\* 15 seconds, then five minutes, have passed.
Ages ==
  /\ lastAttempt \in {"new", "minutes"}
  /\ lastAttempt' = IF lastAttempt = "new" THEN "minutes" ELSE "old"
  /\ UNCHANGED <<azure, client, gate, snapshot, refreshErr, caller, calls>>

\* The account gets another endpoint.
AccountChanges ==
  /\ account' \in Endpoints \ {account}
  /\ recent' = recent \cup {account'}
  /\ UNCHANGED <<client, gate, provider, caller, calls>>

Catalog(c) ==
  \/ Call(c) \/ Enter(c) \/ GiveUp(c) \/ Cached(c) \/ Begin(c) \/ ReadAccount(c)
  \/ ListDeployments(c) \/ RefreshFails(c) \/ Commit(c) \/ Fail(c)

World == Ages \/ AccountChanges \/ \E c \in Callers : End(c)

----------------------------------------------------------------------------
DiscoveryTypeOK ==
  /\ account \in Endpoints /\ recent \subseteq Endpoints
  /\ endpoint \in Endpoints \cup {None} /\ generation \in Nat
  /\ gate \in Callers \cup {Nobody} /\ snapshot \in Endpoints \cup {None}
  /\ refreshErr \in BOOLEAN /\ lastAttempt \in {"never", "new", "minutes", "old"}
  /\ force \in [Callers -> BOOLEAN] /\ ended \in [Callers -> BOOLEAN]
  /\ got \in [Callers -> Endpoints \cup {None}] /\ mine \in [Callers -> Nat]
  /\ calls \in Nat

\* What Provider serves from its cache is what Client trusts: a caller that is
\* given an endpoint can have a request for it signed.
CacheIsTrusted ==
  (\A c \in Callers : pc[c] \notin Refreshing) => snapshot = endpoint

\* "Concurrent settings requests and scans share a single Azure round trip"
\* (provider.go): no discovery begins while one runs, or while the last one is
\* recent enough for a caller that does not insist.
Coalesced == [][
  \A c \in Callers : At(c, "held") /\ pc'[c] = "account" =>
    /\ \A o \in Callers : pc[o] \notin Refreshing
    /\ force[c] \/ lastAttempt \in {"never", "old"} \/ (refreshErr /\ lastAttempt # "new")
  ]_discoveryVars

\* Every call returns, whatever happens to those before it at the gate.
CallsReturn == \A c \in Callers : At(c, "gate") ~> pc[c] \in {"ready", "unavailable"}
=============================================================================
