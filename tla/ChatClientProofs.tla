--------------------------- MODULE ChatClientProofs ---------------------------
(***************************************************************************)
(* Theorems about Discovery and ChatClient for any number of callers,      *)
(* endpoints and models, and without a bound on the calls that overlap.    *)
(*                                                                         *)
(* CacheIsTrusted is not inductive: that a discovery may publish what it   *)
(* has read rests on its being the only one (Gate), on the endpoint being  *)
(* untrusted while it runs (Trust), and on what each caller was given at   *)
(* which generation (Holds).                                               *)
(***************************************************************************)
EXTENDS ChatClient, FiniteSetTheorems, TLAPS

Busy == Refreshing \cup {"held"}
Given == {"ready", "sign", "token", "sent", "answered", "refused"}
Labels == Busy \cup Given \cup {"idle", "gate", "unavailable", "rejected"}

Types ==
  /\ DiscoveryTypeOK
  /\ pc \in [Callers -> Labels] /\ model \in [Callers -> Models]
  /\ temperature \in [Callers -> BOOLEAN] /\ again \in [Callers -> BOOLEAN]
  /\ verified \in [Callers -> Nat]

\* One caller is past the gate.
Gate == \A c \in Callers : pc[c] \in Busy <=> gate = c

\* What is trusted, and what is kept.
Trust ==
  /\ CacheIsTrusted
  /\ \A c \in Callers : pc[c] \in Refreshing => endpoint = None /\ account \in recent
  /\ refreshErr => snapshot = None
  /\ lastAttempt # "never" /\ ~refreshErr => snapshot \in Endpoints
  /\ endpoint # None => endpoint \in recent

\* What caller c was given, and when.
Holds(c) ==
  /\ mine[c] <= generation
  /\ pc[c] \in Refreshing => mine[c] = generation
  /\ pc[c] \in {"deployments", "commit"} => got[c] \in recent
  /\ pc[c] \in Given => got[c] \in Endpoints
  /\ pc[c] \in Given /\ mine[c] = generation => endpoint = got[c]
  /\ pc[c] = "token" => mine[c] <= verified[c] /\ verified[c] <= generation
  /\ pc[c] = "refused" => mine[c] # generation

\* A request that is repeated carries no temperature.
Repeats(c) == (again[c] => ~temperature[c]) /\ pc[c] # "rejected"

IInv == Types /\ Gate /\ Trust /\ \A c \in Callers : Holds(c) /\ Repeats(c)

LEMMA InitIInv == Init => IInv
<1> SUFFICES ASSUME Init PROVE IInv
  OBVIOUS
<1> USE DiscoveryAssumption
    DEF Init, DiscoveryInit, Busy, Given, Labels, Refreshing
<1>1. Types
  BY DEF Types, DiscoveryTypeOK
<1>2. Gate
  BY DEF Gate
<1>3. Trust
  BY DEF Trust, CacheIsTrusted
<1>4. ASSUME NEW c \in Callers PROVE Holds(c) /\ Repeats(c)
  <2>1. pc[c] = "idle" /\ mine[c] = 0 /\ generation = 0 /\ ~again[c]
    OBVIOUS
  <2> QED BY <2>1 DEF Holds, Repeats
<1> QED BY <1>1, <1>2, <1>3, <1>4 DEF IInv

----------------------------------------------------------------------------
\* Discovery leaves the requests alone.
LEMMA CatalogKeepsIInv ==
  ASSUME IInv, NEW c \in Callers, Catalog(c), UNCHANGED chatVars
  PROVE  IInv'
<1> USE DiscoveryAssumption
    DEF IInv, Types, DiscoveryTypeOK, Gate, Trust, CacheIsTrusted, Holds, Repeats, Busy,
        Given, Labels, Refreshing, chatVars, request, At, Go, azure, client, provider, caller
<1>1. CASE Call(c)       BY <1>1, SMT DEF Call
<1>2. CASE Enter(c)      BY <1>2, SMT DEF Enter
<1>3. CASE GiveUp(c)     BY <1>3, SMT DEF GiveUp
<1>4. CASE Cached(c)
  <2>1. snapshot = endpoint
    BY <1>4, SMT DEF Cached
  <2>2. ~refreshErr => snapshot \in Endpoints
    BY <1>4, SMT DEF Cached, Kept
  <2>3. Types' /\ Gate' /\ Trust'
    BY <1>4, <2>1, <2>2, SMT DEF Cached
  <2>4. \A d \in Callers : Holds(d)' /\ Repeats(d)'
    BY <1>4, <2>1, <2>2, SMT DEF Cached
  <2> QED BY <2>3, <2>4
<1>5. CASE Begin(c)      BY <1>5, SMT DEF Begin
<1>6. CASE ReadAccount(c) BY <1>6, SMT DEF ReadAccount
<1>7. CASE ListDeployments(c) BY <1>7, SMT DEF ListDeployments
<1>8. CASE RefreshFails(c) BY <1>8, SMT DEF RefreshFails
<1>9. CASE Commit(c)
  <2>1. /\ pc[c] = "commit" /\ gate = c /\ mine[c] = generation /\ endpoint = None
        /\ got[c] \in recent /\ got[c] \in Endpoints
    BY <1>9, SMT DEF Commit
  <2>2. /\ endpoint' = got[c] /\ snapshot' = got[c] /\ refreshErr' = FALSE
        /\ lastAttempt' = "new" /\ gate' = Nobody /\ pc' = [pc EXCEPT ![c] = "ready"]
        /\ UNCHANGED <<azure, generation, force, ended, got, mine, calls>>
    BY <1>9, <2>1, SMT DEF Commit
  <2>3. Types'
    BY <2>1, <2>2
  <2>4. Gate' /\ Trust'
    <3>1. \A d \in Callers : pc'[d] \notin Busy
      BY <2>1, <2>2
    <3> QED BY <2>1, <2>2, <3>1
  <2>5. \A d \in Callers : Holds(d)' /\ Repeats(d)'
    BY <2>1, <2>2, SMT
  <2> QED BY <2>3, <2>4, <2>5
<1>10. CASE Fail(c)      BY <1>10, SMT DEF Fail
<1> QED BY <1>1, <1>2, <1>3, <1>4, <1>5, <1>6, <1>7, <1>8, <1>9, <1>10 DEF Catalog

LEMMA ChatKeepsIInv ==
  ASSUME IInv, NEW c \in Callers, Chat(c)
  PROVE  IInv'
<1> USE DiscoveryAssumption
    DEF IInv, Types, DiscoveryTypeOK, Gate, Trust, CacheIsTrusted, Holds, Repeats, Busy,
        Given, Labels, Refreshing, chatVars, request, At, Go, Step, azure, client,
        provider, caller
<1>1. CASE Ask(c)       BY <1>1, SMT DEF Ask
<1>2. CASE Ping(c)      BY <1>2, SMT DEF Ping
<1>3. CASE Verify(c)    BY <1>3, SMT DEF Verify
<1>4. CASE Sign(c)      BY <1>4, SMT DEF Sign
<1>5. CASE AskFails(c)  BY <1>5, SMT DEF AskFails
<1>6. CASE Reject(c)    BY <1>6, SMT DEF Reject
<1>7. CASE Answer(c)    BY <1>7, SMT DEF Answer
<1>8. CASE Leave(c)     BY <1>8, SMT DEF Leave
<1> QED BY <1>1, <1>2, <1>3, <1>4, <1>5, <1>6, <1>7, <1>8 DEF Chat

LEMMA WorldKeepsIInv ==
  ASSUME IInv, World, UNCHANGED chatVars
  PROVE  IInv'
<1> USE DiscoveryAssumption
    DEF IInv, Types, DiscoveryTypeOK, Gate, Trust, CacheIsTrusted, Holds, Repeats, Busy,
        Given, Labels, Refreshing, chatVars, request, At, azure, client, provider, caller
<1>1. CASE Ages
  BY <1>1, SMT DEF Ages
<1>2. CASE AccountChanges
  BY <1>2, SMT DEF AccountChanges
<1>3. ASSUME NEW c \in Callers, End(c) PROVE IInv'
  BY <1>3, SMT DEF End
<1> QED BY <1>1, <1>2, <1>3 DEF World

LEMMA StutterKeepsIInv ==
  ASSUME IInv, UNCHANGED vars
  PROVE  IInv'
BY DEF vars, discoveryVars, IInv, Types, DiscoveryTypeOK, Gate, Trust, CacheIsTrusted,
       Holds, Repeats, chatVars, request, azure, client, provider, caller

\* The invariant holds throughout.
THEOREM Invariant == Spec => []IInv
<1>1. Init => IInv
  BY InitIInv
<1>2. IInv /\ [Next]_vars => IInv'
  BY CatalogKeepsIInv, ChatKeepsIInv, WorldKeepsIInv, StutterKeepsIInv DEF Next
<1> QED BY <1>1, <1>2, PTL DEF Spec

----------------------------------------------------------------------------
\* What Provider serves from its cache is what Client trusts.
THEOREM ServesTheTrusted == Spec => []CacheIsTrusted
<1>1. IInv => CacheIsTrusted
  BY DEF IInv, Trust
<1> QED BY <1>1, Invariant, PTL

\* A client that was given an endpoint is refused only after a newer discovery
\* has begun, however the sign-in and the discoveries interleave.
THEOREM RefusedOnlyIfStale == Spec => []RefusedAfterRefresh
<1>1. IInv => RefusedAfterRefresh
  BY DEF IInv, Holds, RefusedAfterRefresh, At
<1> QED BY <1>1, Invariant, PTL

\* No request fails because of a temperature: the one that is repeated has none.
THEOREM NoneRejectedTwice == Spec => []NeverRejected
<1>1. IInv => NeverRejected
  BY DEF IInv, Repeats, NeverRejected, At
<1> QED BY <1>1, Invariant, PTL

\* A request is signed only for an endpoint the account has had since the newest
\* discovery began.
THEOREM SignsForTheCurrent == Spec => SignedForCurrent
<1> DEFINE A == \A c \in Callers : At(c, "token") /\ pc'[c] = "sent" => got[c] \in recent
<1>1. ASSUME IInv, Next PROVE A
  <2> SUFFICES ASSUME NEW c \in Callers, pc[c] = "token", pc'[c] = "sent"
               PROVE  got[c] \in recent
    BY DEF At
  <2>1. pc \in [Callers -> Labels] /\ got[c] \in Endpoints /\ Trust
    BY <1>1 DEF IInv, Types, Holds, Given
  <2>2. Sign(c)
    <3>1. ASSUME World PROVE FALSE
      BY <3>1, <2>1 DEF World, Ages, AccountChanges, End, caller
    <3>2. ASSUME NEW d \in Callers, Catalog(d) PROVE FALSE
      BY <3>2, <2>1 DEF Catalog, Call, Enter, GiveUp, Cached, Begin, ReadAccount,
            ListDeployments, RefreshFails, Commit, Fail, At, Go
    <3>3. ASSUME NEW d \in Callers, Chat(d) PROVE Sign(c)
      BY <3>3, <2>1 DEF Chat, Ask, Ping, Verify, Sign, AskFails, Reject, Answer, Leave,
            Step, At, Go
    <3> QED BY <1>1, <3>1, <3>2, <3>3 DEF Next
  <2>3. endpoint = got[c]
    BY <2>1, <2>2 DEF Sign, Step, Go
  <2> QED BY <2>1, <2>3, DiscoveryAssumption DEF Trust
<1>2. IInv /\ [Next]_vars => [A]_vars
  BY <1>1
<1> QED BY <1>2, Invariant, PTL DEF Spec, SignedForCurrent

\* No discovery begins while another one runs, or too early.
THEOREM OneRoundTrip == Spec => Coalesced
<1> DEFINE A == \A c \in Callers : At(c, "held") /\ pc'[c] = "account" =>
      /\ \A o \in Callers : pc[o] \notin Refreshing
      /\ force[c] \/ lastAttempt \in {"never", "old"} \/ (refreshErr /\ lastAttempt # "new")
<1>1. ASSUME IInv, Next PROVE A
  <2> SUFFICES ASSUME NEW c \in Callers, pc[c] = "held", pc'[c] = "account"
               PROVE  /\ \A o \in Callers : pc[o] \notin Refreshing
                      /\ \/ force[c] \/ lastAttempt \in {"never", "old"}
                         \/ refreshErr /\ lastAttempt # "new"
    BY DEF At
  <2>1. Types /\ Gate
    BY <1>1 DEF IInv
  <2>2. Begin(c)
    <3>1. ASSUME World PROVE FALSE
      BY <3>1, <2>1 DEF World, Ages, AccountChanges, End, caller
    <3>2. ASSUME NEW d \in Callers, Catalog(d) PROVE Begin(c)
      BY <3>2, <2>1 DEF Types, Catalog, Call, Enter, GiveUp, Cached, Begin, ReadAccount,
            ListDeployments, RefreshFails, Commit, Fail, At, Go
    <3>3. ASSUME NEW d \in Callers, Chat(d) PROVE FALSE
      BY <3>3, <2>1 DEF Types, Chat, Ask, Ping, Verify, Sign, AskFails, Reject, Answer,
            Leave, Step, At, Go
    <3> QED BY <1>1, <3>1, <3>2, <3>3 DEF Next
  <2>3. \A o \in Callers : pc[o] \notin Refreshing
    BY <2>1 DEF Gate, Busy, Refreshing
  <2> QED BY <2>1, <2>2, <2>3 DEF Begin, Kept, Types, DiscoveryTypeOK
<1>2. IInv /\ [Next]_vars => [A]_discoveryVars
  BY <1>1 DEF vars, discoveryVars
<1> QED BY <1>2, Invariant, PTL DEF Spec, Coalesced

----------------------------------------------------------------------------
(* A rejection is paid for once.  Who sends a temperature to a model may    *)
(* have to; nobody begins to once a rejection has been remembered.          *)

Paying(m) == {c \in Callers : temperature[c] = TRUE /\ model[c] = m}

Remembered ==
  /\ noTemperature \subseteq Models /\ rejections \in [Models -> Nat]
  /\ \A m \in Models :
       /\ m \notin noTemperature => rejections[m] = 0
       /\ rejections[m] + Cardinality(Paying(m)) <= Cardinality(Callers)

LEMMA PayingFacts ==
  ASSUME IsFiniteSet(Callers), NEW m
  PROVE  /\ IsFiniteSet(Paying(m)) /\ Paying(m) \subseteq Callers
         /\ Cardinality(Paying(m)) \in Nat /\ Cardinality(Callers) \in Nat
         /\ Cardinality(Paying(m)) <= Cardinality(Callers)
<1>1. Paying(m) \subseteq Callers
  BY DEF Paying
<1> QED
  BY <1>1, FS_Subset, FS_CardinalityType

\* Nobody begins to pay.
LEMMA FewerPay ==
  ASSUME IsFiniteSet(Callers), Remembered, UNCHANGED <<noTemperature, rejections>>,
         \A m \in Models : Paying(m)' \subseteq Paying(m)
  PROVE  Remembered'
<1>1. ASSUME NEW m \in Models
      PROVE  rejections'[m] + Cardinality(Paying(m)') <= Cardinality(Callers)
  <2>1. /\ Cardinality(Paying(m)') \in Nat /\ Cardinality(Paying(m)) \in Nat
        /\ Cardinality(Paying(m)') <= Cardinality(Paying(m))
    BY PayingFacts, FS_Subset, FS_CardinalityType
  <2>2. rejections'[m] = rejections[m] /\ rejections[m] \in Nat
    BY DEF Remembered
  <2> QED
    BY <2>1, <2>2, PayingFacts DEF Remembered
<1> QED
  BY <1>1 DEF Remembered

LEMMA InitRemembered == ASSUME IsFiniteSet(Callers), Init PROVE Remembered
<1>1. ASSUME NEW m \in Models PROVE Cardinality(Paying(m)) = 0 /\ rejections[m] = 0
  <2>1. Paying(m) = {} /\ rejections[m] = 0
    BY DEF Init, Paying
  <2> QED
    BY <2>1, FS_EmptySet
<1>2. Cardinality(Callers) \in Nat
  BY FS_CardinalityType
<1> QED
  BY <1>1, <1>2 DEF Init, Remembered

LEMMA RememberedKeeps ==
  ASSUME IsFiniteSet(Callers), IInv, Remembered, [Next]_vars PROVE Remembered'
<1> USE DEF IInv, Types
<1>1. CASE UNCHANGED <<model, temperature, noTemperature, rejections>>
  BY <1>1, FewerPay DEF Paying
<1>2. ASSUME NEW c \in Callers, Ask(c) PROVE Remembered'
  <2>1. PICK n \in Models, t \in BOOLEAN :
          /\ model' = [model EXCEPT ![c] = n] /\ temperature' = [temperature EXCEPT ![c] = t]
          /\ t = TRUE => n \notin noTemperature
    BY <1>2 DEF Ask
  <2>2. UNCHANGED <<noTemperature, rejections>>
    BY <1>2 DEF Ask
  <2>3. ASSUME NEW m \in Models, m # n \/ t = FALSE PROVE Paying(m)' \subseteq Paying(m)
    BY <2>1, <2>3 DEF Paying
  <2>4. CASE t = FALSE
    BY <2>2, <2>3, <2>4, FewerPay
  <2>5. CASE t = TRUE
    <3>1. rejections'[n] = 0 /\ n \notin noTemperature
      BY <2>1, <2>2, <2>5 DEF Remembered
    <3>2. Cardinality(Paying(n)') \in Nat /\ Cardinality(Paying(n)') <= Cardinality(Callers)
      <4>1. Paying(n)' \subseteq Callers
        BY DEF Paying
      <4> QED
        BY <4>1, FS_Subset, FS_CardinalityType
    <3>3. ASSUME NEW m \in Models, m # n
          PROVE  rejections'[m] + Cardinality(Paying(m)') <= Cardinality(Callers)
      <4>1. Paying(m)' \subseteq Paying(m)
        BY <2>3, <3>3
      <4>2. /\ Cardinality(Paying(m)') \in Nat /\ Cardinality(Paying(m)) \in Nat
            /\ Cardinality(Paying(m)') <= Cardinality(Paying(m))
        BY <4>1, PayingFacts, FS_Subset, FS_CardinalityType
      <4>3. rejections'[m] = rejections[m] /\ rejections[m] \in Nat
        BY <2>2 DEF Remembered
      <4> QED
        BY <4>2, <4>3, PayingFacts DEF Remembered
    <3> QED
      BY <2>2, <3>1, <3>2, <3>3 DEF Remembered
  <2> QED
    BY <2>4, <2>5
<1>3. ASSUME NEW c \in Callers, Ping(c) \/ Leave(c) PROVE Remembered'
  <2>1. /\ temperature' = [temperature EXCEPT ![c] = FALSE]
        /\ \A d \in Callers : d # c => model'[d] = model[d]
        /\ UNCHANGED <<noTemperature, rejections>>
    BY <1>3 DEF Ping, Leave
  <2>2. \A m \in Models : Paying(m)' \subseteq Paying(m)
    BY <2>1 DEF Paying
  <2> QED
    BY <2>1, <2>2, FewerPay
<1>4. ASSUME NEW c \in Callers, Reject(c) PROVE Remembered'
  <2> PICK n \in Models : n = model[c]
    OBVIOUS
  <2>1. /\ temperature[c] = TRUE
        /\ rejections' = [rejections EXCEPT ![n] = @ + 1]
        /\ noTemperature' = noTemperature \cup {n}
        /\ temperature' = [temperature EXCEPT ![c] = FALSE] /\ model' = model
    BY <1>4 DEF Reject
  <2>2. c \in Paying(n) /\ Paying(n)' = Paying(n) \ {c}
    BY <2>1 DEF Paying
  <2>3. ASSUME NEW m \in Models, m # n PROVE Paying(m)' = Paying(m)
    BY <2>1, <2>3 DEF Paying
  <2>4. Cardinality(Paying(n)') = Cardinality(Paying(n)) - 1
    <3>1. Cardinality(Paying(n) \ {c}) = Cardinality(Paying(n)) - 1
      BY <2>2, PayingFacts, FS_RemoveElement
    <3> QED
      BY <2>2, <3>1
  <2>5. ASSUME NEW m \in Models
        PROVE  rejections'[m] + Cardinality(Paying(m)') <= Cardinality(Callers)
    <3>1. /\ rejections[m] \in Nat /\ rejections[m] + Cardinality(Paying(m)) <= Cardinality(Callers)
          /\ Cardinality(Paying(m)) \in Nat /\ Cardinality(Callers) \in Nat
      BY PayingFacts DEF Remembered
    <3>2. CASE m = n
      <4>1. /\ rejections'[m] = rejections[m] + 1
            /\ Cardinality(Paying(m)') = Cardinality(Paying(m)) - 1
        BY <2>1, <2>4, <3>2 DEF Remembered
      <4> QED
        BY <3>1, <4>1
    <3>3. CASE m # n
      <4>1. rejections'[m] = rejections[m] /\ Paying(m)' = Paying(m)
        BY <2>1, <2>3, <3>3 DEF Remembered
      <4>2. Cardinality(Paying(m)') = Cardinality(Paying(m))
        BY <4>1
      <4> QED
        BY <3>1, <4>1, <4>2
    <3> QED
      BY <3>2, <3>3
  <2> QED
    BY <2>1, <2>5 DEF Remembered
<1>5. CASE \E c \in Callers : Verify(c) \/ Sign(c) \/ AskFails(c) \/ Answer(c)
  BY <1>1, <1>5 DEF Verify, Sign, AskFails, Answer, chatVars, request
<1> QED
  BY <1>1, <1>2, <1>3, <1>4, <1>5 DEF Next, Chat, vars, chatVars, request

\* "The first rejection is remembered per model" (client.go): however many
\* callers there are, however often they ask and however their requests overlap,
\* a model rejects no more requests than there are callers.
THEOREM RejectionsAreRemembered ==
  ASSUME IsFiniteSet(Callers) PROVE Spec => []RejectedOnce
<1>1. Init => Remembered
  BY InitRemembered
<1>2. IInv /\ [Next]_vars /\ Remembered => Remembered'
  BY RememberedKeeps
<1>3. Remembered => RejectedOnce
  <2> SUFFICES ASSUME Remembered, NEW m \in Models PROVE rejections[m] <= Cardinality(Callers)
    BY DEF RejectedOnce
  <2> QED
    BY PayingFacts DEF Remembered
<1> QED
  BY <1>1, <1>2, <1>3, Invariant, PTL DEF Spec
=============================================================================
