------------------------------ MODULE WorkQueue ------------------------------
(***************************************************************************)
(* What the background queue promises to who queues and to who runs, with  *)
(* neither rows nor retries nor times: a work that was accepted is open    *)
(* until it has been run to its end or is taken back, at most one runs,    *)
(* and what runs stays: neither it nor its item is taken away.  A work     *)
(* that was returned, or whose process died, is as open as before.         *)
(***************************************************************************)
CONSTANTS Items, Works

VARIABLES
  known,    \* the items there are
  open,     \* <<item, work>>: accepted, and not at its end
  running   \* the one of them that is being run, if any

queueVars == <<known, open, running>>

QueueInit == known = {} /\ open = {} /\ running = {}

Register(i) ==
  /\ i \notin known
  /\ known' = known \cup {i}
  /\ UNCHANGED <<open, running>>

\* Asking for what is open already changes nothing.
Accept(i, w) ==
  /\ i \in known
  /\ open' = open \cup {<<i, w>>}
  /\ UNCHANGED <<known, running>>

\* Works, or items with all their works, are taken back; not what runs.
Withdraw ==
  /\ open' \subseteq open /\ known' \subseteq known
  /\ running \subseteq open'
  /\ \A p \in open' : p[1] \in known'
  /\ UNCHANGED running

Begin(p) ==
  /\ running = {} /\ p \in open
  /\ running' = {p}
  /\ UNCHANGED <<known, open>>

Finish ==
  /\ running # {}
  /\ open' = open \ running /\ running' = {}
  /\ UNCHANGED known

\* For a later attempt; or the process died.
Return ==
  /\ running # {} /\ running' = {}
  /\ UNCHANGED <<known, open>>

QueueNext ==
  \/ \E i \in Items : Register(i) \/ \E w \in Works : Accept(i, w)
  \/ Withdraw
  \/ \E p \in open : Begin(p)
  \/ Finish \/ Return

QueueSpec == QueueInit /\ [][QueueNext]_queueVars
=============================================================================
