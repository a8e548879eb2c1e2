------------------------------ MODULE Progress ------------------------------
(***************************************************************************)
(* internal/engine/progress.go: the one Progress that the page shows, which *)
(* a scan and the work of the queue write at the same time.  A scan counts *)
(* the candidates it has done, an executed plan its files; a single file   *)
(* and a new classification count as one.                                  *)
(***************************************************************************)
EXTENDS Naturals

CONSTANTS
  Activities,  \* who reports progress
  Scanning,    \* the one of them that is the scan
  MaxFiles     \* bound: candidates of a scan, files of a plan

ASSUME ProgressAssumption == Scanning \in Activities /\ MaxFiles \in Nat

VARIABLES
  active, phase, done, total, percent,  \* Progress
  stage, count, step                    \* of each activity: its files, those done

shown == <<active, phase, done, total, percent>>
doing == <<stage, count, step>>
progressVars == <<shown, doing>>

Quiet == \A x \in Activities : stage[x] = "off"

ProgressInit ==
  /\ active = FALSE /\ phase = "idle" /\ done = 0 /\ total = 0 /\ percent = 0
  /\ stage = [x \in Activities |-> "off"]
  /\ count = [x \in Activities |-> 0] /\ step = [x \in Activities |-> 0]

\* beginScan and startPhase: everything begins anew.
StartPhase(x) ==
  /\ stage[x] = "off"
  /\ \E n \in 0..MaxFiles :
       /\ count' = [count EXCEPT ![x] = n]
       /\ total' = IF x = Scanning THEN 0 ELSE n
  /\ active' = TRUE /\ phase' = IF x = Scanning THEN "scanning" ELSE "moving"
  /\ done' = 0 /\ percent' = 0
  /\ stage' = [stage EXCEPT ![x] = IF x = Scanning THEN "scan" ELSE "work"]
  /\ step' = [step EXCEPT ![x] = 0]

\* A scan has listed its source: setPhase and setTotal.
SetPhase(x) ==
  /\ stage[x] = "scan"
  /\ phase' = "classifying"
  /\ stage' = [stage EXCEPT ![x] = "listed"]
  /\ UNCHANGED <<active, done, total, percent, count, step>>

SetTotal(x) ==
  /\ stage[x] = "listed"
  /\ total' = count[x]
  /\ stage' = [stage EXCEPT ![x] = "work"]
  /\ UNCHANGED <<active, phase, done, percent, count, step>>

\* Before each candidate or file; a plan reports once more when it is done.
UpdateProgress(x) ==
  /\ stage[x] = "work"
  /\ step[x] < count[x] + (IF x = Scanning THEN 0 ELSE 1)
  /\ done' = step[x]
  /\ percent' = IF total > 0 THEN (step[x] * 100) \div total ELSE percent
  /\ step' = [step EXCEPT ![x] = @ + 1]
  /\ UNCHANGED <<active, phase, total, stage, count>>

\* Mutant: an activity that fails does not say that it is over.
FinishQuietly(x) ==
  /\ stage[x] # "off"
  /\ stage' = [stage EXCEPT ![x] = "off"]
  /\ IF step[x] < count[x]
     THEN UNCHANGED shown
     ELSE /\ active' = FALSE /\ phase' = "idle"
          /\ UNCHANGED <<done, total, percent>>
  /\ UNCHANGED <<count, step>>

\* finishProgress, however the activity ends: it may fail at any time.
FinishProgress(x) ==
  /\ stage[x] # "off"
  /\ stage' = [stage EXCEPT ![x] = "off"]
  /\ active' = FALSE /\ phase' = "idle"
  /\ done' = IF total > 0 THEN total ELSE done
  /\ percent' = IF total > 0 THEN 100 ELSE percent
  /\ UNCHANGED <<total, count, step>>

ProgressNext == \E x \in Activities :
  StartPhase(x) \/ SetPhase(x) \/ SetTotal(x) \/ UpdateProgress(x) \/ FinishProgress(x)

ProgressSpec == ProgressInit /\ [][ProgressNext]_progressVars

----------------------------------------------------------------------------
\* When nothing is done the page says so, in whatever order activities end.
QuietIsShown == Quiet => ~active /\ phase = "idle"
=============================================================================
