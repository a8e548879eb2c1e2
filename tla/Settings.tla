------------------------------ MODULE Settings ------------------------------
(***************************************************************************)
(* The settings page (handlePutSettings in internal/web/handlers.go,       *)
(* SaveAppSettings in internal/store/settings.go).  A save is one          *)
(* statement per key, in the random order of a map, and the API key last;  *)
(* saves of two pages overlap, fail half-way or end with the process.      *)
(***************************************************************************)
EXTENDS Naturals

CONSTANTS
  Keys,      \* the keys that every save writes
  Values,    \* what a page may send for a key, and for the API key
  Unset,     \* no API key; a key at its default
  Pages,     \* pages that save at a time
  MaxSaves   \* bound: saves

ASSUME SettingsAssumption == Unset \notin Values /\ MaxSaves \in Nat

VARIABLES
  stored, apiKey,            \* the table
  form, sent, todo, saving,  \* of each page: what it sends, keys left, stage
  saves,
  alone,                     \* history of each save: no other one overlaps it
  last, whole                \* history: the last save that was alone, and if no
                             \* other has written since

page == <<form, sent, todo, saving>>
settingsVars == <<stored, apiKey, page, saves, alone, last, whole>>

Blank == [k \in Keys |-> Unset]
Saving == {p \in Pages : saving[p] # "no"}

SettingsInit ==
  /\ stored = Blank /\ apiKey = Unset
  /\ form = [p \in Pages |-> Blank] /\ sent = [p \in Pages |-> Unset]
  /\ todo = [p \in Pages |-> {}] /\ saving = [p \in Pages |-> "no"] /\ saves = 0
  /\ alone = [p \in Pages |-> FALSE] /\ last = Blank /\ whole = TRUE

\* A form that is refused changes nothing, and is left out.
Put(p) ==
  /\ saving[p] = "no" /\ saves < MaxSaves /\ saves' = saves + 1
  /\ \E f \in [Keys -> Values], a \in Values \cup {Unset} :
       form' = [form EXCEPT ![p] = f] /\ sent' = [sent EXCEPT ![p] = a]
  /\ todo' = [todo EXCEPT ![p] = Keys] /\ saving' = [saving EXCEPT ![p] = "keys"]
  /\ alone' = [q \in Pages |-> q = p /\ Saving = {}] /\ whole' = FALSE
  /\ UNCHANGED <<stored, apiKey, last>>

SetSetting(p, k) ==
  /\ saving[p] = "keys" /\ k \in todo[p]
  /\ stored' = [stored EXCEPT ![k] = form[p][k]]
  /\ todo' = [todo EXCEPT ![p] = @ \ {k}]
  /\ UNCHANGED <<apiKey, form, sent, saving, saves, alone, last, whole>>

\* Mutant: the API key may come before other keys.
SetApiKeyAnytime(p) ==
  /\ saving[p] = "keys"
  /\ apiKey' = IF sent[p] = Unset THEN apiKey ELSE sent[p]
  /\ saving' = [saving EXCEPT ![p] = IF todo[p] = {} THEN "answer" ELSE @]
  /\ UNCHANGED <<stored, form, sent, todo, saves, alone, last, whole>>

\* "An empty API key is ignored" (SaveAppSettings).
SetApiKey(p) ==
  /\ saving[p] = "keys" /\ todo[p] = {}
  /\ apiKey' = IF sent[p] = Unset THEN apiKey ELSE sent[p]
  /\ saving' = [saving EXCEPT ![p] = "answer"]
  /\ UNCHANGED <<stored, form, sent, todo, saves, alone, last, whole>>

\* The page is told that its settings are saved.
Saved(p) ==
  /\ saving[p] = "answer" /\ saving' = [saving EXCEPT ![p] = "no"]
  /\ last' = IF alone[p] THEN form[p] ELSE last
  /\ whole' = (whole \/ alone[p])
  /\ UNCHANGED <<stored, apiKey, form, sent, todo, saves, alone>>

\* A statement fails, the page is closed, or the process ends.
CutOff(p) ==
  /\ saving[p] # "no" /\ saving' = [saving EXCEPT ![p] = "no"]
  /\ todo' = [todo EXCEPT ![p] = {}]
  /\ UNCHANGED <<stored, apiKey, form, sent, saves, alone, last, whole>>

SettingsNext == \E p \in Pages :
  \/ Put(p) \/ (\E k \in Keys : SetSetting(p, k)) \/ SetApiKey(p) \/ Saved(p)
  \/ CutOff(p)

SettingsSpec == SettingsInit /\ [][SettingsNext]_settingsVars

----------------------------------------------------------------------------
\* What a page is told is saved is what is stored, for every key together, until
\* somebody saves again; unless two pages save at a time.
SavedWhole == whole => stored = last

\* A new API key is stored beside the endpoint it was entered with, although no
\* transaction keeps them together: it comes last, so that a save that is cut off
\* has left the old one, and a form without a key never takes it away.
KeyWithItsForm == [][apiKey' # apiKey =>
  /\ apiKey' # Unset
  /\ \E p \in Saving : sent[p] = apiKey' /\ (alone[p] => stored = form[p])]_settingsVars
=============================================================================
