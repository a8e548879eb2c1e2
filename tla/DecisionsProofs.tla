---------------------------- MODULE DecisionsProofs ----------------------------
(***************************************************************************)
(* Theorems about what is decided from answers, forms and failures:        *)
(* Classification for any entries, folders and answers, Settings for any   *)
(* pages and any number of overlapping saves, Backoff for any delays and   *)
(* any number of failures.                                                 *)
(***************************************************************************)
EXTENDS Classification, Settings, Backoff, FiniteSetTheorems, WellFoundedInduction, TLAPS

----------------------------------------------------------------------------
(* Classification.  The properties speak of the step that takes up an       *)
(* answer.  That no other step runs while there is one, and what the plan   *)
(* and the answer look like, is the invariant.  The rest is about the       *)
(* operators: a largest video exists (Largest), a folder that is matched is *)
(* one of the library (MatchedIsThere), and what Protect and Decide leave   *)
(* alone.                                                                   *)

Targets == Folders \cup {Root, NoDir}
Decided == [action : Actions \cup {"none"}, dest : Targets, done : BOOLEAN]
Replies == [actions : FileAnswers, folder : Targets, sure : BOOLEAN]

ClassInv ==
  /\ entry \in Entries /\ files \in [DOMAIN entry -> Decided]
  /\ folders \subseteq Folders
  /\ asking = "no" => reply = NoReply
  /\ reply # NoReply => reply \in Replies

----------------------------------------------------------------------------
(* The operators.                                                           *)

LEMMA LeastNat ==
  ASSUME NEW S, S \subseteq Nat, S # {}
  PROVE  \E n \in S : \A k \in S : n <= k
<1> DEFINE less == {ss \in Nat \X Nat : ss[1] < ss[2]}
<1>1. IsWellFoundedOn(less, Nat)
  BY NatLessThanWellFounded DEF OpToRel
<1>2. \A m, n \in Nat : m < n => <<m, n>> \in less
  OBVIOUS
<1>3. PICK n \in S : \A k \in S : ~(<<k, n>> \in less)
  <2> HIDE DEF less
  <2> QED BY <1>1, WFMin
<1>4. ASSUME NEW k \in S PROVE n <= k
  <2>1. k \in Nat /\ n \in Nat
    OBVIOUS
  <2>2. ~(k < n)
    <3> HIDE DEF less
    <3> QED BY <2>1, <1>2, <1>3, Zenon
  <2> QED BY <2>1, <2>2
<1> QED BY <1>4

\* Of files of any sizes there is a first of the largest.
AtLeast(f, g) == entry[g].size < entry[f].size \/ (entry[g].size = entry[f].size /\ f <= g)

LEMMA Largest ==
  ASSUME ClassInv, Videos # {}
  PROVE  MainVideo \in Videos /\ \A g \in Videos : AtLeast(MainVideo, g)
<1> DEFINE Best(T) == \E f \in T : \A g \in T : AtLeast(f, g)
           bad == {n \in Nat : \E T \in SUBSET Videos : /\ T # {} /\ ~Best(T)
                                                       /\ Cardinality(T) = n}
<1>1. IsFiniteSet(Videos) /\ \A f \in Videos : f \in Nat /\ entry[f].size \in Nat
  BY EntriesAssumption, FS_Subset DEF ClassInv, Videos
<1>2. \A T \in SUBSET Videos : IsFiniteSet(T) /\ Cardinality(T) \in Nat
  BY <1>1, FS_Subset, FS_CardinalityType
<1>3. bad = {}
  <2> SUFFICES ASSUME bad # {} PROVE FALSE
    OBVIOUS
  <2>1. PICK n \in bad : \A k \in bad : n <= k
    <3>1. bad \subseteq Nat
      OBVIOUS
    <3> HIDE DEF bad
    <3> QED BY <3>1, LeastNat
  <2>2. PICK T \in SUBSET Videos : T # {} /\ ~Best(T) /\ Cardinality(T) = n
    OBVIOUS
  <2>3. PICK x \in T : TRUE
    BY <2>2
  <2>4. IsFiniteSet(T) /\ Cardinality(T \ {x}) = n - 1 /\ n \in Nat
    BY <1>2, <2>2, <2>3, FS_RemoveElement
  <2>5. n - 1 \in Nat /\ n - 1 \notin bad
    <3>1. n # 0
      BY <2>2, <2>3, <2>4, FS_EmptySet
    <3> HIDE DEF bad
    <3> QED BY <2>1, <2>4, <3>1
  <2>6. T \ {x} = {} \/ Best(T \ {x})
    BY <2>4, <2>5
  <2>7. AtLeast(x, x)
    BY <1>1, <2>3 DEF AtLeast
  <2>8. CASE T \ {x} = {}
    <3>1. T = {x}
      BY <2>3, <2>8
    <3> QED BY <2>2, <2>7, <3>1
  <2>9. CASE Best(T \ {x})
    <3>1. PICK f \in T \ {x} : \A g \in T \ {x} : AtLeast(f, g)
      BY <2>9
    <3>2. CASE AtLeast(f, x)
      BY <2>2, <3>1, <3>2
    <3>3. CASE ~AtLeast(f, x)
      <4>1. ASSUME NEW g \in T PROVE AtLeast(x, g)
        <5>1. CASE g = x
          BY <5>1, <2>7
        <5>2. CASE g # x
          BY <5>2, <3>1, <3>3, <1>1, <2>3 DEF AtLeast
        <5> QED BY <5>1, <5>2
      <4> QED BY <2>2, <2>3, <4>1
    <3> QED BY <3>2, <3>3
  <2> QED BY <2>6, <2>8, <2>9
<1>4. Best(Videos)
  <2>1. Cardinality(Videos) \notin bad
    BY <1>3
  <2> QED BY <1>2, <2>1
<1> QED BY <1>4 DEF MainVideo, AtLeast

\* The folder the AI named is taken as the library spells it.
LEMMA MatchedIsThere ==
  ASSUME ClassInv, NEW folder \in Targets
  PROVE  ResolveTarget(folder) \in folders \cup {Root, NoDir}
<1>1. CASE folder # NoDir /\ Match(folder) # {}
  <2> DEFINE spellings == {d[2] : d \in Match(folder)}
  <2>1. Match(folder) \subseteq folders /\ \A d \in Match(folder) : d[1] = folder[1]
    BY DEF Match
  <2>2. spellings \subseteq Nat /\ spellings # {}
    BY <1>1, <2>1, FoldersAssumption DEF ClassInv
  <2>3. PICK n \in spellings : \A k \in spellings : n <= k
    <3> HIDE DEF spellings
    <3> QED BY <2>2, LeastNat
  <2>4. Min(spellings) \in spellings
    <3> HIDE DEF spellings
    <3> QED BY <2>3 DEF Min
  <2>5. PICK d \in Match(folder) : d[2] = Min(spellings)
    BY <2>4
  <2>6. d = <<folder[1], Min(spellings)>>
    BY <2>1, <2>5, FoldersAssumption DEF ClassInv
  <2>7. ResolveTarget(folder) = d
    BY <1>1, <2>6 DEF ResolveTarget
  <2> QED BY <2>1, <2>7
<1>2. CASE ~(folder # NoDir /\ Match(folder) # {})
  BY <1>2 DEF ResolveTarget
<1> QED BY <1>1, <1>2

\* An answer decides for the files that are not done, and only for them.
LEMMA DecideDoes ==
  ASSUME ClassInv, NEW answer, NEW dir \in Targets
  PROVE  LET plan == Decide(files, answer, dir)
         IN /\ plan \in [DOMAIN entry -> Decided]
            /\ \A f \in DOMAIN entry :
                 /\ plan[f].done = files[f].done
                 /\ files[f].done = FALSE => plan[f].action = Decision(answer, entry[f].path)
                 /\ plan[f].dest \in {files[f].dest, dir}
<1> DEFINE plan == Decide(files, answer, dir)
           fresh(f) == [action |-> Decision(answer, entry[f].path), done |-> FALSE,
                        dest |-> IF Decision(answer, entry[f].path) = "move" /\ dir # NoDir
                                 THEN dir ELSE files[f].dest]
<1>1. plan = [f \in DOMAIN entry |-> IF files[f].done THEN files[f] ELSE fresh(f)]
  BY DEF Decide, ClassInv
<1>2. ASSUME NEW p PROVE Decision(answer, p) \in Actions
  BY DEF Decision, Meant, Actions
<1>3. ASSUME NEW f \in DOMAIN entry
      PROVE  /\ fresh(f) \in Decided /\ fresh(f).done = FALSE
             /\ fresh(f).action = Decision(answer, entry[f].path)
             /\ fresh(f).dest \in {files[f].dest, dir}
  <2>1. files[f] \in Decided
    BY DEF ClassInv
  <2>2. Decision(answer, entry[f].path) \in Actions
    BY <1>2
  <2> QED BY <2>1, <2>2 DEF Decided
<1>4. \A f \in DOMAIN entry : files[f] \in Decided /\ files[f].done \in BOOLEAN
  BY DEF ClassInv, Decided
<1> HIDE DEF plan, fresh
<1>5. plan \in [DOMAIN entry -> Decided]
  BY <1>1, <1>3, <1>4
<1>6. ASSUME NEW f \in DOMAIN entry
      PROVE  /\ plan[f].done = files[f].done
             /\ files[f].done = FALSE => plan[f].action = Decision(answer, entry[f].path)
             /\ plan[f].dest \in {files[f].dest, dir}
  BY <1>1, <1>3, <1>4
<1> QED BY <1>5, <1>6 DEF plan

\* The safety net changes one record, if any: a deletion of the largest video.
LEMMA ProtectDoes ==
  ASSUME ClassInv, NEW plan \in [DOMAIN entry -> Decided]
  PROVE  /\ Protect(plan) \in [DOMAIN entry -> Decided]
         /\ \A f \in DOMAIN entry :
              \/ Protect(plan)[f] = plan[f]
              \/ /\ f = MainVideo /\ Videos # {} /\ plan[f].action = "delete"
                 /\ Protect(plan)[f].action = "keep" /\ Protect(plan)[f].dest = NoDir
                 /\ plan[f].done = FALSE
<1>1. CASE Videos # {} /\ ~plan[MainVideo].done /\ plan[MainVideo].action = "delete"
           /\ ~IsSample(MainVideo)
  <2>1. MainVideo \in DOMAIN entry
    BY <1>1, Largest DEF Videos
  <2> DEFINE kept == [plan[MainVideo] EXCEPT !.action = "keep", !.dest = NoDir]
  <2>2. /\ plan[MainVideo] \in Decided /\ kept \in Decided
        /\ kept.action = "keep" /\ kept.dest = NoDir /\ plan[MainVideo].done = FALSE
    <3>1. plan[MainVideo] \in Decided
      BY <2>1
    <3> QED BY <1>1, <3>1 DEF Decided, Actions, Targets
  <2>3. Protect(plan) = [plan EXCEPT ![MainVideo] = kept]
    BY <1>1, <2>1, <2>2 DEF Protect, Decided
  <2> HIDE DEF kept
  <2> QED BY <1>1, <2>1, <2>2, <2>3
<1>2. CASE ~(Videos # {} /\ ~plan[MainVideo].done /\ plan[MainVideo].action = "delete"
             /\ ~IsSample(MainVideo))
  <2>1. Protect(plan) = plan
    BY <1>2, Zenon DEF Protect
  <2> QED BY <2>1
<1> QED BY <1>1, <1>2

----------------------------------------------------------------------------
(* The step that takes up an answer, and the invariant.                     *)

\* What the answer makes of the files.
NewPlan == Decide(files, reply.actions, ResolveTarget(reply.folder))

LEMMA AnswerDoes ==
  ASSUME ClassInv, Answer
  PROVE  /\ reply \in Replies /\ ResolveTarget(reply.folder) \in folders \cup {Root, NoDir}
         /\ NewPlan \in [DOMAIN entry -> Decided] /\ files' = Protect(NewPlan)
         /\ \A f \in DOMAIN entry :
              /\ NewPlan[f].done = files[f].done
              /\ files[f].done = FALSE =>
                   NewPlan[f].action = Decision(reply.actions, entry[f].path)
              /\ NewPlan[f].dest \in {files[f].dest, ResolveTarget(reply.folder)}
<1>1. reply \in Replies /\ reply.folder \in Targets
  BY DEF Answer, ClassInv, Replies
<1>2. ResolveTarget(reply.folder) \in folders \cup {Root, NoDir}
  BY <1>1, MatchedIsThere
<1>3. ResolveTarget(reply.folder) \in Targets
  BY <1>2 DEF ClassInv, Targets
<1>4. files' = Protect(NewPlan)
  BY DEF Answer, NewPlan
<1> QED BY <1>1, <1>2, <1>3, <1>4, DecideDoes DEF NewPlan

LEMMA ClassStarts == ClassInit => ClassInv
<1> SUFFICES ASSUME ClassInit PROVE ClassInv
  OBVIOUS
<1>1. files \in [DOMAIN entry -> Decided]
  BY DEF ClassInit, Fresh, Decided, Targets
<1> QED BY <1>1 DEF ClassInit, ClassInv

LEMMA ClassKeeps == ClassInv /\ [ClassNext]_classVars => ClassInv'
<1> SUFFICES ASSUME ClassInv, [ClassNext]_classVars PROVE ClassInv'
  OBVIOUS
<1>1. ASSUME NEW op \in {"scan", "reclassify"}, Begin(op) PROVE ClassInv'
  BY <1>1 DEF Begin, ClassInv, world, Replies, FileAnswers
<1>2. CASE Reply
  <2>1. reply' \in Replies
    BY <1>2 DEF Reply, Replies, Targets
  <2> QED BY <1>2, <2>1 DEF Reply, ClassInv, world
<1>3. CASE Answer
  <2>1. NewPlan \in [DOMAIN entry -> Decided] /\ files' = Protect(NewPlan)
    BY <1>3, AnswerDoes, Zenon
  <2>2. files' \in [DOMAIN entry -> Decided]
    BY <2>1, ProtectDoes, Zenon
  <2> QED BY <1>3, <2>2 DEF Answer, ClassInv, world
<1>4. CASE AskFails
  BY <1>4 DEF AskFails, ClassInv, world
<1>5. CASE Execute
  <2>1. ASSUME NEW f \in DOMAIN files
        PROVE  [files[f] EXCEPT !.done = @ \/ f \in Pending] \in Decided
    <3>1. files[f] \in Decided
      BY <2>1 DEF ClassInv
    <3> QED BY <3>1 DEF Decided
  <2>2. files' \in [DOMAIN entry -> Decided]
    BY <1>5, <2>1 DEF Execute, ClassInv
  <2> QED BY <1>5, <2>2 DEF Execute, ClassInv, world
<1>6. CASE Change
  BY <1>6 DEF Change, ClassInv
<1>7. CASE UNCHANGED classVars
  BY <1>7 DEF classVars, world, ClassInv
<1> QED
  BY <1>1, <1>2, <1>3, <1>4, <1>5, <1>6, <1>7 DEF ClassNext

THEOREM ClassInvariant == ClassSpec => []ClassInv
<1> QED BY ClassStarts, ClassKeeps, PTL DEF ClassSpec

----------------------------------------------------------------------------
(* The theorems.                                                            *)

\* While there is an answer, only the step that takes it up is possible.
LEMMA OnlyAnswer ==
  ASSUME ClassInv, reply # NoReply, ClassNext
  PROVE  Answer
BY DEF ClassNext, Begin, Reply, AskFails, Execute, Change, ClassInv

\* "The largest video is never deleted automatically" (README.md): no answer
\* turns a video that is larger than every other, and not named a sample, into
\* a deletion.
THEOREM FilmIsKept == ClassSpec => FeatureKept
<1>1. ASSUME ClassInv, ClassNext, reply # NoReply, NEW f \in Videos,
             \A g \in Videos \ {f} : entry[g].size < entry[f].size, ~IsSample(f)
      PROVE  files'[f].action # "delete" \/ files[f].done
  <2>1. f \in DOMAIN entry /\ NewPlan \in [DOMAIN entry -> Decided]
        /\ files' = Protect(NewPlan) /\ NewPlan[f].done = files[f].done
    BY <1>1, OnlyAnswer, AnswerDoes DEF Videos
  <2>2. MainVideo = f
    <3>1. MainVideo \in Videos /\ AtLeast(MainVideo, f)
      BY <1>1, Largest
    <3>2. entry[f].size \in Nat /\ entry[MainVideo].size \in Nat
      BY <1>1, <3>1, <2>1, EntriesAssumption DEF ClassInv, Videos
    <3> QED BY <1>1, <3>1, <3>2 DEF AtLeast
  <2>3. CASE ~files[f].done /\ NewPlan[f].action = "delete"
    <3>1. Protect(NewPlan) = [NewPlan EXCEPT ![f].action = "keep", ![f].dest = NoDir]
      BY <1>1, <2>1, <2>2, <2>3 DEF Protect
    <3>2. NewPlan[f] \in Decided
      BY <2>1
    <3> QED BY <2>1, <3>1, <3>2 DEF Decided
  <2>4. CASE NewPlan[f].action # "delete"
    BY <1>1, <2>1, <2>4, ProtectDoes
  <2> QED BY <2>3, <2>4
<1>2. ClassInv /\ [ClassNext]_classVars => [reply # NoReply => \A f \in Videos :
        (\A g \in Videos \ {f} : entry[g].size < entry[f].size) /\ ~IsSample(f)
          => files'[f].action # "delete" \/ files[f].done]_classVars
  BY <1>1
<1> QED BY <1>2, ClassInvariant, PTL DEF ClassSpec, FeatureKept

\* A file that is named once by its path gets the action it is named with, also
\* when the same answer names other files of that name.
THEOREM NamesAreObeyed == ClassSpec => NamedByPath
<1>1. ASSUME ClassInv, ClassNext, reply # NoReply,
             NEW f \in DOMAIN files, NEW i \in DOMAIN reply.actions,
             ForPath(reply.actions, entry[f].path) = {i}, ~files[f].done
      PROVE  \/ files'[f].action = Meant(reply.actions[i])
             \/ /\ Meant(reply.actions[i]) = "delete" /\ files'[f].action = "keep"
                /\ \A g \in Videos : entry[g].size <= entry[f].size
  <2>1. f \in DOMAIN entry /\ files[f].done = FALSE
    <3>1. f \in DOMAIN entry /\ files[f] \in Decided
      BY <1>1 DEF ClassInv
    <3> QED BY <1>1, <3>1 DEF Decided
  <2>2. /\ NewPlan \in [DOMAIN entry -> Decided] /\ files' = Protect(NewPlan)
        /\ NewPlan[f].action = Decision(reply.actions, entry[f].path)
        /\ reply \in Replies
    BY <1>1, <2>1, OnlyAnswer, AnswerDoes
  <2>3. i \in Nat
    BY <1>1, <2>2 DEF Replies, FileAnswers, SeqOf
  <2>4. Max({i}) = i
    BY <2>3 DEF Max
  <2>5. Decision(reply.actions, entry[f].path) = Meant(reply.actions[i])
    BY <1>1, <2>4 DEF Decision
  <2>6. \/ files'[f].action = NewPlan[f].action
        \/ f = MainVideo /\ Videos # {} /\ NewPlan[f].action = "delete"
           /\ files'[f].action = "keep"
    BY <1>1, <2>1, <2>2, ProtectDoes
  <2>7. ASSUME f = MainVideo, Videos # {}, NEW g \in Videos
        PROVE  entry[g].size <= entry[f].size
    <3>1. AtLeast(f, g)
      BY <1>1, <2>7, Largest
    <3>2. entry[f].size \in Nat /\ entry[g].size \in Nat
      BY <1>1, <2>1, <2>7, EntriesAssumption DEF ClassInv, Videos
    <3> QED BY <3>1, <3>2 DEF AtLeast
  <2> QED BY <2>2, <2>5, <2>6, <2>7
<1>2. ClassInv /\ [ClassNext]_classVars =>
      [reply # NoReply => \A f \in DOMAIN files, i \in DOMAIN reply.actions :
        /\ ForPath(reply.actions, entry[f].path) = {i} /\ ~files[f].done
        => \/ files'[f].action = Meant(reply.actions[i])
           \/ /\ Meant(reply.actions[i]) = "delete" /\ files'[f].action = "keep"
              /\ \A g \in Videos : entry[g].size <= entry[f].size]_classVars
  BY <1>1
<1> QED BY <1>2, ClassInvariant, PTL DEF ClassSpec, NamedByPath

\* "The item is only filed into an already existing subfolder" (README.md): a
\* destination that an answer brings is there when it is written.
THEOREM OnlyIntoExisting == ClassSpec => IntoExisting
<1>1. ASSUME ClassInv, ClassNext, reply # NoReply, NEW f \in DOMAIN files,
             files'[f].dest # files[f].dest
      PROVE  files'[f].dest \in folders \cup {Root, NoDir}
  <2>1. /\ ResolveTarget(reply.folder) \in folders \cup {Root, NoDir}
        /\ NewPlan \in [DOMAIN entry -> Decided] /\ files' = Protect(NewPlan)
        /\ f \in DOMAIN entry
        /\ NewPlan[f].dest \in {files[f].dest, ResolveTarget(reply.folder)}
    BY <1>1, OnlyAnswer, AnswerDoes DEF ClassInv
  <2>2. files'[f].dest = NewPlan[f].dest \/ files'[f].dest = NoDir
    BY <1>1, <2>1, ProtectDoes
  <2> QED BY <1>1, <2>1, <2>2
<1>2. ClassInv /\ [ClassNext]_classVars => [reply # NoReply => \A f \in DOMAIN files :
        files'[f].dest # files[f].dest => files'[f].dest \in folders \cup {Root, NoDir}]_classVars
  BY <1>1
<1> QED BY <1>2, ClassInvariant, PTL DEF ClassSpec, IntoExisting

----------------------------------------------------------------------------
(* Settings.  Neither property is inductive: what a save that nothing       *)
(* overlaps has written so far agrees with its form (Written), and that     *)
(* nothing overlaps it is a fact about the other pages (OnlyOne).           *)

Tables ==
  /\ stored \in [Keys -> Values \cup {Unset}] /\ last \in [Keys -> Values \cup {Unset}]
  /\ form \in [Pages -> [Keys -> Values \cup {Unset}]]
  /\ sent \in [Pages -> Values \cup {Unset}]
  /\ todo \in [Pages -> SUBSET Keys]
  /\ saving \in [Pages -> {"no", "keys", "answer"}]
  /\ alone \in [Pages -> BOOLEAN] /\ whole \in BOOLEAN

\* A save that is alone is the only one; once one is whole, there is none.
OnlyOne ==
  /\ \A p \in Pages : alone[p] = TRUE => \A q \in Pages : q = p \/ saving[q] = "no"
  /\ whole = TRUE => \A q \in Pages : saving[q] = "no"

Written(p) ==
  /\ alone[p] = TRUE /\ saving[p] # "no" =>
       \A k \in Keys : k \in todo[p] \/ stored[k] = form[p][k]
  /\ saving[p] = "answer" => todo[p] = {}

SettingsInv ==
  /\ Tables /\ OnlyOne /\ \A p \in Pages : Written(p)
  /\ whole = TRUE => stored = last

LEMMA SettingsStarts == SettingsInit => SettingsInv
<1> SUFFICES ASSUME SettingsInit PROVE SettingsInv
  OBVIOUS
<1>1. Tables
  BY DEF SettingsInit, Tables, Blank
<1>2. OnlyOne /\ \A p \in Pages : Written(p)
  BY DEF SettingsInit, OnlyOne, Written
<1>3. stored = last
  BY DEF SettingsInit
<1> QED
  BY <1>1, <1>2, <1>3 DEF SettingsInv

LEMMA PutKeeps == ASSUME SettingsInv, NEW p \in Pages, Put(p) PROVE SettingsInv'
<1> PICK f \in [Keys -> Values], a \in Values \cup {Unset} :
      form' = [form EXCEPT ![p] = f] /\ sent' = [sent EXCEPT ![p] = a]
  BY DEF Put
<1>1. /\ todo' = [todo EXCEPT ![p] = Keys] /\ saving' = [saving EXCEPT ![p] = "keys"]
      /\ alone' = [q \in Pages |-> q = p /\ Saving = {}] /\ whole' = FALSE
      /\ UNCHANGED <<stored, last>>
  BY DEF Put
<1>2. Tables'
  BY <1>1 DEF SettingsInv, Tables
<1>3. \A q \in Pages : alone'[q] = TRUE => q = p /\ \A r \in Pages : saving[r] = "no"
  BY <1>1 DEF Saving
<1>4. OnlyOne'
  BY <1>1, <1>3 DEF SettingsInv, Tables, OnlyOne
<1>5. ASSUME NEW q \in Pages PROVE Written(q)'
  BY <1>1, <1>3 DEF SettingsInv, Tables, Written
<1> QED
  BY <1>1, <1>2, <1>4, <1>5 DEF SettingsInv

LEMMA SetSettingKeeps ==
  ASSUME SettingsInv, NEW p \in Pages, NEW k \in Keys, SetSetting(p, k) PROVE SettingsInv'
<1>1. /\ saving[p] = "keys" /\ k \in todo[p]
      /\ stored' = [stored EXCEPT ![k] = form[p][k]]
      /\ todo' = [todo EXCEPT ![p] = @ \ {k}]
      /\ UNCHANGED <<form, sent, saving, alone, last, whole>>
  BY DEF SetSetting
<1>2. Tables'
  BY <1>1 DEF SettingsInv, Tables
<1>3. OnlyOne'
  BY <1>1 DEF SettingsInv, OnlyOne
<1>4. ASSUME NEW q \in Pages PROVE Written(q)'
  <2>1. CASE q = p
    BY <1>1, <2>1 DEF SettingsInv, Tables, Written
  <2>2. CASE q # p
    <3>1. ~(alone[q] = TRUE)
      BY <1>1, <2>2 DEF SettingsInv, OnlyOne
    <3> QED
      BY <1>1, <2>2, <3>1 DEF SettingsInv, Tables, Written
  <2> QED
    BY <2>1, <2>2
<1>5. ~(whole' = TRUE)
  BY <1>1 DEF SettingsInv, OnlyOne
<1> QED
  BY <1>2, <1>3, <1>4, <1>5 DEF SettingsInv

LEMMA SetApiKeyKeeps == ASSUME SettingsInv, NEW p \in Pages, SetApiKey(p) PROVE SettingsInv'
<1>1. /\ saving[p] = "keys" /\ todo[p] = {}
      /\ saving' = [saving EXCEPT ![p] = "answer"]
      /\ UNCHANGED <<stored, form, sent, todo, alone, last, whole>>
  BY DEF SetApiKey
<1>2. Tables'
  BY <1>1 DEF SettingsInv, Tables
<1>3. OnlyOne'
  BY <1>1 DEF SettingsInv, Tables, OnlyOne
<1>4. ASSUME NEW q \in Pages PROVE Written(q)'
  BY <1>1 DEF SettingsInv, Tables, Written
<1> QED
  BY <1>1, <1>2, <1>3, <1>4 DEF SettingsInv

LEMMA SavedKeeps == ASSUME SettingsInv, NEW p \in Pages, Saved(p) PROVE SettingsInv'
<1>1. /\ saving[p] = "answer" /\ saving' = [saving EXCEPT ![p] = "no"]
      /\ last' = IF alone[p] THEN form[p] ELSE last
      /\ whole' = (whole \/ alone[p])
      /\ UNCHANGED <<stored, form, sent, todo, alone>>
  BY DEF Saved
<1>2. ~(whole = TRUE)
  BY <1>1 DEF SettingsInv, OnlyOne
<1>3. CASE alone[p] = TRUE
  <2>1. last' = form[p] /\ whole' = TRUE
    BY <1>1, <1>3, Zenon
  <2>2. \A k \in Keys : stored[k] = form[p][k]
    BY <1>1, <1>3 DEF SettingsInv, Written
  <2>3. stored = form[p]
    BY <2>2 DEF SettingsInv, Tables
  <2>4. Tables' /\ OnlyOne'
    BY <1>1, <1>3, <2>1 DEF SettingsInv, Tables, OnlyOne
  <2>5. ASSUME NEW q \in Pages PROVE Written(q)'
    BY <1>1 DEF SettingsInv, Tables, Written
  <2> QED
    BY <1>1, <2>1, <2>3, <2>4, <2>5 DEF SettingsInv
<1>4. CASE alone[p] = FALSE
  <2>0. whole = FALSE
    BY <1>2 DEF SettingsInv, Tables
  <2>1. last' = last /\ whole' = FALSE
    BY <1>1, <1>4, <2>0, Zenon
  <2>2. Tables' /\ OnlyOne'
    BY <1>1, <2>1 DEF SettingsInv, Tables, OnlyOne
  <2>3. ASSUME NEW q \in Pages PROVE Written(q)'
    BY <1>1 DEF SettingsInv, Tables, Written
  <2> QED
    BY <2>1, <2>2, <2>3 DEF SettingsInv
<1> QED
  BY <1>3, <1>4 DEF SettingsInv, Tables

LEMMA CutOffKeeps == ASSUME SettingsInv, NEW p \in Pages, CutOff(p) PROVE SettingsInv'
<1>1. /\ saving' = [saving EXCEPT ![p] = "no"] /\ todo' = [todo EXCEPT ![p] = {}]
      /\ UNCHANGED <<stored, form, sent, alone, last, whole>>
  BY DEF CutOff
<1>2. Tables'
  BY <1>1 DEF SettingsInv, Tables
<1>3. OnlyOne'
  BY <1>1 DEF SettingsInv, Tables, OnlyOne
<1>4. ASSUME NEW q \in Pages PROVE Written(q)'
  BY <1>1 DEF SettingsInv, Tables, Written
<1> QED
  BY <1>1, <1>2, <1>3, <1>4 DEF SettingsInv

THEOREM SettingsInvariant == SettingsSpec => []SettingsInv
<1>1. SettingsInv /\ [SettingsNext]_settingsVars => SettingsInv'
  <2> SUFFICES ASSUME SettingsInv, [SettingsNext]_settingsVars PROVE SettingsInv'
    OBVIOUS
  <2>1. CASE UNCHANGED settingsVars
    BY <2>1 DEF settingsVars, page, SettingsInv, Tables, OnlyOne, Written
  <2> QED
    BY <2>1, PutKeeps, SetSettingKeeps, SetApiKeyKeeps, SavedKeeps, CutOffKeeps
       DEF SettingsNext
<1> QED
  BY <1>1, SettingsStarts, PTL DEF SettingsSpec

\* What a page is told is saved is what is stored, for every key together, until
\* somebody saves again; unless two pages save at a time.
THEOREM WholeFormIsSaved == SettingsSpec => []SavedWhole
<1>1. SettingsInv => SavedWhole
  <2>1. SettingsInv /\ whole = TRUE => stored = last
    BY DEF SettingsInv
  <2>2. SettingsInv => whole \in BOOLEAN
    BY DEF SettingsInv, Tables
  <2> QED
    BY <2>1, <2>2, Zenon DEF SavedWhole
<1> QED
  BY <1>1, SettingsInvariant, PTL

\* A new API key is stored beside the endpoint it was entered with, and a form
\* without a key never takes it away.
THEOREM KeyStaysWithItsForm == SettingsSpec => KeyWithItsForm
<1>1. ASSUME SettingsInv, [SettingsNext]_settingsVars, apiKey' # apiKey
      PROVE  /\ apiKey' # Unset
             /\ \E p \in Saving : sent[p] = apiKey' /\ (alone[p] => stored = form[p])
  <2>1. PICK p \in Pages : SetApiKey(p)
    BY <1>1 DEF SettingsNext, settingsVars, page, Put, SetSetting, Saved, CutOff
  <2>2. /\ apiKey' = sent[p] /\ sent[p] # Unset
        /\ p \in Saving /\ saving[p] = "keys" /\ todo[p] = {}
    BY <1>1, <2>1 DEF SetApiKey, Saving
  <2>3. alone[p] = TRUE => stored = form[p]
    BY <1>1, <2>2 DEF SettingsInv, Tables, Written
  <2>4. alone[p] => stored = form[p]
    BY <2>3, Zenon
  <2> QED
    BY <2>2, <2>4
<1> QED
  BY <1>1, SettingsInvariant, PTL DEF SettingsSpec, KeyWithItsForm

----------------------------------------------------------------------------
(* Backoff.  That failures are counted from zero is all there is to keep;   *)
(* the rest is arithmetic.                                                  *)

LEMMA Powers ==
  ASSUME NEW k \in 0..20 PROVE 2^k \in Nat \ {0} /\ (k = 0 => 2^k = 1)
<1> DEFINE power == [i \in 0..20 |-> 2^i]
<1>1. /\ power[0] = 1 /\ power[1] = 2 /\ power[2] = 4 /\ power[3] = 8 /\ power[4] = 16
      /\ power[5] = 32 /\ power[6] = 64 /\ power[7] = 128 /\ power[8] = 256
      /\ power[9] = 512 /\ power[10] = 1024
  OBVIOUS
<1>2. /\ power[11] = 2048 /\ power[12] = 4096 /\ power[13] = 8192 /\ power[14] = 16384
      /\ power[15] = 32768 /\ power[16] = 65536 /\ power[17] = 131072
      /\ power[18] = 262144 /\ power[19] = 524288 /\ power[20] = 1048576
  OBVIOUS
<1>3. \/ k = 0 \/ k = 1 \/ k = 2 \/ k = 3 \/ k = 4 \/ k = 5 \/ k = 6 \/ k = 7 \/ k = 8
      \/ k = 9 \/ k = 10 \/ k = 11 \/ k = 12 \/ k = 13 \/ k = 14 \/ k = 15 \/ k = 16
      \/ k = 17 \/ k = 18 \/ k = 19 \/ k = 20
  OBVIOUS
<1>4. 2^k = power[k]
  OBVIOUS
<1> HIDE DEF power
<1> QED
  BY <1>1, <1>2, <1>3, <1>4

\* The doubling stops at the cap, and at the twentieth failure.
LEMMA GrowthBounded ==
  ASSUME NEW n \in Nat \ {0}
  PROVE  Growth(n) \in BaseDelay..MaxDelay /\ (n = 1 => Growth(n) = BaseDelay)
<1> DEFINE k == Least(n - 1, 20)
<1>1. k \in 0..20 /\ (n = 1 => k = 0)
  BY DEF Least
<1> HIDE DEF k
<1>2. 2^k \in Nat \ {0} /\ (n = 1 => 2^k = 1)
  BY <1>1, Powers
<1> DEFINE d == BaseDelay * 2^k
<1>3. d \in Nat /\ d >= BaseDelay /\ (n = 1 => d = BaseDelay)
  <2>1. \A b \in Nat, m \in Nat \ {0} : b * m \in Nat /\ b * m >= b /\ b * 1 = b
    OBVIOUS
  <2> QED
    BY <1>2, <2>1, BackoffAssumption
<1>4. Growth(n) = IF d < MaxDelay THEN d ELSE MaxDelay
  BY DEF Growth, Capped, Least, k, d
<1> HIDE DEF d
<1> QED
  BY <1>3, <1>4, BackoffAssumption

\* A fifth more at most.
LEMMA SpreadBounded ==
  ASSUME NEW j \in -20..20, NEW g \in Nat
  PROVE  g + (j * g) \div 100 \in Int /\ g + (j * g) \div 100 <= g + g \div 5
<1>1. j * g \in Int /\ j * g <= 20 * g
  OBVIOUS
<1>2. (j * g) \div 100 <= (20 * g) \div 100 /\ (j * g) \div 100 \in Int
  BY <1>1
<1>3. (20 * g) \div 100 = g \div 5
  OBVIOUS
<1> QED
  BY <1>2, <1>3

LEMMA DelayInBounds ==
  ASSUME NEW n \in Nat \ {0}, NEW j \in Jitter
  PROVE  /\ Delay(n, j) \in BaseDelay..(MaxDelay + MaxDelay \div 5)
         /\ n = 1 => Delay(n, j) <= BaseDelay + BaseDelay \div 5
<1> DEFINE g == Growth(n)
           d == g + (j * g) \div 100
<1>1. g \in BaseDelay..MaxDelay /\ g \in Nat /\ (n = 1 => g = BaseDelay)
  BY GrowthBounded, BackoffAssumption
<1>2. Delay(n, j) = IF d < BaseDelay THEN BaseDelay ELSE d
  BY DEF Delay
<1> HIDE DEF g
<1>3. d \in Int /\ d <= g + g \div 5
  BY <1>1, SpreadBounded, BackoffAssumption
<1> HIDE DEF d
<1>4. g \div 5 <= MaxDelay \div 5 /\ g \div 5 \in Nat /\ MaxDelay \div 5 \in Nat
      /\ BaseDelay \div 5 \in Nat
  BY <1>1, BackoffAssumption
<1> QED
  BY <1>1, <1>2, <1>3, <1>4, BackoffAssumption

\* "Growing exponentially up to maxDelay with a small random spread" (backoff.go):
\* for any delays and however often a job has failed, the wait after a counted
\* failure is between the first delay and a fifth more than the longest.
THEOREM DelaysAreBounded == BackoffSpec => DelayBounded
<1> DEFINE Inv == attempts \in Nat
<1>1. BackoffInit => Inv
  BY DEF BackoffInit
<1>2. Inv /\ [BackoffNext]_backoffVars => Inv'
  BY DEF BackoffNext, Reschedule, Defer, FailJob, RetryJob, backoffVars
<1>3. ASSUME Inv, [BackoffNext]_backoffVars, attempts' = attempts + 1
      PROVE  /\ wait' \in BaseDelay..(MaxDelay + MaxDelay \div 5)
             /\ attempts = 0 => wait' <= BaseDelay + BaseDelay \div 5
  <2>1. Reschedule
    BY <1>3 DEF BackoffNext, Defer, FailJob, RetryJob, backoffVars
  <2>2. PICK j \in Jitter : wait' = Delay(attempts + 1, j)
    BY <2>1 DEF Reschedule
  <2> QED
    BY <1>3, <2>2, DelayInBounds
<1> HIDE DEF Inv
<1> QED
  BY <1>1, <1>2, <1>3, PTL DEF BackoffSpec, DelayBounded
=============================================================================
