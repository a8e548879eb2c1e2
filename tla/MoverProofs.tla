---------------------------- MODULE MoverProofs ----------------------------
(***************************************************************************)
(* Theorems about Mover for any entries, when one call runs at a time, and *)
(* about EmptyDirs for any folders.  Lstat may fail where something is     *)
(* (Blind): that Move loses nothing is shown with the exception that Kept  *)
(* makes; that it keeps its contract, up to the first such failure.        *)
(*                                                                         *)
(* Kept is not inductive: that a call may remove its source rests on what  *)
(* its copy has reached, and that nobody takes a finished entry away rests *)
(* on every other call finding the destination taken, or on the entry      *)
(* being exposed.  Shape, Alone and Progress say just this.                *)
(***************************************************************************)
EXTENDS MoverRefinement, EmptyDirs, TLAPS

InHand == {"copy", "write", "flush", "undo", "remove"}

\* One call runs.
Alone == \A m, o \in Movers : Running(m) /\ Running(o) => m = o

\* A name at the destination leads to something of that name; what is in a
\* folder has the folder around it.
Shape ==
  /\ \A n \in Names : dest[n] # Nothing => n \in Entry[dest[n]] /\ (n # Top => made)
  /\ safe \subseteq whole

Stored(m, n) == dest[n] = m /\ <<m, n>> \in safe

\* What can be taken away from the destination without a loss.
Spare(o) == o \in exposed \/ src[o] = Entry[o]

\* What holds as long as Lstat has told what is there.
InSight(m) ==
  /\ exposed = {}
  /\ pc[m] = "rename" => ~Taken
  /\ pc[m] \in InHand => \A n \in Names : dest[n] \in {m, Nothing}

\* How far the call of m has come.
Progress(m) ==
  /\ src[m] \subseteq Entry[m]
  /\ pc[m] \in InHand \cup {"rename"} => \A o \in Movers : Spare(o)
  /\ ~misled => InSight(m)
  /\ pc[m] \in {"copy", "write", "flush"} => todo[m] \subseteq Entry[m]
  /\ pc[m] \in {"write", "flush"} => dest[file[m]] = m
  /\ pc[m] = "flush" => <<m, file[m]>> \in whole
  /\ m \notin exposed =>
       /\ pc[m] = "copy" => \A n \in Entry[m] \ todo[m] : Stored(m, n)
       /\ pc[m] \in {"write", "flush"} =>
            \A n \in Entry[m] \ (todo[m] \cup {file[m]}) : Stored(m, n)
       /\ pc[m] = "remove" => \A n \in Entry[m] : Stored(m, n)
       /\ src[m] # Entry[m] => \A n \in Entry[m] : Stored(m, n)

IInv == TypeOK /\ Alone /\ Shape /\ \A m \in Movers : Progress(m)

LEMMA InitIInv == Init => IInv
<1> SUFFICES ASSUME Init PROVE IInv
  OBVIOUS
<1>1. TypeOK
  BY MoverAssumption DEF Init, TypeOK, Results
<1>2. Alone /\ Shape
  BY DEF Init, Alone, Shape, Running
<1>3. ASSUME NEW m \in Movers PROVE Progress(m)
  BY <1>1 DEF Init, Progress, InSight, Taken, InHand
<1> QED
  BY <1>1, <1>2, <1>3 DEF IInv

----------------------------------------------------------------------------
\* A call past its Lstat runs alone, and whatever it writes, the others have
\* nothing to lose.
LEMMA OthersKeep ==
  ASSUME IInv, NEW m \in Movers, pc[m] \in InHand \cup {"rename"}, UNCHANGED <<exposed, misled>>,
         \A o \in Movers \ {m} : src'[o] = src[o] /\ pc'[o] = pc[o]
  PROVE  Alone' /\ \A o \in Movers \ {m} : Progress(o)'
<1>1. \A o \in Movers \ {m} : ~Running(o) /\ pc'[o] = pc[o]
  BY DEF IInv, Alone, Running, InHand, Results
<1>2. Alone'
  BY <1>1 DEF Alone, Running
<1>3. ASSUME NEW o \in Movers, o # m PROVE Progress(o)'
  <2>1. src'[o] = src[o] /\ src[o] \subseteq Entry[o] /\ (o \in exposed \/ src[o] = Entry[o])
    BY <1>3 DEF IInv, Progress, Spare
  <2>2. ~misled => exposed = {}
    BY DEF IInv, Progress, InSight
  <2>3. pc'[o] \notin InHand \cup {"rename"}
    BY <1>1, <1>3 DEF Running, InHand, Results
  <2> QED BY <2>1, <2>2, <2>3 DEF Progress, InSight, InHand
<1> QED BY <1>2, <1>3

\* A step of a copy that removes nothing from the source.
LEMMA CopyKeeps ==
  ASSUME IInv, NEW m \in Movers, pc[m] \in InHand, pc'[m] # "rename",
         UNCHANGED <<exposed, misled>>, src' = src,
         \A n \in Names : dest'[n] \in {dest[n], m, Nothing}
  PROVE  /\ src'[m] \subseteq Entry[m] /\ \A o \in Movers : Spare(o)'
         /\ ~misled' => InSight(m)'
         /\ m \notin exposed' => src'[m] = Entry[m]
<1>1. src[m] \subseteq Entry[m] /\ \A o \in Movers : Spare(o)
  BY DEF IInv, Progress
<1>2. \A o \in Movers : Spare(o)'
  BY <1>1 DEF Spare
<1>3. ~misled => InSight(m)
  BY DEF IInv, Progress
<1> QED BY <1>1, <1>2, <1>3 DEF InSight, Spare

\* A step that leaves the disk as it is and does not set a call going.
LEMMA StillProgress ==
  ASSUME IInv, UNCHANGED <<disk, todo, file, exposed, misled>>, NEW m \in Movers, pc'[m] = pc[m]
  PROVE  Progress(m)'
  BY DEF IInv, Progress, InSight, Spare, Stored, Taken, disk

----------------------------------------------------------------------------
(* One lemma per action.                                                    *)

LEMMA BeginStep ==
  ASSUME IInv, Rivals = FALSE, NEW m \in Movers, Begin(m)
  PROVE  IInv'
<1>1. TypeOK'
  BY DEF IInv, TypeOK, Begin, At, Go, disk, Results
<1>2. \A o \in Movers \ {m} : pc'[o] = pc[o] /\ ~Running(o)
  BY DEF IInv, TypeOK, Begin, Go, At
<1>3. Alone'
  BY <1>2 DEF Alone, Running
<1>4. Shape'
  BY DEF IInv, Shape, Begin, disk
<1>5. Progress(m)'
  <2>1. pc'[m] \in {"failed", "check"}
    BY DEF IInv, TypeOK, Begin, Go
  <2> QED BY <2>1 DEF IInv, Progress, InSight, Begin, disk, InHand, Stored
<1>6. \A o \in Movers \ {m} : Progress(o)'
  BY <1>2, StillProgress DEF Begin
<1> QED BY <1>1, <1>3, <1>4, <1>5, <1>6 DEF IInv

LEMMA RetryStep ==
  ASSUME IInv, NEW m \in Movers, Retry(m)
  PROVE  IInv'
<1>1. TypeOK'
  BY DEF IInv, TypeOK, Retry, Go, disk
<1>2. \A o \in Movers \ {m} : pc'[o] = pc[o]
  BY DEF IInv, TypeOK, Retry, Go
<1>3. pc'[m] = "start"
  BY DEF IInv, TypeOK, Retry, Go
<1>4. Alone'
  BY <1>2, <1>3 DEF IInv, Alone, Running
<1>5. Shape'
  BY DEF IInv, Shape, Retry, disk
<1>6. Progress(m)'
  BY <1>3 DEF IInv, Progress, InSight, Retry, disk, InHand, Stored
<1>7. \A o \in Movers \ {m} : Progress(o)'
  BY <1>2, StillProgress DEF Retry
<1> QED BY <1>1, <1>4, <1>5, <1>6, <1>7 DEF IInv

LEMMA LstatStep ==
  ASSUME IInv, NEW m \in Movers, Lstat(m)
  PROVE  IInv'
<1>1. TypeOK'
  BY DEF IInv, TypeOK, Lstat, Go, disk, Results
<1>2. \A o \in Movers \ {m} : pc'[o] = pc[o]
  BY DEF IInv, TypeOK, Lstat, Go
<1>3. /\ pc[m] = "check" /\ pc'[m] \in {"exists", "rename"} /\ UNCHANGED <<disk, todo, file>>
      /\ \/ UNCHANGED <<exposed, misled>> /\ (pc'[m] = "rename" => ~Taken)
         \/ misled' = TRUE /\ exposed' = exposed \cup {o \in Movers : src[o] # Entry[o]}
  BY MoverAssumption DEF IInv, TypeOK, Lstat, Go, At
<1>4. \A o \in Movers \ {m} : ~Running(o)
  BY <1>3 DEF IInv, Alone, Running, Results
<1>5. Alone'
  BY <1>2, <1>4 DEF Alone, Running
<1>6. Shape'
  BY <1>3 DEF IInv, Shape, disk
<1>7. ASSUME pc'[m] = "rename", NEW o \in Movers PROVE Spare(o)'
  <2> SUFFICES ASSUME o \notin exposed', src[o] # Entry[o] PROVE FALSE
    BY <1>3 DEF Spare, disk
  <2>1. o \notin exposed /\ ~Taken
    BY <1>3, <1>7
  <2>2. PICK n \in Entry[o] : Stored(o, n)
    BY <2>1 DEF IInv, Progress
  <2>3. n \in Names /\ dest[n] # Nothing
    BY <2>2, MoverAssumption DEF Stored
  <2> QED BY <2>1, <2>3 DEF IInv, Shape, Taken
<1>8. \A o \in Movers : \A n \in Names : Stored(o, n)' <=> Stored(o, n)
  BY <1>3 DEF Stored, disk
<1>9. ASSUME NEW o \in Movers PROVE Progress(o)'
  <2>1. /\ UNCHANGED <<src, dest, made, whole, todo, file>> /\ Taken' = Taken
        /\ exposed \subseteq exposed' /\ (~misled' => UNCHANGED <<exposed, misled>>)
    BY <1>3 DEF disk, Taken
  <2>2. \A n \in Entry[o] : n \in Names
    BY MoverAssumption
  <2>3. pc'[o] \notin InHand /\ (pc'[o] = "rename" => o = m)
    BY <1>2, <1>3, <1>4, <1>9 DEF Running, InHand, Results
  <2>4. ~misled' => InSight(o)'
    <3> SUFFICES ASSUME ~misled' PROVE InSight(o)'
      OBVIOUS
    <3>1. ~misled /\ exposed' = exposed /\ (pc'[m] = "rename" => ~Taken)
      BY <1>3
    <3>2. exposed = {}
      BY <3>1 DEF IInv, Progress, InSight
    <3> QED BY <2>1, <2>3, <3>1, <3>2 DEF InSight
  <2>5. o \notin exposed' /\ src[o] # Entry[o] => \A n \in Entry[o] : Stored(o, n)'
    BY <1>8, <2>1, <2>2 DEF IInv, Progress
  <2>6. src[o] \subseteq Entry[o]
    BY DEF IInv, Progress
  <2> QED
    BY <1>7, <2>1, <2>3, <2>4, <2>5, <2>6 DEF Progress, InHand
<1> QED BY <1>1, <1>5, <1>6, <1>9 DEF IInv

LEMMA RenameStep ==
  ASSUME IInv, NEW m \in Movers, Rename(m)
  PROVE  IInv'
<1>1. TypeOK'
  <2>1. src[m] \subseteq Names
    BY DEF IInv, TypeOK
  <2>2. made' \in BOOLEAN
    BY DEF Rename, Folder
  <2>3. dest' \in [Names -> Movers \cup {Nothing}]
    BY DEF IInv, TypeOK, Rename
  <2>4. whole' \subseteq Movers \X Names /\ safe' \subseteq Movers \X Names
    BY <2>1 DEF IInv, TypeOK, Rename
  <2>5. /\ src' \in [Movers -> SUBSET Names]
        /\ pc' \in [Movers -> {"start", "check", "rename", "copy", "write", "flush",
                              "undo", "remove"} \cup Results]
    BY DEF IInv, TypeOK, Rename, Go, Results
  <2> QED BY <2>2, <2>3, <2>4, <2>5 DEF IInv, TypeOK, Rename
<1>2. \A o \in Movers \ {m} : src'[o] = src[o] /\ pc'[o] = pc[o]
  BY DEF IInv, TypeOK, Rename, Go
<1>3. pc[m] = "rename" /\ pc'[m] = "done" /\ UNCHANGED <<exposed, misled>>
  BY DEF IInv, TypeOK, Rename, Go, At
<1>4. Alone' /\ \A o \in Movers \ {m} : Progress(o)'
  BY <1>2, <1>3, OthersKeep
<1>5. src[m] \subseteq Entry[m] /\ Entry[m] \subseteq Names
  BY MoverAssumption DEF IInv, Progress
<1>6. \A n \in Names : dest'[n] = IF n \in src[m] THEN m ELSE dest[n]
  BY DEF Rename
<1>7. Shape'
  <2>1. ASSUME NEW n \in Names, dest'[n] # Nothing
        PROVE  n \in Entry[dest'[n]] /\ (n # Top => made')
    <3>1. CASE n \in src[m]
      BY <1>5, <1>6, <3>1, MoverAssumption DEF Rename, Folder
    <3>2. CASE n \notin src[m]
      <4>1. dest[n] = dest'[n] /\ ~Folder(m) /\ ~made /\ n = Top
        BY <1>6, <2>1, <3>2 DEF Rename, Renames, IInv, Shape
      <4>2. Entry[m] = {Top} /\ src[m] # {}
        BY <4>1, MoverAssumption DEF Folder, Rename, Renames
      <4> QED BY <1>5, <3>2, <4>1, <4>2
    <3> QED BY <3>1, <3>2
  <2>2. safe' \subseteq whole'
    BY DEF IInv, Shape, Rename
  <2> QED BY <2>1, <2>2 DEF Shape
<1>8. Progress(m)'
  <2>1. m \notin exposed => src[m] = Entry[m]
    BY <1>3 DEF IInv, Progress, Spare
  <2>2. m \notin exposed => \A n \in Entry[m] : Stored(m, n)'
    BY <1>5, <1>6, <2>1 DEF Stored, Rename
  <2>3. src'[m] = {}
    BY DEF Rename, IInv, TypeOK
  <2>4. ~misled => exposed = {}
    BY DEF IInv, Progress, InSight
  <2> QED BY <1>3, <2>2, <2>3, <2>4 DEF Progress, InSight, InHand
<1> QED BY <1>1, <1>4, <1>7, <1>8 DEF IInv

LEMMA CopyPathStep ==
  ASSUME IInv, NEW m \in Movers, CopyPath(m)
  PROVE  IInv'
<1>1. TypeOK'
  BY DEF IInv, TypeOK, CopyPath, Go
<1>2. \A o \in Movers \ {m} : src'[o] = src[o] /\ pc'[o] = pc[o]
  BY DEF IInv, TypeOK, CopyPath, Go
<1>3. /\ pc[m] = "rename" /\ pc'[m] \in {"copy", "undo"}
      /\ UNCHANGED <<src, dest, whole, safe, file, exposed, misled>>
      /\ pc'[m] = "copy" => todo'[m] = src[m]
      /\ made => made'
  BY DEF IInv, TypeOK, CopyPath, Go, At
<1>4. Alone' /\ \A o \in Movers \ {m} : Progress(o)'
  BY <1>2, <1>3, OthersKeep
<1>5. Shape'
  BY <1>3 DEF IInv, Shape
<1>6. ~misled' => InSight(m)'
  <2> SUFFICES ASSUME ~misled PROVE InSight(m)'
    BY <1>3
  <2>1. ~Taken /\ exposed = {}
    BY <1>3 DEF IInv, Progress, InSight
  <2>2. \A n \in Names : dest[n] = Nothing
    BY <2>1 DEF IInv, Shape, Taken
  <2> QED BY <1>3, <2>1, <2>2 DEF InSight
<1>7. Progress(m)'
  <2>1. \A o \in Movers : Spare(o)'
    BY <1>3 DEF IInv, Progress, Spare
  <2>2. src[m] \subseteq Entry[m] /\ (m \notin exposed => src[m] = Entry[m])
    BY <1>3 DEF IInv, Progress, Spare
  <2> QED BY <1>3, <1>6, <2>1, <2>2 DEF Progress, InHand
<1> QED BY <1>1, <1>4, <1>5, <1>7 DEF IInv

LEMMA OpenStep ==
  ASSUME IInv, NEW m \in Movers, NEW n \in Names, Open(m, n)
  PROVE  IInv'
<1>1. TypeOK'
  BY DEF IInv, TypeOK, Open, Go
<1>2. \A o \in Movers \ {m} : src'[o] = src[o] /\ pc'[o] = pc[o]
  BY DEF IInv, TypeOK, Open, Go
<1>3. /\ pc[m] = "copy" /\ pc'[m] = "write" /\ file'[m] = n
      /\ todo'[m] = todo[m] \ {n} /\ n \in todo[m]
      /\ dest' = [dest EXCEPT ![n] = m] /\ UNCHANGED <<src, made, exposed, misled>>
      /\ dest[n] = Nothing /\ (Folder(m) <=> made)
      /\ whole' = whole \ {<<m, n>>} /\ safe' = safe \ {<<m, n>>}
  BY DEF IInv, TypeOK, Open, Go, At
<1>4. Alone' /\ \A o \in Movers \ {m} : Progress(o)'
  BY <1>2, <1>3, OthersKeep DEF InHand
<1>5. src[m] \subseteq Entry[m] /\ todo[m] \subseteq Entry[m]
  BY <1>3 DEF IInv, Progress, InHand
<1>6. \A k \in Names : dest'[k] = IF k = n THEN m ELSE dest[k]
  BY <1>3 DEF IInv, TypeOK
<1>7. Shape'
  <2>1. n # Top => made
    BY <1>3, <1>5, MoverAssumption DEF Folder
  <2> QED BY <1>3, <1>5, <1>6, <2>1 DEF IInv, Shape
<1>8. Progress(m)'
  <2>1. m \notin exposed => \A k \in Entry[m] \ todo[m] : Stored(m, k) /\ k \in Names
    BY <1>3, MoverAssumption DEF IInv, Progress
  <2>2. m \notin exposed => \A k \in Entry[m] \ (todo'[m] \cup {n}) : Stored(m, k)'
    BY <1>3, <1>6, <2>1 DEF Stored
  <2>3. todo'[m] \subseteq Entry[m] /\ dest'[file'[m]] = m
    BY <1>3, <1>5, <1>6
  <2> QED BY <1>3, <1>6, <2>2, <2>3, CopyKeeps DEF Progress, InHand
<1> QED BY <1>1, <1>4, <1>7, <1>8 DEF IInv

LEMMA CopyFailsStep ==
  ASSUME IInv, NEW m \in Movers, CopyFails(m)
  PROVE  IInv'
<1>1. TypeOK'
  BY DEF IInv, TypeOK, CopyFails, Go, disk
<1>2. UNCHANGED <<exposed, misled>> /\ \A o \in Movers \ {m} : src'[o] = src[o] /\ pc'[o] = pc[o]
  BY DEF IInv, TypeOK, CopyFails, Go, disk
<1>3. pc[m] = "copy" /\ pc'[m] = "undo"
  BY DEF IInv, TypeOK, CopyFails, Go, At
<1>4. Alone' /\ \A o \in Movers \ {m} : Progress(o)'
  BY <1>2, <1>3, OthersKeep DEF InHand
<1>5. Shape'
  BY DEF IInv, Shape, CopyFails, disk
<1>6. Progress(m)'
  <2>1. UNCHANGED <<src, dest>>
    BY DEF CopyFails, disk
  <2> QED BY <1>2, <1>3, <2>1, CopyKeeps DEF Progress, InHand
<1> QED BY <1>1, <1>4, <1>5, <1>6 DEF IInv

LEMMA WriteStep ==
  ASSUME IInv, NEW m \in Movers, Write(m)
  PROVE  IInv'
<1>1. TypeOK'
  BY DEF IInv, TypeOK, Write, Go
<1>2. UNCHANGED <<exposed, misled>> /\ \A o \in Movers \ {m} : src'[o] = src[o] /\ pc'[o] = pc[o]
  BY DEF IInv, TypeOK, Write, Go
<1>3. pc[m] = "write" /\ pc'[m] = "flush"
  BY DEF IInv, TypeOK, Write, Go, At
<1>4. Alone' /\ \A o \in Movers \ {m} : Progress(o)'
  BY <1>2, <1>3, OthersKeep DEF InHand
<1>5. Shape'
  BY DEF IInv, Shape, Write
<1>6. Progress(m)'
  <2>1. UNCHANGED <<src, dest, safe, todo, file>> /\ <<m, file[m]>> \in whole'
    BY DEF Write
  <2>2. m \notin exposed => \A n \in Entry[m] \ (todo[m] \cup {file[m]}) : Stored(m, n)'
    BY <1>3, <2>1 DEF IInv, Progress, Stored
  <2>3. todo[m] \subseteq Entry[m] /\ dest[file[m]] = m
    BY <1>3 DEF IInv, Progress
  <2> QED BY <1>2, <1>3, <2>1, <2>2, <2>3, CopyKeeps DEF Progress, InHand
<1> QED BY <1>1, <1>4, <1>5, <1>6 DEF IInv

LEMMA FlushStep ==
  ASSUME IInv, NEW m \in Movers, Flush(m)
  PROVE  IInv'
<1>1. TypeOK'
  BY DEF IInv, TypeOK, Flush, Go
<1>2. UNCHANGED <<exposed, misled>> /\ \A o \in Movers \ {m} : src'[o] = src[o] /\ pc'[o] = pc[o]
  BY DEF IInv, TypeOK, Flush, Go
<1>3. pc[m] = "flush" /\ pc'[m] = "copy" /\ safe' = safe \cup {<<m, file[m]>>}
      /\ UNCHANGED <<src, dest, made, whole, todo, file>>
  BY DEF IInv, TypeOK, Flush, Go, At
<1>4. Alone' /\ \A o \in Movers \ {m} : Progress(o)'
  BY <1>2, <1>3, OthersKeep DEF InHand
<1>5. dest[file[m]] = m /\ <<m, file[m]>> \in whole
  BY <1>3 DEF IInv, Progress
<1>6. Shape'
  BY <1>3, <1>5 DEF IInv, Shape
<1>7. Progress(m)'
  <2>1. m \notin exposed => \A k \in Entry[m] \ todo[m] : Stored(m, k)'
    BY <1>3, <1>5 DEF IInv, Progress, Stored
  <2>2. todo[m] \subseteq Entry[m]
    BY <1>3 DEF IInv, Progress
  <2> QED BY <1>2, <1>3, <2>1, <2>2, CopyKeeps DEF Progress, InHand
<1> QED BY <1>1, <1>4, <1>6, <1>7 DEF IInv

LEMMA WriteFailsStep ==
  ASSUME IInv, NEW m \in Movers, WriteFails(m)
  PROVE  IInv'
<1>1. TypeOK'
  BY DEF IInv, TypeOK, WriteFails, Go
<1>2. UNCHANGED <<exposed, misled>> /\ \A o \in Movers \ {m} : src'[o] = src[o] /\ pc'[o] = pc[o]
  BY DEF IInv, TypeOK, WriteFails, Go
<1>3. pc[m] \in {"write", "flush"} /\ pc'[m] = "undo"
  BY DEF IInv, TypeOK, WriteFails, Go
<1>4. Alone' /\ \A o \in Movers \ {m} : Progress(o)'
  BY <1>2, <1>3, OthersKeep DEF InHand
<1>5. \A n \in Names : dest'[n] \in {dest[n], Nothing}
  BY DEF WriteFails, IInv, TypeOK
<1>6. Shape'
  BY <1>5 DEF IInv, Shape, WriteFails
<1>7. Progress(m)'
  BY <1>2, <1>3, <1>5, CopyKeeps DEF Progress, InHand, WriteFails
<1> QED BY <1>1, <1>4, <1>6, <1>7 DEF IInv

LEMMA CopyDoneStep ==
  ASSUME IInv, NEW m \in Movers, CopyDone(m)
  PROVE  IInv'
<1>1. TypeOK'
  BY DEF IInv, TypeOK, CopyDone, Go, disk
<1>2. UNCHANGED <<exposed, misled>> /\ \A o \in Movers \ {m} : src'[o] = src[o] /\ pc'[o] = pc[o]
  BY DEF IInv, TypeOK, CopyDone, Go, disk
<1>3. pc[m] = "copy" /\ pc'[m] = "remove" /\ todo[m] = {}
  BY DEF IInv, TypeOK, CopyDone, Go, At
<1>4. Alone' /\ \A o \in Movers \ {m} : Progress(o)'
  BY <1>2, <1>3, OthersKeep DEF InHand
<1>5. Shape'
  BY DEF IInv, Shape, CopyDone, disk
<1>6. Progress(m)'
  <2>1. UNCHANGED <<src, dest, safe>>
    BY DEF CopyDone, disk
  <2>2. m \notin exposed => \A n \in Entry[m] : Stored(m, n)'
    BY <1>3, <2>1 DEF IInv, Progress, Stored
  <2> QED BY <1>2, <1>3, <2>1, <2>2, CopyKeeps DEF Progress, InHand
<1> QED BY <1>1, <1>4, <1>5, <1>6 DEF IInv

LEMMA UndoStep ==
  ASSUME IInv, NEW m \in Movers, Undo(m)
  PROVE  IInv'
<1>1. TypeOK'
  BY DEF IInv, TypeOK, Undo, Go, Results
<1>2. UNCHANGED <<exposed, misled>> /\ \A o \in Movers \ {m} : src'[o] = src[o] /\ pc'[o] = pc[o]
  BY DEF IInv, TypeOK, Undo, Go
<1>3. pc[m] = "undo" /\ pc'[m] \in {"failed", "dirty"}
  BY DEF IInv, TypeOK, Undo, Go, At
<1>4. Alone' /\ \A o \in Movers \ {m} : Progress(o)'
  BY <1>2, <1>3, OthersKeep DEF InHand
<1>5. \A n \in Names : dest'[n] = Nothing \/ (dest'[n] = dest[n] /\ made' = made)
  BY DEF Undo, IInv, TypeOK
<1>6. Shape'
  BY <1>5 DEF IInv, Shape, Undo
<1>7. Progress(m)'
  <2>1. src' = src
    BY DEF Undo
  <2> QED BY <1>2, <1>3, <1>5, <2>1, CopyKeeps DEF Progress, InHand, Results
<1> QED BY <1>1, <1>4, <1>6, <1>7 DEF IInv

LEMMA RemoveSourceStep ==
  ASSUME IInv, NEW m \in Movers, RemoveSource(m)
  PROVE  IInv'
<1>1. TypeOK'
  BY DEF IInv, TypeOK, RemoveSource, Go, Results
<1>2. UNCHANGED <<exposed, misled>> /\ \A o \in Movers \ {m} : src'[o] = src[o] /\ pc'[o] = pc[o]
  BY DEF IInv, TypeOK, RemoveSource, Go
<1>3. /\ pc[m] = "remove" /\ pc'[m] \in {"done", "left"}
      /\ src'[m] \subseteq src[m]
  BY DEF IInv, TypeOK, RemoveSource, Go, At
<1>4. Alone' /\ \A o \in Movers \ {m} : Progress(o)'
  BY <1>2, <1>3, OthersKeep DEF InHand
<1>5. Shape'
  BY DEF IInv, Shape, RemoveSource
<1>6. Progress(m)'
  <2>1. UNCHANGED <<dest, safe>> /\ src[m] \subseteq Entry[m]
    BY DEF RemoveSource, IInv, Progress
  <2>2. m \notin exposed => \A n \in Entry[m] : Stored(m, n)'
    BY <1>3, <2>1 DEF IInv, Progress, Stored
  <2>3. ~misled => exposed = {}
    BY DEF IInv, Progress, InSight
  <2> QED BY <1>2, <1>3, <2>1, <2>2, <2>3 DEF Progress, InSight, InHand
<1> QED BY <1>1, <1>4, <1>5, <1>6 DEF IInv

LEMMA CrashStep ==
  ASSUME IInv, Crash
  PROVE  IInv'
<1>1. whole' \subseteq whole /\ safe \subseteq whole'
  BY DEF Crash, IInv, Shape
<1>2. \A m \in Movers : pc'[m] \in {"done", "start"} /\ ~Running(m)'
  BY DEF Crash, Running, Results, IInv, TypeOK
<1>3. TypeOK'
  BY <1>1 DEF IInv, TypeOK, Crash, Results
<1>4. Alone'
  BY <1>2 DEF Alone
<1>5. Shape'
  BY <1>1 DEF IInv, Shape, Crash
<1>6. ASSUME NEW m \in Movers PROVE Progress(m)'
  <2>1. \A n \in Names : Stored(m, n) => Stored(m, n)'
    BY <1>1 DEF Stored, Crash
  <2>2. src'[m] = src[m] /\ UNCHANGED <<exposed, misled>> /\ Progress(m)
    BY DEF IInv, Crash
  <2>3. pc'[m] \in {"done", "start"}
    BY <1>2
  <2>4. \A n \in Entry[m] : n \in Names
    BY MoverAssumption
  <2> QED
    BY <2>1, <2>2, <2>3, <2>4 DEF Progress, InSight, InHand
<1> QED BY <1>3, <1>4, <1>5, <1>6 DEF IInv

LEMMA StutterStep ==
  ASSUME IInv, Cancel \/ UNCHANGED vars
  PROVE  IInv'
<1>1. UNCHANGED <<disk, call, exposed, misled>> /\ ended' \in BOOLEAN
  BY DEF Cancel, vars, IInv, TypeOK
<1>2. TypeOK'
  BY <1>1 DEF IInv, TypeOK, disk, call
<1>3. Alone' /\ Shape'
  BY <1>1 DEF IInv, Alone, Running, Shape, disk, call
<1>4. ASSUME NEW m \in Movers PROVE Progress(m)'
  BY <1>1 DEF IInv, Progress, InSight, Spare, Stored, Taken, disk, call
<1> QED BY <1>2, <1>3, <1>4 DEF IInv

LEMMA NextStep ==
  ASSUME IInv, Rivals = FALSE, [Next]_vars
  PROVE  IInv'
<1>1. CASE Cancel \/ UNCHANGED vars
  BY <1>1, StutterStep
<1>2. CASE Crash
  BY <1>2, CrashStep
<1>3. ASSUME NEW m \in Movers, Step(m) PROVE IInv'
  BY <1>3, BeginStep, LstatStep, RenameStep, CopyPathStep, OpenStep, CopyFailsStep,
     WriteStep, FlushStep, WriteFailsStep, CopyDoneStep, UndoStep,
     RemoveSourceStep, RetryStep DEF Step
<1> QED BY <1>1, <1>2, <1>3 DEF Next

LEMMA Invariance ==
  ASSUME Rivals = FALSE
  PROVE  Spec => []IInv
<1>1. Init => IInv
  BY InitIInv
<1>2. IInv /\ [Next]_vars => IInv'
  BY NextStep
<1> QED BY <1>1, <1>2, PTL DEF Spec

----------------------------------------------------------------------------
(* The properties.                                                          *)

\* No interruption, failure or repetition of Move, one call at a time, loses a
\* file: it is at the source or complete at the destination (mover.go, copyFile
\* and Move).  If Lstat may fail (Blind) this holds of what was never exposed to
\* such a failure, without anything left at its source.
THEOREM NothingLost ==
  ASSUME Rivals = FALSE
  PROVE  Spec => [](TypeOK /\ Kept)
<1>1. IInv => TypeOK /\ Kept
  BY DEF IInv, Progress, Kept, Stored, Arrived, Shape
<1> QED BY <1>1, Invariance, PTL

\* The source is touched only after all of it has arrived, for folders too, and
\* what has arrived stays, with the same exception.
THEOREM WholeEntries ==
  ASSUME Rivals = FALSE
  PROVE  Spec => []AllOrNothing
<1>1. IInv => AllOrNothing
  BY DEF IInv, Progress, AllOrNothing, Stored, Arrived, Shape
<1> QED BY <1>1, Invariance, PTL

----------------------------------------------------------------------------
(* The refinement.  While a call has the destination in hand the contract   *)
(* sees nothing there, so most steps change nothing it can see.             *)

image == <<src, there, complete, outcome>>

\* Outcomes change for the call that takes the step.
LEMMA OutcomeOf ==
  ASSUME IInv, NEW m \in Movers, NEW l, Go(m, l)
  PROVE  outcome' = [outcome EXCEPT ![m] = IF l \in Results THEN l ELSE "none"]
  BY DEF IInv, TypeOK, Go, outcome

\* ... and of each call.
Sighted(m) ==
  /\ InSight(m)
  /\ pc[m] \in InHand \cup {"rename"} => src[m] = Entry[m]
  /\ pc[m] = "remove" \/ src[m] # Entry[m] => \A n \in Entry[m] : Stored(m, n)

LEMMA Truthful ==
  ASSUME IInv, ~misled, NEW m \in Movers
  PROVE  Sighted(m)
<1>1. exposed = {}
  BY DEF IInv, Progress, InSight
<1>2. pc[m] \in InHand \cup {"rename"} => src[m] = Entry[m]
  BY <1>1 DEF IInv, Progress, Spare
<1>3. pc[m] = "remove" \/ src[m] # Entry[m] => \A n \in Entry[m] : Stored(m, n)
  BY <1>1 DEF IInv, Progress
<1> QED BY <1>2, <1>3 DEF Sighted, IInv, Progress

LEMMA NothingInSight ==
  ASSUME TypeOK, \A n \in Names : dest[n] = Nothing \/ Copying(dest[n])
  PROVE  there = [n \in Names |-> Nothing] /\ complete = {}
<1>1. there = [n \in Names |-> Nothing]
  BY DEF there
<1>2. \A c \in whole : c[1] \in Movers /\ c[2] \in Names
  BY DEF TypeOK
<1> QED BY <1>1, <1>2, MoverAssumption DEF complete

Hidden == there = [n \in Names |-> Nothing] /\ complete = {}

HandsHide == \A m \in Movers : pc[m] \in InHand \cup {"rename"} => Hidden

LEMMA InHandHidden == IInv /\ ~misled => HandsHide
<1> SUFFICES ASSUME IInv, ~misled, NEW m \in Movers, pc[m] \in InHand \cup {"rename"}
             PROVE  \A n \in Names : dest[n] = Nothing \/ Copying(dest[n])
  BY NothingInSight DEF IInv, Hidden, HandsHide
<1>1. CASE pc[m] = "rename"
  <2>1. ~Taken
    BY Truthful, <1>1 DEF IInv, Sighted, InSight
  <2> QED BY <2>1 DEF IInv, Shape, Taken
<1>2. CASE pc[m] \in InHand
  <2>1. \A n \in Names : dest[n] \in {m, Nothing}
    BY Truthful, <1>2 DEF IInv, Sighted, InSight
  <2> QED BY <1>2, <2>1 DEF Copying, InHand
<1> QED BY <1>1, <1>2

\* A step from hand to hand is no step of the contract.
LEMMA HandToHand ==
  ASSUME IInv, ~misled, IInv', ~misled', NEW m \in Movers, NEW l \in InHand, Go(m, l),
         pc[m] \in InHand \cup {"rename"}, src' = src
  PROVE  UNCHANGED image
<1>1. pc'[m] = l
  BY DEF IInv, TypeOK, Go
<1>2. Hidden
  BY InHandHidden DEF HandsHide
<1>3. HandsHide'
  <2>1. IInv' /\ ~misled'
    OBVIOUS
  <2> QED BY <2>1, InHandHidden, PTL
<1>4. Hidden'
  BY <1>1, <1>3 DEF HandsHide
<1>5. \A o \in Movers : (pc'[o] \in Results <=> pc[o] \in Results)
                        /\ (pc[o] \in Results => pc'[o] = pc[o])
  BY DEF IInv, TypeOK, Go, InHand, Results
<1>6. outcome' = outcome
  BY <1>5 DEF outcome
<1> QED BY <1>2, <1>4, <1>6 DEF image, Hidden

\* Between calls the contract sees what there is.
LEMMA Visible ==
  ASSUME IInv, NEW m \in Movers, Go(m, pc'[m]), UNCHANGED disk,
         pc[m] \notin InHand, pc'[m] \notin InHand
  PROVE  there' = there /\ complete' = complete
<1>1. \A o \in Movers : Copying(o)' = Copying(o)
  BY DEF Copying, InHand, IInv, TypeOK, Go
<1>2. there' = there
  BY <1>1 DEF there, disk, IInv, TypeOK
<1> QED BY <1>2 DEF complete, disk

LEMMA BeginMaps ==
  ASSUME IInv, NEW m \in Movers, Begin(m)
  PROVE  Contract!Fail(m) \/ UNCHANGED image
<1>1. pc[m] = "start" /\ pc'[m] = IF ended THEN "failed" ELSE "check"
  BY DEF Begin, At, Go, IInv, TypeOK
<1>2. there' = there /\ complete' = complete /\ src' = src
  BY <1>1, Visible DEF Begin, InHand, disk
<1>3. outcome' = [outcome EXCEPT ![m] = IF ended THEN "failed" ELSE "none"]
  BY OutcomeOf DEF Begin, Results
<1>4. CASE ended
  BY <1>2, <1>3, <1>4 DEF Contract!Fail, Contract!Returns
<1>5. CASE ~ended
  <2>1. outcome[m] = "none"
    BY <1>1 DEF outcome, Results
  <2>2. outcome' = outcome
    BY <1>3, <1>5, <2>1 DEF outcome
  <2> QED BY <1>2, <2>2 DEF image
<1> QED BY <1>4, <1>5

LEMMA LstatMaps ==
  ASSUME IInv, ~misled', NEW m \in Movers, Lstat(m)
  PROVE  Contract!Collide(m) \/ UNCHANGED image
<1>1. pc[m] = "check" /\ pc'[m] = IF Taken THEN "exists" ELSE "rename"
  BY DEF Lstat, At, Go, IInv, TypeOK
<1>2. there' = there /\ complete' = complete /\ src' = src
  BY <1>1, Visible DEF Lstat, InHand, disk
<1>3. outcome' = [outcome EXCEPT ![m] = IF Taken THEN "exists" ELSE "none"]
  BY OutcomeOf DEF Lstat, Results
<1>4. CASE Taken
  BY <1>2, <1>3, <1>4 DEF Contract!Collide, Contract!Returns
<1>5. CASE ~Taken
  <2>1. outcome[m] = "none"
    BY <1>1 DEF outcome, Results
  <2>2. outcome' = outcome
    BY <1>3, <1>5, <2>1 DEF outcome
  <2> QED BY <1>2, <2>2 DEF image
<1> QED BY <1>4, <1>5

LEMMA RetryMaps ==
  ASSUME IInv, NEW m \in Movers, Retry(m)
  PROVE  Contract!Start(m)
<1>1. pc[m] \in Results /\ pc'[m] = "start"
  BY DEF Retry, Go, IInv, TypeOK
<1>2. there' = there /\ complete' = complete /\ src' = src
  BY <1>1, Visible DEF Retry, InHand, disk, Results
<1>3. outcome' = [outcome EXCEPT ![m] = "none"]
  BY OutcomeOf DEF Retry, Results
<1> QED BY <1>2, <1>3 DEF Contract!Start, Contract!Returns

\* What the contract sees once the call has let go.
LEMMA LetGo ==
  ASSUME IInv', NEW m \in Movers, pc'[m] \in Results \cup {"start"},
         \A n \in Names : dest'[n] \in {m, Nothing}
  PROVE  /\ there' = [n \in Names |-> dest'[n]]
         /\ complete' = {<<m, n>> : n \in {k \in Names : dest'[k] = m /\ <<m, k>> \in whole'}}
<1>1. ~Copying(m)'
  BY DEF Copying, Results
<1>2. there' = [n \in Names |-> dest'[n]]
  BY <1>1 DEF there
<1>3. \A c \in whole' : c = <<c[1], c[2]>> /\ c[1] \in Movers /\ c[2] \in Names
  BY DEF IInv, TypeOK
<1>4. \A c \in complete' : c[1] = m /\ dest'[c[2]] = m /\ c[2] \in Names /\ c = <<m, c[2]>>
  BY <1>2, <1>3, MoverAssumption DEF complete
<1>5. \A n \in Names : dest'[n] = m /\ <<m, n>> \in whole' => <<m, n>> \in complete'
  BY <1>2 DEF complete
<1>6. \A c \in complete' : c \in whole'
  BY DEF complete
<1> DEFINE mine == {n \in Names : dest'[n] = m /\ <<m, n>> \in whole'}
<1>7. \A c \in complete' : c[2] \in mine /\ c = <<m, c[2]>>
  BY <1>4, <1>6
<1>8. \A n \in mine : <<m, n>> \in complete'
  BY <1>5
<1>9. complete' = {<<m, n>> : n \in mine}
  <2> HIDE DEF mine
  <2> QED BY <1>7, <1>8
<1> QED BY <1>2, <1>9

LEMMA RenameMaps ==
  ASSUME IInv, ~misled, IInv', NEW m \in Movers, Rename(m)
  PROVE  Contract!Succeed(m)
<1>1. pc[m] = "rename" /\ pc'[m] = "done"
  BY DEF Rename, At, Go, IInv, TypeOK
<1>2. Hidden
  BY <1>1, InHandHidden DEF HandsHide
<1>3. \A n \in Names : dest[n] = Nothing
  <2>1. ~Taken
    BY Truthful, <1>1 DEF IInv, Sighted, InSight
  <2> QED BY <2>1 DEF IInv, Shape, Taken
<1>4. \A n \in Names : dest'[n] = IF n \in Entry[m] THEN m ELSE Nothing
  BY <1>1, <1>3, Truthful DEF Rename, Sighted
<1>5. \A n \in Entry[m] : n \in Names /\ <<m, n>> \in whole'
  BY <1>1, Truthful, MoverAssumption DEF Rename, Sighted
<1>6. /\ there' = [n \in Names |-> dest'[n]]
      /\ complete' = {<<m, n>> : n \in {k \in Names : dest'[k] = m /\ <<m, k>> \in whole'}}
  BY <1>1, <1>4, LetGo DEF Results
<1>7. there' = [n \in Names |-> IF n \in Entry[m] THEN m ELSE Nothing]
  BY <1>4, <1>6
<1>8. {k \in Names : dest'[k] = m /\ <<m, k>> \in whole'} = Entry[m]
  BY <1>4, <1>5, MoverAssumption
<1>9. complete' = Contract!All(m)
  BY <1>6, <1>8 DEF Contract!All
<1>10. outcome' = [outcome EXCEPT ![m] = "done"]
  BY OutcomeOf DEF Rename, Results
<1>11. src' = [src EXCEPT ![m] = {}]
  BY DEF Rename
<1> QED BY <1>2, <1>7, <1>9, <1>10, <1>11
    DEF Contract!Succeed, Contract!Arrive, Contract!Free, Contract!Returns, Hidden

LEMMA RemoveSourceMaps ==
  ASSUME IInv, ~misled, IInv', NEW m \in Movers, RemoveSource(m)
  PROVE  Contract!Succeed(m) \/ Contract!SourceStays(m)
<1>1. pc[m] = "remove" /\ pc'[m] \in {"done", "left"}
  BY DEF RemoveSource, At, Go, IInv, TypeOK
<1>2. Hidden
  BY <1>1, InHandHidden DEF HandsHide, InHand
<1>3. \A n \in Names : dest[n] \in {m, Nothing} /\ (dest[n] # Nothing => n \in Entry[dest[n]])
  BY Truthful, <1>1 DEF IInv, Sighted, InSight, InHand, Shape
<1>4. \A n \in Entry[m] : dest[n] = m /\ <<m, n>> \in whole /\ n \in Names
  <2>1. \A n \in Entry[m] : Stored(m, n)
    BY Truthful, <1>1 DEF IInv, Sighted, InSight
  <2> QED BY <2>1, MoverAssumption DEF IInv, Stored, Shape
<1>5. dest' = dest /\ whole' = whole
  BY DEF RemoveSource
<1>6. \A n \in Names : dest'[n] = IF n \in Entry[m] THEN m ELSE Nothing
  BY <1>3, <1>4, <1>5, MoverAssumption
<1>7. /\ there' = [n \in Names |-> dest'[n]]
      /\ complete' = {<<m, n>> : n \in {k \in Names : dest'[k] = m /\ <<m, k>> \in whole'}}
  BY <1>1, <1>6, LetGo DEF Results
<1>8. there' = [n \in Names |-> IF n \in Entry[m] THEN m ELSE Nothing]
  BY <1>6, <1>7
<1>9. {k \in Names : dest'[k] = m /\ <<m, k>> \in whole'} = Entry[m]
  BY <1>4, <1>5, <1>6, MoverAssumption
<1>10. complete' = Contract!All(m)
  BY <1>7, <1>9 DEF Contract!All
<1>11. Contract!Arrive(m)
  BY <1>2, <1>8, <1>10 DEF Contract!Arrive, Contract!Free, Hidden
<1>12. CASE src' = [src EXCEPT ![m] = {}] /\ Go(m, "done")
  <2>1. outcome' = [outcome EXCEPT ![m] = "done"]
    BY <1>12, OutcomeOf DEF Results
  <2> QED BY <1>11, <1>12, <2>1 DEF Contract!Succeed, Contract!Returns
<1>13. CASE (\E kept \in SUBSET src[m] : src' = [src EXCEPT ![m] = kept]) /\ Go(m, "left")
  <2>1. outcome' = [outcome EXCEPT ![m] = "left"]
    BY <1>13, OutcomeOf DEF Results
  <2> QED BY <1>11, <1>13, <2>1 DEF Contract!SourceStays, Contract!Returns
<1> QED BY <1>12, <1>13 DEF RemoveSource

LEMMA UndoMaps ==
  ASSUME IInv, ~misled, IInv', NEW m \in Movers, Undo(m)
  PROVE  Contract!Fail(m) \/ Contract!Dirty(m)
<1>1. pc[m] = "undo" /\ pc'[m] \in {"failed", "dirty"} /\ src' = src
  BY DEF Undo, At, Go, IInv, TypeOK
<1>2. Hidden /\ src[m] = Entry[m]
  BY Truthful, <1>1, InHandHidden DEF HandsHide, InHand, IInv, Sighted, InSight
<1>3. \A n \in Names : dest[n] \in {m, Nothing} /\ (dest[n] # Nothing => n \in Entry[dest[n]])
  BY Truthful, <1>1 DEF IInv, Sighted, InSight, InHand, Shape
<1>4. \A n \in Names : dest'[n] \in {dest[n], Nothing}
  BY DEF Undo
<1>5. /\ there' = [n \in Names |-> dest'[n]]
      /\ complete' = {<<m, n>> : n \in {k \in Names : dest'[k] = m /\ <<m, k>> \in whole'}}
  BY <1>1, <1>3, <1>4, LetGo DEF Results
<1>6. CASE dest' = [n \in Names |-> Nothing] /\ Go(m, "failed")
  <2>1. outcome' = [outcome EXCEPT ![m] = "failed"]
    BY <1>6, OutcomeOf DEF Results
  <2>2. there' = there /\ complete' = complete
    BY <1>2, <1>5, <1>6, MoverAssumption DEF Hidden
  <2> QED BY <1>1, <2>1, <2>2 DEF Contract!Fail, Contract!Returns
<1>7. CASE Go(m, "dirty")
  <2> DEFINE part == {n \in Names : dest'[n] = m}
             good == {n \in part : <<m, n>> \in whole'}
  <2>1. outcome' = [outcome EXCEPT ![m] = "dirty"]
    BY <1>7, OutcomeOf DEF Results
  <2>2. part \in SUBSET Entry[m] /\ good \in SUBSET part
    BY <1>3, <1>4, MoverAssumption
  <2>3. there' = [n \in Names |-> IF n \in part THEN m ELSE Nothing]
    BY <1>3, <1>4, <1>5
  <2>4. complete' = {<<m, n>> : n \in good}
    BY <1>5
  <2>5. Contract!Remains(m)
    BY <1>1, <1>2, <2>2, <2>3, <2>4 DEF Contract!Remains, Contract!Free, Hidden
  <2> QED BY <2>1, <2>5 DEF Contract!Dirty, Contract!Returns
<1> QED BY <1>6, <1>7 DEF Undo

LEMMA CrashMaps ==
  ASSUME IInv, ~misled, IInv', Crash
  PROVE  Contract!Crash
<1>1. \A m \in Movers : pc'[m] = IF pc[m] = "done" THEN "done" ELSE "start"
  BY DEF Crash, At
<1>2. outcome' = [m \in Movers |-> IF outcome[m] = "done" THEN "done" ELSE "none"]
  BY <1>1 DEF outcome, Results
<1>3. UNCHANGED <<src, dest, safe>> /\ whole' \subseteq whole
  BY DEF Crash
<1>4. safe \subseteq whole'
  BY <1>3 DEF IInv, Shape
<1>5. ASSUME NEW m \in Movers, pc[m] \in InHand
      PROVE  Contract!Remains(m)
  <2> DEFINE part == {n \in Names : dest'[n] = m}
             good == {n \in part : <<m, n>> \in whole'}
  <2>1. Hidden /\ src[m] = Entry[m]
    BY Truthful, <1>5, InHandHidden DEF HandsHide, IInv, Sighted, InSight
  <2>2. \A n \in Names : dest'[n] \in {m, Nothing} /\ (dest'[n] # Nothing => n \in Entry[dest'[n]])
    BY Truthful, <1>3, <1>5 DEF IInv, Sighted, InSight, Shape
  <2>3. pc'[m] = "start"
    BY <1>1, <1>5 DEF InHand
  <2>4. /\ there' = [n \in Names |-> dest'[n]]
        /\ complete' = {<<m, n>> : n \in {k \in Names : dest'[k] = m /\ <<m, k>> \in whole'}}
    BY <2>2, <2>3, LetGo
  <2>5. part \in SUBSET Entry[m] /\ good \in SUBSET part
    BY <2>2, MoverAssumption
  <2>6. there' = [n \in Names |-> IF n \in part THEN m ELSE Nothing]
    BY <2>2, <2>4
  <2>7. complete' = {<<m, n>> : n \in good}
    BY <2>4
  <2> QED BY <1>3, <2>1, <2>5, <2>6, <2>7 DEF Contract!Remains, Contract!Free, Hidden
<1>6. ASSUME \A m \in Movers : pc[m] \notin InHand
      PROVE  Contract!Truncated
  <2>1. \A m \in Movers : ~Copying(m) /\ ~Copying(m)'
    BY <1>1, <1>6 DEF Copying, InHand
  <2>2. there' = [n \in Names |-> dest'[n]] /\ there = [n \in Names |-> dest[n]]
    BY <2>1 DEF there, IInv, TypeOK
  <2>3. there' = there
    BY <1>3, <2>2
  <2>4. complete' \subseteq complete
    BY <1>3, <2>3 DEF complete
  <2>5. ASSUME NEW m \in Movers, src[m] # Entry[m], NEW n \in Entry[m], <<m, n>> \in complete
        PROVE  <<m, n>> \in complete'
    <3>1. <<m, n>> \in whole'
      BY Truthful, <1>4, <2>5 DEF IInv, Sighted, InSight, Stored
    <3>2. there[n] = m
      BY <2>5 DEF complete
    <3> QED BY <2>3, <3>1, <3>2 DEF complete
  <2> QED BY <1>3, <2>3, <2>4, <2>5 DEF Contract!Truncated, Contract!All
<1> QED BY <1>2, <1>5, <1>6 DEF Contract!Crash

LEMMA StepMaps ==
  ASSUME IInv, ~misled, IInv', ~misled', [Next]_vars
  PROVE  Contract!Next \/ UNCHANGED image
<1>1. CASE Cancel \/ UNCHANGED vars
  <2>1. UNCHANGED <<disk, call>>
    BY <1>1 DEF Cancel, vars
  <2> QED BY <2>1 DEF image, there, complete, outcome, Copying, disk, call
<1>2. CASE Crash
  BY <1>2, CrashMaps DEF Contract!Next
<1>3. ASSUME NEW m \in Movers, Step(m) PROVE Contract!Call(m) \/ UNCHANGED image
  <2>1. CASE Begin(m)
    BY <2>1, BeginMaps DEF Contract!Call
  <2>2. CASE Lstat(m)
    BY <2>2, LstatMaps DEF Contract!Call
  <2>3. CASE Rename(m)
    BY <2>3, RenameMaps DEF Contract!Call
  <2>4. CASE CopyPath(m)
    BY <2>4, HandToHand DEF CopyPath, At, InHand
  <2>5. ASSUME NEW n \in Names, Open(m, n) PROVE UNCHANGED image
    BY <2>5, HandToHand DEF Open, At, InHand
  <2>6. CASE CopyFails(m)
    BY <2>6, HandToHand DEF CopyFails, At, InHand, disk
  <2>7. CASE Write(m)
    BY <2>7, HandToHand DEF Write, At, InHand
  <2>8. CASE Flush(m)
    BY <2>8, HandToHand DEF Flush, At, InHand
  <2>9. CASE WriteFails(m)
    BY <2>9, HandToHand DEF WriteFails, At, InHand
  <2>10. CASE CopyDone(m)
    BY <2>10, HandToHand DEF CopyDone, At, InHand, disk
  <2>11. CASE Undo(m)
    BY <2>11, UndoMaps DEF Contract!Call
  <2>12. CASE RemoveSource(m)
    BY <2>12, RemoveSourceMaps DEF Contract!Call
  <2>13. CASE Retry(m)
    BY <2>13, RetryMaps DEF Contract!Call
  <2> QED BY <1>3, <2>1, <2>2, <2>3, <2>4, <2>5, <2>6, <2>7, <2>8, <2>9, <2>10,
             <2>11, <2>12, <2>13 DEF Step
<1> QED BY <1>1, <1>2, <1>3 DEF Next, Contract!Next

\* What Lstat has once failed to tell stays so.
LEMMA Remembered ==
  ASSUME IInv, ~misled', [Next]_vars
  PROVE  ~misled
<1>1. CASE UNCHANGED misled
  BY <1>1
<1>2. CASE \E m \in Movers : Lstat(m)
  BY <1>2 DEF Lstat, IInv, TypeOK
<1> QED BY <1>1, <1>2 DEF Next, vars, Step, Cancel, Crash, Begin, Rename, CopyPath, Open,
           CopyFails, Write, Flush, WriteFails, CopyDone, Undo, RemoveSource, Retry

LEMMA InitMaps == Init => Contract!Init
<1> SUFFICES ASSUME Init PROVE Contract!Init
  OBVIOUS
<1>1. there = [n \in Names |-> Nothing]
  BY DEF Init, there
<1>2. complete = {} /\ src = Entry
  BY DEF Init, complete
<1>3. outcome = [m \in Movers |-> "none"]
  BY DEF Init, outcome, Results
<1> QED BY <1>1, <1>2, <1>3 DEF Contract!Init

\* Move keeps its contract with the engine, whichever call fails and wherever
\* context and process end, until an Lstat fails where something is: an error has
\* changed nothing but where it says so, and nothing at the destination is replaced
\* or removed (mover.go, Move).  Of what comes after such an Lstat, NothingLost says
\* what is true, and NothingOverwritten what is not.
THEOREM MoveKeepsContract ==
  ASSUME Rivals = FALSE
  PROVE  Spec => ImplementsTransfer
<1>1. Init => Contract!Init
  BY InitMaps
<1>2. IInv /\ IInv' /\ [Next]_vars => [Contract!Next \/ misled']_image
  BY StepMaps, Remembered
<1>3. image = Contract!vars
  BY DEF image, Contract!vars
<1>4. IInv /\ IInv' /\ [Next]_vars => [Contract!Next \/ misled']_(Contract!vars)
  BY <1>2, <1>3 DEF image, Contract!vars
<1> QED BY <1>1, <1>4, Invariance, PTL DEF Spec, ImplementsTransfer

----------------------------------------------------------------------------
(* EmptyDirs: a file is in a folder that exists, and so are those above it. *)

DirsIInv ==
  /\ holds \subseteq tree /\ tree \subseteq Dirs
  /\ \A d \in tree : Above[d] \subseteq tree
  /\ stage = "idle" => tree = {}

\* What is looked at once more when it is removed has become nobody's folder.
LEMMA RemoveLeaves ==
  ASSUME DirsIInv, Remove
  PROVE  DirsIInv' /\ \A d \in holds : d \in holds' /\ {d} \cup Above[d] \subseteq tree'
<1>1. UNCHANGED <<holds, stage>>
  BY DEF Remove
<1>2. CASE Empty(listed)
  <2>1. tree' = tree \ {listed}
    BY <1>2 DEF Remove
  <2>2. listed \notin holds /\ \A c \in tree : listed \notin Above[c]
    BY <1>2 DEF Empty
  <2> QED
    BY <1>1, <2>1, <2>2 DEF DirsIInv
<1>3. CASE ~Empty(listed)
  BY <1>1, <1>3 DEF Remove, DirsIInv
<1> QED
  BY <1>2, <1>3

\* No folder with a file in it, or below it, is removed, whenever the file came.
THEOREM DownloadsStay == DirsSpec => FilesStay
<1> DEFINE A == \A d \in holds : d \in holds' /\ {d} \cup Above[d] \subseteq tree'
<1>1. DirsInit => DirsIInv
  BY DEF DirsInit, DirsIInv
<1>2. ASSUME DirsIInv, [Sweep \/ Download]_dirVars PROVE DirsIInv' /\ [A]_dirVars
  <2>1. CASE UNCHANGED dirVars
    BY <1>2, <2>1 DEF dirVars, DirsIInv
  <2>2. CASE Call
    BY <1>2, <2>2 DEF Call, DirsIInv
  <2>3. ASSUME UNCHANGED <<tree, holds>>, stage' # "idle" PROVE DirsIInv' /\ A
    BY <1>2, <2>3 DEF DirsIInv
  <2>4. CASE Walk \/ Finish
    BY <2>3, <2>4 DEF Walk, Finish
  <2>5. CASE \E d \in Dirs : Look(d)
    BY <2>3, <2>5 DEF Look
  <2>6. CASE Remove
    BY <1>2, <2>6, RemoveLeaves
  <2>7. ASSUME NEW d \in Dirs, AddFile(d) PROVE DirsIInv' /\ A
    BY <1>2, <2>7 DEF AddFile, DirsIInv
  <2>8. ASSUME NEW d \in Dirs, AddDir(d) PROVE DirsIInv' /\ A
    <3>1. stage # "idle"
      BY <1>2, <2>8, DirsAssumption DEF AddDir, DirsIInv
    <3> QED
      BY <1>2, <2>8, <3>1 DEF AddDir, DirsIInv
  <2> QED
    BY <1>2, <2>1, <2>2, <2>4, <2>5, <2>6, <2>7, <2>8 DEF Sweep, Download
<1> QED
  BY <1>1, <1>2, PTL DEF DirsSpec, FilesStay
=============================================================================
