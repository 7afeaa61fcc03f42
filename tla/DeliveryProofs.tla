--------------------------- MODULE DeliveryProofs ---------------------------
(***************************************************************************)
(* Proofs that Delivery keeps its types, never loses the message nor takes *)
(* a copy away before there is another, stops at the first error, leaks no *)
(* directory handle, knows where the message is and has commands read it   *)
(* as it has become: for every set of maildirs, every assignment of        *)
(* maildirs to file systems, every set of match lists and any number of    *)
(* failing system calls and of renames by a mail reader.                   *)
(***************************************************************************)
EXTENDS Delivery, FiniteSetTheorems, TLAPS

\* A match list is a non-empty sequence of actions no longer than the bound.
LEMMA PlanType ==
    ASSUME NEW p \in Plans
    PROVE  /\ p \in Seq(Actions)
           /\ Len(p) \in 1 .. MaxPlan
           /\ \A i \in 1 .. Len(p) : p[i].act \in Verbs /\ p[i].dir \in Dirs
           /\ \A i \in 1 .. Len(p) :
                 p[i].act \in {"discard", "reject"} => i = Len(p)
<1>1. p \in Seq(Actions) /\ Len(p) <= MaxPlan /\ WellFormed(p)
  BY PlansAssumption
<1>2. Len(p) \in 1 .. MaxPlan
  BY <1>1, BoundsAssumption DEF WellFormed
<1>3. \A i \in 1 .. Len(p) : p[i] \in Actions
  BY <1>1
<1>4. \A i \in 1 .. Len(p) : p[i].act \in Verbs /\ p[i].dir \in Dirs
  BY <1>3 DEF Actions
<1>5. QED
  BY <1>1, <1>2, <1>4 DEF WellFormed

\* The directories the system calls of an action are relative to are
\* directories; the current action is one of the list.
LEMMA DirTypes ==
    ASSUME TypeOK
    PROVE  /\ Len(plan) \in 1 .. MaxPlan
           /\ SourceDir \in Dirs
           /\ step <= Len(plan) => /\ step \in Files
                                   /\ step \in 1 .. Len(plan)
                                   /\ Act.act \in Verbs
                                   /\ Act.dir \in Dirs
                                   /\ Target \in Dirs
<1>1. plan \in Plans /\ src \in 0 .. Len(plan) /\ step \in 1 .. Len(plan) + 1
  BY DEF TypeOK
<1>2. /\ Len(plan) \in 1 .. MaxPlan
      /\ \A i \in 1 .. Len(plan) : plan[i].act \in Verbs /\ plan[i].dir \in Dirs
  BY <1>1, PlanType
<1>3. SourceDir \in Dirs
  BY <1>1, <1>2, SrcDirAssumption DEF SourceDir, HandleDir
<1>4. ASSUME step <= Len(plan)
      PROVE  /\ step \in Files /\ step \in 1 .. Len(plan)
             /\ Act.act \in Verbs /\ Act.dir \in Dirs /\ Target \in Dirs
  <2>1. step \in 1 .. Len(plan) /\ step \in Files
    BY <1>1, <1>2, <1>4, BoundsAssumption DEF Files
  <2>2. Act.act \in Verbs /\ Act.dir \in Dirs
    BY <2>1, <1>2 DEF Act
  <2>3. QED
    BY <2>1, <2>2, <1>3 DEF Target
<1>5. QED
  BY <1>2, <1>3, <1>4

\* The beginning of action i is a program counter; only past the end of the
\* list is it "close", and it is "discard" only for a discard action.
LEMMA BeginType ==
    ASSUME NEW p \in Plans, NEW i \in 1 .. Len(p) + 1
    PROVE  /\ Begin(p, i) \in {"open", "create", "discard", "exec", "reject",
                               "close"}
           /\ Begin(p, i) # "close" <=> i <= Len(p)
           /\ Begin(p, i) = "discard" => p[i].act = "discard"
<1>1. Len(p) \in Nat /\ (i <= Len(p) => p[i].act \in Verbs)
  BY PlanType
<1>2. CASE i > Len(p)
  BY <1>1, <1>2 DEF Begin
<1>3. CASE i <= Len(p)
  BY <1>1, <1>3 DEF Begin, FirstCall, Verbs
<1>4. QED
  BY <1>1, <1>2, <1>3

\* A list begins, system calls may have failed before: in stdin mode some have.
AtStart == Ready /\ faults \in 0 .. MaxFaults /\ renames = 0

LEMMA InitStart == Init => AtStart
<1>1. 0 \in 0 .. MaxFaults
  BY BoundsAssumption
<1>2. QED
  BY <1>1 DEF Init, AtStart

\* The parts of TypeOK about the constants of a run.
LEMMA InitType == AtStart => TypeOK /\ Control
<1> SUFFICES ASSUME AtStart PROVE TypeOK /\ Control
  OBVIOUS
<1>1. plan \in Plans /\ step = 1 /\ pc = Begin(plan, 1)
  BY DEF AtStart, Ready
<1>2. Len(plan) \in 1 .. MaxPlan
  BY <1>1, PlanType
<1>3. pc \in PCs /\ Control
  BY <1>1, <1>2, BeginType DEF PCs, Control, Act
<1>4. PICK n \in Names, stdin \in Modes :
         /\ entry = [d \in Dirs |-> [m \in Names |->
                       IF d = SrcDir /\ m = n THEN 0 ELSE NoFile]]
         /\ msg = [dir |-> SrcDir, name |-> n, seen |-> n.seen, fd |-> 0,
                    stdin |-> stdin]
         /\ dname = n
  BY DEF AtStart, Ready
<1>5. 0 \in Files
  BY BoundsAssumption DEF Files
<1>6. entry \in [Dirs -> [Names -> Files \cup {NoFile}]]
  BY <1>4, <1>5
<1>7. msg \in [dir : Dirs, name : Names, seen : BOOLEAN, fd : Files,
           stdin : BOOLEAN]
  BY <1>4, <1>5, SrcDirAssumption, BoundsAssumption DEF Names
<1>8. text \in [Files -> Text] /\ durable \subseteq Files
  BY <1>5 DEF AtStart, Ready, Text
<1>9. /\ src = 0 /\ opened = {0} /\ doutime = FALSE /\ error = FALSE
      /\ rv = "success" /\ faults \in 0 .. MaxFaults /\ renames = 0
  BY DEF AtStart, Ready
<1>10. /\ step \in 1 .. Len(plan) + 1 /\ src \in 0 .. Len(plan)
       /\ opened \subseteq 0 .. Len(plan) /\ dname \in Names
       /\ faults \in 0 .. MaxFaults /\ renames \in 0 .. MaxRenames
  BY <1>1, <1>2, <1>4, <1>9, BoundsAssumption
<1>11. QED
  BY <1>1, <1>3, <1>6, <1>7, <1>8, <1>9, <1>10 DEF TypeOK

-----------------------------------------------------------------------------
\* The layouts of the file system.
Layout == [Dirs -> [Names -> Files \cup {NoFile}]]

\* The three system calls that change directories: what they leave in every
\* place, and that they leave a layout.
LEMMA LinkEffect ==
    ASSUME entry \in Layout, NEW d \in Dirs, NEW n \in Names, NEW f \in Files
    PROVE  /\ Link(d, n, f) \in Layout
           /\ \A x \in Dirs, y \in Names :
                 Link(d, n, f)[x][y] = IF x = d /\ y = n THEN f ELSE entry[x][y]
  BY DEF Layout, Link

LEMMA UnlinkEffect ==
    ASSUME entry \in Layout, NEW d \in Dirs, NEW n \in Names
    PROVE  /\ Unlink(d, n) \in Layout
           /\ \A x \in Dirs, y \in Names :
                 Unlink(d, n)[x][y] =
                     IF x = d /\ y = n THEN NoFile ELSE entry[x][y]
  BY DEF Layout, Unlink

LEMMA RenameEffect ==
    ASSUME entry \in Layout, NEW d \in Dirs, NEW n \in Names,
           NEW dd \in Dirs, NEW nn \in Names
    PROVE  /\ Rename(d, n, dd, nn) \in Layout
           /\ \A x \in Dirs, y \in Names :
                 Rename(d, n, dd, nn)[x][y] =
                     IF x = dd /\ y = nn THEN entry[d][n]
                     ELSE IF x = d /\ y = n THEN NoFile
                     ELSE entry[x][y]
<1> DEFINE e == [entry EXCEPT ![d][n] = NoFile]
<1>1. /\ e \in Layout
      /\ \A x \in Dirs, y \in Names :
            e[x][y] = IF x = d /\ y = n THEN NoFile ELSE entry[x][y]
  BY DEF Layout
<1>2. entry[d][n] \in Files \cup {NoFile}
  BY DEF Layout
<1>3. Rename(d, n, dd, nn) = [e EXCEPT ![dd][nn] = entry[d][n]]
  BY DEF Rename
<1> HIDE DEF e
<1>4. QED
  BY <1>1, <1>2, <1>3 DEF Layout

\* Going on to the next action keeps step, pc and their relation.
LEMMA AdvanceType ==
    ASSUME TypeOK, step <= Len(plan), plan' = plan, Advance
    PROVE  /\ step' \in 1 .. Len(plan) + 1
           /\ pc' \in PCs
           /\ pc' \in Untouched \cup {"close"}
           /\ Control'
<1>1. plan \in Plans /\ step \in 1 .. Len(plan) + 1 /\ Len(plan) \in 1 .. MaxPlan
  BY DirTypes DEF TypeOK
<1>2. step + 1 \in 1 .. Len(plan) + 1
  BY <1>1
<1>3. /\ pc' \in {"open", "create", "discard", "exec", "reject", "close"}
      /\ pc' # "close" => step' <= Len(plan)
      /\ pc' = "discard" => plan[step'].act = "discard"
  BY <1>1, <1>2, BeginType DEF Advance
<1>4. QED
  BY <1>2, <1>3 DEF Advance, Control, Act, PCs, Untouched

\* The bounds on failing calls and renames are kept.
LEMMA BoundsStep ==
    ASSUME TypeOK, [Next]_vars
    PROVE  faults' \in 0 .. MaxFaults /\ renames' \in 0 .. MaxRenames
<1>1. \/ faults' = faults
      \/ faults < MaxFaults /\ faults' = faults + 1
  BY DEF Next, Mdsort, MarkSeen, Terminated, OpenDst, RefuseTemporary,
         StatSource, CreateFile, RenameSource, WriteText, SyncText,
         UnlinkSource, UndoCreate, RestoreTime, SetMoved, Reopen, Discard,
         Exec, Reject, Close, Fault, NoFault, vars
<1>2. \/ renames' = renames
      \/ renames < MaxRenames /\ renames' = renames + 1
  BY DEF Next, Mdsort, MarkSeen, Terminated, OpenDst, RefuseTemporary,
         StatSource, CreateFile, RenameSource, WriteText, SyncText,
         UnlinkSource, UndoCreate, RestoreTime, SetMoved, Reopen, Discard,
         Exec, Reject, Close, vars
<1>3. faults \in 0 .. MaxFaults /\ renames \in 0 .. MaxRenames
  BY DEF TypeOK
<1>4. QED
  BY <1>1, <1>2, <1>3, BoundsAssumption

\* Every step keeps the types and the relation of step and pc.
LEMMA TypeStep == TypeOK /\ Control /\ [Next]_vars => TypeOK' /\ Control'
<1> SUFFICES ASSUME TypeOK, Control, [Next]_vars
             PROVE  TypeOK' /\ Control'
  OBVIOUS
<1> USE DEF fsVars, ctlVars, Fail
<1>a. /\ Len(plan) \in 1 .. MaxPlan
      /\ SourceDir \in Dirs
      /\ step <= Len(plan) => /\ step \in Files
                              /\ step \in 1 .. Len(plan)
                              /\ Target \in Dirs
      /\ faults' \in 0 .. MaxFaults /\ renames' \in 0 .. MaxRenames
  BY DirTypes, BoundsStep
<1>1. CASE OpenDst
  <2>1. opened' \subseteq 0 .. Len(plan)
    <3>1. step \in 1 .. Len(plan) /\ opened \subseteq 0 .. Len(plan)
      BY <1>1, <1>a DEF OpenDst, TypeOK, Control
    <3>2. opened' \subseteq opened \cup {step}
      BY <1>1 DEF OpenDst
    <3>3. step \in 0 .. Len(plan)
      BY <3>1, <1>a
    <3>4. QED
      BY <3>1, <3>2, <3>3
  <2>2. pc' \in PCs /\ Control'
    BY <1>1, <1>a DEF OpenDst, TypeOK, Control, PCs, Act
  <2>3. QED
    BY <1>1, <1>a, <2>1, <2>2 DEF OpenDst, TypeOK
<1>2. CASE RefuseTemporary
  BY <1>2, <1>a DEF RefuseTemporary, TypeOK, Control, PCs, Act
<1>3. CASE StatSource
  BY <1>3, <1>a DEF StatSource, TypeOK, Control, PCs, Act, SourceExists
<1>4. CASE CreateFile
  <2>1. entry' \in Layout /\ dname' \in Names
    <3>1. entry \in Layout /\ step <= Len(plan)
      BY <1>4 DEF CreateFile, TypeOK, Layout, Control
    <3>2. CASE entry' = entry /\ dname' = dname
      BY <3>1, <3>2 DEF TypeOK
    <3>3. ASSUME NEW i \in Ids, NEW b \in BOOLEAN,
                 entry' = Link(Target, [id |-> i, seen |-> b], step),
                 dname' = [id |-> i, seen |-> b]
          PROVE  entry' \in Layout /\ dname' \in Names
      BY <1>a, <3>1, <3>3, LinkEffect DEF Names
    <3>4. MsgFlags(SourceDir, Target, msg.seen) \in BOOLEAN
      BY DEF MsgFlags, TypeOK
    <3>5. QED
      BY <1>4, <3>2, <3>3, <3>4 DEF CreateFile
  <2>2. text' \in [Files -> Text]
    BY <1>4, <1>a DEF CreateFile, TypeOK, Text
  <2>3. QED
    BY <1>4, <1>a, <2>1, <2>2
    DEF CreateFile, TypeOK, Layout, Control, PCs, Act
<1>5. CASE RenameSource
  <2>1. step <= Len(plan) /\ entry \in Layout /\ dname \in Names
    BY <1>5 DEF RenameSource, TypeOK, Layout, Control
  <2>2. entry' \in Layout
    BY <1>5, <1>a, <2>1, RenameEffect DEF RenameSource, TypeOK
  <2>3. QED
    BY <1>5, <1>a, <2>1, <2>2
    DEF RenameSource, TypeOK, Layout, Control, PCs, Act
<1>6. CASE WriteText
  <2>1. Written(plan) \in Text
    BY DEF Written, Text
  <2>2. text' \in [Files -> Text]
    BY <1>6, <2>1 DEF WriteText, TypeOK, Text
  <2>3. QED
    BY <1>6, <1>a, <2>2 DEF WriteText, TypeOK, Control, PCs, Act
<1>7. CASE SyncText
  <2>1. durable' \subseteq Files
    BY <1>7, <1>a DEF SyncText, TypeOK, Control
  <2>2. QED
    BY <1>7, <1>a, <2>1 DEF SyncText, TypeOK, Control, PCs, Act
<1>8. CASE UnlinkSource
  <2>1. entry' \in Layout
    BY <1>8, <1>a, UnlinkEffect DEF UnlinkSource, TypeOK, Layout
  <2>2. QED
    BY <1>8, <1>a, <2>1 DEF UnlinkSource, TypeOK, Layout, Control, PCs, Act
<1>9. CASE UndoCreate
  <2>1. entry' \in Layout
    BY <1>9, <1>a, UnlinkEffect DEF UndoCreate, TypeOK, Layout, Control
  <2>2. QED
    BY <1>9, <1>a, <2>1 DEF UndoCreate, TypeOK, Layout, Control, PCs, Act
<1>10. CASE RestoreTime
  BY <1>10, <1>a DEF RestoreTime, TypeOK, Control, PCs, Act
<1>11. CASE SetMoved
  <2>1. step <= Len(plan) /\ plan' = plan
    BY <1>11 DEF SetMoved, Control
  <2>2. /\ step' \in 1 .. Len(plan) + 1 /\ pc' \in PCs /\ Control'
    <3>1. CASE Advance
      BY <2>1, <3>1, AdvanceType
    <3>2. CASE pc' = "close" /\ step' = step
      BY <2>1, <3>2 DEF TypeOK, PCs, Control
    <3>3. QED
      BY <1>11, <3>1, <3>2 DEF SetMoved
  <2>3. msg' \in [dir : Dirs, name : Names, seen : BOOLEAN, fd : Files,
           stdin : BOOLEAN]
    BY <1>11, <1>a, <2>1 DEF SetMoved, TypeOK
  <2>4. src' \in 0 .. Len(plan) /\ opened' \subseteq 0 .. Len(plan)
    BY <1>11, <1>a, <2>1 DEF SetMoved, TypeOK
  <2>5. QED
    BY <1>11, <1>a, <2>2, <2>3, <2>4 DEF SetMoved, TypeOK
<1>12. CASE Reopen
  <2>1. step <= Len(plan) /\ plan' = plan
    BY <1>12 DEF Reopen, Control
  <2>2. /\ step' \in 1 .. Len(plan) + 1 /\ pc' \in PCs /\ Control'
    <3>1. CASE Advance
      BY <2>1, <3>1, AdvanceType
    <3>2. CASE pc' = "close" /\ step' = step
      BY <2>1, <3>2 DEF TypeOK, PCs, Control
    <3>3. QED
      BY <1>12, <3>1, <3>2 DEF Reopen
  <2>3. msg' \in [dir : Dirs, name : Names, seen : BOOLEAN, fd : Files,
           stdin : BOOLEAN]
    <3>1. entry[SourceDir][dname] \in Files \cup {NoFile}
      BY <1>a DEF TypeOK
    <3>2. QED
      BY <1>12, <1>a, <3>1 DEF Reopen, TypeOK
  <2>4. QED
    BY <1>12, <1>a, <2>2, <2>3 DEF Reopen, TypeOK
<1>13. CASE Discard
  <2>1. step <= Len(plan) /\ plan' = plan
    BY <1>13 DEF Discard, Control
  <2>2. /\ step' \in 1 .. Len(plan) + 1 /\ pc' \in PCs /\ Control'
    <3>1. CASE Advance
      BY <2>1, <3>1, AdvanceType
    <3>2. CASE pc' = "close" /\ step' = step
      BY <2>1, <3>2 DEF TypeOK, PCs, Control
    <3>3. QED
      BY <1>13, <3>1, <3>2 DEF Discard
  <2>3. entry' \in Layout
    BY <1>13, <1>a, UnlinkEffect DEF Discard, TypeOK, Layout
  <2>4. QED
    BY <1>13, <1>a, <2>2, <2>3 DEF Discard, TypeOK, Layout
<1>14. CASE Exec
  <2>1. step <= Len(plan) /\ plan' = plan
    BY <1>14 DEF Exec, Control
  <2>2. /\ step' \in 1 .. Len(plan) + 1 /\ pc' \in PCs /\ Control'
    <3>1. CASE Advance
      BY <2>1, <3>1, AdvanceType
    <3>2. CASE pc' = "close" /\ step' = step
      BY <2>1, <3>2 DEF TypeOK, PCs, Control
    <3>3. QED
      BY <1>14, <3>1, <3>2 DEF Exec
  <2>3. QED
    BY <1>14, <1>a, <2>2 DEF Exec, TypeOK
<1>15. CASE Reject
  <2>1. step <= Len(plan) /\ plan' = plan /\ Advance
    BY <1>15 DEF Reject, Control
  <2>2. QED
    BY <1>15, <1>a, <2>1, AdvanceType DEF Reject, TypeOK
<1>16. CASE Close
  BY <1>16, <1>a DEF Close, TypeOK, Control, PCs
<1>17. CASE MarkSeen
  <2>1. entry' \in Layout
    <3>1. PICK d \in Dirs, n \in Names :
             entry' = Rename(d, n, [d EXCEPT !.sub = "cur"],
                                   [n EXCEPT !.seen = TRUE])
      BY <1>17 DEF MarkSeen
    <3>2. [d EXCEPT !.sub = "cur"] \in Dirs /\ [n EXCEPT !.seen = TRUE] \in Names
      BY DEF Dirs, Names, Subdirs
    <3>3. QED
      BY <3>1, <3>2, RenameEffect DEF TypeOK, Layout
  <2>2. QED
    BY <1>17, <1>a, <2>1 DEF MarkSeen, TypeOK, Layout, Control, Act
<1>18. CASE UNCHANGED vars
  BY <1>18, <1>a DEF vars, TypeOK, Control, Act
<1>19. QED
  BY <1>1, <1>2, <1>3, <1>4, <1>5, <1>6, <1>7, <1>8, <1>9, <1>10, <1>11,
     <1>12, <1>13, <1>14, <1>15, <1>16, <1>17, <1>18
  DEF Next, Mdsort, Terminated

\* Types hold for good: every execution keeps the variables in their sets and
\* the program counter within the match list.
THEOREM TypeCorrect == Spec => []TypeOK
<1>1. Spec => [](TypeOK /\ Control)
  BY InitStart, InitType, TypeStep, PTL DEF Spec
<1>2. QED
  BY <1>1, PTL
-----------------------------------------------------------------------------
\* At the start the message is the only file, whole and on disk.
LEMMA InitInv == AtStart => IInv
<1> SUFFICES ASSUME AtStart PROVE IInv
  OBVIOUS
<1>1. TypeOK /\ Control
  BY InitType
<1>2. /\ text = [f \in Files |-> IF f = 0 THEN "orig" ELSE "none"]
      /\ durable = {0} /\ step = 1 /\ 0 \in Files
  BY BoundsAssumption DEF AtStart, Ready, Files
<1>3. pc \notin Busy
  <2>1. plan \in Plans /\ pc = Begin(plan, 1)
    BY DEF AtStart, Ready
  <2>2. 1 \in 1 .. Len(plan) + 1
    BY <2>1, PlanType
  <2>3. QED
    BY <2>1, <2>2, BeginType DEF Busy
<1>4. Fresh
  BY <1>2 DEF Fresh, Files
<1>5. Owned /\ Pending
  BY <1>3 DEF Owned, Pending, Busy
<1>6. Good(0)
  <2>1. PICK n \in Names :
           entry = [d \in Dirs |-> [m \in Names |->
                      IF d = SrcDir /\ m = n THEN 0 ELSE NoFile]]
    BY DEF AtStart, Ready
  <2>2. entry[SrcDir][n] = 0
    BY <2>1, SrcDirAssumption
  <2>3. QED
    BY <1>2, <2>2, SrcDirAssumption DEF Good, Linked, Whole
<1>7. QED
  BY <1>1, <1>2, <1>3, <1>4, <1>5, <1>6 DEF IInv, Kept

\* A step that leaves the files alone and has no file of the action's own
\* pending afterwards keeps the invariant.
LEMMA QuietStep ==
    ASSUME IInv, UNCHANGED <<entry, text, durable, plan>>, pc' \notin Busy,
           \/ step' = step /\ (pc' \in Untouched => pc \in Untouched)
           \/ step <= Len(plan) /\ Advance
    PROVE  Fresh' /\ Owned' /\ Pending' /\ Kept'
<1>1. step \in Nat /\ Len(plan) \in Nat
  BY DirTypes DEF IInv, TypeOK
<1>2. Fresh'
  BY <1>1 DEF IInv, Fresh, Files, Advance
<1>3. Owned' /\ Pending'
  BY DEF Owned, Pending, Busy
<1>4. Kept'
  <2>1. CASE Discarded
    BY <1>1, <2>1 DEF Discarded, Kept
  <2>2. CASE ~Discarded
    <3>1. PICK f \in Files : Good(f)
      BY <2>2 DEF IInv, Kept
    <3>2. Good(f)'
      BY <3>1 DEF Good, Linked
    <3>3. QED
      BY <3>2 DEF Kept
  <2>3. QED
    BY <2>1, <2>2
<1>5. QED
  BY <1>2, <1>3, <1>4

\* While an action is under way the message has not been discarded.
LEMMA NotDiscarded ==
    ASSUME IInv, pc \notin {"close", "done"}
    PROVE  ~Discarded /\ \E f \in Files : Good(f) /\ (pc \in Busy => f # step)
<1>1. step <= Len(plan) /\ step \in Nat /\ Len(plan) \in Nat
  BY DirTypes DEF IInv, TypeOK, Control
<1>2. ~Discarded
  BY <1>1 DEF Discarded
<1>3. QED
  BY <1>2 DEF IInv, Kept

\* openat() adds a file that is not the message yet: the copy there was is
\* another file.
LEMMA CreateStep == IInv /\ CreateFile => Fresh' /\ Owned' /\ Pending' /\ Kept'
<1> SUFFICES ASSUME IInv, CreateFile
             PROVE  Fresh' /\ Owned' /\ Pending' /\ Kept'
  OBVIOUS
<1>0. pc = "create"
  BY DEF CreateFile
<1>1. CASE UNCHANGED <<entry, text>> /\ pc' = "close"
  <2>1. UNCHANGED <<entry, text, durable, plan, step>>
    BY <1>1 DEF CreateFile
  <2>2. pc' \notin Busy /\ pc' \notin Untouched
    BY <1>1 DEF Busy, Untouched
  <2>3. QED
    BY <2>1, <2>2, QuietStep
<1>2. ASSUME NEW i \in Ids, NEW b \in BOOLEAN, NEW n \in Names,
             entry[Target][n] = NoFile,
             entry' = Link(Target, n, step), dname' = n,
             text' = [text EXCEPT ![step] = "empty"],
             pc' \in {"rename", "write"}
      PROVE  Fresh' /\ Owned' /\ Pending' /\ Kept'
  <2>1. /\ step \in Files /\ Target \in Dirs /\ entry \in Layout
        /\ text \in [Files -> Text]
    BY <1>0, DirTypes DEF IInv, TypeOK, Control, Layout
  <2>2. UNCHANGED <<durable, plan, step, src>> /\ Target' = Target
    BY DEF CreateFile, Target, Act, SourceDir, HandleDir
  <2>3. \A x \in Dirs, y \in Names :
           entry'[x][y] = IF x = Target /\ y = n THEN step ELSE entry[x][y]
    BY <1>2, <2>1, LinkEffect
  <2>4. Fresh'
    BY <1>2, <2>1, <2>2 DEF IInv, Fresh, Untouched, Files
  <2>5. Owned'
    BY <1>2, <2>1, <2>2, <2>3 DEF Owned
  <2>6. Pending'
    BY <1>2, <2>1, <2>2, <2>3 DEF Pending, Linked
  <2>7. PICK f \in Files : Good(f)
    BY <1>0, NotDiscarded
  <2>8. f # step
    BY <1>0, <2>7 DEF IInv, Fresh, Untouched, Good, Whole
  <2>9. Good(f)'
    <3>1. PICK x \in Dirs, y \in Names : entry[x][y] = f
      BY <2>7 DEF Good, Linked
    <3>2. entry'[x][y] = f
      BY <1>2, <2>1, <2>3, <3>1 DEF NoFile, Files
    <3>3. text'[f] = text[f]
      BY <1>2, <2>1, <2>8
    <3>4. QED
      BY <2>2, <2>7, <3>2, <3>3 DEF Good, Linked
  <2>10. QED
    BY <2>2, <2>4, <2>5, <2>6, <2>8, <2>9 DEF Kept
<1>3. MsgFlags(SourceDir, Target, msg.seen) \in BOOLEAN
  BY DEF MsgFlags, IInv, TypeOK
<1>4. \A i \in Ids : [id |-> i, seen |-> MsgFlags(SourceDir, Target, msg.seen)]
                      \in Names
  BY <1>3 DEF Names
<1>5. QED
  BY <1>1, <1>2, <1>3, <1>4 DEF CreateFile, Fail
\* The facts every step between the creation of the file and its removal or
\* the message's starts from: there is a good copy in another file.
LEMMA BusyFacts ==
    ASSUME IInv, pc \in Busy
    PROVE  /\ step \in Files /\ Target \in Dirs /\ SourceDir \in Dirs
           /\ dname \in Names /\ msg.name \in Names
           /\ entry \in Layout /\ text \in [Files -> Text]
           /\ entry[Target][dname] \in {NoFile, step}
           /\ \E f \in Files \ {step} : Good(f)
<1>1. pc \notin {"close", "done"}
  BY DEF Busy
<1>2. step <= Len(plan)
  BY <1>1 DEF IInv, Control
<1>3. \E f \in Files : Good(f) /\ (pc \in Busy => f # step)
  BY <1>1, NotDiscarded
<1>4. QED
  BY <1>2, <1>3, DirTypes DEF IInv, TypeOK, Layout, Owned

\* The invariant from a step that keeps step, plan, Target and dname, given
\* what it does to the files.
LEMMA BusyStep ==
    ASSUME IInv, pc \in Busy, UNCHANGED <<plan, step, src, dname>>,
           \A f \in Files : f > step => text'[f] = text[f],
           pc' \notin Untouched,
           pc' \in Busy => entry' = entry,
           Pending',
           \E f \in Files : Good(f)' /\ (pc' \in Busy => f # step)
    PROVE  Fresh' /\ Owned' /\ Pending' /\ Kept'
<1>1. Fresh'
  BY DEF IInv, Fresh
<1>2. Owned'
  BY DEF IInv, Owned, Target, Act, SourceDir, HandleDir
<1>3. Kept'
  BY DEF Kept
<1>4. QED
  BY <1>1, <1>2, <1>3

\* renameat() overwrites only the empty file of the action.
LEMMA RenameStep == IInv /\ RenameSource => Fresh' /\ Owned' /\ Pending' /\ Kept'
<1> SUFFICES ASSUME IInv, RenameSource
             PROVE  Fresh' /\ Owned' /\ Pending' /\ Kept'
  OBVIOUS
<1>1. pc = "rename" /\ pc \in Busy
  BY DEF RenameSource, Busy
<1>2. UNCHANGED <<text, durable, plan, step, src, dname>>
  BY DEF RenameSource
<1>3. PICK f \in Files \ {step} : Good(f)
  BY <1>1, BusyFacts
<1>4. CASE entry' = entry /\ pc' \in {"write", "undo"}
  <2>1. Good(f)'
    BY <1>2, <1>3, <1>4 DEF Good, Linked
  <2>2. Pending'
    BY <1>1, <1>2, <1>4 DEF IInv, Pending, Linked
  <2>3. pc' \notin Untouched
    BY <1>4 DEF Untouched
  <2>4. QED
    BY <1>1, <1>2, <1>3, <1>4, <2>1, <2>2, <2>3, BusyStep
<1>5. CASE entry' = Rename(SourceDir, msg.name, Target, dname) /\ pc' = "utimes"
  <2>1. \A x \in Dirs, y \in Names :
           entry'[x][y] =
               IF x = Target /\ y = dname THEN entry[SourceDir][msg.name]
               ELSE IF x = SourceDir /\ y = msg.name THEN NoFile
               ELSE entry[x][y]
    BY <1>1, <1>5, BusyFacts, RenameEffect
  <2>2. PICK x \in Dirs, y \in Names : entry[x][y] = f
    BY <1>3 DEF Good, Linked
  <2>3. ~(x = Target /\ y = dname)
    BY <1>1, <1>3, <2>2, BusyFacts DEF Files, NoFile
  <2>4. Linked(f)'
    <3>1. CASE x = SourceDir /\ y = msg.name
      BY <1>1, <2>1, <2>2, <3>1, BusyFacts DEF Linked
    <3>2. CASE ~(x = SourceDir /\ y = msg.name)
      BY <2>1, <2>2, <2>3, <3>2 DEF Linked
    <3>3. QED
      BY <3>1, <3>2
  <2>5. Good(f)'
    BY <1>2, <1>3, <2>4 DEF Good
  <2>6. Pending' /\ pc' \notin Untouched /\ pc' \notin Busy
    BY <1>5 DEF Pending, Untouched, Busy
  <2>7. QED
    BY <1>1, <1>2, <1>3, <2>5, <2>6, BusyStep
<1>6. QED
  BY <1>4, <1>5 DEF RenameSource

\* Writing and syncing the file of the action leave the other copy alone.
LEMMA WriteStep == IInv /\ WriteText => Fresh' /\ Owned' /\ Pending' /\ Kept'
<1> SUFFICES ASSUME IInv, WriteText
             PROVE  Fresh' /\ Owned' /\ Pending' /\ Kept'
  OBVIOUS
<1>1. pc = "write" /\ pc \in Busy
  BY DEF WriteText, Busy
<1>2. /\ UNCHANGED <<entry, durable, plan, step, src, dname>>
      /\ pc' \in {"sync", "undo"}
  BY DEF WriteText, ctlVars
<1>3. /\ \E t \in Text : text' = [text EXCEPT ![step] = t]
      /\ pc' = "sync" => text' = [text EXCEPT ![step] = Written(plan)]
      /\ Written(plan) \in Whole
  BY DEF WriteText, Written, Text, Whole
<1>4. PICK f \in Files \ {step} : Good(f)
  BY <1>1, BusyFacts
<1>5. \A g \in Files \ {step} : text'[g] = text[g]
  BY <1>1, <1>3, BusyFacts
<1>6. Good(f)'
  BY <1>2, <1>4, <1>5 DEF Good, Linked
<1>7. Pending'
  <2>1. Linked(step)
    BY <1>1 DEF IInv, Pending
  <2>2. Linked(step)'
    BY <1>2, <2>1 DEF Linked
  <2>3. pc' = "sync" => text'[step] \in Whole
    BY <1>1, <1>3, BusyFacts
  <2>4. QED
    BY <1>2, <2>2, <2>3 DEF Pending, Linked
<1>8. \A g \in Files : g > step => text'[g] = text[g]
  BY <1>1, <1>5, BusyFacts DEF Files
<1>9. QED
  BY <1>1, <1>2, <1>4, <1>6, <1>7, <1>8, BusyStep DEF Untouched

LEMMA SyncStep == IInv /\ SyncText => Fresh' /\ Owned' /\ Pending' /\ Kept'
<1> SUFFICES ASSUME IInv, SyncText
             PROVE  Fresh' /\ Owned' /\ Pending' /\ Kept'
  OBVIOUS
<1>1. pc = "sync" /\ pc \in Busy
  BY DEF SyncText, Busy
<1>2. /\ UNCHANGED <<entry, text, plan, step, src, dname>>
      /\ pc' \in {"unlink", "undo"}
      /\ durable \subseteq durable' /\ (pc' = "unlink" => step \in durable')
  BY DEF SyncText, ctlVars
<1>3. PICK f \in Files \ {step} : Good(f)
  BY <1>1, BusyFacts
<1>4. Good(f)'
  BY <1>2, <1>3 DEF Good, Linked
<1>5. Pending'
  BY <1>1, <1>2 DEF IInv, Pending, Linked
<1>6. QED
  BY <1>1, <1>2, <1>3, <1>4, <1>5, BusyStep DEF Untouched

\* Unlinking the old file: if it was the good copy, the new one is another
\* file, linked elsewhere, whole and on disk.
LEMMA UnlinkStep == IInv /\ UnlinkSource => Fresh' /\ Owned' /\ Pending' /\ Kept'
<1> SUFFICES ASSUME IInv, UnlinkSource
             PROVE  Fresh' /\ Owned' /\ Pending' /\ Kept'
  OBVIOUS
<1>1. pc = "unlink" /\ pc \in Busy
  BY DEF UnlinkSource, Busy
<1>2. UNCHANGED <<text, durable, plan, step, src, dname>>
  BY DEF UnlinkSource, ctlVars
<1>3. PICK f \in Files \ {step} : Good(f)
  BY <1>1, BusyFacts
<1>4. CASE entry' = entry /\ pc' = "undo"
  <2>1. Good(f)'
    BY <1>2, <1>3, <1>4 DEF Good, Linked
  <2>2. Pending' /\ pc' \notin Untouched
    BY <1>4 DEF Pending, Untouched
  <2>3. QED
    BY <1>1, <1>2, <1>3, <1>4, <2>1, <2>2, BusyStep
<1>5. CASE entry' = Unlink(SourceDir, msg.name) /\ pc' \in {"utimes", "reopen"}
  <2>1. \A x \in Dirs, y \in Names :
           entry'[x][y] = IF x = SourceDir /\ y = msg.name THEN NoFile
                          ELSE entry[x][y]
    BY <1>1, <1>5, BusyFacts, UnlinkEffect
  <2>2. PICK x \in Dirs, y \in Names : entry[x][y] = f
    BY <1>3 DEF Good, Linked
  <2>3. Good(step)
    BY <1>1 DEF IInv, Pending, Good
  <2>4. \E g \in Files : Good(g)'
    <3>1. CASE x = SourceDir /\ y = msg.name
      <4>1. PICK u \in Dirs, v \in Names : entry[u][v] = step
        BY <2>3 DEF Good, Linked
      <4>2. entry'[u][v] = step
        BY <1>3, <2>1, <2>2, <3>1, <4>1
      <4>3. step \in Files
        BY <1>1, BusyFacts
      <4>4. QED
        BY <1>2, <2>3, <4>2, <4>3 DEF Good, Linked
    <3>2. CASE ~(x = SourceDir /\ y = msg.name)
      BY <1>2, <1>3, <2>1, <2>2, <3>2 DEF Good, Linked
    <3>3. QED
      BY <3>1, <3>2
  <2>5. Pending' /\ pc' \notin Untouched /\ pc' \notin Busy
    BY <1>5 DEF Pending, Untouched, Busy
  <2>6. QED
    BY <1>1, <1>2, <2>4, <2>5, BusyStep
<1>6. QED
  BY <1>4, <1>5 DEF UnlinkSource

\* The undo step removes the file of the action, or nothing.
LEMMA UndoStep == IInv /\ UndoCreate => Fresh' /\ Owned' /\ Pending' /\ Kept'
<1> SUFFICES ASSUME IInv, UndoCreate
             PROVE  Fresh' /\ Owned' /\ Pending' /\ Kept'
  OBVIOUS
<1>1. pc = "undo" /\ pc \in Busy /\ pc' = "close"
  BY DEF UndoCreate, Busy
<1>2. UNCHANGED <<text, durable, plan, step, src, dname>>
  BY DEF UndoCreate
<1>3. PICK f \in Files \ {step} : Good(f)
  BY <1>1, BusyFacts
<1>4. PICK x \in Dirs, y \in Names : entry[x][y] = f
  BY <1>3 DEF Good, Linked
<1>5. entry'[x][y] = f
  <2>1. CASE entry' = entry
    BY <1>4, <2>1
  <2>2. CASE entry' = Unlink(Target, dname)
    <3>1. entry'[x][y] = IF x = Target /\ y = dname THEN NoFile ELSE entry[x][y]
      BY <1>1, <2>2, BusyFacts, UnlinkEffect
    <3>2. ~(x = Target /\ y = dname)
      BY <1>1, <1>3, <1>4, BusyFacts DEF Files, NoFile
    <3>3. QED
      BY <1>4, <3>1, <3>2
  <2>3. QED
    BY <2>1, <2>2 DEF UndoCreate
<1>6. Good(f)'
  BY <1>2, <1>3, <1>5 DEF Good, Linked
<1>7. Pending' /\ pc' \notin Untouched /\ pc' \notin Busy
  BY <1>1 DEF Pending, Untouched, Busy
<1>8. QED
  BY <1>1, <1>2, <1>3, <1>6, <1>7, BusyStep
\* unlinkat() of a discard action: the last of the list, so that the message is
\* discarded once it has succeeded.
LEMMA DiscardStep == IInv /\ Discard => Fresh' /\ Owned' /\ Pending' /\ Kept'
<1> SUFFICES ASSUME IInv, Discard
             PROVE  Fresh' /\ Owned' /\ Pending' /\ Kept'
  OBVIOUS
<1>1. /\ pc = "discard" /\ UNCHANGED <<text, durable, plan>>
      /\ plan \in Plans /\ step <= Len(plan) /\ step \in 1 .. Len(plan)
      /\ Act.act = "discard"
  BY DirTypes DEF Discard, IInv, TypeOK, Control
<1>2. step = Len(plan) /\ Len(plan) \in Nat
  BY <1>1, PlanType DEF Act
<1>3. CASE entry' = entry /\ Fail /\ step' = step
  BY <1>1, <1>3, QuietStep DEF Fail, Busy, Untouched
<1>4. CASE Advance
  <2>1. step' = Len(plan) + 1 /\ pc' = "close"
    BY <1>1, <1>2, <1>4, BeginType DEF Advance
  <2>2. Discarded'
    BY <1>1, <1>2, <2>1 DEF Discarded, Act
  <2>3. Fresh'
    BY <1>1, <1>2, <2>1 DEF IInv, Fresh, Files, Untouched
  <2>4. QED
    BY <2>1, <2>2, <2>3 DEF Owned, Pending, Kept, Busy
<1>5. QED
  BY <1>3, <1>4 DEF Discard

\* A reader's rename moves a file to a free name: no file is unlinked, and none
\* comes to bear the name of the action's file.
LEMMA MarkStep == IInv /\ MarkSeen => Fresh' /\ Owned' /\ Pending' /\ Kept'
<1> SUFFICES ASSUME IInv, MarkSeen
             PROVE  Fresh' /\ Owned' /\ Pending' /\ Kept'
  OBVIOUS
<1>1. UNCHANGED <<text, durable, plan, step, pc, src, dname>>
  BY DEF MarkSeen, ctlVars
<1>2. PICK d \in Dirs, n \in Names :
         /\ entry[d][n] # NoFile
         /\ entry[[d EXCEPT !.sub = "cur"]][[n EXCEPT !.seen = TRUE]] = NoFile
         /\ entry' = Rename(d, n, [d EXCEPT !.sub = "cur"],
                                  [n EXCEPT !.seen = TRUE])
  BY DEF MarkSeen
<1> DEFINE dd == [d EXCEPT !.sub = "cur"]
           nn == [n EXCEPT !.seen = TRUE]
<1>3. /\ dd \in Dirs /\ nn \in Names /\ dd.sub = "cur" /\ nn.seen = TRUE
      /\ entry \in Layout
  BY DEF Dirs, Names, Subdirs, IInv, TypeOK, Layout
<1> HIDE DEF dd, nn
<1>4. \A x \in Dirs, y \in Names :
         entry'[x][y] = IF x = dd /\ y = nn THEN entry[d][n]
                        ELSE IF x = d /\ y = n THEN NoFile
                        ELSE entry[x][y]
  <2>1. entry' = Rename(d, n, dd, nn)
    BY <1>2 DEF dd, nn
  <2>2. QED
    BY <1>3, <2>1, RenameEffect
<1>5. entry[d][n] # NoFile /\ entry[dd][nn] = NoFile
  BY <1>2 DEF dd, nn
<1>6. \A f \in Files : Linked(f) => Linked(f)'
  <2>1. SUFFICES ASSUME NEW f \in Files, NEW x \in Dirs, NEW y \in Names,
                        entry[x][y] = f
                 PROVE  Linked(f)'
    BY DEF Linked
  <2>2. CASE x = d /\ y = n
    BY <1>3, <1>4, <2>1, <2>2 DEF Linked
  <2>3. CASE ~(x = d /\ y = n)
    <3>1. ~(x = dd /\ y = nn)
      BY <1>5, <2>1 DEF Files, NoFile
    <3>2. QED
      BY <1>4, <2>1, <2>3, <3>1 DEF Linked
  <2>4. QED
    BY <2>2, <2>3
<1>7. Fresh'
  BY <1>1 DEF IInv, Fresh
<1>8. Owned'
  <2>1. SUFFICES ASSUME pc \in Busy
                 PROVE  Owned'
    BY <1>1 DEF Owned
  <2>2. /\ Target \in Dirs /\ dname \in Names /\ step \in Files
        /\ Target' = Target
    BY <1>1, <2>1, BusyFacts DEF Target, Act, SourceDir, HandleDir
  <2>3. /\ entry[Target][dname] \in {NoFile, step}
        /\ Target.sub = "cur" /\ dname.seen => entry[Target][dname] = step
    BY <2>1 DEF IInv, Owned
  <2>4. ~(Target = dd /\ dname = nn)
    BY <1>3, <1>5, <2>2, <2>3 DEF Files, NoFile
  <2>5. Target.sub = "cur" /\ dname.seen => ~(Target = d /\ dname = n)
    <3>1. ASSUME Target.sub = "cur", dname.seen, Target = d, dname = n
          PROVE  FALSE
      <4>1. dd = d /\ nn = n
        BY <3>1, <2>2 DEF dd, nn, Dirs, Names
      <4>2. QED
        BY <4>1, <1>5
    <3>2. QED
      BY <3>1
  <2>6. QED
    BY <1>1, <1>4, <2>2, <2>3, <2>4, <2>5 DEF Owned
<1>9. Pending'
  <2>1. ASSUME pc \in {"rename", "write", "sync", "unlink"}
        PROVE  Linked(step)'
    <3>1. step \in Files
      BY <2>1, BusyFacts DEF Busy
    <3>2. Linked(step)
      BY <2>1 DEF IInv, Pending
    <3>3. \E x \in Dirs, y \in Names : entry'[x][y] = step
      BY <1>6, <3>1, <3>2 DEF Linked
    <3>4. QED
      BY <1>1, <3>3 DEF Linked
  <2>2. QED
    BY <1>1, <2>1 DEF IInv, Pending
<1>10. Kept'
  <2>1. CASE Discarded
    BY <1>1, <2>1 DEF Discarded, Kept
  <2>2. CASE ~Discarded
    <3>1. PICK f \in Files : Good(f) /\ (pc \in Busy => f # step)
      BY <2>2 DEF IInv, Kept
    <3>2. Good(f)'
      BY <1>1, <1>6, <3>1 DEF Good
    <3>3. QED
      BY <1>1, <3>1, <3>2 DEF Kept
  <2>3. QED
    BY <2>1, <2>2
<1>11. QED
  BY <1>7, <1>8, <1>9, <1>10

\* The steps that touch no file.
LEMMA OtherStep ==
    ASSUME IInv,
           \/ OpenDst \/ RefuseTemporary \/ StatSource \/ RestoreTime
           \/ SetMoved \/ Reopen \/ Exec \/ Reject \/ Close
    PROVE  Fresh' /\ Owned' /\ Pending' /\ Kept'
<1>1. UNCHANGED <<entry, text, durable, plan>>
  BY DEF OpenDst, RefuseTemporary, StatSource, RestoreTime, SetMoved, Reopen,
         Exec, Reject, Close, fsVars
<1>2. CASE Advance
  <2>0. step \in Nat
    BY DirTypes DEF IInv, TypeOK
  <2>1. pc \notin {"close", "done"}
    BY <1>2, <2>0 DEF OpenDst, RefuseTemporary, StatSource, RestoreTime, SetMoved,
                Reopen, Exec, Reject, Close, Advance
  <2>2. step <= Len(plan)
    BY <2>1 DEF IInv, Control
  <2>3. pc' \notin Busy
    BY <1>1, <1>2, <2>2, AdvanceType DEF IInv, Untouched, Busy
  <2>4. QED
    BY <1>1, <1>2, <2>2, <2>3, QuietStep
<1>3. CASE ~Advance
  <2>1. step' = step
    BY <1>3 DEF OpenDst, RefuseTemporary, StatSource, RestoreTime, SetMoved,
                Reopen, Exec, Reject, Close
  <2>2. pc' \notin Busy /\ (pc' \in Untouched => pc \in Untouched)
    BY <1>3 DEF OpenDst, RefuseTemporary, StatSource, RestoreTime, SetMoved,
                Reopen, Exec, Reject, Close, Fail, Busy, Untouched
  <2>3. QED
    BY <1>1, <2>1, <2>2, QuietStep
<1>4. QED
  BY <1>2, <1>3

LEMMA InvStep == IInv /\ [Next]_vars => IInv'
<1> SUFFICES ASSUME IInv, [Next]_vars PROVE IInv'
  OBVIOUS
<1>1. TypeOK' /\ Control'
  BY TypeStep DEF IInv
<1>2. Fresh' /\ Owned' /\ Pending' /\ Kept'
  <2>1. CASE \/ OpenDst \/ RefuseTemporary \/ StatSource \/ RestoreTime
             \/ SetMoved \/ Reopen \/ Exec \/ Reject \/ Close
    BY <2>1, OtherStep
  <2>2. CASE CreateFile \/ RenameSource \/ WriteText \/ SyncText
    BY <2>2, CreateStep, RenameStep, WriteStep, SyncStep
  <2>3. CASE UnlinkSource \/ UndoCreate \/ Discard \/ MarkSeen
    BY <2>3, UnlinkStep, UndoStep, DiscardStep, MarkStep
  <2>4. CASE UNCHANGED vars
    BY <2>4 DEF vars, IInv, Fresh, Owned, Pending, Kept, Good, Linked,
                Discarded, Target, Act, SourceDir, HandleDir
  <2>5. QED
    BY <2>1, <2>2, <2>3, <2>4 DEF Next, Mdsort, Terminated
<1>3. QED
  BY <1>1, <1>2 DEF IInv

\* The conjunction of types, control and files is an invariant.
THEOREM Invariant == Spec => []IInv
  BY InitStart, InitInv, InvStep, PTL DEF Spec

\* Whatever system calls fail, wherever mdsort is interrupted and whatever a
\* reader renames, a whole copy of the message whose content is on the disk is
\* linked in some maildir, until a discard action has removed it.
THEOREM MessageNeverLost == Spec => []NoLoss
<1>1. IInv => NoLoss
  BY DEF IInv, Kept, NoLoss
<1>2. QED
  BY <1>1, Invariant, PTL

\* After an error the list is left: no later action is begun, and the error is
\* what matches_exec() returns.
THEOREM ErrorIsFinal == Spec => ErrorStops
<1>0. DEFINE ErrInv == error => pc \in {"undo", "close", "done"}
<1>1. Init => ErrInv
  BY DEF Init, Ready
<1>2. ErrInv /\ [Next]_vars => ErrInv'
  BY DEF Next, Mdsort, MarkSeen, Terminated, OpenDst, RefuseTemporary,
         StatSource, CreateFile, RenameSource, WriteText, SyncText,
         UnlinkSource, UndoCreate, RestoreTime, SetMoved, Reopen, Discard,
         Exec, Reject, Close, Fail, vars, Advance
<1>3. ErrInv /\ [Next]_vars => (error => error' /\ step' = step)
  BY DEF Next, Mdsort, MarkSeen, Terminated, OpenDst, RefuseTemporary,
         StatSource, CreateFile, RenameSource, WriteText, SyncText,
         UnlinkSource, UndoCreate, RestoreTime, SetMoved, Reopen, Discard,
         Exec, Reject, Close, Fail, vars, Advance
<1>4. QED
  BY <1>1, <1>2, <1>3, PTL DEF Spec, ErrorStops
-----------------------------------------------------------------------------
\* Good copies that a step takes away, with what must be left in their place.
Replaced ==
    \A f \in Files : Good(f) /\ ~Good(f)' =>
        \/ pc = "discard"
        \/ \E g \in Files \ {f} : Good(g) /\ Good(g)'

\* A step that unlinks no file but possibly that of the action, and changes the
\* content of no other, takes at most the action's own copy away: the copy
\* BusyFacts speaks of is still there.
LEMMA OwnFileOnly ==
    ASSUME IInv, pc \in Busy, durable \subseteq durable',
           \A f \in Files \ {step} : text'[f] = text[f],
           \A f \in Files \ {step} : Linked(f) => Linked(f)'
    PROVE  Replaced
<1>1. \A f \in Files \ {step} : Good(f) => Good(f)'
  BY DEF Good
<1>2. PICK g \in Files \ {step} : Good(g)
  BY BusyFacts
<1>3. Good(g)'
  BY <1>1, <1>2
<1>4. SUFFICES ASSUME NEW f \in Files, Good(f), ~Good(f)'
               PROVE  \E h \in Files \ {f} : Good(h) /\ Good(h)'
  BY DEF Replaced
<1>5. f = step
  BY <1>1, <1>4
<1>6. g \in Files \ {f}
  BY <1>2, <1>5
<1>7. QED
  BY <1>2, <1>3, <1>6

\* Where every file stays linked and no good one is written, none is lost.
LEMMA AllStay ==
    ASSUME durable \subseteq durable',
           \A f \in Files : Good(f) => text'[f] = text[f] /\ Linked(f)'
    PROVE  Replaced
  BY DEF Replaced, Good

\* openat() takes a free name for a file that was not one before.
LEMMA CreateReplaces == IInv /\ CreateFile => Replaced
<1> SUFFICES ASSUME IInv, CreateFile PROVE Replaced
  OBVIOUS
<1>1. pc = "create" /\ durable' = durable
  BY DEF CreateFile
<1>2. CASE UNCHANGED <<entry, text>>
  BY <1>1, <1>2, AllStay DEF Good, Linked
<1>3. ASSUME NEW n \in Names, entry[Target][n] = NoFile,
             entry' = Link(Target, n, step),
             text' = [text EXCEPT ![step] = "empty"]
      PROVE  Replaced
  <2>1. /\ step \in Files /\ Target \in Dirs /\ entry \in Layout
        /\ text \in [Files -> Text]
    BY <1>1, DirTypes DEF IInv, TypeOK, Control, Layout
  <2>2. \A x \in Dirs, y \in Names :
           entry'[x][y] = IF x = Target /\ y = n THEN step ELSE entry[x][y]
    BY <1>3, <2>1, LinkEffect
  <2>3. text[step] = "none"
    BY <1>1, <2>1 DEF IInv, Fresh, Untouched
  <2>4. ASSUME NEW f \in Files, Good(f)
        PROVE  text'[f] = text[f] /\ Linked(f)'
    <3>1. f # step
      BY <2>3, <2>4 DEF Good, Whole
    <3>2. PICK x \in Dirs, y \in Names : entry[x][y] = f
      BY <2>4 DEF Good, Linked
    <3>3. entry'[x][y] = f
      BY <1>3, <2>2, <3>2 DEF NoFile, Files
    <3>4. QED
      BY <1>3, <2>1, <3>1, <3>3 DEF Linked
  <2>5. QED
    BY <1>1, <2>4, AllStay
<1>4. \A i \in Ids : [id |-> i, seen |-> MsgFlags(SourceDir, Target, msg.seen)]
                      \in Names
  BY DEF MsgFlags, Names, IInv, TypeOK
<1>5. QED
  BY <1>2, <1>3, <1>4 DEF CreateFile

\* renameat() puts the message where the action's own, empty file was.
LEMMA RenameReplaces == IInv /\ RenameSource => Replaced
<1> SUFFICES ASSUME IInv, RenameSource PROVE Replaced
  OBVIOUS
<1>1. pc \in Busy /\ UNCHANGED <<text, durable>>
  BY DEF RenameSource, Busy
<1>2. CASE entry' = entry
  BY <1>1, <1>2, AllStay DEF Good, Linked
<1>3. CASE entry' = Rename(SourceDir, msg.name, Target, dname)
  <2>1. \A x \in Dirs, y \in Names :
           entry'[x][y] =
               IF x = Target /\ y = dname THEN entry[SourceDir][msg.name]
               ELSE IF x = SourceDir /\ y = msg.name THEN NoFile
               ELSE entry[x][y]
    BY <1>1, <1>3, BusyFacts, RenameEffect
  <2>2. ASSUME NEW f \in Files \ {step}, Linked(f)
        PROVE  Linked(f)'
    <3>1. PICK x \in Dirs, y \in Names : entry[x][y] = f
      BY <2>2 DEF Linked
    <3>2. ~(x = Target /\ y = dname)
      BY <1>1, <2>2, <3>1, BusyFacts DEF Files, NoFile
    <3>3. CASE x = SourceDir /\ y = msg.name
      BY <1>1, <2>1, <3>1, <3>3, BusyFacts DEF Linked
    <3>4. CASE ~(x = SourceDir /\ y = msg.name)
      BY <2>1, <3>1, <3>2, <3>4 DEF Linked
    <3>5. QED
      BY <3>3, <3>4
  <2>3. QED
    BY <1>1, <2>2, OwnFileOnly
<1>4. QED
  BY <1>2, <1>3 DEF RenameSource

\* The source is unlinked for the action's file, which is good by then.  If a
\* reader's renames had made the two one file, there would be another.
LEMMA UnlinkReplaces == IInv /\ UnlinkSource => Replaced
<1> SUFFICES ASSUME IInv, UnlinkSource PROVE Replaced
  OBVIOUS
<1>1. pc = "unlink" /\ pc \in Busy /\ UNCHANGED <<text, durable>>
  BY DEF UnlinkSource, Busy
<1>2. CASE entry' = entry
  BY <1>1, <1>2, AllStay DEF Good, Linked
<1>3. CASE entry' = Unlink(SourceDir, msg.name)
  <2>1. \A x \in Dirs, y \in Names :
           entry'[x][y] = IF x = SourceDir /\ y = msg.name THEN NoFile
                          ELSE entry[x][y]
    BY <1>1, <1>3, BusyFacts, UnlinkEffect
  <2>2. \A f \in Files : Good(f) /\ ~Good(f)' => entry[SourceDir][msg.name] = f
    BY <1>1, <2>1 DEF Good, Linked
  <2>3. \A g \in Files : Good(g) /\ entry[SourceDir][msg.name] # g => Good(g)'
    BY <2>2
  <2>4. Good(step) /\ step \in Files
    BY <1>1, BusyFacts DEF IInv, Pending, Good
  <2>5. PICK h \in Files \ {step} : Good(h)
    BY <1>1, BusyFacts
  <2>6. ASSUME NEW f \in Files, Good(f), ~Good(f)'
        PROVE  \E g \in Files \ {f} : Good(g) /\ Good(g)'
    <3>1. entry[SourceDir][msg.name] = f
      BY <2>2, <2>6
    <3>2. CASE f = step
      BY <2>3, <2>5, <3>1, <3>2
    <3>3. CASE f # step
      BY <2>3, <2>4, <3>1, <3>3
    <3>4. QED
      BY <3>2, <3>3
  <2>7. QED
    BY <2>6 DEF Replaced
<1>4. QED
  BY <1>2, <1>3 DEF UnlinkSource

\* Writing, syncing and undoing concern the action's own file.
LEMMA OwnReplaces == IInv /\ (WriteText \/ SyncText \/ UndoCreate) => Replaced
<1> SUFFICES ASSUME IInv, WriteText \/ SyncText \/ UndoCreate PROVE Replaced
  OBVIOUS
<1>1. pc \in Busy
  BY DEF WriteText, SyncText, UndoCreate, Busy
<1>2. CASE WriteText
  <2>1. /\ UNCHANGED <<entry, durable>>
        /\ \E t \in Text : text' = [text EXCEPT ![step] = t]
    BY <1>2 DEF WriteText, Written, Text
  <2>2. \A f \in Files \ {step} : text'[f] = text[f]
    BY <1>1, <2>1, BusyFacts
  <2>3. QED
    BY <1>1, <2>1, <2>2, OwnFileOnly DEF Linked
<1>3. CASE SyncText
  <2>1. UNCHANGED <<entry, text>> /\ durable \subseteq durable'
    BY <1>3 DEF SyncText
  <2>2. QED
    BY <1>1, <2>1, OwnFileOnly DEF Linked
<1>4. CASE UndoCreate
  <2>1. UNCHANGED <<text, durable>>
    BY <1>4 DEF UndoCreate
  <2>2. ASSUME NEW f \in Files \ {step}, Linked(f)
        PROVE  Linked(f)'
    <3>1. PICK x \in Dirs, y \in Names : entry[x][y] = f
      BY <2>2 DEF Linked
    <3>2. CASE entry' = entry
      BY <3>1, <3>2 DEF Linked
    <3>3. CASE entry' = Unlink(Target, dname)
      <4>1. entry'[x][y] =
               IF x = Target /\ y = dname THEN NoFile ELSE entry[x][y]
        BY <1>1, <3>3, BusyFacts, UnlinkEffect
      <4>2. ~(x = Target /\ y = dname)
        BY <1>1, <2>2, <3>1, BusyFacts DEF Files, NoFile
      <4>3. QED
        BY <3>1, <4>1, <4>2 DEF Linked
    <3>4. QED
      BY <1>4, <3>2, <3>3 DEF UndoCreate
  <2>3. QED
    BY <1>1, <2>1, <2>2, OwnFileOnly
<1>5. QED
  BY <1>2, <1>3, <1>4

\* A reader's rename leaves every file linked: it takes a free name.
LEMMA MarkReplaces == IInv /\ MarkSeen => Replaced
<1> SUFFICES ASSUME IInv, MarkSeen PROVE Replaced
  OBVIOUS
<1>1. UNCHANGED <<text, durable>>
  BY DEF MarkSeen
<1>2. PICK d \in Dirs, n \in Names :
         /\ entry[[d EXCEPT !.sub = "cur"]][[n EXCEPT !.seen = TRUE]] = NoFile
         /\ entry' = Rename(d, n, [d EXCEPT !.sub = "cur"],
                                  [n EXCEPT !.seen = TRUE])
  BY DEF MarkSeen
<1> DEFINE dd == [d EXCEPT !.sub = "cur"]
           nn == [n EXCEPT !.seen = TRUE]
<1>3. dd \in Dirs /\ nn \in Names /\ entry \in Layout
  BY DEF Dirs, Names, Subdirs, IInv, TypeOK, Layout
<1>4. entry[dd][nn] = NoFile /\ entry' = Rename(d, n, dd, nn)
  BY <1>2
<1> HIDE DEF dd, nn
<1>5. \A x \in Dirs, y \in Names :
         entry'[x][y] = IF x = dd /\ y = nn THEN entry[d][n]
                        ELSE IF x = d /\ y = n THEN NoFile
                        ELSE entry[x][y]
  BY <1>3, <1>4, RenameEffect
<1>6. ASSUME NEW f \in Files, Good(f)
      PROVE  Linked(f)'
  <2>1. PICK x \in Dirs, y \in Names : entry[x][y] = f
    BY <1>6 DEF Good, Linked
  <2>2. CASE x = d /\ y = n
    BY <1>3, <1>5, <2>1, <2>2 DEF Linked
  <2>3. CASE ~(x = d /\ y = n)
    <3>1. ~(x = dd /\ y = nn)
      BY <1>4, <2>1 DEF Files, NoFile
    <3>2. QED
      BY <1>5, <2>1, <2>3, <3>1 DEF Linked
  <2>4. QED
    BY <2>2, <2>3
<1>7. QED
  BY <1>1, <1>6, AllStay

\* Whatever fails and whatever a reader renames, no single step takes a good
\* copy away without another good copy being there before and after it, the
\* unlink of a discard action excepted: no window, however short.
THEOREM CopyReplaced == Spec => GoodReplaced
<1>1. IInv /\ [Next]_vars => Replaced
  <2> SUFFICES ASSUME IInv, [Next]_vars PROVE Replaced
    OBVIOUS
  <2>1. CASE CreateFile \/ RenameSource \/ UnlinkSource \/ MarkSeen
    BY <2>1, CreateReplaces, RenameReplaces, UnlinkReplaces, MarkReplaces
  <2>2. CASE WriteText \/ SyncText \/ UndoCreate
    BY <2>2, OwnReplaces
  <2>3. CASE Discard
    BY <2>3 DEF Discard, Replaced
  <2>4. CASE \/ OpenDst \/ RefuseTemporary \/ StatSource \/ RestoreTime
             \/ SetMoved \/ Reopen \/ Exec \/ Reject \/ Close
    <3>1. UNCHANGED fsVars
      BY <2>4 DEF OpenDst, RefuseTemporary, StatSource, RestoreTime, SetMoved,
                  Reopen, Exec, Reject, Close, fsVars
    <3>2. QED
      BY <3>1, AllStay DEF fsVars, Good, Linked
  <2>5. CASE UNCHANGED vars
    BY <2>5, AllStay DEF vars, Good, Linked
  <2>6. QED
    BY <2>1, <2>2, <2>3, <2>4, <2>5 DEF Next, Mdsort, Terminated
<1>2. IInv /\ [Next]_vars =>
         [\A f \in Files : Good(f) /\ ~Good(f)' =>
             \/ pc = "discard"
             \/ \E g \in Files \ {f} : Good(g) /\ Good(g)']_vars
  BY <1>1 DEF Replaced
<1>3. QED
  BY <1>2, Invariant, PTL DEF Spec, GoodReplaced
-----------------------------------------------------------------------------
\* What is open at each point, and which action is under way there: main's
\* handle, the source's and, from its opening until it becomes the source or is
\* closed, the destination's.
Handles ==
    /\ pc = "done" => opened = {0}
    /\ pc = "close" => opened = {0, src}
    /\ pc \notin {"close", "done"} =>
          /\ src < step
          /\ Act.act = "move" /\ pc # "open" => opened = {0, src, step}
          /\ Act.act # "move" \/ pc = "open" => opened = {0, src}
    /\ pc \in {"open", "stat", "rename", "utimes", "setfile"} => Act.act = "move"
    /\ pc \in {"create"} \cup Busy => Act.act \in {"move", "write"}
    /\ pc = "reopen" => Act.act = "write"
    /\ pc \in {"discard", "exec", "reject"} => Act.act = pc

\* The first system call of an action tells which it is.
LEMMA BeginAct ==
    ASSUME NEW p \in Plans, NEW i \in 1 .. Len(p) + 1
    PROVE  /\ Begin(p, i) = "open" => p[i].act = "move"
           /\ Begin(p, i) = "create" => p[i].act = "write"
           /\ Begin(p, i) \in {"discard", "exec", "reject"} =>
                 p[i].act = Begin(p, i)
<1>1. Len(p) \in Nat /\ (i <= Len(p) => p[i].act \in Verbs)
  BY PlanType
<1>2. CASE i > Len(p)
  BY <1>1, <1>2 DEF Begin
<1>3. CASE i <= Len(p)
  BY <1>1, <1>3 DEF Begin, FirstCall, Verbs
<1>4. QED
  BY <1>1, <1>2, <1>3

\* An action that is over leaves main's handle and the source's.
LEMMA HandlesAdvance ==
    ASSUME TypeOK, step <= Len(plan), plan' = plan, Advance,
           src' \in 0 .. step, opened' = {0, src'}
    PROVE  Handles'
<1>1. plan \in Plans /\ step \in Nat /\ step + 1 \in 1 .. Len(plan) + 1
  BY DirTypes DEF TypeOK
<1>2. pc' = Begin(plan, step + 1) /\ step' = step + 1
  BY DEF Advance
<1>3. pc' \in {"open", "create", "discard", "exec", "reject", "close"}
  BY <1>1, <1>2, BeginType
<1>4. src' < step'
  BY <1>1, <1>2
<1>5. /\ pc' = "open" => plan[step'].act = "move"
      /\ pc' = "create" => plan[step'].act = "write"
      /\ pc' \in {"discard", "exec", "reject"} => plan[step'].act = pc'
  BY <1>1, <1>2, BeginAct
<1>6. QED
  BY <1>3, <1>4, <1>5 DEF Handles, Busy, Act

\* Every step keeps the account of open handles.
LEMMA HandlesStep == TypeOK /\ Control /\ Handles /\ [Next]_vars => Handles'
<1> SUFFICES ASSUME TypeOK, Control, Handles, [Next]_vars
             PROVE  Handles'
  OBVIOUS
<1>1. /\ step \in Nat /\ src \in Nat
      /\ pc \notin {"close", "done"} => step <= Len(plan) /\ src < step
  BY DirTypes DEF TypeOK, Control, Handles
<1>2. CASE OpenDst \/ RefuseTemporary \/ StatSource
  BY <1>1, <1>2 DEF OpenDst, RefuseTemporary, StatSource, Handles, Act, Fail
<1>3. CASE CreateFile
  BY <1>1, <1>3 DEF CreateFile, Handles, Act, Fail
<1>4. CASE RenameSource
  BY <1>1, <1>4 DEF RenameSource, Handles, Act
<1>5. CASE WriteText \/ SyncText
  BY <1>1, <1>5 DEF WriteText, SyncText, ctlVars, Handles, Busy, Act
<1>6. CASE UnlinkSource
  BY <1>1, <1>6 DEF UnlinkSource, ctlVars, Handles, Busy, Act
<1>7. CASE UndoCreate \/ RestoreTime
  BY <1>1, <1>7 DEF UndoCreate, RestoreTime, Handles, Busy, Act, Fail
<1>8. CASE SetMoved
  <2>1. pc = "setfile" /\ opened = {0, src, step} /\ plan' = plan
    BY <1>8 DEF SetMoved, Handles
  <2>2. CASE Advance
    <3>1. src' \in 0 .. step
      BY <1>1, <1>8, <2>1 DEF SetMoved
    <3>2. opened' = {0, src'}
      BY <1>1, <1>8, <2>1, <2>2 DEF SetMoved, Advance
    <3>3. QED
      BY <1>1, <2>1, <2>2, <3>1, <3>2, HandlesAdvance
  <2>3. CASE Fail /\ opened' = opened \ {step} /\ UNCHANGED <<src, step>>
    BY <1>1, <2>1, <2>3 DEF Fail, Handles, Busy
  <2>4. QED
    BY <1>8, <2>2, <2>3 DEF SetMoved
<1>9. CASE Reopen \/ Discard \/ Exec \/ Reject
  <2>1. /\ opened = {0, src} /\ UNCHANGED <<opened, src, plan>>
        /\ pc \in {"reopen", "discard", "exec", "reject"}
    BY <1>9 DEF Reopen, Discard, Exec, Reject, ctlVars, Handles
  <2>2. CASE Advance
    BY <1>1, <2>1, <2>2, HandlesAdvance
  <2>3. CASE Fail
    BY <2>1, <2>3 DEF Fail, Handles, Busy
  <2>4. QED
    BY <1>9, <2>2, <2>3 DEF Reopen, Discard, Exec, Reject
<1>10. CASE Close
  BY <1>1, <1>10 DEF Close, Handles, Busy
<1>11. CASE MarkSeen
  BY <1>11 DEF MarkSeen, ctlVars, Handles, Act
<1>12. CASE UNCHANGED vars
  BY <1>12 DEF vars, Handles, Act
<1>13. QED
  BY <1>2, <1>3, <1>4, <1>5, <1>6, <1>7, <1>8, <1>9, <1>10, <1>11, <1>12
  DEF Next, Mdsort, Terminated

\* At the start main's handle is open and it is the source's.
LEMMA InitHandles == AtStart => Handles
<1> SUFFICES ASSUME AtStart PROVE Handles
  OBVIOUS
<1>1. /\ plan \in Plans /\ step = 1 /\ pc = Begin(plan, 1) /\ src = 0
      /\ opened = {0} /\ 1 \in 1 .. Len(plan) + 1
  BY PlanType DEF AtStart, Ready
<1>2. QED
  BY <1>1, BeginType, BeginAct DEF Handles, Busy, Act

\* The source's handle is open as long as it is used, main's is never closed,
\* and whatever fails none of the handles matches_exec() opened is left open,
\* for match lists of any length.
THEOREM NoHandleLeaks == Spec => []HandlesBalanced
<1>1. Init => Handles
  BY InitStart, InitHandles
<1>2. Handles /\ TypeOK => HandlesBalanced
  <2> SUFFICES ASSUME Handles, TypeOK PROVE HandlesBalanced
    OBVIOUS
  <2>1. step \in 1 .. Len(plan) + 1 /\ src \in Nat
    BY DirTypes DEF TypeOK
  <2>2. pc # "done" => opened \in {{0, src}, {0, src, step}}
    BY DEF Handles
  <2>3. pc \in {"stat", "create", "rename", "setfile"} =>
           (Act.act = "move" <=> step \in opened)
    BY <2>1, DirTypes DEF Handles
  <2>4. QED
    BY <2>2, <2>3 DEF Handles, HandlesBalanced
<1>3. Spec => [](TypeOK /\ Control /\ Handles)
  BY InitStart, InitType, TypeStep, HandlesStep, <1>1, PTL DEF Spec
<1>4. QED
  BY <1>2, <1>3, PTL

-----------------------------------------------------------------------------
\* A place no reader takes a file from: any, before the first rename, and a
\* seen name in cur at all times.
Pinned(d, n) == renames = 0 \/ (d.sub = "cur" /\ n.seen)

\* The message's path is the source, and its file and the action's own are where
\* mdsort takes them to be, unless a reader can have renamed them.
Located ==
    /\ pc \in {"rename", "write", "sync", "unlink"} =>
          /\ Pinned(Target, dname) => entry[Target][dname] # NoFile
          /\ Pinned(SourceDir, msg.name) =>
                ~(Target = SourceDir /\ dname = msg.name)
    /\ pc \in Untouched \cup {"rename", "write", "sync", "unlink"} =>
          (Pinned(SourceDir, msg.name) => SourceExists)
    /\ pc \in {"utimes", "setfile"} =>
          (Pinned(Target, dname) => entry[Target][dname] # NoFile)
    /\ pc = "reopen" =>
          (Pinned(SourceDir, dname) => entry[SourceDir][dname] # NoFile)

Follows ==
    /\ pc \notin {"close", "done"} => msg.dir = SourceDir
    /\ Located

\* A reader takes no file from a seen name in cur, nor puts one over another.
LEMMA MarkKeepsSeen ==
    ASSUME MarkSeen, entry \in Layout, NEW x \in Dirs, NEW y \in Names,
           x.sub = "cur", y.seen = TRUE, entry[x][y] # NoFile
    PROVE  entry'[x][y] # NoFile
<1>1. PICK d \in Dirs, n \in Names :
         /\ entry[d][n] # NoFile
         /\ entry[[d EXCEPT !.sub = "cur"]][[n EXCEPT !.seen = TRUE]] = NoFile
         /\ entry' = Rename(d, n, [d EXCEPT !.sub = "cur"],
                                  [n EXCEPT !.seen = TRUE])
  BY DEF MarkSeen
<1> DEFINE dd == [d EXCEPT !.sub = "cur"]
           nn == [n EXCEPT !.seen = TRUE]
<1>2. dd \in Dirs /\ nn \in Names
  BY DEF Dirs, Names, Subdirs
<1>3. entry[dd][nn] = NoFile /\ entry' = Rename(d, n, dd, nn)
  BY <1>1
<1>4. x = d /\ y = n => dd = d /\ nn = n
  BY DEF Dirs, Names
<1>5. ~(x = d /\ y = n)
  BY <1>1, <1>3, <1>4
<1> HIDE DEF dd, nn
<1>6. QED
  BY <1>2, <1>3, <1>5, RenameEffect

\* The message is where the next action begins.
LEMMA FollowsAdvance ==
    ASSUME TypeOK, step <= Len(plan), plan' = plan, Advance,
           pc' # "close" =>
              /\ msg'.dir = SourceDir'
              /\ Pinned(SourceDir, msg.name)' =>
                    entry'[SourceDir'][msg'.name] # NoFile
    PROVE  Follows'
<1>1. pc' \in Untouched \cup {"close"}
  BY AdvanceType
<1>2. QED
  BY <1>1 DEF Follows, Located, Untouched, SourceExists

\* Every step of mdsort leaves the path the source.
LEMMA FollowsStep ==
    TypeOK /\ Control /\ Handles /\ Follows /\ [Next]_vars => Follows'
<1> SUFFICES ASSUME TypeOK, Control, Handles, Follows, [Next]_vars
             PROVE  Follows'
  OBVIOUS
<1>1. /\ step \in Nat /\ renames \in Nat /\ SourceDir \in Dirs
      /\ dname \in Names /\ msg.name \in Names /\ entry \in Layout
      /\ pc \notin {"close", "done"} =>
            step <= Len(plan) /\ Target \in Dirs /\ step \in Files
  BY DirTypes DEF TypeOK, Control, Layout
<1>2. ASSUME pc \notin {"close", "done"},
             UNCHANGED <<entry, msg, plan, step, src, dname, renames>>,
             pc' \in {"close", "undo"} \/ (pc \in Untouched /\ pc' \in Untouched)
                \/ <<pc, pc'>> \in {<<"rename", "write">>, <<"write", "sync">>,
                                    <<"sync", "unlink">>, <<"utimes", "setfile">>}
      PROVE  Follows'
  <2>1. UNCHANGED <<SourceDir, Target, SourceExists>>
    BY <1>2 DEF SourceDir, HandleDir, Target, Act, SourceExists
  <2>2. msg'.dir = SourceDir'
    BY <1>2, <2>1 DEF Follows
  <2>3. Located'
    BY <1>2, <2>1 DEF Follows, Located, Untouched, Pinned
  <2>4. QED
    BY <2>2, <2>3 DEF Follows
<1>3. CASE OpenDst \/ RefuseTemporary \/ StatSource
  BY <1>2, <1>3
  DEF OpenDst, RefuseTemporary, StatSource, Fail, fsVars, Untouched
<1>4. CASE CreateFile
  <2>1. pc = "create" /\ UNCHANGED <<msg, plan, step, src, renames>>
    BY <1>4 DEF CreateFile
  <2>2. CASE UNCHANGED <<entry, dname>> /\ pc' = "close"
    BY <1>2, <2>1, <2>2
  <2>3. ASSUME NEW n \in Names, entry[Target][n] = NoFile,
               entry' = Link(Target, n, step), dname' = n,
               pc' \in {"rename", "write"}
        PROVE  Follows'
    <3>1. \A x \in Dirs, y \in Names :
             entry'[x][y] = IF x = Target /\ y = n THEN step ELSE entry[x][y]
      BY <1>1, <2>1, <2>3, LinkEffect
    <3>2. UNCHANGED <<SourceDir, Target>>
      BY <2>1 DEF SourceDir, HandleDir, Target, Act
    <3>3. msg.dir = SourceDir /\ (Pinned(SourceDir, msg.name) => SourceExists)
      BY <2>1 DEF Follows, Located, Untouched
    <3>4. Pinned(SourceDir, msg.name) => ~(Target = SourceDir /\ n = msg.name)
      BY <2>3, <3>3 DEF SourceExists
    <3>5. entry'[Target][n] # NoFile
      BY <1>1, <2>1, <3>1 DEF Files, NoFile
    <3>6. Pinned(SourceDir, msg.name) => SourceExists'
      BY <1>1, <2>1, <3>1, <3>2, <3>3, <3>4 DEF SourceExists
    <3>7. Located'
      BY <2>1, <2>3, <3>2, <3>4, <3>5, <3>6 DEF Located, Pinned, Untouched
    <3>8. QED
      BY <2>1, <3>2, <3>3, <3>7 DEF Follows
  <2>4. \A i \in Ids :
           [id |-> i, seen |-> MsgFlags(SourceDir, Target, msg.seen)] \in Names
    BY DEF MsgFlags, Names, TypeOK
  <2>5. QED
    BY <1>4, <2>2, <2>3, <2>4 DEF CreateFile, Fail
<1>5. CASE RenameSource
  <2>1. pc = "rename" /\ UNCHANGED <<msg, plan, step, src, dname, renames>>
    BY <1>5 DEF RenameSource
  <2>2. CASE entry' = entry /\ pc' \in {"write", "undo"}
    BY <1>2, <2>1, <2>2
  <2>3. CASE /\ SourceExists /\ pc' = "utimes"
             /\ entry' = Rename(SourceDir, msg.name, Target, dname)
    <3>1. entry'[Target][dname] = entry[SourceDir][msg.name]
      BY <1>1, <2>1, <2>3, RenameEffect
    <3>2. UNCHANGED <<SourceDir, Target>>
      BY <2>1 DEF SourceDir, HandleDir, Target, Act
    <3>3. Located'
      BY <2>1, <2>3, <3>1, <3>2 DEF Located, Untouched, SourceExists
    <3>4. QED
      BY <2>1, <3>2, <3>3 DEF Follows
  <2>4. QED
    BY <1>5, <2>2, <2>3 DEF RenameSource
<1>6. CASE WriteText \/ SyncText
  BY <1>2, <1>6 DEF WriteText, SyncText, ctlVars
<1>7. CASE UnlinkSource
  <2>1. pc = "unlink" /\ UNCHANGED <<msg, plan, step, src, dname, renames>>
    BY <1>7 DEF UnlinkSource, ctlVars
  <2>2. CASE entry' = entry /\ pc' = "undo"
    BY <1>2, <2>1, <2>2
  <2>3. CASE /\ entry' = Unlink(SourceDir, msg.name)
             /\ pc' = IF Act.act = "move" THEN "utimes" ELSE "reopen"
    <3>1. \A x \in Dirs, y \in Names :
             entry'[x][y] = IF x = SourceDir /\ y = msg.name THEN NoFile
                            ELSE entry[x][y]
      BY <1>1, <2>3, UnlinkEffect
    <3>2. UNCHANGED <<SourceDir, Target>>
      BY <2>1 DEF SourceDir, HandleDir, Target, Act
    <3>3. Pinned(Target, dname) => entry'[Target][dname] # NoFile
      BY <1>1, <2>1, <3>1 DEF Follows, Located
    <3>4. pc' = "reopen" => Target = SourceDir
      BY <2>3 DEF Target
    <3>5. Located'
      BY <2>1, <2>3, <3>2, <3>3, <3>4 DEF Located, Untouched, Pinned
    <3>6. QED
      BY <2>1, <3>2, <3>5 DEF Follows
  <2>4. QED
    BY <1>7, <2>2, <2>3 DEF UnlinkSource
<1>8. CASE UndoCreate
  BY <1>8 DEF UndoCreate, Follows, Located, Untouched
<1>9. CASE RestoreTime
  BY <1>2, <1>9 DEF RestoreTime, Fail, fsVars
<1>10. CASE SetMoved
  <2>1. /\ pc = "setfile" /\ UNCHANGED <<entry, plan, dname, renames>>
        /\ Act.act = "move" /\ step <= Len(plan)
    BY <1>1, <1>10 DEF SetMoved, fsVars, Handles
  <2>2. CASE Advance /\ msg' = [msg EXCEPT !.dir = Target, !.name = dname]
    <3>1. SourceDir' = Target
      <4>1. CASE Target # SourceDir
        <5>1. src' = step /\ step # 0
          BY <1>10, <2>2, <4>1, <1>1, <2>1 DEF SetMoved, Advance, TypeOK
        <5>2. QED
          BY <2>1, <5>1 DEF SourceDir, HandleDir, Target, Act
      <4>2. CASE Target = SourceDir
        <5>1. src' = src
          BY <1>1, <1>10, <2>2, <4>2 DEF SetMoved, Advance
        <5>2. QED
          BY <2>1, <4>2, <5>1 DEF SourceDir, HandleDir
      <4>3. QED
        BY <4>1, <4>2
    <3>2. msg'.dir = Target /\ msg'.name = dname
      BY <2>2 DEF TypeOK
    <3>3. Pinned(Target, dname) => entry[Target][dname] # NoFile
      BY <2>1 DEF Follows, Located
    <3>4. QED
      BY <2>1, <2>2, <3>1, <3>2, <3>3, FollowsAdvance DEF Pinned
  <2>3. CASE Fail /\ UNCHANGED <<msg, src, step>>
    BY <1>2, <2>1, <2>3 DEF Fail
  <2>4. QED
    BY <1>10, <2>2, <2>3 DEF SetMoved
<1>11. CASE Reopen
  <2>1. /\ pc = "reopen" /\ UNCHANGED <<entry, plan, src, dname, renames>>
        /\ step <= Len(plan)
    BY <1>1, <1>11 DEF Reopen, fsVars, ctlVars
  <2>2. SourceDir' = SourceDir
    BY <2>1 DEF SourceDir, HandleDir
  <2>3. CASE /\ entry[SourceDir][dname] # NoFile /\ Advance
             /\ msg' = [msg EXCEPT !.dir = SourceDir, !.name = dname,
                                   !.fd = entry[SourceDir][dname]]
    <3>1. msg'.dir = SourceDir /\ msg'.name = dname
      BY <2>3 DEF TypeOK
    <3>2. Pinned(SourceDir, dname) => entry[SourceDir][dname] # NoFile
      BY <2>3
    <3>3. QED
      BY <2>1, <2>2, <2>3, <3>1, <3>2, FollowsAdvance DEF Pinned
  <2>4. CASE Fail /\ UNCHANGED <<msg, step>>
    BY <1>2, <2>1, <2>4 DEF Fail
  <2>5. QED
    BY <1>11, <2>3, <2>4 DEF Reopen
<1>12. CASE Discard
  <2>1. /\ pc = "discard" /\ UNCHANGED <<plan, msg, src, dname, renames>>
        /\ step <= Len(plan) /\ Act.act = "discard"
    BY <1>1, <1>12 DEF Discard, ctlVars, Control
  <2>2. CASE Advance
    <3>1. plan \in Plans /\ step \in 1 .. Len(plan)
      BY <2>1, DirTypes DEF TypeOK
    <3>2. step = Len(plan) /\ Len(plan) \in Nat
      BY <2>1, <3>1, PlanType DEF Act
    <3>3. pc' = "close"
      BY <2>2, <3>2 DEF Advance, Begin
    <3>4. QED
      BY <2>1, <2>2, <3>3, FollowsAdvance
  <2>3. CASE Fail /\ UNCHANGED <<entry, step>>
    BY <1>2, <2>1, <2>3 DEF Fail
  <2>4. QED
    BY <1>12, <2>2, <2>3 DEF Discard
<1>13. CASE Exec \/ Reject
  <2>1. /\ pc \in Untouched /\ pc \notin {"close", "done"}
        /\ UNCHANGED <<entry, plan, msg, src, dname, renames>>
        /\ step <= Len(plan)
    BY <1>1, <1>13 DEF Exec, Reject, fsVars, ctlVars, Untouched
  <2>2. CASE Advance
    <3>1. SourceDir' = SourceDir
      BY <2>1 DEF SourceDir, HandleDir
    <3>2. msg.dir = SourceDir /\ (Pinned(SourceDir, msg.name) => SourceExists)
      BY <2>1 DEF Follows, Located
    <3>3. QED
      BY <2>1, <2>2, <3>1, <3>2, FollowsAdvance DEF SourceExists, Pinned
  <2>3. CASE Fail /\ UNCHANGED step
    BY <1>2, <2>1, <2>3 DEF Fail
  <2>4. QED
    BY <1>13, <2>2, <2>3 DEF Exec, Reject
<1>14. CASE Close
  BY <1>14 DEF Close, Follows, Located, Untouched
<1>15. CASE MarkSeen
  <2>1. renames' # 0 /\ UNCHANGED <<pc, msg, plan, step, src, dname>>
    BY <1>1, <1>15 DEF MarkSeen, ctlVars
  <2>2. UNCHANGED <<SourceDir, Target>>
    BY <2>1 DEF SourceDir, HandleDir, Target, Act
  <2>3. ASSUME NEW x \in Dirs, NEW y \in Names, Pinned(x, y)',
               entry[x][y] # NoFile
        PROVE  Pinned(x, y) /\ entry'[x][y] # NoFile
    <3>1. x.sub = "cur" /\ y.seen
      BY <2>1, <2>3 DEF Pinned
    <3>2. entry'[x][y] # NoFile
      BY <1>1, <1>15, <2>3, <3>1, MarkKeepsSeen
    <3>3. QED
      BY <3>1, <3>2 DEF Pinned
  <2>4. \A x \in Dirs, y \in Names : Pinned(x, y)' => Pinned(x, y)
    BY <2>1 DEF Pinned
  <2>5. pc \notin {"close", "done"} => Located'
    BY <1>1, <2>1, <2>2, <2>3, <2>4 DEF Follows, Located, SourceExists
  <2>6. QED
    BY <2>1, <2>2, <2>5 DEF Follows, Located, Untouched
<1>16. CASE UNCHANGED vars
  BY <1>16 DEF vars, Follows, Located, SourceDir, HandleDir, Target, Act,
               SourceExists, Pinned
<1>17. QED
  BY <1>3, <1>4, <1>5, <1>6, <1>7, <1>8, <1>9, <1>10, <1>11, <1>12, <1>13,
     <1>14, <1>15, <1>16
  DEF Next, Mdsort, Terminated

\* At the start the message is where it was found.
LEMMA InitPlace == AtStart => Handles /\ Follows
<1> SUFFICES ASSUME AtStart PROVE Handles /\ Follows
  OBVIOUS
<1>1. /\ plan \in Plans /\ step = 1 /\ pc = Begin(plan, 1) /\ src = 0
      /\ 1 \in 1 .. Len(plan) + 1
  BY PlanType DEF AtStart, Ready
<1>2. Handles
  BY InitHandles
<1>3. PICK n \in Names, stdin \in Modes :
         /\ entry = [d \in Dirs |-> [m \in Names |->
                        IF d = SrcDir /\ m = n THEN 0 ELSE NoFile]]
         /\ msg = [dir |-> SrcDir, name |-> n, seen |-> n.seen, fd |-> 0,
                    stdin |-> stdin]
  BY DEF AtStart, Ready
<1>4. /\ msg.dir = SrcDir /\ SourceDir = SrcDir
      /\ entry[SrcDir][msg.name] # NoFile
  BY <1>1, <1>3, SrcDirAssumption DEF SourceDir, HandleDir, NoFile
<1>5. pc \in Untouched \cup {"close"}
  BY <1>1, BeginType DEF Untouched
<1>6. QED
  BY <1>2, <1>4, <1>5 DEF Follows, Located, Untouched, SourceExists

\* Between two actions the system calls of the next are relative to the
\* directory of the message's path and, unless a reader has renamed something,
\* the message's file is there under its name, however long the list and
\* whatever has failed.
THEOREM SourceIsMessage == Spec => []SourceFollowsMessage
<1>1. Init => Handles /\ Follows
  BY InitStart, InitPlace
<1>2. Follows => SourceFollowsMessage
  BY DEF Follows, Located, Untouched, Pinned, SourceFollowsMessage
<1>3. Spec => [](TypeOK /\ Control /\ Handles /\ Follows)
  BY InitStart, InitType, TypeStep, HandlesStep, FollowsStep, <1>1, PTL DEF Spec
<1>4. QED
  BY <1>2, <1>3, PTL

-----------------------------------------------------------------------------
\* The descriptor is of a file of an earlier action, whole, and edited if one
\* of them was label or add-header; the file about to become the message's has
\* been written, and its name is that of no other file.
WroteBefore == \E i \in 1 .. step - 1 : plan[i].act = "write"

Reads ==
    /\ pc \notin {"close", "done"} =>
          /\ msg.fd < step
          /\ text[msg.fd] \in Whole
          /\ WroteBefore => text[msg.fd] = "edited"
    /\ pc \in {"sync", "unlink", "reopen"} => text[step] = Written(plan)
    /\ pc = "reopen" => entry[SourceDir][dname] \in {NoFile, step}

\* Going on after an action that has not changed the descriptor's file, or has
\* opened the one it wrote.
LEMMA ReadsAdvance ==
    ASSUME TypeOK, step <= Len(plan), plan' = plan, Advance,
           pc' # "close" =>
              \/ /\ Reads /\ pc \notin {"close", "done"}
                 /\ UNCHANGED text /\ msg'.fd = msg.fd
                 /\ Act.act # "write"
              \/ /\ msg'.fd = step
                 /\ text'[step] = Written(plan)
    PROVE  Reads'
<1>1. step \in Nat /\ Len(plan) \in Nat /\ pc' \in Untouched \cup {"close"}
  BY AdvanceType, DirTypes DEF TypeOK
<1>2. step' = step + 1
  BY DEF Advance
<1>3. CASE pc' = "close"
  BY <1>3 DEF Reads
<1>4. CASE /\ Reads /\ pc \notin {"close", "done"}
           /\ UNCHANGED text /\ msg'.fd = msg.fd
           /\ Act.act # "write"
  <2>1. WroteBefore' => WroteBefore
    <3>1. ASSUME NEW i \in 1 .. step' - 1, plan[i].act = "write"
          PROVE  i \in 1 .. step - 1
      <4>1. i # step
        BY <1>4, <3>1 DEF Act
      <4>2. QED
        BY <1>1, <1>2, <4>1
    <3>2. QED
      BY <3>1 DEF WroteBefore
  <2>2. msg'.fd < step'
    BY <1>1, <1>2, <1>4 DEF Reads, TypeOK, Files
  <2>3. QED
    BY <1>1, <1>4, <2>1, <2>2 DEF Reads, Untouched
<1>5. CASE msg'.fd = step /\ text'[step] = Written(plan)
  <2>1. WroteBefore' => Written(plan) = "edited"
    <3>1. ASSUME NEW i \in 1 .. step' - 1, plan[i].act = "write"
          PROVE  \E j \in 1 .. Len(plan) : plan[j].act = "write"
      BY <1>1, <1>2, <3>1
    <3>2. QED
      BY <3>1 DEF WroteBefore, Written
  <2>2. Written(plan) \in Whole
    BY DEF Written, Whole
  <2>3. QED
    BY <1>1, <1>2, <1>5, <2>1, <2>2 DEF Reads, Untouched
<1>6. QED
  BY <1>3, <1>4, <1>5

\* Every step keeps what the descriptor reads.
LEMMA ReadsStep ==
    IInv /\ Handles /\ Follows /\ Reads /\ [Next]_vars => Reads'
<1> SUFFICES ASSUME IInv, Handles, Follows, Reads, [Next]_vars
             PROVE  Reads'
  OBVIOUS
<1>1. /\ TypeOK /\ step \in Nat /\ msg.fd \in Files /\ SourceDir \in Dirs
      /\ dname \in Names /\ msg.name \in Names /\ entry \in Layout
      /\ text \in [Files -> Text]
      /\ pc \notin {"close", "done"} => step <= Len(plan) /\ step \in Files
  BY DirTypes DEF IInv, TypeOK, Control, Layout
<1>2. CASE OpenDst \/ RefuseTemporary \/ StatSource \/ RestoreTime
  BY <1>2 DEF OpenDst, RefuseTemporary, StatSource, RestoreTime, Fail, fsVars,
              Reads, WroteBefore
<1>3. CASE CreateFile \/ WriteText
  <2>1. /\ pc \notin {"close", "done"} /\ UNCHANGED <<msg, plan, step>>
        /\ \E t \in Text : text' = text \/ text' = [text EXCEPT ![step] = t]
        /\ pc' \in {"close", "rename", "write", "sync", "undo"}
        /\ pc' = "sync" => text' = [text EXCEPT ![step] = Written(plan)]
    BY <1>3 DEF CreateFile, WriteText, Fail, Text, Written
  <2>2. text'[msg.fd] = text[msg.fd]
    BY <1>1, <2>1 DEF Reads
  <2>3. pc' = "sync" => text'[step] = Written(plan)
    BY <1>1, <2>1
  <2>4. QED
    BY <2>1, <2>2, <2>3 DEF Reads, WroteBefore
<1>4. CASE RenameSource
  BY <1>4 DEF RenameSource, Reads, WroteBefore
<1>5. CASE SyncText \/ UndoCreate
  BY <1>5 DEF SyncText, UndoCreate, ctlVars, Reads, WroteBefore
<1>6. CASE UnlinkSource
  <2>1. /\ pc = "unlink" /\ pc' \in {"utimes", "reopen", "undo"}
        /\ UNCHANGED <<text, msg, plan, step, src, dname>>
    BY <1>6 DEF UnlinkSource, ctlVars
  <2>2. ASSUME pc' = "reopen"
        PROVE  entry'[SourceDir][dname] \in {NoFile, step}
    <3>1. /\ entry' = Unlink(SourceDir, msg.name)
          /\ Act.act # "move" /\ Target = SourceDir
      BY <1>6, <2>1, <2>2 DEF UnlinkSource, Target
    <3>2. entry[SourceDir][dname] \in {NoFile, step}
      BY <2>1, <3>1 DEF IInv, Owned, Busy
    <3>3. entry'[SourceDir][dname] = IF dname = msg.name THEN NoFile
                                     ELSE entry[SourceDir][dname]
      BY <1>1, <3>1, UnlinkEffect
    <3>4. QED
      BY <3>2, <3>3
  <2>3. SourceDir' = SourceDir
    BY <2>1 DEF SourceDir, HandleDir
  <2>4. QED
    BY <2>1, <2>2, <2>3 DEF Reads, WroteBefore
<1>7. CASE SetMoved
  <2>1. /\ pc = "setfile" /\ UNCHANGED <<text, plan>> /\ step <= Len(plan)
        /\ Act.act = "move" /\ msg'.fd = msg.fd
    BY <1>1, <1>7 DEF SetMoved, fsVars, Handles, TypeOK
  <2>2. CASE Advance
    BY <1>1, <2>1, <2>2, ReadsAdvance
  <2>3. CASE Fail
    BY <2>3 DEF Fail, Reads
  <2>4. QED
    BY <1>7, <2>2, <2>3 DEF SetMoved
<1>8. CASE Reopen
  <2>1. /\ pc = "reopen" /\ UNCHANGED <<text, plan>> /\ step <= Len(plan)
        /\ text[step] = Written(plan)
    BY <1>1, <1>8 DEF Reopen, fsVars, Reads
  <2>2. CASE /\ entry[SourceDir][dname] # NoFile /\ Advance
             /\ msg' = [msg EXCEPT !.dir = SourceDir, !.name = dname,
                                   !.fd = entry[SourceDir][dname]]
    <3>1. msg'.fd = step
      BY <1>1, <2>1, <2>2 DEF Reads, TypeOK
    <3>2. QED
      BY <1>1, <2>1, <2>2, <3>1, ReadsAdvance
  <2>3. CASE Fail
    BY <2>3 DEF Fail, Reads
  <2>4. QED
    BY <1>8, <2>2, <2>3 DEF Reopen
<1>9. CASE Discard \/ Exec \/ Reject
  <2>1. /\ pc \in {"discard", "exec", "reject"} /\ Act.act # "write"
        /\ UNCHANGED <<text, msg, plan>> /\ step <= Len(plan)
    BY <1>1, <1>9 DEF Discard, Exec, Reject, fsVars, Handles
  <2>2. CASE Advance
    BY <1>1, <2>1, <2>2, ReadsAdvance
  <2>3. CASE Fail
    BY <2>3 DEF Fail, Reads
  <2>4. QED
    BY <1>9, <2>2, <2>3 DEF Discard, Exec, Reject
<1>10. CASE Close
  BY <1>10 DEF Close, Reads
<1>11. CASE MarkSeen
  <2>1. UNCHANGED <<text, msg, plan, step, src, dname, pc>>
    BY <1>11 DEF MarkSeen, ctlVars
  <2>2. SourceDir' = SourceDir
    BY <2>1 DEF SourceDir, HandleDir
  <2>3. ASSUME pc = "reopen", entry'[SourceDir][dname] # NoFile
        PROVE  entry'[SourceDir][dname] = entry[SourceDir][dname]
    <3>1. PICK d \in Dirs, n \in Names :
             /\ entry[[d EXCEPT !.sub = "cur"]][[n EXCEPT !.seen = TRUE]]
                   = NoFile
             /\ entry' = Rename(d, n, [d EXCEPT !.sub = "cur"],
                                      [n EXCEPT !.seen = TRUE])
      BY <1>11 DEF MarkSeen
    <3> DEFINE dd == [d EXCEPT !.sub = "cur"]
               nn == [n EXCEPT !.seen = TRUE]
    <3>2. /\ dd \in Dirs /\ nn \in Names /\ dd.sub = "cur" /\ nn.seen = TRUE
          /\ entry[dd][nn] = NoFile /\ entry' = Rename(d, n, dd, nn)
      BY <3>1 DEF Dirs, Names, Subdirs
    <3> HIDE DEF dd, nn
    <3>3. entry'[SourceDir][dname] =
             IF SourceDir = dd /\ dname = nn THEN entry[d][n]
             ELSE IF SourceDir = d /\ dname = n THEN NoFile
             ELSE entry[SourceDir][dname]
      BY <1>1, <3>2, RenameEffect
    <3>4. ~(SourceDir = dd /\ dname = nn)
      BY <2>3, <3>2 DEF Follows, Located, Pinned
    <3>5. QED
      BY <2>3, <3>3, <3>4
  <2>4. QED
    BY <2>1, <2>2, <2>3 DEF Reads, WroteBefore
<1>12. CASE UNCHANGED vars
  BY <1>12 DEF vars, Reads, WroteBefore, SourceDir, HandleDir
<1>13. QED
  BY <1>2, <1>3, <1>4, <1>5, <1>6, <1>7, <1>8, <1>9, <1>10, <1>11, <1>12
  DEF Next, Mdsort, Terminated

\* At the start the descriptor is of the message as found.
LEMMA InitReads == AtStart => Reads
<1> SUFFICES ASSUME AtStart PROVE Reads
  OBVIOUS
<1>1. /\ step = 1 /\ text[0] = "orig" /\ msg.fd = 0
  BY BoundsAssumption DEF AtStart, Ready, Files
<1>2. pc \in Untouched \cup {"close"}
  <2>1. plan \in Plans /\ pc = Begin(plan, 1)
    BY DEF AtStart, Ready
  <2>2. QED
    BY <2>1, PlanType, BeginType DEF Untouched
<1>3. ~WroteBefore
  BY <1>1 DEF WroteBefore
<1>4. QED
  BY <1>1, <1>2, <1>3 DEF Reads, Whole, Untouched

\* What an exec action's command reads is the whole message, with the headers
\* of every label and add-header action before it, whatever a reader renames
\* and however many actions moved or rewrote the file in between.
THEOREM CommandReadsMessage == Spec => []ExecReadsCurrent
<1>1. Init => Handles /\ Follows
  BY InitStart, InitPlace
<1>2. Reads => ExecReadsCurrent
  BY DEF Reads, WroteBefore, ExecReadsCurrent
<1>3. IInv => TypeOK /\ Control
  BY DEF IInv
<1>4. Spec => [](IInv /\ Handles /\ Follows /\ Reads)
  BY <1>1, <1>3, InitStart, InitReads, InitInv, InvStep, HandlesStep, FollowsStep,
     ReadsStep, PTL DEF Spec
<1>5. QED
  BY <1>2, <1>4, PTL

(***************************************************************************)
(* Proofs of what a delivery leaves behind when no reader interferes: all  *)
(* that was asked for if it reports success, a single file if at most one  *)
(* system call failed; and that it does so one action at a time.  Readers  *)
(* are not excluded: every statement is about the states before the first  *)
(* rename.                                                                 *)
(***************************************************************************)

\* The directories hold one file, called n in d, or that one and another one.
Single(d, n) ==
    \A x \in Dirs, y \in Names : entry[x][y] # NoFile <=> x = d /\ y = n
Pair(d, n, dd, nn) ==
    \A x \in Dirs, y \in Names :
        entry[x][y] # NoFile <=> (x = d /\ y = n) \/ (x = dd /\ y = nn)
Nothing == \A x \in Dirs, y \in Names : entry[x][y] = NoFile

Over == {"close", "done"}

\* Which files there are at each point: the message's, and from its creation on
\* the action's own, in another place and another file.
Exact ==
    /\ pc \in Untouched => Single(SourceDir, msg.name)
    /\ pc \in Busy =>
          /\ Pair(SourceDir, msg.name, Target, dname)
          /\ ~(Target = SourceDir /\ dname = msg.name)
          /\ entry[Target][dname] = step /\ entry[SourceDir][msg.name] # step
    /\ pc \in {"utimes", "setfile", "reopen"} =>
          Single(Target, dname) /\ ~(Target = SourceDir /\ dname = msg.name)
    /\ pc \in Over =>
          /\ Discarded => Nothing
          /\ ~Discarded /\ ~error => Single(SourceDir, msg.name)
          /\ ~Discarded /\ faults <= 1 =>
                \E d \in Dirs, n \in Names : Single(d, n)

\* Errors lead to the end and, where a file is to be undone, come from a system
\* call that failed; without one the list is carried out to its end.
Outcome ==
    /\ error => pc \in {"undo"} \cup Over
    /\ pc = "undo" => error
    /\ pc \in Over /\ ~error => step = Len(plan) + 1
    /\ rv = "rejected" <=> \E i \in 1 .. step - 1 : plan[i].act = "reject"

\* File f is the message as far as it has come: on disk and, once an action
\* has written it, with the headers asked for.
IsMessage(f) ==
    /\ f \in durable
    /\ text[f] \in {"orig", Written(plan)}
    /\ WroteBefore => text[f] = Written(plan)

Content ==
    /\ pc \in Untouched \cup Busy => IsMessage(entry[SourceDir][msg.name])
    /\ pc \in {"utimes", "setfile", "reopen"} => IsMessage(entry[Target][dname])
    /\ pc \in Over /\ ~error /\ ~Discarded =>
          IsMessage(entry[SourceDir][msg.name])

\* The source is where the last move so far went.
Placed ==
    \/ SourceDir = SrcDir /\ \A i \in 1 .. step - 1 : plan[i].act # "move"
    \/ \E i \in 1 .. step - 1 :
          /\ plan[i].act = "move" /\ plan[i].dir = SourceDir
          /\ \A j \in i + 1 .. step - 1 : plan[j].act # "move"

Calm == Exact /\ Content /\ (pc = "undo" => faults >= 1)
Quiet == renames = 0 => Calm

-----------------------------------------------------------------------------
\* What DeliveryProofs shows of every state.
Situation == IInv /\ Handles /\ Follows /\ Reads

LEMMA SituationHolds ==
    /\ AtStart => Situation
    /\ Situation /\ [Next]_vars => Situation'
<1>1. AtStart => Reads
  BY InitReads
<1>2. IInv => TypeOK /\ Control
  BY DEF IInv
<1>3. QED
  BY <1>1, <1>2, InitInv, InitPlace, InvStep, HandlesStep, FollowsStep, ReadsStep
  DEF Situation

\* The facts about types that the steps need.
LEMMA Types ==
    ASSUME Situation
    PROVE  /\ TypeOK /\ step \in Nat /\ Len(plan) \in Nat /\ plan \in Plans
           /\ SourceDir \in Dirs /\ msg.name \in Names /\ dname \in Names
           /\ entry \in Layout /\ text \in [Files -> Text]
           /\ faults \in Nat /\ renames \in Nat
           /\ pc \notin Over => /\ step \in 1 .. Len(plan) /\ step \in Files
                                /\ Target \in Dirs /\ ~Discarded
<1>1. TypeOK /\ Control
  BY DEF Situation, IInv
<1>2. step \in 1 .. Len(plan) + 1 /\ Len(plan) \in Nat
  BY <1>1, DirTypes DEF TypeOK
<1>3. pc \notin Over => step <= Len(plan)
  BY <1>1 DEF Control, Over
<1>4. pc \notin Over => ~Discarded
  BY <1>2, <1>3 DEF Discarded
<1>5. QED
  BY <1>1, <1>2, <1>3, <1>4, DirTypes DEF TypeOK, Layout

\* Where the loop goes on: at the next action, or at the end of the list.
LEMMA AdvanceFacts ==
    ASSUME Situation, pc \notin Over, plan' = plan, Advance
    PROVE  /\ step' = step + 1 /\ step' \in 1 .. Len(plan) + 1
           /\ pc' \in Untouched \cup {"close"}
           /\ pc' = "close" => step' = Len(plan) + 1
<1>1. plan \in Plans /\ step \in 1 .. Len(plan) /\ Len(plan) \in Nat
  BY Types
<1>2. step + 1 \in 1 .. Len(plan) + 1
  BY <1>1
<1>3. pc' = Begin(plan, step + 1) /\ step' = step + 1
  BY DEF Advance
<1>4. QED
  BY <1>1, <1>2, <1>3, BeginType DEF Untouched

\* Whether an action of a kind comes before the next step: one that the action
\* under way is not of has to come before it.
LEMMA EarlierActions ==
    ASSUME NEW p \in Plans, NEW k \in 1 .. Len(p), NEW verb
    PROVE  (\E i \in 1 .. k : p[i].act = verb) <=>
               p[k].act = verb \/ \E i \in 1 .. k - 1 : p[i].act = verb
<1>1. k \in Nat /\ k >= 1
  BY PlanType
<1>2. \A i \in 1 .. k : i = k \/ i \in 1 .. k - 1
  BY <1>1
<1>3. k \in 1 .. k /\ \A i \in 1 .. k - 1 : i \in 1 .. k
  BY <1>1
<1>4. QED
  BY <1>2, <1>3

-----------------------------------------------------------------------------
\* The steps that leave the list, and those that end it.
LEMMA OutcomeStep == Situation /\ Outcome /\ [Next]_vars => Outcome'
<1> SUFFICES ASSUME Situation, Outcome, [Next]_vars PROVE Outcome'
  OBVIOUS
<1>1. /\ plan \in Plans /\ Len(plan) \in Nat /\ step \in Nat
      /\ pc \notin Over => step \in 1 .. Len(plan)
  BY Types
<1>2. ASSUME UNCHANGED <<plan, step, rv>>,
             error' => pc' \in {"undo"} \cup Over,
             pc' \in Over /\ ~error' => pc \in Over /\ ~error,
             pc' = "undo" => error'
      PROVE  Outcome'
  BY <1>2 DEF Outcome
<1>3. CASE \/ OpenDst \/ RefuseTemporary \/ StatSource \/ CreateFile
           \/ RenameSource \/ WriteText \/ SyncText \/ UnlinkSource
  <2>1. ~error /\ UNCHANGED <<plan, step, rv>>
    BY <1>3 DEF Outcome, OpenDst, RefuseTemporary, StatSource, CreateFile,
       RenameSource, WriteText, SyncText, UnlinkSource, Over, ctlVars
  <2>2. \/ error' = error /\ pc' \notin {"undo"} \cup Over
        \/ error' /\ pc' \in {"undo", "close"}
    BY <1>3 DEF OpenDst, RefuseTemporary, StatSource, CreateFile, RenameSource,
       WriteText, SyncText, UnlinkSource, Over, Fail
  <2>3. QED
    BY <1>2, <2>1, <2>2 DEF Over
<1>4. CASE UndoCreate \/ RestoreTime \/ Close
  BY <1>2, <1>4 DEF UndoCreate, RestoreTime, Close, Over, Outcome, Fail
<1>5. CASE SetMoved \/ Reopen \/ Discard \/ Exec \/ Reject
  <2>1. plan' = plan /\ ~error /\ pc \notin Over
    BY <1>5 DEF Outcome, SetMoved, Reopen, Discard, Exec, Reject, Over
  <2>2. CASE Fail /\ step' = step /\ rv' = rv
    BY <1>2, <2>1, <2>2 DEF Fail, Over
  <2>3. CASE Advance /\ error' = error
    <3>1. /\ step' = step + 1 /\ pc' \in Untouched \cup {"close"}
          /\ pc' = "close" => step' = Len(plan) + 1
      BY <2>1, <2>3, AdvanceFacts
    <3>2. rv' = IF Act.act = "reject" THEN "rejected" ELSE rv
      BY <1>5, <2>1 DEF SetMoved, Reopen, Discard, Exec, Reject, Handles,
         Situation
    <3>3. (\E i \in 1 .. step : plan[i].act = "reject") <=>
             Act.act = "reject"
             \/ \E i \in 1 .. step - 1 : plan[i].act = "reject"
      BY <1>1, <2>1, EarlierActions DEF Act
    <3>4. rv' = "rejected" <=> \E i \in 1 .. step' - 1 : plan'[i].act = "reject"
      BY <1>1, <2>1, <3>1, <3>2, <3>3 DEF Outcome
    <3>5. QED
      BY <2>1, <2>3, <3>1, <3>4 DEF Outcome, Over, Untouched
  <2>4. QED
    BY <1>5, <2>2, <2>3 DEF SetMoved, Reopen, Discard, Exec, Reject, Fail, ctlVars
<1>6. CASE MarkSeen
  BY <1>2, <1>6 DEF MarkSeen, Outcome
<1>7. CASE UNCHANGED vars
  BY <1>2, <1>7 DEF vars, Outcome
<1>8. QED
  BY <1>3, <1>4, <1>5, <1>6, <1>7 DEF Next, Mdsort, Terminated

\* Where the source is changes when a move is over, and only then.
LEMMA PlacedAdvance ==
    ASSUME Situation, Placed, pc \notin Over, plan' = plan, step' = step + 1,
           Act.act = "move" => SourceDir' = Act.dir,
           Act.act # "move" => SourceDir' = SourceDir
    PROVE  Placed'
<1>1. plan \in Plans /\ step \in 1 .. Len(plan) /\ step \in Nat
  BY Types
<1>2. step' - 1 = step /\ step \in 1 .. step
  BY <1>1
<1>3. CASE Act.act = "move"
  <2>1. plan'[step].act = "move" /\ plan'[step].dir = SourceDir'
    BY <1>3 DEF Act
  <2>2. \A j \in step + 1 .. step' - 1 : plan'[j].act # "move"
    BY <1>1, <1>2
  <2>3. QED
    BY <1>2, <2>1, <2>2 DEF Placed
<1>4. CASE Act.act # "move"
  <2>1. CASE SourceDir = SrcDir /\ \A i \in 1 .. step - 1 : plan[i].act # "move"
    <3>1. ASSUME NEW i \in 1 .. step PROVE plan[i].act # "move"
      <4>1. i = step \/ i \in 1 .. step - 1
        BY <1>1
      <4>2. QED
        BY <1>4, <2>1, <4>1 DEF Act
    <3>2. QED
      BY <1>2, <1>4, <2>1, <3>1 DEF Placed
  <2>2. CASE \E i \in 1 .. step - 1 :
                /\ plan[i].act = "move" /\ plan[i].dir = SourceDir
                /\ \A j \in i + 1 .. step - 1 : plan[j].act # "move"
    <3>1. PICK i \in 1 .. step - 1 :
                /\ plan[i].act = "move" /\ plan[i].dir = SourceDir
                /\ \A j \in i + 1 .. step - 1 : plan[j].act # "move"
      BY <2>2
    <3>2. ASSUME NEW j \in i + 1 .. step PROVE plan[j].act # "move"
      <4>1. j = step \/ j \in i + 1 .. step - 1
        BY <1>1, <3>1
      <4>2. QED
        BY <1>4, <3>1, <4>1 DEF Act
    <3>3. i \in 1 .. step
      BY <1>1, <3>1
    <3>4. QED
      BY <1>2, <1>4, <3>1, <3>2, <3>3 DEF Placed
  <2>3. QED
    BY <2>1, <2>2 DEF Placed
<1>5. QED
  BY <1>3, <1>4

\* The source follows the moves.
LEMMA PlacedStep == Situation /\ Placed /\ [Next]_vars => Placed'
<1> SUFFICES ASSUME Situation, Placed, [Next]_vars PROVE Placed'
  OBVIOUS
<1>1. ASSUME UNCHANGED <<plan, step, src>> PROVE Placed'
  BY <1>1 DEF Placed, SourceDir, HandleDir
<1>2. CASE SetMoved
  <2>1. /\ plan' = plan /\ pc = "setfile" /\ Act.act = "move" /\ Target = Act.dir
        /\ step \in 1 .. Len(plan)
    BY <1>2, Types DEF SetMoved, Situation, Handles, Target, Over
  <2>2. CASE Advance
    <3>1. SourceDir' = Act.dir
      <4>1. CASE Target # SourceDir
        BY <1>2, <2>1, <2>2, <4>1 DEF SetMoved, Advance, SourceDir, HandleDir, Act
      <4>2. CASE Target = SourceDir
        BY <1>2, <2>1, <2>2, <4>2 DEF SetMoved, Advance, SourceDir, HandleDir
      <4>3. QED
        BY <4>1, <4>2
    <3>2. QED
      BY <2>1, <2>2, <3>1, PlacedAdvance DEF Advance, Over
  <2>3. CASE Fail /\ UNCHANGED <<src, step>>
    BY <1>1, <2>1, <2>3
  <2>4. QED
    BY <1>2, <2>2, <2>3 DEF SetMoved
<1>3. CASE Reopen \/ Discard \/ Exec \/ Reject
  <2>1. /\ UNCHANGED <<src, plan>> /\ pc \notin Over /\ Act.act # "move"
        /\ SourceDir' = SourceDir
    BY <1>3 DEF Reopen, Discard, Exec, Reject, Situation, Handles, Over, ctlVars,
       SourceDir, HandleDir
  <2>2. CASE Advance
    BY <2>1, <2>2, PlacedAdvance DEF Advance
  <2>3. CASE step' = step
    BY <1>1, <2>1, <2>3
  <2>4. QED
    BY <1>3, <2>2, <2>3 DEF Reopen, Discard, Exec, Reject
<1>4. CASE ~(SetMoved \/ Reopen \/ Discard \/ Exec \/ Reject)
  <2>1. UNCHANGED <<plan, step, src>>
    BY <1>4 DEF Next, Mdsort, Terminated, vars, ctlVars, OpenDst, RefuseTemporary,
       StatSource, CreateFile, RenameSource, WriteText, SyncText, UnlinkSource,
       UndoCreate, RestoreTime, Close, MarkSeen
  <2>2. QED
    BY <1>1, <2>1
<1>5. QED
  BY <1>2, <1>3, <1>4

-----------------------------------------------------------------------------
\* An action that is not label or add-header adds no header.
LEMMA WroteSame ==
    ASSUME Situation, pc \notin Over, plan' = plan, step' = step + 1,
           Act.act # "write"
    PROVE  WroteBefore' <=> WroteBefore
<1>1. plan \in Plans /\ step \in 1 .. Len(plan) /\ step' - 1 = step
  BY Types
<1>2. (\E i \in 1 .. step : plan[i].act = "write") <=> WroteBefore
  BY <1>1, EarlierActions DEF Act, WroteBefore
<1>3. QED
  BY <1>1, <1>2 DEF WroteBefore

\* The steps that change no directory and not the message either.
LEMMA CalmSame ==
    ASSUME Situation, Calm,
           UNCHANGED <<entry, text, msg, plan, step, src, dname>>,
           durable \subseteq durable',
           \/ pc \in Untouched /\ pc' \in Untouched
           \/ pc \in Busy /\ pc' \in Busy /\ (pc' = "undo" => faults' >= 1)
           \/ pc = "utimes" /\ pc' = "setfile"
           \/ /\ pc \in Untouched \cup {"utimes", "setfile", "reopen"}
              /\ pc' = "close" /\ error'
           \/ /\ pc \in Over /\ pc' \in Over /\ UNCHANGED <<error, faults>>
    PROVE  Calm'
<1>1. /\ SourceDir' = SourceDir /\ Target' = Target
      /\ Discarded' <=> Discarded
      /\ \A d, n : Single(d, n)' <=> Single(d, n)
      /\ \A d, n, dd, nn : Pair(d, n, dd, nn)' <=> Pair(d, n, dd, nn)
      /\ Nothing' <=> Nothing
      /\ \A f : IsMessage(f) => IsMessage(f)'
  BY DEF SourceDir, HandleDir, Target, Act, Discarded, Single, Pair, Nothing,
     IsMessage, WroteBefore
<1>2. /\ SourceDir \in Dirs /\ msg.name \in Names /\ dname \in Names
      /\ pc \notin Over => Target \in Dirs /\ ~Discarded
  BY Types
<1>3. CASE pc \in Untouched /\ pc' \in Untouched
  BY <1>1, <1>3 DEF Calm, Exact, Content, Untouched, Busy, Over
<1>4. CASE pc \in Busy /\ pc' \in Busy /\ (pc' = "undo" => faults' >= 1)
  BY <1>1, <1>4 DEF Calm, Exact, Content, Untouched, Busy, Over
<1>5. CASE pc = "utimes" /\ pc' = "setfile"
  BY <1>1, <1>5 DEF Calm, Exact, Content, Untouched, Busy, Over
<1>6. CASE /\ pc \in Untouched \cup {"utimes", "setfile", "reopen"}
           /\ pc' = "close" /\ error'
  <2>1. \E d \in Dirs, n \in Names : Single(d, n)'
    BY <1>1, <1>2, <1>6 DEF Calm, Exact, Untouched, Over
  <2>2. ~Discarded'
    BY <1>1, <1>2, <1>6 DEF Untouched, Over
  <2>3. QED
    BY <1>6, <2>1, <2>2 DEF Calm, Exact, Content, Untouched, Busy, Over
<1>7. CASE pc \in Over /\ pc' \in Over /\ UNCHANGED <<error, faults>>
  BY <1>1, <1>7 DEF Calm, Exact, Content, Untouched, Busy, Over
<1>8. QED
  BY <1>3, <1>4, <1>5, <1>6, <1>7

\* An action that is done leaves the message, the only file, at its path.
LEMMA CalmAdvance ==
    ASSUME Situation, pc \notin Over, plan' = plan, Advance,
           Act.act # "discard", SourceDir' \in Dirs, msg'.name \in Names,
           Single(SourceDir, msg.name)',
           IsMessage(entry[SourceDir][msg.name])'
    PROVE  Calm'
<1>1. /\ step' = step + 1 /\ pc' \in Untouched \cup {"close"}
  BY AdvanceFacts
<1>2. plan \in Plans /\ step \in 1 .. Len(plan) /\ Len(plan) \in Nat
  BY Types
<1>3. ~Discarded'
  BY <1>1, <1>2 DEF Discarded, Act
<1>4. QED
  BY <1>1, <1>3 DEF Calm, Exact, Content, Untouched, Busy, Over

\* The file an action creates is another one, and its name is free.
LEMMA CalmCreate ==
    ASSUME Situation, Calm, CreateFile
    PROVE  Calm'
<1>1. /\ step \in Files /\ Target \in Dirs /\ SourceDir \in Dirs
      /\ msg.name \in Names /\ entry \in Layout /\ text \in [Files -> Text]
      /\ pc = "create" /\ plan' = plan /\ step' = step /\ src' = src
      /\ msg' = msg /\ durable' = durable
  BY Types DEF CreateFile, Over
<1>2. SourceDir' = SourceDir /\ Target' = Target
  BY <1>1 DEF SourceDir, HandleDir, Target, Act
<1> DEFINE m == entry[SourceDir][msg.name]
<1>3. Single(SourceDir, msg.name) /\ IsMessage(m) /\ m # NoFile
  BY <1>1 DEF Calm, Exact, Content, Untouched, Busy, Single
<1>4. CASE Fail /\ UNCHANGED <<entry, text, dname>>
  BY <1>1, <1>4, CalmSame DEF Fail, Untouched
<1>5. ASSUME NEW n \in Names, entry[Target][n] = NoFile,
             entry' = Link(Target, n, step), dname' = n,
             text' = [text EXCEPT ![step] = "empty"],
             pc' \in {"rename", "write"}
      PROVE  Calm'
  <2>1. m # step
    <3>1. text[step] = "none"
      BY <1>1 DEF Situation, IInv, Fresh, Untouched
    <3>2. text[m] # "none"
      BY <1>3 DEF IsMessage, Written
    <3>3. QED
      BY <3>1, <3>2
  <2>2. \A x \in Dirs, y \in Names :
           entry'[x][y] = IF x = Target /\ y = n THEN step ELSE entry[x][y]
    BY <1>1, <1>5, LinkEffect
  <2>3. step # NoFile
    BY <1>1 DEF Files, NoFile
  <2>4. ~(Target = SourceDir /\ n = msg.name)
    BY <1>3, <1>5
  <2>5. entry'[SourceDir][msg.name] = m /\ entry'[Target][n] = step
    BY <1>1, <1>5, <2>2, <2>4
  <2>6. Pair(SourceDir, msg.name, Target, dname)'
    BY <1>1, <1>2, <1>3, <1>5, <2>2, <2>3 DEF Pair, Single
  <2>7. IsMessage(entry[SourceDir][msg.name])'
    <3>1. text'[m] = text[m]
      BY <1>1, <1>3, <1>5, <2>1 DEF Layout, IsMessage
    <3>2. entry'[SourceDir'][msg'.name] = m
      BY <1>1, <1>2, <2>5
    <3>3. QED
      BY <1>1, <1>3, <3>1, <3>2 DEF IsMessage, WroteBefore
  <2>8. /\ entry'[Target'][dname'] = step'
        /\ entry'[SourceDir'][msg'.name] # step'
        /\ ~(Target' = SourceDir' /\ dname' = msg'.name)
    BY <1>1, <1>2, <1>5, <2>1, <2>4, <2>5
  <2>9. QED
    BY <1>5, <2>6, <2>7, <2>8 DEF Calm, Exact, Content, Untouched, Busy, Over
<1>6. \A i \in Ids : [id |-> i, seen |-> MsgFlags(SourceDir, Target, msg.seen)]
                      \in Names
  BY DEF MsgFlags, Names, Situation, IInv, TypeOK
<1>7. QED
  BY <1>4, <1>5, <1>6 DEF CreateFile, Fail

\* What is in the directories while an action has its own file.
LEMMA BusyLayout ==
    ASSUME Situation, Calm, pc \in Busy
    PROVE  /\ Target \in Dirs /\ SourceDir \in Dirs /\ step \in Files
           /\ msg.name \in Names /\ dname \in Names /\ entry \in Layout
           /\ text \in [Files -> Text] /\ faults \in Nat /\ ~Discarded
           /\ Pair(SourceDir, msg.name, Target, dname)
           /\ ~(Target = SourceDir /\ dname = msg.name)
           /\ entry[Target][dname] = step /\ step # NoFile /\ SourceExists
           /\ entry[SourceDir][msg.name] # step
           /\ IsMessage(entry[SourceDir][msg.name])
<1>1. pc \notin Over
  BY DEF Busy, Over
<1>2. /\ Target \in Dirs /\ SourceDir \in Dirs /\ step \in Files
      /\ msg.name \in Names /\ dname \in Names /\ entry \in Layout
      /\ text \in [Files -> Text] /\ faults \in Nat /\ ~Discarded
  BY <1>1, Types
<1>3. /\ Pair(SourceDir, msg.name, Target, dname)
      /\ ~(Target = SourceDir /\ dname = msg.name)
      /\ entry[Target][dname] = step
      /\ entry[SourceDir][msg.name] # step
      /\ IsMessage(entry[SourceDir][msg.name])
  BY DEF Calm, Exact, Content
<1>4. SourceExists /\ step # NoFile
  BY <1>2, <1>3 DEF Pair, SourceExists, Files, NoFile
<1>5. QED
  BY <1>2, <1>3, <1>4

\* From the rename on, the file of the action is the message.
LEMMA CalmRename ==
    ASSUME Situation, Calm, RenameSource
    PROVE  Calm'
<1>1. /\ pc = "rename" /\ pc \in Busy /\ plan' = plan /\ step' = step
      /\ src' = src /\ msg' = msg /\ durable' = durable /\ text' = text
      /\ dname' = dname
  BY DEF RenameSource, Busy
<1>2. SourceDir' = SourceDir /\ Target' = Target
  BY <1>1 DEF SourceDir, HandleDir, Target, Act
<1>3. CASE /\ entry' = Rename(SourceDir, msg.name, Target, dname)
           /\ pc' = "utimes"
  <2>1. \A x \in Dirs, y \in Names :
           entry'[x][y] = IF x = Target /\ y = dname
                          THEN entry[SourceDir][msg.name]
                          ELSE IF x = SourceDir /\ y = msg.name THEN NoFile
                          ELSE entry[x][y]
    BY <1>1, <1>3, BusyLayout, RenameEffect
  <2>2. (Single(Target, dname) /\ ~(Target = SourceDir /\ dname = msg.name))'
    BY <1>1, <1>2, <2>1, BusyLayout DEF Pair, Single, SourceExists
  <2>3. IsMessage(entry[Target][dname])'
    BY <1>1, <1>2, <2>1, BusyLayout DEF IsMessage, WroteBefore
  <2>4. QED
    BY <1>3, <2>2, <2>3 DEF Calm, Exact, Content, Untouched, Busy, Over
<1>4. CASE pc' = "write" /\ entry' = entry
  BY <1>1, <1>4, CalmSame DEF Busy
<1>5. CASE pc' = "undo" /\ entry' = entry /\ Fault
  BY <1>1, <1>5, CalmSame, BusyLayout DEF Busy, Fault
<1>6. QED
  BY <1>1, <1>3, <1>4, <1>5, BusyLayout DEF RenameSource

\* What is written goes to the action's own file.
LEMMA CalmWrite ==
    ASSUME Situation, Calm, WriteText
    PROVE  Calm'
<1>1. /\ pc = "write" /\ pc \in Busy /\ plan' = plan /\ step' = step
      /\ src' = src /\ msg' = msg /\ durable' = durable /\ entry' = entry
      /\ dname' = dname
  BY DEF WriteText, Busy, ctlVars
<1>2. SourceDir' = SourceDir /\ Target' = Target
  BY <1>1 DEF SourceDir, HandleDir, Target, Act
<1>3. \E t : text' = [text EXCEPT ![step] = t]
  BY DEF WriteText
<1>4. pc' = "sync" \/ (pc' = "undo" /\ faults' >= 1)
  BY <1>1, BusyLayout DEF WriteText, Fault
<1>5. IsMessage(entry[SourceDir][msg.name])'
  <2>1. text'[entry[SourceDir][msg.name]] = text[entry[SourceDir][msg.name]]
    BY <1>1, <1>3, BusyLayout DEF Layout, IsMessage, Pair
  <2>2. QED
    BY <1>1, <1>2, <2>1, BusyLayout DEF IsMessage, WroteBefore
<1>6. Pair(SourceDir, msg.name, Target, dname)'
  BY <1>1, <1>2, BusyLayout DEF Pair
<1>7. QED
  BY <1>1, <1>2, <1>4, <1>5, <1>6, BusyLayout
  DEF Calm, Exact, Content, Untouched, Busy, Over

\* The file the message is copied from goes when the copy is on the disk.
LEMMA CalmUnlink ==
    ASSUME Situation, Calm, UnlinkSource
    PROVE  Calm'
<1>1. /\ pc = "unlink" /\ pc \in Busy /\ plan' = plan /\ step' = step
      /\ src' = src /\ msg' = msg /\ durable' = durable /\ text' = text
      /\ dname' = dname
  BY DEF UnlinkSource, Busy, ctlVars
<1>2. SourceDir' = SourceDir /\ Target' = Target
  BY <1>1 DEF SourceDir, HandleDir, Target, Act
<1>3. CASE /\ entry' = Unlink(SourceDir, msg.name)
           /\ pc' \in {"utimes", "reopen"}
  <2>1. \A x \in Dirs, y \in Names :
           entry'[x][y] = IF x = SourceDir /\ y = msg.name THEN NoFile
                          ELSE entry[x][y]
    BY <1>1, <1>3, BusyLayout, UnlinkEffect
  <2>2. (Single(Target, dname) /\ ~(Target = SourceDir /\ dname = msg.name))'
    BY <1>1, <1>2, <2>1, BusyLayout DEF Pair, Single
  <2>3. IsMessage(step)
    BY <1>1 DEF Situation, IInv, Pending, Reads, IsMessage
  <2>4. entry'[Target'][dname'] = step
    BY <1>1, <1>2, <2>1, BusyLayout
  <2>5. IsMessage(entry[Target][dname])'
    BY <1>1, <2>3, <2>4 DEF IsMessage, WroteBefore
  <2>6. QED
    BY <1>3, <2>2, <2>5 DEF Calm, Exact, Content, Untouched, Busy, Over
<1>4. CASE pc' = "undo" /\ entry' = entry /\ Fault
  BY <1>1, <1>4, CalmSame, BusyLayout DEF Busy, Fault
<1>5. QED
  BY <1>1, <1>3, <1>4, BusyLayout DEF UnlinkSource

\* The file created is removed again, unless a second call fails.
LEMMA CalmUndo ==
    ASSUME Situation, Outcome, Calm, UndoCreate
    PROVE  Calm'
<1>1. /\ pc = "undo" /\ pc \in Busy /\ plan' = plan /\ step' = step
      /\ src' = src /\ msg' = msg /\ error' /\ pc' = "close"
  BY DEF UndoCreate, Busy, Outcome
<1>2. ~Discarded'
  BY <1>1, BusyLayout DEF Discarded
<1>3. CASE entry' = Unlink(Target, dname)
  <2>1. \A x \in Dirs, y \in Names :
           entry'[x][y] = IF x = Target /\ y = dname THEN NoFile
                          ELSE entry[x][y]
    BY <1>1, <1>3, BusyLayout, UnlinkEffect
  <2>2. \A x \in Dirs, y \in Names :
           entry'[x][y] # NoFile <=> x = SourceDir /\ y = msg.name
    BY <1>1, <2>1, BusyLayout DEF Pair
  <2>3. \E d \in Dirs, n \in Names : Single(d, n)'
    BY <1>1, <2>2, BusyLayout DEF Single
  <2>4. QED
    BY <1>1, <1>2, <2>3 DEF Calm, Exact, Content, Untouched, Busy, Over
<1>4. CASE Fault
  <2>1. faults >= 1 /\ faults' = faults + 1 /\ faults \in Nat
    BY <1>1, <1>4, BusyLayout DEF Calm, Fault
  <2>2. ~(faults' <= 1)
    BY <2>1
  <2>3. QED
    BY <1>1, <1>2, <2>2 DEF Calm, Exact, Content, Untouched, Busy, Over
<1>5. QED
  BY <1>3, <1>4 DEF UndoCreate

\* The message is the file moved or written, under its new path.
LEMMA CalmMoved ==
    ASSUME Situation, Calm, SetMoved
    PROVE  Calm'
<1>1. /\ pc = "setfile" /\ pc \notin Over /\ plan' = plan /\ dname' = dname
      /\ entry' = entry /\ text' = text /\ durable' = durable
      /\ Act.act = "move" /\ Target = Act.dir
  BY DEF SetMoved, fsVars, Over, Situation, Handles, Target
<1>2. /\ Single(Target, dname) /\ IsMessage(entry[Target][dname])
      /\ Target \in Dirs /\ dname \in Names /\ step \in 1 .. Len(plan)
      /\ msg \in [dir : Dirs, name : Names, seen : BOOLEAN, fd : Files,
                   stdin : BOOLEAN]
  BY <1>1, Types DEF Calm, Exact, Content, TypeOK
<1>3. CASE Advance /\ msg' = [msg EXCEPT !.dir = Target, !.name = dname]
  <2>1. step' = step + 1 /\ msg'.name = dname
    BY <1>2, <1>3 DEF Advance
  <2>2. SourceDir' = Target
    <3>1. CASE Target # SourceDir
      BY <1>1, <1>2, <1>3, <3>1 DEF SetMoved, Fail, Advance, SourceDir,
         HandleDir, Act
    <3>2. CASE Target = SourceDir
      BY <1>1, <1>2, <2>1, <3>2 DEF SetMoved, SourceDir, HandleDir
    <3>3. QED
      BY <3>1, <3>2
  <2>3. WroteBefore' <=> WroteBefore
    BY <1>1, <2>1, WroteSame
  <2>4. /\ Single(SourceDir, msg.name)'
        /\ IsMessage(entry[SourceDir][msg.name])'
    BY <1>1, <1>2, <2>1, <2>2, <2>3 DEF Single, IsMessage
  <2>5. QED
    BY <1>1, <1>2, <1>3, <2>1, <2>2, <2>4, CalmAdvance
<1>4. CASE Fail /\ UNCHANGED <<msg, src, step>>
  BY <1>1, <1>4, CalmSame DEF Fail
<1>5. QED
  BY <1>3, <1>4 DEF SetMoved

LEMMA CalmReopen ==
    ASSUME Situation, Calm, Reopen
    PROVE  Calm'
<1>1. /\ pc = "reopen" /\ pc \notin Over /\ plan' = plan /\ dname' = dname
      /\ src' = src
      /\ entry' = entry /\ text' = text /\ durable' = durable
      /\ Act.act = "write" /\ Target = SourceDir
  BY DEF Reopen, fsVars, ctlVars, Over, Situation, Handles, Target
<1>2. /\ Single(SourceDir, dname) /\ IsMessage(entry[SourceDir][dname])
      /\ SourceDir \in Dirs /\ dname \in Names /\ step \in 1 .. Len(plan)
      /\ msg \in [dir : Dirs, name : Names, seen : BOOLEAN, fd : Files,
                   stdin : BOOLEAN]
  BY <1>1, Types DEF Calm, Exact, Content, TypeOK
<1>3. CASE /\ entry[SourceDir][dname] # NoFile /\ Advance
           /\ msg' = [msg EXCEPT !.dir = SourceDir, !.name = dname,
                                 !.fd = entry[SourceDir][dname]]
  <2>1. step' = step + 1 /\ msg'.name = dname /\ SourceDir' = SourceDir
    BY <1>1, <1>2, <1>3 DEF Advance, SourceDir, HandleDir
  <2>2. text[entry[SourceDir][dname]] = Written(plan)
    BY <1>1, <1>3 DEF Situation, Reads
  <2>3. /\ Single(SourceDir, msg.name)'
        /\ IsMessage(entry[SourceDir][msg.name])'
    BY <1>1, <1>2, <2>1, <2>2 DEF Single, IsMessage
  <2>4. QED
    BY <1>1, <1>2, <1>3, <2>1, <2>3, CalmAdvance
<1>4. CASE Fail /\ UNCHANGED <<msg, step>>
  BY <1>1, <1>4, CalmSame DEF Fail
<1>5. QED
  BY <1>3, <1>4 DEF Reopen

\* The actions that have no file of their own.
LEMMA CalmOther ==
    ASSUME Situation, Calm, Discard \/ Exec \/ Reject
    PROVE  Calm'
<1>1. /\ pc \in {"discard", "exec", "reject"} /\ plan' = plan /\ dname' = dname
      /\ src' = src /\ msg' = msg /\ text' = text /\ durable' = durable
      /\ Act.act = pc /\ pc \notin Over /\ pc \in Untouched
  BY DEF Discard, Exec, Reject, fsVars, ctlVars, Over, Situation, Handles,
     Untouched
<1>2. /\ Single(SourceDir, msg.name) /\ IsMessage(entry[SourceDir][msg.name])
      /\ SourceDir \in Dirs /\ msg.name \in Names /\ step \in 1 .. Len(plan)
      /\ Len(plan) \in Nat /\ plan \in Plans /\ entry \in Layout
  BY <1>1, Types DEF Calm, Exact, Content
<1>3. CASE Advance /\ entry' = entry /\ Act.act # "discard"
  <2>1. step' = step + 1 /\ SourceDir' = SourceDir
    BY <1>1, <1>3 DEF Advance, SourceDir, HandleDir
  <2>2. WroteBefore' <=> WroteBefore
    BY <1>1, <2>1, WroteSame
  <2>3. /\ Single(SourceDir, msg.name)'
        /\ IsMessage(entry[SourceDir][msg.name])'
    BY <1>1, <1>2, <1>3, <2>1, <2>2 DEF Single, IsMessage
  <2>4. QED
    BY <1>1, <1>2, <1>3, <2>1, <2>3, CalmAdvance
<1>4. CASE Discard /\ Advance /\ entry' = Unlink(SourceDir, msg.name)
  <2>1. step = Len(plan) /\ Act.act = "discard"
    BY <1>1, <1>2, <1>4, PlanType DEF Discard, Act
  <2>2. step' = Len(plan) + 1 /\ pc' = "close"
    BY <1>2, <1>4, <2>1, BeginType DEF Advance
  <2>3. Discarded'
    BY <1>1, <2>1, <2>2 DEF Discarded, Act
  <2>4. Nothing'
    BY <1>2, <1>4, UnlinkEffect DEF Nothing, Single
  <2>5. QED
    BY <2>2, <2>3, <2>4 DEF Calm, Exact, Content, Untouched, Busy, Over
<1>5. CASE Fail /\ UNCHANGED <<entry, step>>
  BY <1>1, <1>5, CalmSame DEF Fail
<1>6. QED
  BY <1>1, <1>3, <1>4, <1>5 DEF Discard, Exec, Reject, fsVars

\* Every step keeps the account of the files, readers aside.
LEMMA QuietFiles ==
    Situation /\ Outcome /\ Quiet /\ [Next]_vars => Quiet'
<1> SUFFICES ASSUME Situation, Outcome, Quiet, [Next]_vars, renames' = 0
             PROVE  Calm'
  BY DEF Quiet
<1>1. renames \in Nat /\ faults \in Nat
  BY Types
<1>2. ~MarkSeen
  BY <1>1 DEF MarkSeen
<1>3. renames = 0
  BY <1>1, <1>2 DEF Next, Mdsort, Terminated, vars, OpenDst, RefuseTemporary,
     StatSource, CreateFile, RenameSource, WriteText, SyncText, UnlinkSource,
     UndoCreate, RestoreTime, SetMoved, Reopen, Discard, Exec, Reject, Close
<1>4. Calm
  BY <1>3 DEF Quiet
<1>5. CASE OpenDst \/ RefuseTemporary \/ StatSource
  <2>1. /\ UNCHANGED <<entry, text, msg, plan, step, src, dname, durable>>
        /\ pc \in Untouched
        /\ pc' \in Untouched \/ (pc' = "close" /\ error')
    BY <1>5 DEF OpenDst, RefuseTemporary, StatSource, fsVars, Untouched, Fail
  <2>2. QED
    BY <1>4, <2>1, CalmSame
<1>6. CASE SyncText
  <2>1. /\ UNCHANGED <<entry, text, msg, plan, step, src, dname>>
        /\ durable \subseteq durable'
        /\ pc \in Busy /\ pc' \in Busy /\ (pc' = "undo" => faults' >= 1)
    BY <1>1, <1>6 DEF SyncText, ctlVars, Busy, Fault
  <2>2. QED
    BY <1>4, <2>1, CalmSame
<1>7. CASE RestoreTime \/ Close
  <2>1. /\ UNCHANGED <<entry, text, msg, plan, step, src, dname, durable>>
        /\ \/ pc = "utimes" /\ pc' = "setfile"
           \/ pc = "utimes" /\ pc' = "close" /\ error'
           \/ pc = "close" /\ pc' = "done" /\ UNCHANGED <<error, faults>>
    BY <1>7 DEF RestoreTime, Close, fsVars, Fail
  <2>2. QED
    BY <1>4, <2>1, CalmSame DEF Over
<1>8. CASE UNCHANGED vars
  BY <1>4, <1>8 DEF vars, Calm, Exact, Content, Single, Pair, Nothing, Discarded,
     IsMessage, WroteBefore, SourceDir, HandleDir, Target, Act
<1>9. QED
  BY <1>2, <1>4, <1>5, <1>6, <1>7, <1>8, CalmCreate, CalmRename, CalmWrite,
     CalmUnlink, CalmUndo, CalmMoved, CalmReopen, CalmOther
  DEF Next, Mdsort, Terminated

-----------------------------------------------------------------------------
\* At the start the only file is the message as found.
LEMMA InitQuiet == AtStart => Outcome /\ Placed /\ Quiet
<1> SUFFICES ASSUME AtStart PROVE Outcome /\ Placed /\ Quiet
  OBVIOUS
<1>1. /\ plan \in Plans /\ step = 1 /\ pc = Begin(plan, 1) /\ src = 0
      /\ error = FALSE /\ rv = "success" /\ text[0] = "orig" /\ durable = {0}
  BY BoundsAssumption DEF AtStart, Ready, Files
<1>2. /\ Len(plan) \in Nat /\ Len(plan) >= 1 /\ 1 \in 1 .. Len(plan) + 1
  BY <1>1, PlanType
<1>3. pc \in Untouched
  BY <1>1, <1>2, BeginType DEF Untouched
<1>4. SourceDir = SrcDir
  BY <1>1 DEF SourceDir, HandleDir
<1>5. Outcome /\ Placed
  BY <1>1, <1>3, <1>4 DEF Outcome, Placed, Untouched, Over
<1>6. PICK n \in Names : /\ entry = [d \in Dirs |-> [m \in Names |->
                               IF d = SrcDir /\ m = n THEN 0 ELSE NoFile]]
                         /\ msg.name = n
  BY DEF AtStart, Ready
<1>7. /\ Single(SourceDir, msg.name) /\ entry[SourceDir][msg.name] = 0
  BY <1>4, <1>6, SrcDirAssumption DEF Single, NoFile
<1>8. ~WroteBefore
  BY <1>1 DEF WroteBefore
<1>9. IsMessage(entry[SourceDir][msg.name])
  BY <1>1, <1>7, <1>8 DEF IsMessage
<1>10. Quiet
  BY <1>3, <1>7, <1>9 DEF Quiet, Calm, Exact, Content, Untouched, Busy, Over
<1>11. QED
  BY <1>5, <1>10

\* What is proved so far holds together in every state.
Account == Situation /\ Outcome /\ Placed /\ Quiet

LEMMA AccountSteps ==
    /\ AtStart => Account
    /\ Account /\ [Next]_vars => Account'
BY InitQuiet, SituationHolds, OutcomeStep, PlacedStep, QuietFiles DEF Account

THEOREM AccountHolds == Spec => []Account
BY InitStart, AccountSteps, PTL DEF Spec

\* At the end of the list the source is the directory of the last move.
LEMMA LastPlace ==
    ASSUME Situation, Placed, step = Len(plan) + 1
    PROVE  LastDir = SourceDir
<1>1. Len(plan) \in Nat /\ step - 1 = Len(plan)
  BY Types
<1>2. CASE SourceDir = SrcDir /\ \A i \in 1 .. Len(plan) : plan[i].act # "move"
  BY <1>2 DEF LastDir, Moves
<1>3. ASSUME NEW i \in 1 .. Len(plan), plan[i].act = "move",
             plan[i].dir = SourceDir,
             \A j \in i + 1 .. Len(plan) : plan[j].act # "move"
      PROVE  LastDir = SourceDir
  <2>1. i \in Moves /\ \A j \in Moves : j <= i
    BY <1>1, <1>3 DEF Moves
  <2>2. \A k \in Moves : (\A j \in Moves : j <= k) => k = i
    BY <1>1, <2>1 DEF Moves
  <2>3. (CHOOSE k \in Moves : \A j \in Moves : j <= k) = i
    BY <2>1, <2>2
  <2>4. QED
    BY <1>3, <2>1, <2>3 DEF LastDir
<1>4. QED
  BY <1>1, <1>2, <1>3 DEF Placed

\* A delivery that reports success has done all that was asked for, and left
\* nothing else: in the directory of the last move is the one file, the whole
\* message on the disk with the headers of every label, under the path and name
\* mdsort has for it.
THEOREM DeliveryComplete == Spec => []SuccessIsComplete
<1>1. Account => SuccessIsComplete
  <2> SUFFICES ASSUME Account, pc = "done", ~error, renames = 0, ~Discarded,
                      NEW d \in Dirs, NEW n \in Names
               PROVE  IF d = LastDir /\ n = msg.name
                      THEN entry[d][n] \in durable /\
                           text[entry[d][n]] =
                              IF \E i \in 1 .. Len(plan) : plan[i].act = "write"
                              THEN "edited" ELSE "orig"
                      ELSE entry[d][n] = NoFile
    BY DEF SuccessIsComplete
  <2>1. Calm /\ step = Len(plan) + 1 /\ Len(plan) \in Nat
    BY Types DEF Account, Outcome, Quiet, Over
  <2>2. LastDir = SourceDir
    BY <2>1, LastPlace DEF Account
  <2>3. /\ Single(SourceDir, msg.name)
        /\ IsMessage(entry[SourceDir][msg.name])
    BY <2>1 DEF Calm, Exact, Content, Over
  <2>4. text[entry[SourceDir][msg.name]] = Written(plan)
    BY <2>1, <2>3 DEF IsMessage, Written, WroteBefore
  <2>5. QED
    BY <2>2, <2>3, <2>4 DEF Single, IsMessage, Written
<1>2. QED
  BY <1>1, AccountHolds, PTL

\* With at most one system call that failed, whichever it is and whatever the
\* list, one file is left in the end, none if the message was discarded.
THEOREM NothingLeftBehind == Spec => []NoLeftover
<1>1. Account => NoLeftover
  <2> SUFFICES ASSUME Account, pc = "done", faults <= 1, renames = 0
               PROVE  Cardinality({x \in Dirs \X Names :
                                      entry[x[1]][x[2]] # NoFile})
                          = IF Discarded THEN 0 ELSE 1
    BY DEF NoLeftover
  <2> DEFINE files == {x \in Dirs \X Names : entry[x[1]][x[2]] # NoFile}
  <2>1. Calm /\ pc \in Over
    BY DEF Account, Quiet, Over
  <2>2. CASE Discarded
    <3>1. files = {}
      BY <2>1, <2>2 DEF Calm, Exact, Nothing
    <3>2. QED
      BY <2>2, <3>1, FS_EmptySet
  <2>3. CASE ~Discarded
    <3>1. PICK d \in Dirs, n \in Names : Single(d, n)
      BY <2>1, <2>3 DEF Calm, Exact
    <3>2. files = {<<d, n>>}
      BY <3>1 DEF Single
    <3>3. QED
      BY <2>3, <3>2, FS_Singleton
  <2>4. QED
    BY <2>2, <2>3
<1>2. QED
  BY <1>1, AccountHolds, PTL

(***************************************************************************)
(* Delivery implements Intent, step by step: every system call of a        *)
(* delivery no reader interferes with either is invisible from outside or  *)
(* is the one at which an action of the list takes effect.                 *)
(***************************************************************************)

\* The message is where the action under way found it, or where the action has
\* put it.
AtSource == \/ pc \in Untouched \cup Busy
            \/ pc \in Over /\ ~error /\ ~Discarded
AtTarget == pc \in {"utimes", "setfile", "reopen"}

\* What is seen from outside in either case.
SeenAtSource ==
    /\ Done = step - 1 /\ Where = {SourceDir}
    /\ Edited = (text[entry[SourceDir][msg.name]] = "edited")
SeenAtTarget ==
    /\ Done = step /\ Where = {Target}
    /\ Edited = (text[entry[Target][dname]] = "edited")

LEMMA Seen ==
    Situation /\ Calm => /\ AtSource => SeenAtSource
                         /\ AtTarget => SeenAtTarget
<1> SUFFICES ASSUME Situation, Calm
             PROVE  /\ AtSource => SeenAtSource
                    /\ AtTarget => SeenAtTarget
  OBVIOUS
<1>1. /\ SourceDir \in Dirs /\ msg.name \in Names /\ step \in Nat
      /\ pc \notin Over => /\ ~Discarded /\ step \in 1 .. Len(plan)
                           /\ Len(plan) \in Nat
  BY Types
<1>2. ASSUME AtSource PROVE SeenAtSource
  <2>1. SourceExists /\ ~Discarded
    BY <1>1, <1>2 DEF AtSource, Calm, Exact, Single, Pair, SourceExists, Over,
       Untouched, Busy
  <2>2. QED
    BY <2>1 DEF SeenAtSource, Done, InEffect, Where, Edited, MessageFile
<1>3. ASSUME AtTarget PROVE SeenAtTarget
  <2>1. ~SourceExists /\ ~Discarded /\ step <= Len(plan)
    BY <1>1, <1>3 DEF AtTarget, Calm, Exact, Single, SourceExists, Over
  <2>2. QED
    BY <2>1 DEF SeenAtTarget, Done, InEffect, Where, Edited, MessageFile
<1>4. QED
  BY <1>2, <1>3

\* The same of the state a step leads to.
LEMMA SeenNext ==
    Situation' /\ Calm' => /\ AtSource' => SeenAtSource'
                           /\ AtTarget' => SeenAtTarget'
  BY Seen, PTL

\* A step that changes nothing of what is seen, and one that is an effect.
LEMMA Unseen ==
    ASSUME plan' = plan, Done' = Done, Where' = Where, Edited' = Edited,
           Ended' = Ended
    PROVE  UNCHANGED Promise!vars
  BY DEF Promise!vars

LEMMA Effect ==
    ASSUME Situation, plan' = plan, pc \notin Over, pc' # "done", Done = step - 1, Done' = step,
           Where' = CASE Act.act = "move" -> {Act.dir}
                      [] Act.act = "discard" -> {}
                      [] OTHER -> Where,
           Edited' \in CASE Act.act = "write" -> {TRUE}
                         [] Act.act = "move" -> {Edited, Promise!Edits}
                         [] Act.act = "discard" -> {FALSE}
                         [] OTHER -> {Edited}
    PROVE  Promise!Perform
<1>1. step \in 1 .. Len(plan) /\ Len(plan) \in Nat
  BY Types
<1>2. Ended = "running" /\ Ended' = Ended
  BY DEF Ended, Over
<1>3. Done + 1 = step /\ Done' = Done + 1 /\ Done < Len(plan)
  BY <1>1
<1>4. plan[Done + 1] = Act
  BY <1>3 DEF Act
<1> HIDE DEF Done, Where, Edited, Ended
<1>5. QED
  BY <1>2, <1>3, <1>4 DEF Promise!Perform

-----------------------------------------------------------------------------
\* What is seen from outside does not change in a step that leaves the
\* directories and the message alone.
LEMMA SameUnseen ==
    ASSUME UNCHANGED <<entry, text, msg, plan, step, src, dname>>,
           pc # "done", pc' # "done"
    PROVE  UNCHANGED Promise!vars
<1>1. /\ Done' = Done /\ Where' = Where /\ Edited' = Edited /\ Ended' = Ended
  BY DEF Done, Where, Edited, Ended, InEffect, MessageFile, SourceExists,
     SourceDir, HandleDir, Target, Act, Discarded
<1>2. QED
  BY <1>1, Unseen

\* Nor in one between two points at which the message is the same file of the
\* same directory.
LEMMA StayUnseen ==
    ASSUME Situation, Calm, Situation', Calm', AtSource, AtSource',
           pc # "done", pc' # "done", plan' = plan, step' = step,
           SourceDir' = SourceDir,
           text'[entry'[SourceDir'][msg'.name]] = text[entry[SourceDir][msg.name]]
    PROVE  UNCHANGED Promise!vars
<1>1. SeenAtSource /\ SeenAtSource'
  BY Seen, SeenNext
<1>2. Done' = Done /\ Where' = Where /\ Edited' = Edited
  BY <1>1 DEF SeenAtSource
<1>3. Ended' = Ended
  BY DEF Ended
<1>4. QED
  BY <1>2, <1>3, Unseen

\* The file created is not yet the message.
LEMMA CreateUnseen ==
    ASSUME Situation, Calm, Situation', Calm', CreateFile
    PROVE  UNCHANGED Promise!vars
<1>1. /\ pc = "create" /\ plan' = plan /\ step' = step /\ src' = src
      /\ msg' = msg
  BY DEF CreateFile
<1>2. CASE Fail /\ UNCHANGED <<entry, text, dname>>
  BY <1>1, <1>2, SameUnseen DEF Fail
<1>3. ASSUME NEW n \in Names, entry[Target][n] = NoFile,
             entry' = Link(Target, n, step),
             text' = [text EXCEPT ![step] = "empty"],
             pc' \in {"rename", "write"}
      PROVE  UNCHANGED Promise!vars
  <2> DEFINE m == entry[SourceDir][msg.name]
  <2>1. /\ Target \in Dirs /\ SourceDir \in Dirs /\ msg.name \in Names
        /\ entry \in Layout /\ step \in Files /\ text \in [Files -> Text]
    BY <1>1, Types DEF Over
  <2>2. m # NoFile /\ m \in Files
    BY <1>1, <2>1 DEF Calm, Exact, Single, Untouched, Layout
  <2>3. /\ SourceDir' = SourceDir /\ entry'[SourceDir'][msg'.name] = m
    BY <1>1, <1>3, <2>1, <2>2, LinkEffect DEF SourceDir, HandleDir
  <2>4. AtSource /\ AtSource' /\ pc' \in Busy
    BY <1>1, <1>3 DEF AtSource, Untouched, Busy
  <2>5. m # step
    BY <1>1, <2>3, <2>4 DEF Calm, Exact
  <2>6. text'[m] = text[m]
    BY <1>3, <2>1, <2>2, <2>5
  <2> HIDE DEF m
  <2>7. QED
    BY <1>1, <1>3, <2>3, <2>4, <2>6, StayUnseen DEF m
<1>4. \A i \in Ids : [id |-> i, seen |-> MsgFlags(SourceDir, Target, msg.seen)]
                      \in Names
  BY DEF MsgFlags, Names, Situation, IInv, TypeOK
<1>5. QED
  BY <1>2, <1>3, <1>4 DEF CreateFile, Fail

\* A rename is the move, whatever comes after it.
LEMMA RenameSeen ==
    ASSUME Situation, Calm, Situation', Calm', RenameSource
    PROVE  [Promise!Next]_(Promise!vars)
<1>1. /\ pc = "rename" /\ pc \in Busy /\ plan' = plan /\ step' = step
      /\ src' = src /\ msg' = msg /\ text' = text /\ dname' = dname
      /\ Act.act = "move" /\ Target = Act.dir
  BY DEF RenameSource, Busy, Situation, Handles, Target
<1>2. CASE /\ entry' = Rename(SourceDir, msg.name, Target, dname)
           /\ pc' = "utimes"
  <2>1. SourceDir' = SourceDir /\ Target' = Target
    BY <1>1 DEF SourceDir, HandleDir, Target, Act
  <2>2. entry'[Target'][dname'] = entry[SourceDir][msg.name]
    BY <1>1, <1>2, <2>1, BusyLayout, RenameEffect
  <2>3. SeenAtSource /\ SeenAtTarget'
    BY <1>1, <1>2, Seen, SeenNext DEF AtSource, AtTarget
  <2>4. /\ Done = step - 1 /\ Done' = step /\ Where' = {Act.dir}
        /\ Edited' = Edited
    BY <1>1, <2>1, <2>2, <2>3 DEF SeenAtSource, SeenAtTarget
  <2>5. Promise!Perform
    BY <1>1, <1>2, <2>4, Effect DEF Over
  <2>6. QED
    BY <2>5 DEF Promise!Next
<1>3. CASE entry' = entry /\ pc' \in {"write", "undo"}
  BY <1>1, <1>3, SameUnseen
<1>4. QED
  BY <1>2, <1>3 DEF RenameSource

LEMMA WriteUnseen ==
    ASSUME Situation, Calm, Situation', Calm', WriteText
    PROVE  UNCHANGED Promise!vars
<1>1. /\ pc = "write" /\ pc \in Busy /\ plan' = plan /\ step' = step
      /\ src' = src /\ msg' = msg /\ entry' = entry
      /\ pc' \in {"sync", "undo"}
  BY DEF WriteText, Busy, ctlVars
<1>2. SourceDir' = SourceDir
  BY <1>1 DEF SourceDir, HandleDir
<1>3. \E t : text' = [text EXCEPT ![step] = t]
  BY DEF WriteText
<1>4. text'[entry[SourceDir][msg.name]] = text[entry[SourceDir][msg.name]]
  BY <1>1, <1>3, BusyLayout DEF Layout, Pair
<1>5. QED
  BY <1>1, <1>2, <1>4, StayUnseen DEF AtSource, Busy

\* Across file systems, and for label and add-header, the action takes effect
\* when the old file is unlinked.
LEMMA UnlinkSeen ==
    ASSUME Situation, Calm, Situation', Calm', UnlinkSource
    PROVE  [Promise!Next]_(Promise!vars)
<1>1. /\ pc = "unlink" /\ pc \in Busy /\ plan' = plan /\ step' = step
      /\ src' = src /\ msg' = msg /\ text' = text /\ dname' = dname
      /\ Act.act \in {"move", "write"} /\ text[step] = Written(plan)
  BY DEF UnlinkSource, Busy, Situation, Handles, Reads, ctlVars
<1>2. CASE /\ entry' = Unlink(SourceDir, msg.name)
           /\ pc' \in {"utimes", "reopen"}
  <2>1. SourceDir' = SourceDir /\ Target' = Target
    BY <1>1 DEF SourceDir, HandleDir, Target, Act
  <2>2. entry'[Target'][dname'] = step
    BY <1>1, <1>2, <2>1, BusyLayout, UnlinkEffect
  <2>3. SeenAtSource /\ SeenAtTarget'
    BY <1>1, <1>2, Seen, SeenNext DEF AtSource, AtTarget
  <2>4. /\ Done = step - 1 /\ Done' = step /\ Where = {SourceDir}
        /\ Where' = {Target} /\ Edited' = (Written(plan) = "edited")
    BY <1>1, <2>1, <2>2, <2>3 DEF SeenAtSource, SeenAtTarget
  <2>5. Edited' = Promise!Edits
    BY <2>4 DEF Written, Promise!Edits
  <2>6. Act.act = "write" => Promise!Edits = TRUE
    <3>1. step \in 1 .. Len(plan)
      BY <1>1, Types DEF Over
    <3>2. QED
      BY <3>1 DEF Promise!Edits, Act
  <2>7. Promise!Perform
    BY <1>1, <1>2, <2>4, <2>5, <2>6, Effect DEF Over, Target
  <2>8. QED
    BY <2>7 DEF Promise!Next
<1>3. CASE entry' = entry /\ pc' = "undo"
  BY <1>1, <1>3, SameUnseen
<1>4. QED
  BY <1>2, <1>3 DEF UnlinkSource

\* What the undo step removes, or leaves, is not the message.
LEMMA UndoUnseen ==
    ASSUME Situation, Calm, UndoCreate
    PROVE  UNCHANGED Promise!vars
<1>1. /\ pc = "undo" /\ pc \in Busy /\ plan' = plan /\ step' = step
      /\ src' = src /\ msg' = msg /\ text' = text /\ pc' = "close"
      /\ entry' = Unlink(Target, dname) \/ entry' = entry
  BY DEF UndoCreate, Busy
<1>2. entry'[SourceDir][msg.name] = entry[SourceDir][msg.name]
  BY <1>1, BusyLayout, UnlinkEffect
<1>3. /\ SourceDir' = SourceDir /\ Target' = Target /\ SourceExists
      /\ Discarded' = Discarded
  BY <1>1, BusyLayout DEF SourceDir, HandleDir, Target, Act, Discarded
<1>4. SourceExists' /\ MessageFile' = MessageFile
  BY <1>1, <1>2, <1>3 DEF SourceExists, MessageFile
<1>5. Done' = Done /\ Where' = Where /\ Edited' = Edited /\ Ended' = Ended
  BY <1>1, <1>3, <1>4 DEF Done, Where, Edited, Ended, InEffect
<1>6. QED
  BY <1>1, <1>5, Unseen

\* Taking the file just moved or written for the message is seen by nobody.
LEMMA TakenUnseen ==
    ASSUME Situation, Calm, Situation', Calm', AtTarget, ~error', plan' = plan,
           Advance, Act.act # "discard", SourceDir' = Target,
           text'[entry'[SourceDir'][msg'.name]] = text[entry[Target][dname]]
    PROVE  UNCHANGED Promise!vars
<1>1. pc \notin Over /\ pc # "done"
  BY DEF AtTarget, Over
<1>2. /\ step' = step + 1 /\ pc' \in Untouched \cup {"close"} /\ pc' # "done"
      /\ step \in 1 .. Len(plan) /\ Len(plan) \in Nat
  BY <1>1, AdvanceFacts, Types DEF Untouched
<1>3. ~Discarded'
  BY <1>2 DEF Discarded, Act
<1>4. AtSource'
  BY <1>2, <1>3 DEF AtSource, Over
<1>5. SeenAtTarget /\ SeenAtSource'
  BY <1>4, Seen, SeenNext
<1>6. Done' = Done /\ Where' = Where /\ Edited' = Edited
  BY <1>2, <1>5 DEF SeenAtTarget, SeenAtSource
<1>7. Ended' = Ended
  BY <1>1, <1>2 DEF Ended
<1>8. QED
  BY <1>6, <1>7, Unseen

LEMMA MovedUnseen ==
    ASSUME Situation, Outcome, Calm, Situation', Calm', SetMoved
    PROVE  UNCHANGED Promise!vars
<1>1. /\ pc = "setfile" /\ plan' = plan /\ dname' = dname /\ entry' = entry
      /\ text' = text /\ Act.act = "move" /\ Target = Act.dir /\ ~error
  BY DEF SetMoved, fsVars, Situation, Handles, Target, Outcome, Over
<1>2. /\ step \in 1 .. Len(plan)
      /\ msg \in [dir : Dirs, name : Names, seen : BOOLEAN, fd : Files,
                   stdin : BOOLEAN]
  BY <1>1, Types DEF TypeOK, Over
<1>3. CASE /\ Advance /\ error' = error
           /\ msg' = [msg EXCEPT !.dir = Target, !.name = dname]
  <2>1. msg'.name = dname
    BY <1>2, <1>3
  <2>2. SourceDir' = Target
    <3>1. CASE Target # SourceDir
      BY <1>1, <1>2, <1>3, <3>1 DEF SetMoved, Fail, Advance, SourceDir,
         HandleDir, Act
    <3>2. CASE Target = SourceDir
      BY <1>1, <1>2, <1>3, <3>2 DEF SetMoved, Fail, Advance, SourceDir, HandleDir
    <3>3. QED
      BY <3>1, <3>2
  <2>3. QED
    BY <1>1, <1>3, <2>1, <2>2, TakenUnseen DEF AtTarget
<1>4. CASE Fail /\ UNCHANGED <<msg, src, step>>
  BY <1>1, <1>4, SameUnseen DEF Fail
<1>5. QED
  BY <1>3, <1>4 DEF SetMoved

LEMMA ReopenUnseen ==
    ASSUME Situation, Outcome, Calm, Situation', Calm', Reopen
    PROVE  UNCHANGED Promise!vars
<1>1. /\ pc = "reopen" /\ plan' = plan /\ dname' = dname /\ entry' = entry
      /\ text' = text /\ src' = src /\ Act.act = "write" /\ ~error
      /\ Target = SourceDir /\ SourceDir' = SourceDir
  BY DEF Reopen, fsVars, ctlVars, Situation, Handles, Target, Outcome, Over,
     SourceDir, HandleDir
<1>2. msg \in [dir : Dirs, name : Names, seen : BOOLEAN, fd : Files,
               stdin : BOOLEAN]
  BY Types DEF TypeOK
<1>3. CASE /\ Advance /\ error' = error
           /\ msg' = [msg EXCEPT !.dir = SourceDir, !.name = dname,
                                 !.fd = entry[SourceDir][dname]]
  <2>1. msg'.name = dname
    BY <1>2, <1>3
  <2>2. QED
    BY <1>1, <1>3, <2>1, TakenUnseen DEF AtTarget
<1>4. CASE Fail /\ UNCHANGED <<msg, step>>
  BY <1>1, <1>4, SameUnseen DEF Fail
<1>5. QED
  BY <1>3, <1>4 DEF Reopen

\* The other actions are a single step, which is their effect.
LEMMA OtherSeen ==
    ASSUME Situation, Outcome, Calm, Situation', Calm',
           Discard \/ Exec \/ Reject
    PROVE  [Promise!Next]_(Promise!vars)
<1>1. /\ pc \in {"discard", "exec", "reject"} /\ plan' = plan /\ dname' = dname
      /\ src' = src /\ msg' = msg /\ text' = text /\ Act.act = pc
      /\ pc \notin Over /\ pc \in Untouched /\ ~error /\ SourceDir' = SourceDir
  BY DEF Discard, Exec, Reject, fsVars, ctlVars, Over, Situation, Handles,
     Untouched, Outcome, SourceDir, HandleDir
<1>2. /\ step \in 1 .. Len(plan) /\ Len(plan) \in Nat /\ plan \in Plans
  BY <1>1, Types
<1>3. SeenAtSource
  BY <1>1, Seen DEF AtSource
<1>4. CASE /\ Advance /\ entry' = entry /\ error' = error
           /\ Act.act # "discard"
  <2>1. step' = step + 1 /\ pc' \in Untouched \cup {"close"}
    BY <1>1, <1>4, AdvanceFacts
  <2>2. ~Discarded'
    BY <1>1, <1>2, <1>4, <2>1 DEF Discarded, Act
  <2>3. SeenAtSource'
    BY <1>1, <1>4, <2>1, <2>2, SeenNext DEF AtSource, Over
  <2>4. /\ Done = step - 1 /\ Done' = step /\ Where' = Where
        /\ Edited' = Edited
    BY <1>1, <1>2, <1>3, <1>4, <2>1, <2>3 DEF SeenAtSource
  <2>5. Promise!Perform
    BY <1>1, <1>4, <2>1, <2>4, Effect DEF Untouched
  <2>6. QED
    BY <2>5 DEF Promise!Next
<1>5. CASE Discard /\ Advance
  <2>1. step = Len(plan) /\ Act.act = "discard"
    BY <1>1, <1>2, <1>5, PlanType DEF Discard, Act
  <2>2. step' = Len(plan) + 1 /\ pc' \in Untouched \cup {"close"}
    BY <1>1, <1>5, <2>1, AdvanceFacts
  <2>3. Discarded'
    BY <1>1, <2>1, <2>2 DEF Discarded, Act
  <2>4. /\ Done = step - 1 /\ Done' = step /\ Where' = {}
        /\ Edited' = FALSE
    BY <1>1, <1>2, <1>3, <2>1, <2>2, <2>3
    DEF SeenAtSource, Done, InEffect, Where, Edited
  <2>5. Promise!Perform
    BY <1>1, <2>1, <2>2, <2>4, Effect DEF Untouched
  <2>6. QED
    BY <2>5 DEF Promise!Next
<1>6. CASE Fail /\ UNCHANGED <<entry, step>>
  BY <1>1, <1>6, SameUnseen DEF Fail
<1>7. QED
  BY <1>1, <1>4, <1>5, <1>6 DEF Discard, Exec, Reject, fsVars

\* The end is an error, or the end of the list.
LEMMA CloseSeen ==
    ASSUME Situation, Outcome, Close
    PROVE  Promise!GiveUp \/ Promise!Succeed
<1>1. /\ pc = "close" /\ pc' = "done" /\ pc \in Over
      /\ UNCHANGED <<entry, text, msg, plan, step, src, dname, error, rv>>
  BY DEF Close, fsVars, Over
<1>2. /\ Done' = Done /\ Where' = Where /\ Edited' = Edited
      /\ Ended = "running" /\ Ended' = IF error THEN "error" ELSE rv
  BY <1>1 DEF Done, Where, Edited, Ended, InEffect, MessageFile, SourceExists,
     SourceDir, HandleDir, Target, Act, Discarded, Result
<1>3. CASE error
  <2> HIDE DEF Done, Where, Edited, Ended
  <2>1. QED
    BY <1>1, <1>2, <1>3 DEF Promise!GiveUp
<1>4. CASE ~error
  <2>1. step = Len(plan) + 1 /\ Len(plan) \in Nat
    BY <1>1, <1>4, Types DEF Outcome
  <2>2. Done = Len(plan) /\ step - 1 = Len(plan)
    BY <2>1 DEF Done, InEffect
  <2>3. rv = IF \E i \in 1 .. Len(plan) : plan[i].act = "reject"
             THEN "rejected" ELSE "success"
    BY <2>2, Types DEF Outcome, TypeOK
  <2> HIDE DEF Done, Where, Edited, Ended
  <2>4. QED
    BY <1>1, <1>2, <1>4, <2>2, <2>3 DEF Promise!Succeed, Promise!Rejects
<1>5. QED
  BY <1>3, <1>4

-----------------------------------------------------------------------------
LEMMA StepKeepsPromise ==
    ASSUME Account, Account', renames = 0, renames' = 0, [Next]_vars
    PROVE  [Promise!Next]_(Promise!vars)
<1>1. /\ Situation /\ Situation' /\ Outcome /\ Calm /\ Calm'
      /\ renames \in Nat
  BY Types DEF Account, Quiet
<1>2. ~MarkSeen
  BY <1>1 DEF MarkSeen
<1>3. CASE OpenDst \/ RefuseTemporary \/ StatSource \/ SyncText \/ RestoreTime
  <2>1. /\ UNCHANGED <<entry, text, msg, plan, step, src, dname>>
        /\ pc # "done" /\ pc' # "done"
    BY <1>3 DEF OpenDst, RefuseTemporary, StatSource, SyncText, RestoreTime,
       fsVars, ctlVars, Fail
  <2>2. QED
    BY <2>1, SameUnseen
<1>4. CASE UNCHANGED vars
  <2>1. /\ Done' = Done /\ Where' = Where /\ Edited' = Edited
        /\ Ended' = Ended /\ plan' = plan
    BY <1>4 DEF vars, Done, Where, Edited, Ended, InEffect, MessageFile,
       SourceExists, SourceDir, HandleDir, Target, Act, Discarded, Result
  <2>2. QED
    BY <2>1, Unseen
<1>5. QED
  BY <1>1, <1>2, <1>3, <1>4, CreateUnseen, RenameSeen, WriteUnseen, UnlinkSeen,
     UndoUnseen, MovedUnseen, ReopenUnseen, OtherSeen, CloseSeen
  DEF Next, Mdsort, Terminated, Promise!Next

LEMMA InitKeepsPromise == Init => Promise!Init
<1> SUFFICES ASSUME Init PROVE Promise!Init
  OBVIOUS
<1>1. /\ plan \in Plans /\ step = 1 /\ pc = Begin(plan, 1) /\ text[0] = "orig"
      /\ src = 0
  BY BoundsAssumption DEF Init, Ready, Files
<1>2. Len(plan) \in Nat /\ Len(plan) >= 1 /\ 1 \in 1 .. Len(plan) + 1
  BY <1>1, PlanType
<1>3. pc # "done" /\ ~Discarded
  BY <1>1, <1>2, BeginType DEF Discarded
<1>4. SourceDir = SrcDir /\ entry[SourceDir][msg.name] = 0
  BY <1>1, SrcDirAssumption DEF Init, Ready, SourceDir, HandleDir
<1>5. SourceExists /\ MessageFile = 0
  BY <1>4 DEF SourceExists, MessageFile, NoFile
<1>6. Done = 0 /\ Where = {SrcDir} /\ Edited = FALSE /\ Ended = "running"
  BY <1>1, <1>3, <1>4, <1>5 DEF Done, InEffect, Where, Edited, Ended
<1> HIDE DEF Done, Where, Edited, Ended
<1>7. QED
  BY <1>1, <1>6 DEF Promise!Init

\* A delivery without a reader implements the list it was given: its actions
\* take effect in the order of the list, one system call each, entirely or not at
\* all; it reports an error whenever one did not take effect, and success or the
\* rejection only if all did.
THEOREM DeliveryImplements == Spec /\ [](renames = 0) => Promise!Safety
<1>1. Account /\ Account' /\ renames = 0 /\ (renames = 0)' /\ [Next]_vars =>
          [Promise!Next]_(Promise!vars)
  BY StepKeepsPromise
<1>2. QED
  BY <1>1, AccountHolds, InitKeepsPromise, PTL DEF Spec, Promise!Safety
=============================================================================
