------------------------------ MODULE MdaProofs ------------------------------
(***************************************************************************)
(* Proofs that mdsort as a mail delivery agent accepts no message it has   *)
(* not delivered, defers none without a reason and leaves no temporary     *)
(* maildir behind.  Mail readers rename files while it delivers, so the    *)
(* first part follows the message's file through their renames; the second *)
(* part is about main() around the delivery.                               *)
(***************************************************************************)
EXTENDS Mda, DeliveryProofs

SeenDir(d) == [d EXCEPT !.sub = "cur"]
SeenName(n) == [n EXCEPT !.seen = TRUE]

\* File f is where mdsort has put it, or a reader has marked it as seen since,
\* and nothing has taken its place.
At(f, d, n) ==
    \/ entry[d][n] = f
    \/ entry[d][n] = NoFile /\ entry[SeenDir(d)][SeenName(n)] = f

\* Lists that never move back into the temporary maildir, nor to the directory
\* the move before went to.
Straight ==
    \A i, j \in Moves : i < j =>
        /\ Temporary(plan[j].dir) => Temporary(plan[i].dir)
        /\ (\A k \in i + 1 .. j - 1 : plan[k].act # "move") =>
               plan[i].dir # plan[j].dir

\* A source other than main's is that of a move before.
Sourced == src # 0 => src < step /\ plan[src].act = "move"

\* A move that has passed the checks goes to another directory.
Apart ==
    pc \notin Over \cup {"open", "stat"} /\ Act.act = "move" =>
        Target # SourceDir

\* Where the message's file is, and the file that is to replace it.
Tracked ==
    ~error /\ ~Discarded =>
        /\ pc \in Untouched \cup Over =>
              \E f \in Files : IsMessage(f) /\ At(f, SourceDir, msg.name)
        /\ pc \in Busy /\ Act.act = "move" =>
              /\ At(step, Target, dname)
              /\ \E f \in Files \ {step} :
                    IsMessage(f) /\ At(f, SourceDir, msg.name)
        /\ pc \in {"utimes", "setfile"} =>
              \E f \in Files : IsMessage(f) /\ At(f, Target, dname)
        /\ pc = "reopen" => step \in durable

\* The message is followed in lists that are straight.
Course == Sourced /\ (Straight /\ msg.stdin => Apart /\ Tracked)

-----------------------------------------------------------------------------
\* A reader's rename leaves a file where it is, or where it is seen: that place
\* is free then, and no reader takes a file from there.
LEMMA MarkKeepsAt ==
    ASSUME MarkSeen, entry \in Layout, NEW f \in Files, NEW d \in Dirs,
           NEW n \in Names, At(f, d, n)
    PROVE  At(f, d, n)'
<1>1. PICK dr \in Dirs, nr \in Names :
         /\ entry[dr][nr] # NoFile
         /\ entry[SeenDir(dr)][SeenName(nr)] = NoFile
         /\ entry' = Rename(dr, nr, SeenDir(dr), SeenName(nr))
  BY DEF MarkSeen, SeenDir, SeenName
<1>2. \A x \in Dirs, y \in Names :
         /\ SeenDir(x) \in Dirs /\ SeenName(y) \in Names
         /\ SeenDir(SeenDir(x)) = SeenDir(x)
         /\ SeenName(SeenName(y)) = SeenName(y)
  BY DEF Dirs, Subdirs, Names, SeenDir, SeenName
<1>3. \A x \in Dirs, y \in Names :
         entry'[x][y] = IF x = SeenDir(dr) /\ y = SeenName(nr) THEN entry[dr][nr]
                        ELSE IF x = dr /\ y = nr THEN NoFile ELSE entry[x][y]
  BY <1>1, <1>2, RenameEffect
<1>4. f # NoFile
  BY DEF Files, NoFile
<1>5. CASE entry[d][n] = f
  <2>1. CASE d = dr /\ n = nr
    <3>1. entry'[SeenDir(d)][SeenName(n)] = f
      BY <1>2, <1>3, <1>5, <2>1
    <3>2. entry'[d][n] = NoFile
      BY <1>1, <1>3, <1>5, <2>1
    <3>3. QED
      BY <3>1, <3>2 DEF At, SeenDir, SeenName
  <2>2. CASE ~(d = dr /\ n = nr)
    <3>1. entry'[d][n] = f
      BY <1>1, <1>3, <1>4, <1>5, <2>2
    <3>2. QED
      BY <3>1 DEF At
  <2>3. QED
    BY <2>1, <2>2
<1>6. CASE entry[d][n] = NoFile /\ entry[SeenDir(d)][SeenName(n)] = f
  <2>1. ~(d = SeenDir(dr) /\ n = SeenName(nr))
    BY <1>1, <1>2, <1>4, <1>6
  <2>2. ~(SeenDir(d) = dr /\ SeenName(n) = nr)
    BY <1>1, <1>2, <1>6
  <2>3. entry'[d][n] = NoFile
    BY <1>3, <1>6, <2>1
  <2>4. entry'[SeenDir(d)][SeenName(n)] = f
    BY <1>1, <1>2, <1>3, <1>4, <1>6, <2>2
  <2>5. QED
    BY <2>3, <2>4 DEF At, SeenDir, SeenName
<1>7. QED
  BY <1>5, <1>6 DEF At, SeenDir, SeenName

\* What stays of a file that is not written to while the list goes on.
LEMMA MessageStays ==
    ASSUME plan' = plan, WroteBefore' <=> WroteBefore,
           durable \subseteq durable', NEW f, IsMessage(f), text'[f] = text[f]
    PROVE  IsMessage(f)'
BY DEF IsMessage, Written

\* Steps that change no directory, no file and not the message.
LEMMA TrackedSame ==
    ASSUME Tracked, UNCHANGED <<entry, text, msg, plan, step, src, dname>>,
           durable \subseteq durable',
           \/ error'
           \/ /\ error' = error
              /\ \/ pc \in Untouched /\ pc' \in Untouched
                 \/ pc \in Busy /\ pc' \in Busy
                 \/ pc = "utimes" /\ pc' = "setfile"
                 \/ pc \in Over /\ pc' \in Over
    PROVE  Tracked'
<1>1. /\ SourceDir' = SourceDir /\ Target' = Target /\ Act' = Act
      /\ Discarded' <=> Discarded
      /\ \A f, d, n : At(f, d, n)' <=> At(f, d, n)
      /\ \A f : IsMessage(f) => IsMessage(f)'
  BY DEF SourceDir, HandleDir, Target, Act, Discarded, IsMessage, WroteBefore,
     At, SeenDir, SeenName
<1>2. \A f : At(f, SourceDir, msg.name) => At(f, SourceDir, msg.name)'
  BY <1>1 DEF At, SeenDir, SeenName
<1>3. \A f : At(f, Target, dname) => At(f, Target, dname)'
  BY <1>1 DEF At, SeenDir, SeenName
<1>4. At(step, Target, dname) => At(step, Target, dname)'
  BY <1>1 DEF At, SeenDir, SeenName
<1>5. CASE error'
  BY <1>5 DEF Tracked
<1>6. CASE Discarded
  <2>1. Discarded'
    BY <1>1, <1>6
  <2>2. QED
    BY <2>1 DEF Tracked
<1>7. CASE ~error' /\ error' = error /\ ~Discarded
  <2>1. ~error
    BY <1>7
  <2>2. CASE pc \in Untouched \cup Over /\ pc' \in Untouched \cup Over
    <3>1. PICK f \in Files : IsMessage(f) /\ At(f, SourceDir, msg.name)
      BY <1>7, <2>1, <2>2 DEF Tracked
    <3>2. IsMessage(f)' /\ At(f, SourceDir, msg.name)'
      BY <1>1, <1>2, <3>1
    <3>3. QED
      BY <2>2, <3>2 DEF Tracked, Untouched, Busy, Over
  <2>3. CASE pc \in Busy /\ pc' \in Busy
    <3>1. CASE Act.act = "move"
      <4>1. PICK f \in Files \ {step} :
               IsMessage(f) /\ At(f, SourceDir, msg.name)
        BY <1>7, <2>1, <2>3, <3>1 DEF Tracked
      <4>2. At(step, Target, dname)'
        BY <1>4, <1>7, <2>1, <2>3, <3>1 DEF Tracked
      <4>3. IsMessage(f)' /\ At(f, SourceDir, msg.name)' /\ f # step'
        BY <1>1, <1>2, <4>1
      <4>4. QED
        BY <2>3, <4>2, <4>3 DEF Tracked, Untouched, Busy, Over
    <3>2. CASE Act.act # "move"
      <4>1. ~(Act.act = "move")'
        BY <1>1, <3>2
      <4>2. QED
        BY <2>3, <4>1 DEF Tracked, Untouched, Busy, Over
    <3>3. QED
      BY <3>1, <3>2
  <2>4. CASE pc = "utimes" /\ pc' = "setfile"
    <3>1. PICK f \in Files : IsMessage(f) /\ At(f, Target, dname)
      BY <1>7, <2>1, <2>4 DEF Tracked
    <3>2. IsMessage(f)' /\ At(f, Target, dname)'
      BY <1>1, <1>3, <3>1
    <3>3. QED
      BY <2>4, <3>2 DEF Tracked, Untouched, Busy, Over
  <2>5. QED
    BY <1>7, <2>2, <2>3, <2>4
<1>8. QED
  BY <1>5, <1>6, <1>7
-----------------------------------------------------------------------------
\* A move from main's source is checked against the temporary maildir, one from
\* the directory of another move goes elsewhere in a straight list.
LEMMA MoveElsewhere ==
    ASSUME Situation, Placed, Sourced, Straight, msg.stdin, StatSource
    PROVE  Target # SourceDir
<1>1. /\ plan \in Plans /\ step \in 1 .. Len(plan) /\ Len(plan) \in Nat
      /\ src \in 0 .. Len(plan) /\ Act.act = "move" /\ Target = Act.dir
  BY Types DEF StatSource, Over, Situation, Handles, IInv, TypeOK, Target
<1>2. CASE src = 0
  BY <1>1, <1>2 DEF StatSource, SourceDir, HandleDir
<1>3. CASE src # 0
  <2>1. src \in 1 .. step - 1 /\ plan[src].act = "move"
    BY <1>1, <1>3 DEF Sourced
  <2>2. PICK i \in 1 .. step - 1 :
           /\ plan[i].act = "move" /\ plan[i].dir = SourceDir
           /\ \A j \in i + 1 .. step - 1 : plan[j].act # "move"
    BY <2>1 DEF Placed
  <2>3. i \in Moves /\ step \in Moves /\ i < step
    BY <1>1, <2>2 DEF Moves, Act
  <2>4. plan[i].dir # plan[step].dir
    BY <2>2, <2>3 DEF Straight
  <2>5. QED
    BY <1>1, <2>2, <2>4 DEF Act
<1>4. QED
  BY <1>2, <1>3

\* Only a move that is over changes the source.
LEMMA SourcedStep == Situation /\ Sourced /\ [Next]_vars => Sourced'
<1> SUFFICES ASSUME Situation, Sourced, [Next]_vars PROVE Sourced'
  OBVIOUS
<1>1. step \in Nat /\ (pc \notin Over => step \in 1 .. Len(plan))
  BY Types
<1>2. CASE SetMoved /\ src' = step
  <2>1. step' = step + 1 /\ plan' = plan /\ Act.act = "move"
    BY <1>1, <1>2 DEF SetMoved, Advance, Situation, Handles
  <2>2. QED
    BY <1>1, <1>2, <2>1 DEF Sourced, Act
<1>3. CASE src' = src
  <2>1. step' \in {step, step + 1} /\ plan' = plan
    BY DEF Next, Mdsort, MarkSeen, Terminated, OpenDst, RefuseTemporary,
       StatSource, CreateFile, RenameSource, WriteText, SyncText, UnlinkSource,
       UndoCreate, RestoreTime, SetMoved, Reopen, Discard, Exec, Reject, Close,
       Advance, vars
  <2>2. src < step => src < step'
    BY <1>1, <2>1 DEF Situation, IInv, TypeOK
  <2>3. QED
    BY <1>3, <2>1, <2>2 DEF Sourced
<1>4. QED
  BY <1>2, <1>3 DEF Next, Mdsort, MarkSeen, Terminated, OpenDst,
     RefuseTemporary, StatSource, CreateFile, RenameSource, WriteText, SyncText,
     UnlinkSource, UndoCreate, RestoreTime, SetMoved, Reopen, Discard, Exec,
     Reject, Close, ctlVars, vars

\* An action that begins is no move that has passed the checks.
LEMMA ApartAdvance ==
    ASSUME Situation, pc \notin Over, plan' = plan, Advance
    PROVE  Apart'
<1>1. plan \in Plans /\ step + 1 \in 1 .. Len(plan) + 1
  BY Types
<1>2. pc' = Begin(plan, step + 1) /\ step' = step + 1
  BY DEF Advance
<1>3. \/ pc' \in {"open", "close"}
      \/ Act'.act # "move"
  BY <1>1, <1>2, BeginType, BeginAct DEF Act
<1>4. QED
  BY <1>3 DEF Apart, Over

LEMMA ApartStep ==
    ASSUME Situation, Placed, Sourced, Straight, msg.stdin, Apart, [Next]_vars
    PROVE  Apart'
<1>1. ASSUME UNCHANGED <<plan, step, src>>,
             \/ pc' \in Over \cup {"open", "stat"}
             \/ pc \notin Over \cup {"open", "stat"}
             \/ Target # SourceDir
      PROVE  Apart'
  BY <1>1 DEF Apart, Target, SourceDir, HandleDir, Act
<1>2. CASE StatSource
  BY <1>1, <1>2, MoveElsewhere DEF StatSource
<1>3. CASE SetMoved \/ Reopen \/ Discard \/ Exec \/ Reject
  <2>1. plan' = plan /\ pc \notin Over
    BY <1>3 DEF SetMoved, Reopen, Discard, Exec, Reject, Over
  <2>2. CASE Advance
    BY <2>1, <2>2, ApartAdvance
  <2>3. CASE Fail
    BY <2>3 DEF Fail, Apart, Over
  <2>4. QED
    BY <1>3, <2>2, <2>3 DEF SetMoved, Reopen, Discard, Exec, Reject
<1>4. CASE \/ OpenDst \/ RefuseTemporary \/ CreateFile \/ RenameSource
           \/ WriteText \/ SyncText \/ UnlinkSource \/ UndoCreate \/ RestoreTime
           \/ Close \/ MarkSeen \/ UNCHANGED vars
  <2>1. UNCHANGED <<plan, step, src>>
    BY <1>4 DEF OpenDst, RefuseTemporary, CreateFile, RenameSource, WriteText,
       SyncText, UnlinkSource, UndoCreate, RestoreTime, Close, MarkSeen, ctlVars,
       vars
  <2>2. \/ pc' \in Over \cup {"open", "stat"}
        \/ pc \notin Over \cup {"open", "stat"}
    BY <1>4 DEF OpenDst, RefuseTemporary, CreateFile, RenameSource, WriteText,
       SyncText, UnlinkSource, UndoCreate, RestoreTime, Close, MarkSeen, ctlVars,
       vars, Fail, Over
  <2>3. QED
    BY <1>1, <2>1, <2>2
<1>5. QED
  BY <1>2, <1>3, <1>4 DEF Next, Mdsort, Terminated

-----------------------------------------------------------------------------
\* The message is where it was found when the action is done, or where the
\* action has put it: the list goes on with it there.
LEMMA TrackedAdvance ==
    ASSUME Situation, pc \notin Over, plan' = plan, Advance,
           NEW f \in Files, IsMessage(f)', At(f, SourceDir, msg.name)'
    PROVE  Tracked'
<1>1. pc' \in Untouched \cup {"close"}
  BY AdvanceFacts
<1>2. QED
  BY <1>1 DEF Tracked, Untouched, Busy, Over

\* Before any error the list has not come to its end, and an error is final.
LEMMA NoErrorYet ==
    ASSUME Situation, Outcome, pc \notin Over \cup {"undo"}
    PROVE  ~error /\ ~Discarded
BY Types DEF Outcome, Over

\* The file an action creates takes a free name, and in another directory than
\* the message's if it is a move.
LEMMA TrackedCreate ==
    ASSUME Situation, Outcome, Apart, Tracked, CreateFile
    PROVE  Tracked'
<1>1. /\ step \in Files /\ Target \in Dirs /\ SourceDir \in Dirs
      /\ msg.name \in Names /\ entry \in Layout /\ text \in [Files -> Text]
      /\ pc = "create" /\ plan' = plan /\ step' = step /\ src' = src
      /\ msg' = msg /\ durable' = durable
  BY Types DEF CreateFile, Over
<1>2. SourceDir' = SourceDir /\ Target' = Target /\ Act' = Act
  BY <1>1 DEF SourceDir, HandleDir, Target, Act
<1>3. PICK f \in Files : IsMessage(f) /\ At(f, SourceDir, msg.name)
  BY <1>1, NoErrorYet DEF Tracked, Untouched, Over
<1>4. CASE Fail
  BY <1>4 DEF Fail, Tracked
<1>5. ASSUME NEW n \in Names, entry[Target][n] = NoFile,
             entry' = Link(Target, n, step), dname' = n,
             text' = [text EXCEPT ![step] = "empty"],
             pc' \in {"rename", "write"}
      PROVE  Tracked'
  <2>1. f # step
    <3>1. text[step] = "none"
      BY <1>1 DEF Situation, IInv, Fresh, Untouched
    <3>2. text[f] # "none"
      BY <1>3 DEF IsMessage, Written
    <3>3. QED
      BY <3>1, <3>2
  <2>2. \A x \in Dirs, y \in Names :
           entry'[x][y] = IF x = Target /\ y = n THEN step ELSE entry[x][y]
    BY <1>1, <1>5, LinkEffect
  <2>3. At(step, Target, dname)'
    BY <1>1, <1>2, <1>5, <2>2 DEF At
  <2>4. IsMessage(f)'
    <3>1. text'[f] = text[f]
      BY <1>1, <1>5, <2>1
    <3>2. WroteBefore' <=> WroteBefore
      BY <1>1 DEF WroteBefore
    <3>3. QED
      BY <1>1, <1>3, <3>1, <3>2, MessageStays
  <2>5. ASSUME Act.act = "move"
        PROVE  At(f, SourceDir, msg.name)'
    <3>1. Target # SourceDir
      BY <1>1, <2>5 DEF Apart, Over
    <3>2. entry'[SourceDir][msg.name] = entry[SourceDir][msg.name]
      BY <1>1, <2>2, <3>1
    <3>3. f # NoFile
      BY DEF Files, NoFile
    <3>4. /\ SeenDir(SourceDir) \in Dirs /\ SeenName(msg.name) \in Names
      BY <1>1 DEF Dirs, Subdirs, Names, SeenDir, SeenName
    <3>5. entry[SeenDir(SourceDir)][SeenName(msg.name)] = f =>
             entry'[SeenDir(SourceDir)][SeenName(msg.name)] = f
      BY <1>5, <2>2, <3>3, <3>4
    <3>6. QED
      BY <1>1, <1>2, <1>3, <3>2, <3>5 DEF At, SeenDir, SeenName
  <2>6. CASE Act.act = "move"
    <3>1. /\ At(step, Target, dname)' /\ IsMessage(f)' /\ f # step'
          /\ At(f, SourceDir, msg.name)'
      BY <1>1, <2>1, <2>3, <2>4, <2>5, <2>6
    <3>2. QED
      BY <1>5, <3>1 DEF Tracked, Untouched, Busy, Over
  <2>7. CASE Act.act # "move"
    <3>1. ~(Act.act = "move")'
      BY <1>2, <2>7
    <3>2. QED
      BY <1>5, <3>1 DEF Tracked, Untouched, Busy, Over
  <2>8. QED
    BY <2>6, <2>7
<1>6. \A i \in Ids : [id |-> i, seen |-> MsgFlags(SourceDir, Target, msg.seen)]
                      \in Names
  BY DEF MsgFlags, Names, Situation, IInv, TypeOK
<1>7. QED
  BY <1>4, <1>5, <1>6 DEF CreateFile

\* What is known of a move under way.
LEMMA MoveFacts ==
    ASSUME Situation, Outcome, Apart, Tracked, pc \in Busy \ {"undo"},
           Act.act = "move"
    PROVE  /\ Target \in Dirs /\ SourceDir \in Dirs /\ step \in Files
           /\ msg.name \in Names /\ dname \in Names /\ entry \in Layout
           /\ text \in [Files -> Text]
           /\ Target # SourceDir /\ At(step, Target, dname)
           /\ \E f \in Files \ {step} :
                 IsMessage(f) /\ At(f, SourceDir, msg.name)
<1>1. pc \notin Over \cup {"open", "stat", "undo"}
  BY DEF Busy, Over
<1>2. QED
  BY <1>1, Types, NoErrorYet DEF Apart, Tracked, Over

\* A rename takes the message to the place of the file that was created.
LEMMA TrackedRename ==
    ASSUME Situation, Outcome, Apart, Tracked, RenameSource
    PROVE  Tracked'
<1>1. /\ pc = "rename" /\ Act.act = "move"
      /\ UNCHANGED <<text, durable, plan, step, src, msg, dname>>
  BY DEF RenameSource, Situation, Handles
<1>2. PICK f \in Files \ {step} : IsMessage(f) /\ At(f, SourceDir, msg.name)
  BY <1>1, MoveFacts DEF Busy
<1>3. CASE error' = TRUE
  BY <1>3 DEF Tracked
<1>4. CASE pc' = "write" /\ UNCHANGED <<entry, error>>
  BY <1>1, <1>4, TrackedSame DEF Busy
<1>5. CASE /\ SourceExists /\ pc' = "utimes"
           /\ entry' = Rename(SourceDir, msg.name, Target, dname)
  <2>1. entry[SourceDir][msg.name] = f
    BY <1>2, <1>5 DEF At, SourceExists
  <2>2. entry'[Target][dname] = f
    BY <1>1, <1>5, <2>1, MoveFacts, RenameEffect DEF Busy
  <2>3. Target' = Target
    BY <1>1 DEF Target, Act, SourceDir, HandleDir
  <2>4. At(f, Target, dname)'
    BY <1>1, <2>2, <2>3 DEF At
  <2>5. WroteBefore' <=> WroteBefore
    BY <1>1 DEF WroteBefore
  <2>6. IsMessage(f)'
    BY <1>1, <1>2, <2>5, MessageStays
  <2>7. QED
    BY <1>5, <2>4, <2>6 DEF Tracked, Untouched, Busy, Over
<1>6. QED
  BY <1>3, <1>4, <1>5 DEF RenameSource

\* Writing changes no other file.
LEMMA TrackedWrite ==
    ASSUME Situation, Outcome, Apart, Tracked, WriteText
    PROVE  Tracked'
<1>1. /\ pc = "write" /\ UNCHANGED <<entry, durable, plan, step, src, msg, dname>>
  BY DEF WriteText, ctlVars
<1>2. CASE error' = TRUE
  BY <1>2 DEF Tracked
<1>3. CASE pc' = "sync" /\ text' = [text EXCEPT ![step] = Written(plan)]
  <2>1. SourceDir' = SourceDir /\ Target' = Target /\ Act' = Act
    BY <1>1 DEF Target, Act, SourceDir, HandleDir
  <2>2. CASE Act.act = "move"
    <3>1. PICK f \in Files \ {step} : IsMessage(f) /\ At(f, SourceDir, msg.name)
      BY <1>1, <2>2, MoveFacts DEF Busy
    <3>2. At(step, Target, dname) /\ text \in [Files -> Text]
      BY <1>1, <2>2, MoveFacts DEF Busy
    <3>3. /\ At(step, Target, dname)' /\ At(f, SourceDir, msg.name)'
      BY <1>1, <2>1, <3>1, <3>2 DEF At, SeenDir, SeenName
    <3>4. text'[f] = text[f]
      BY <1>3, <3>1, <3>2
    <3>5. WroteBefore' <=> WroteBefore
      BY <1>1 DEF WroteBefore
    <3>6. IsMessage(f)' /\ f # step'
      BY <1>1, <3>1, <3>4, <3>5, MessageStays
    <3>7. QED
      BY <1>3, <3>3, <3>6 DEF Tracked, Untouched, Busy, Over
  <2>3. CASE Act.act # "move"
    <3>1. ~(Act.act = "move")'
      BY <2>1, <2>3
    <3>2. QED
      BY <1>3, <3>1 DEF Tracked, Untouched, Busy, Over
  <2>4. QED
    BY <2>2, <2>3
<1>4. QED
  BY <1>2, <1>3 DEF WriteText

\* The file created replaces the one that is unlinked.
LEMMA TrackedUnlink ==
    ASSUME Situation, Outcome, Apart, Tracked, UnlinkSource
    PROVE  Tracked'
<1>1. /\ pc = "unlink"
      /\ UNCHANGED <<text, durable, plan, step, src, msg, dname>>
  BY DEF UnlinkSource, ctlVars
<1>2. step \in durable /\ text[step] = Written(plan)
  BY <1>1 DEF Situation, IInv, Pending, Reads
<1>3. CASE error' = TRUE
  BY <1>3 DEF Tracked
<1>4. CASE Act.act # "move" /\ pc' = "reopen"
  BY <1>1, <1>2, <1>4 DEF Tracked, Untouched, Busy, Over
<1>5. CASE /\ Act.act = "move" /\ SourceExists /\ pc' = "utimes"
           /\ entry' = Unlink(SourceDir, msg.name)
  <2>1. PICK f \in Files \ {step} : IsMessage(f) /\ At(f, SourceDir, msg.name)
    BY <1>1, <1>5, MoveFacts DEF Busy
  <2>2. /\ Target \in Dirs /\ SourceDir \in Dirs /\ step \in Files
        /\ msg.name \in Names /\ dname \in Names /\ entry \in Layout
        /\ Target # SourceDir /\ At(step, Target, dname)
    BY <1>1, <1>5, MoveFacts DEF Busy
  <2>3. entry[SourceDir][msg.name] = f
    BY <1>5, <2>1 DEF At, SourceExists
  <2>4. /\ SeenDir(Target) \in Dirs /\ SeenName(dname) \in Names
    BY <2>2 DEF Dirs, Subdirs, Names, SeenDir, SeenName
  <2>5. \A x \in Dirs, y \in Names :
           entry'[x][y] = IF x = SourceDir /\ y = msg.name THEN NoFile
                          ELSE entry[x][y]
    BY <1>5, <2>2, UnlinkEffect
  <2>6. entry'[Target][dname] = entry[Target][dname]
    BY <2>2, <2>5
  <2>7. entry[SeenDir(Target)][SeenName(dname)] = step =>
           entry'[SeenDir(Target)][SeenName(dname)] = step
    BY <2>1, <2>3, <2>4, <2>5
  <2>8. Target' = Target
    BY <1>1 DEF Target, Act, SourceDir, HandleDir
  <2>9. PICK g \in Files : g = step
    BY <2>2
  <2>10. IsMessage(g)' /\ At(g, Target, dname)'
    BY <1>1, <1>2, <2>2, <2>6, <2>7, <2>8, <2>9
    DEF At, SeenDir, SeenName, IsMessage, Written
  <2>11. QED
    BY <1>5, <2>10 DEF Tracked, Untouched, Busy, Over
<1>6. QED
  BY <1>3, <1>4, <1>5 DEF UnlinkSource

\* The path of the message is that of the file moved.
LEMMA TrackedMoved ==
    ASSUME Situation, Outcome, Tracked, SetMoved
    PROVE  Tracked'
<1>1. /\ pc = "setfile" /\ Act.act = "move" /\ Target \in Dirs
      /\ UNCHANGED <<entry, text, durable, plan, dname>>
      /\ step \in 1 .. Len(plan) /\ pc \notin Over
  BY Types DEF SetMoved, Situation, Handles, Over, fsVars
<1>2. CASE Fail
  BY <1>2 DEF Fail, Tracked
<1>3. CASE /\ msg' = [msg EXCEPT !.dir = Target, !.name = dname] /\ Advance
           /\ \/ Target # SourceDir /\ src' = step
              \/ Target = SourceDir /\ src' = src
  <2>1. PICK f \in Files : IsMessage(f) /\ At(f, Target, dname)
    BY <1>1, NoErrorYet DEF Tracked, Over
  <2>2. SourceDir' = Target
    BY <1>1, <1>3 DEF SourceDir, HandleDir, Target, Act
  <2>3. msg'.name = dname
    BY <1>1, <1>3 DEF Situation, IInv, TypeOK
  <2>4. At(f, SourceDir, msg.name)'
    BY <1>1, <2>1, <2>2, <2>3 DEF At, SeenDir, SeenName
  <2>5. WroteBefore' <=> WroteBefore
    BY <1>1, <1>3, WroteSame DEF Advance
  <2>6. IsMessage(f)'
    BY <1>1, <2>1, <2>5, MessageStays
  <2>7. QED
    BY <1>1, <1>3, <2>4, <2>6, TrackedAdvance
<1>4. QED
  BY <1>2, <1>3 DEF SetMoved

\* After a label the message is the file that was opened.
LEMMA TrackedReopen ==
    ASSUME Situation, Outcome, Tracked, Reopen
    PROVE  Tracked'
<1>1. /\ pc = "reopen" /\ UNCHANGED <<entry, text, durable, plan, src, dname>>
      /\ step \in Files /\ pc \notin Over
  BY Types DEF Reopen, Over, fsVars, ctlVars
<1>2. CASE Fail
  BY <1>2 DEF Fail, Tracked
<1>3. CASE /\ Advance /\ entry[SourceDir][dname] # NoFile
           /\ msg' = [msg EXCEPT !.dir = SourceDir, !.name = dname,
                                 !.fd = entry[SourceDir][dname]]
  <2>1. entry[SourceDir][dname] = step
    BY <1>1, <1>3 DEF Situation, Reads
  <2>2. text[step] = Written(plan) /\ step \in durable
    BY <1>1, NoErrorYet DEF Situation, Reads, Tracked, Over
  <2>3. PICK f \in Files : f = step
    BY <1>1
  <2>4. IsMessage(f)'
    BY <1>1, <2>2, <2>3 DEF IsMessage, Written
  <2>5. SourceDir' = SourceDir /\ msg'.name = dname
    BY <1>1, <1>3 DEF SourceDir, HandleDir, Situation, IInv, TypeOK
  <2>6. At(f, SourceDir, msg.name)'
    BY <1>1, <2>1, <2>3, <2>5 DEF At
  <2>7. QED
    BY <1>1, <1>3, <2>4, <2>6, TrackedAdvance
<1>4. QED
  BY <1>2, <1>3 DEF Reopen

\* Commands and the rejection leave the message alone, a discard ends the list.
LEMMA TrackedOthers ==
    ASSUME Situation, Outcome, Tracked, Discard \/ Exec \/ Reject
    PROVE  Tracked'
<1>1. /\ pc \in {"discard", "exec", "reject"} /\ pc \notin Over
      /\ UNCHANGED <<text, durable, plan, src, msg, dname>>
      /\ plan \in Plans /\ step \in 1 .. Len(plan) /\ Len(plan) \in Nat
      /\ Act.act # "move" /\ Act.act # "write"
  BY Types DEF Discard, Exec, Reject, Over, fsVars, ctlVars, Situation, Handles
<1>2. CASE Fail
  BY <1>2 DEF Fail, Tracked
<1>3. CASE Discard /\ Advance
  <2>1. plan[step].act = "discard"
    BY <1>3 DEF Discard, Situation, IInv, Control, Act
  <2>2. step = Len(plan)
    BY <1>1, <2>1, PlanType
  <2>3. Discarded'
    BY <1>1, <1>3, <2>1, <2>2 DEF Discarded, Advance
  <2>4. QED
    BY <2>3 DEF Tracked
<1>4. CASE (Exec \/ Reject) /\ Advance
  <2>1. entry' = entry
    BY <1>4 DEF Exec, Reject, fsVars
  <2>2. PICK f \in Files : IsMessage(f) /\ At(f, SourceDir, msg.name)
    BY <1>1, NoErrorYet DEF Tracked, Untouched, Over
  <2>3. SourceDir' = SourceDir
    BY <1>1 DEF SourceDir, HandleDir
  <2>4. At(f, SourceDir, msg.name)'
    BY <1>1, <2>1, <2>2, <2>3 DEF At, SeenDir, SeenName
  <2>5. WroteBefore' <=> WroteBefore
    BY <1>1, <1>4, WroteSame DEF Advance
  <2>6. IsMessage(f)'
    BY <1>1, <2>2, <2>5, MessageStays
  <2>7. QED
    BY <1>1, <1>4, <2>4, <2>6, TrackedAdvance
<1>5. QED
  BY <1>2, <1>3, <1>4 DEF Discard, Exec, Reject

\* A reader's rename.
LEMMA TrackedMark ==
    ASSUME Situation, Tracked, MarkSeen
    PROVE  Tracked'
<1>1. /\ UNCHANGED <<text, durable, msg, plan, step, pc, src, dname, error>>
      /\ entry \in Layout /\ SourceDir \in Dirs /\ msg.name \in Names
      /\ dname \in Names
      /\ pc \notin Over => step \in Files /\ Target \in Dirs
  BY Types DEF MarkSeen, ctlVars
<1>2. /\ SourceDir' = SourceDir /\ Target' = Target /\ Act' = Act
      /\ Discarded' <=> Discarded
      /\ \A f : IsMessage(f) => IsMessage(f)'
  BY <1>1 DEF SourceDir, HandleDir, Target, Act, Discarded, IsMessage,
     WroteBefore
<1>3. ASSUME NEW f \in Files, At(f, SourceDir, msg.name)
      PROVE  At(f, SourceDir, msg.name)'
  <2>1. PICK d \in Dirs, n \in Names : d = SourceDir /\ n = msg.name
    BY <1>1
  <2>2. At(f, d, n)'
    BY <1>1, <1>3, <2>1, MarkKeepsAt
  <2>3. QED
    BY <1>1, <1>2, <2>1, <2>2 DEF At, SeenDir, SeenName
<1>4. ASSUME NEW f \in Files, pc \notin Over, At(f, Target, dname)
      PROVE  At(f, Target, dname)'
  <2>1. PICK d \in Dirs, n \in Names : d = Target /\ n = dname
    BY <1>1, <1>4
  <2>2. At(f, d, n)'
    BY <1>1, <1>4, <2>1, MarkKeepsAt
  <2>3. QED
    BY <1>1, <1>2, <2>1, <2>2 DEF At, SeenDir, SeenName
<1>5. CASE error \/ Discarded
  BY <1>1, <1>2, <1>5 DEF Tracked
<1>6. CASE ~error /\ ~Discarded
  <2>1. CASE pc \in Untouched \cup Over
    <3>1. PICK f \in Files : IsMessage(f) /\ At(f, SourceDir, msg.name)
      BY <1>6, <2>1 DEF Tracked
    <3>2. IsMessage(f)' /\ At(f, SourceDir, msg.name)'
      BY <1>2, <1>3, <3>1
    <3>3. QED
      BY <1>1, <2>1, <3>2 DEF Tracked, Untouched, Busy, Over
  <2>2. CASE pc \in Busy /\ Act.act = "move"
    <3>1. PICK f \in Files \ {step} : IsMessage(f) /\ At(f, SourceDir, msg.name)
      BY <1>6, <2>2 DEF Tracked
    <3>2. PICK g \in Files : g = step /\ At(g, Target, dname)
      BY <1>1, <1>6, <2>2 DEF Tracked, Busy, Over
    <3>3. pc \notin Over
      BY <2>2 DEF Busy, Over
    <3>4. At(g, Target, dname)' /\ g = step'
      BY <1>1, <1>4, <3>2, <3>3
    <3>5. At(step, Target, dname)'
      BY <3>4 DEF At, SeenDir, SeenName
    <3>6. IsMessage(f)' /\ At(f, SourceDir, msg.name)' /\ f # step'
      BY <1>1, <1>2, <1>3, <3>1
    <3>7. QED
      BY <1>1, <2>2, <3>5, <3>6 DEF Tracked, Untouched, Busy, Over
  <2>3. CASE pc \in Busy /\ Act.act # "move"
    <3>1. ~(Act.act = "move")'
      BY <1>2, <2>3
    <3>2. QED
      BY <1>1, <2>3, <3>1 DEF Tracked, Untouched, Busy, Over
  <2>4. CASE pc \in {"utimes", "setfile"}
    <3>1. PICK f \in Files : IsMessage(f) /\ At(f, Target, dname)
      BY <1>6, <2>4 DEF Tracked
    <3>2. IsMessage(f)' /\ At(f, Target, dname)'
      BY <1>2, <1>4, <2>4, <3>1 DEF Over
    <3>3. QED
      BY <1>1, <2>4, <3>2 DEF Tracked, Untouched, Busy, Over
  <2>5. CASE pc \notin Untouched \cup Over \cup Busy \cup {"utimes", "setfile"}
    BY <1>1, <1>6, <2>5 DEF Tracked, Untouched, Busy, Over
  <2>6. QED
    BY <2>1, <2>2, <2>3, <2>4, <2>5
<1>7. QED
  BY <1>5, <1>6

LEMMA CourseStep ==
    Account /\ Course /\ msg.stdin /\ [Next]_vars => Course'
<1> SUFFICES ASSUME Account, Course, msg.stdin, [Next]_vars PROVE Course'
  OBVIOUS
<1>1. Situation /\ Outcome /\ Placed /\ Sourced
  BY DEF Account, Course
<1>2. plan' = plan
  BY DEF Next, Mdsort, MarkSeen, Terminated, OpenDst, RefuseTemporary,
     StatSource, CreateFile, RenameSource, WriteText, SyncText, UnlinkSource,
     UndoCreate, RestoreTime, SetMoved, Reopen, Discard, Exec, Reject, Close, vars
<1>3. Straight' <=> Straight
  BY <1>2 DEF Straight, Moves
<1>4. ASSUME Straight, Apart, Tracked PROVE Tracked'
  <2>1. CASE OpenDst \/ RefuseTemporary \/ StatSource
    <3>1. /\ UNCHANGED <<entry, text, msg, plan, step, src, dname, durable>>
          /\ pc \in Untouched
          /\ error' \/ (error' = error /\ pc' \in Untouched)
      BY <2>1 DEF OpenDst, RefuseTemporary, StatSource, Fail, Untouched, fsVars
    <3>2. QED
      BY <1>4, <3>1, TrackedSame
  <2>2. CASE SyncText \/ RestoreTime \/ UndoCreate
    <3>1. CASE error'
      BY <3>1 DEF Tracked
    <3>2. CASE ~error'
      <4>1. ~UndoCreate
        BY <1>1, <3>2 DEF UndoCreate, Outcome
      <4>2. /\ UNCHANGED <<entry, text, msg, plan, step, src, dname>>
            /\ durable \subseteq durable' /\ error' = error
            /\ \/ pc \in Busy /\ pc' \in Busy
               \/ pc = "utimes" /\ pc' = "setfile"
        BY <2>2, <3>2, <4>1 DEF SyncText, RestoreTime, Fail, Busy, fsVars, ctlVars
      <4>3. QED
        BY <1>4, <4>2, TrackedSame
    <3>3. QED
      BY <3>1, <3>2
  <2>3. CASE Close \/ UNCHANGED vars
    <3>1. /\ UNCHANGED <<entry, text, msg, plan, step, src, dname, durable, error>>
      BY <2>3 DEF Close, vars, fsVars
    <3>2. CASE Close
      BY <1>4, <3>1, <3>2, TrackedSame DEF Close, Over
    <3>3. CASE UNCHANGED vars
      <4>1. pc' = pc
        BY <3>3 DEF vars
      <4>2. CASE pc \in Untouched \cup Busy \cup Over
        BY <1>4, <3>1, <4>1, <4>2, TrackedSame
      <4>3. CASE pc \notin Untouched \cup Busy \cup Over
        <5>1. Target' = Target /\ (Discarded' <=> Discarded)
          BY <3>1 DEF Target, Act, SourceDir, HandleDir, Discarded
        <5>2. \A f \in Files : IsMessage(f) /\ At(f, Target, dname) =>
                                  IsMessage(f)' /\ At(f, Target, dname)'
          BY <3>1, <5>1 DEF IsMessage, WroteBefore, At, SeenDir, SeenName
        <5>3. CASE error' \/ Discarded
          BY <5>1, <5>3 DEF Tracked
        <5>4. CASE ~error' /\ ~Discarded /\ pc \in {"utimes", "setfile"}
          <6>1. PICK f \in Files : IsMessage(f) /\ At(f, Target, dname)
            BY <1>4, <3>1, <5>4 DEF Tracked
          <6>2. IsMessage(f)' /\ At(f, Target, dname)'
            BY <5>2, <6>1
          <6>3. QED
            BY <4>1, <4>3, <5>4, <6>2 DEF Tracked, Untouched, Busy, Over
        <5>5. CASE ~error' /\ ~Discarded /\ pc \notin {"utimes", "setfile"}
          BY <1>4, <3>1, <4>1, <4>3, <5>5 DEF Tracked
        <5>6. QED
          BY <5>3, <5>4, <5>5
      <4>4. QED
        BY <4>2, <4>3
    <3>4. QED
      BY <2>3, <3>2, <3>3
  <2>4. QED
    BY <1>1, <1>4, <2>1, <2>2, <2>3, TrackedCreate, TrackedRename, TrackedWrite,
       TrackedUnlink, TrackedMoved, TrackedReopen, TrackedOthers, TrackedMark
    DEF Next, Mdsort, Terminated
<1>5. ASSUME Straight, Apart PROVE Apart'
  BY <1>1, <1>5, ApartStep
<1>6. Sourced'
  BY <1>1, SourcedStep
<1>7. QED
  BY <1>3, <1>4, <1>5, <1>6 DEF Course

\* At the start the message is where it was found.
LEMMA InitCourse == AtStart => Course
<1> SUFFICES ASSUME AtStart PROVE Course
  OBVIOUS
<1>1. /\ plan \in Plans /\ step = 1 /\ pc = Begin(plan, 1) /\ src = 0
      /\ text[0] = "orig" /\ durable = {0} /\ 0 \in Files
      /\ 1 \in 1 .. Len(plan) + 1
  BY PlanType, BoundsAssumption DEF AtStart, Ready, Files
<1>2. pc \in Untouched \cup {"close"} /\ (pc = "create" => Act.act = "write")
  BY <1>1, BeginType, BeginAct DEF Untouched, Act
<1>3. pc \in {"discard", "exec", "reject"} => Act.act # "move"
  BY <1>1, BeginAct DEF Act
<1>4. Sourced /\ Apart
  BY <1>1, <1>2, <1>3 DEF Sourced, Apart, Untouched, Over
<1>5. PICK n \in Names : /\ entry = [d \in Dirs |-> [m \in Names |->
                               IF d = SrcDir /\ m = n THEN 0 ELSE NoFile]]
                         /\ msg.name = n
  BY DEF AtStart, Ready
<1>6. At(0, SourceDir, msg.name)
  BY <1>1, <1>5, SrcDirAssumption DEF At, SourceDir, HandleDir
<1>7. IsMessage(0)
  BY <1>1 DEF IsMessage, WroteBefore
<1>8. Tracked
  BY <1>1, <1>2, <1>6, <1>7 DEF Tracked, Untouched, Busy, Over
<1>9. QED
  BY <1>4, <1>8 DEF Course

-----------------------------------------------------------------------------
\* Without a failing system call, a reader or an action that names the temporary
\* maildir there is no error: the message is at its path, the action's own file
\* where it was created.
Blameless == faults = 0 /\ renames = 0 /\ Deliveries = Moves => ~error

LEMMA BlamelessStep ==
    Account /\ Blameless /\ [Next]_vars => Blameless'
<1> SUFFICES ASSUME Account, Blameless, [Next]_vars,
                    faults' = 0, renames' = 0, (Deliveries = Moves)'
             PROVE  ~error'
  BY DEF Blameless
<1>1. /\ faults \in Nat /\ renames \in Nat
      /\ SourceDir \in Dirs /\ msg.name \in Names /\ dname \in Names
      /\ pc \notin Over => step \in 1 .. Len(plan) /\ Target \in Dirs
  BY Types DEF Account
<1>2. ~Fault
  BY <1>1 DEF Fault
<1>3. ~MarkSeen
  BY <1>1 DEF MarkSeen
<1>4. faults = 0 /\ renames = 0 /\ plan' = plan
  <2>1. UNCHANGED <<renames, plan>>
    BY <1>3 DEF Next, Mdsort, Terminated, OpenDst, RefuseTemporary, StatSource,
       CreateFile, RenameSource, WriteText, SyncText, UnlinkSource, UndoCreate,
       RestoreTime, SetMoved, Reopen, Discard, Exec, Reject, Close, vars
  <2>2. faults' = faults
    BY <1>2, <1>3 DEF Next, Mdsort, Terminated, OpenDst, RefuseTemporary,
       StatSource, CreateFile, RenameSource, WriteText, SyncText, UnlinkSource,
       UndoCreate, RestoreTime, SetMoved, Reopen, Discard, Exec, Reject, Close,
       vars, NoFault
  <2>3. QED
    BY <2>1, <2>2
<1>5. Deliveries = Moves
  BY <1>4 DEF Deliveries, Moves
<1>6. ~error /\ Calm
  BY <1>4, <1>5 DEF Blameless, Account, Quiet
<1>7. pc \in {"open", "stat"} => ~Temporary(Act.dir)
  <2>1. pc \in {"open", "stat"} => Act.act = "move" /\ step \in 1 .. Len(plan)
    BY <1>1 DEF Account, Situation, Handles, Over
  <2>2. step \in Moves => step \in Deliveries
    BY <1>5
  <2>3. QED
    BY <2>1, <2>2 DEF Moves, Deliveries, Act
<1>8. ~RefuseTemporary
  BY <1>7 DEF RefuseTemporary, Temporary
<1>9. CASE OpenDst
  <2>1. ~Missing(Act.dir)
    BY <1>7, <1>9 DEF OpenDst, Missing, Temporary
  <2>2. QED
    BY <1>2, <1>6, <1>9, <2>1 DEF OpenDst
<1>10. pc \in Busy \cup Untouched => SourceExists
  BY <1>1, <1>6 DEF Calm, Exact, Pair, Single, SourceExists, Busy, Untouched
<1>11. CASE RenameSource \/ UnlinkSource \/ Discard
  BY <1>2, <1>6, <1>10, <1>11 DEF RenameSource, UnlinkSource, Discard, Busy,
     Untouched
<1>12. pc \in {"utimes", "reopen"} => entry[Target][dname] # NoFile
  BY <1>1, <1>6 DEF Calm, Exact, Single, Over
<1>13. CASE RestoreTime
  BY <1>2, <1>6, <1>12, <1>13 DEF RestoreTime
<1>14. CASE Reopen
  <2>1. Target = SourceDir
    BY <1>14 DEF Reopen, Account, Situation, Handles, Target
  <2>2. QED
    BY <1>2, <1>6, <1>12, <1>14, <2>1 DEF Reopen
<1>15. CASE UndoCreate
  BY <1>6, <1>15 DEF UndoCreate
<1>16. CASE \/ StatSource \/ CreateFile \/ WriteText \/ SyncText \/ SetMoved
            \/ Exec \/ Reject \/ Close \/ UNCHANGED vars
  BY <1>2, <1>6, <1>16 DEF StatSource, CreateFile, WriteText, SyncText, SetMoved,
     Exec, Reject, Close, vars, ctlVars
<1>17. QED
  BY <1>3, <1>8, <1>9, <1>11, <1>13, <1>14, <1>15, <1>16
  DEF Next, Mdsort, Terminated

-----------------------------------------------------------------------------
\* What mdsort has in memory of a message whose list it has not begun.
NotBegun ==
    /\ plan \in Plans /\ step = 1 /\ pc = Begin(plan, 1)
    /\ src = 0 /\ opened = {0}
    /\ doutime = FALSE /\ error = FALSE /\ rv = "success" /\ renames = 0
    /\ \E n \in Names :
          /\ dname = n
          /\ msg = [dir |-> SrcDir, name |-> n, seen |-> n.seen, fd |-> 0,
                     stdin |-> TRUE]

\* The spool file is there alone, as nobody else knows the temporary maildir.
Alone ==
    entry = [d \in Dirs |-> [n \in Names |->
                IF d = SrcDir /\ n = msg.name THEN 0 ELSE NoFile]]

Before == {"mkdtemp", "mkdir", "opendir", "null", "create"}
During == {"read", "sync", "close"}
After == {"sweep", "rmdir", "exit"}

\* How far the message has come on its way from stdin to the spool file.
Spooling ==
    /\ phase \in Before \cup During \cup {"handle"} => verdict = "none"
    /\ phase \in Before \cup {"read", "sync", "handle"} => ~merr
    /\ phase = "walk" /\ verdict = "none" => ~merr
    /\ phase \in Before =>
          /\ entry = [d \in Dirs |-> [n \in Names |-> NoFile]]
          /\ text = [f \in Files |-> "none"]
          /\ durable = {}
    /\ phase \in During =>
          /\ Alone /\ durable \subseteq {0}
          /\ text = [f \in Files |-> IF f = 0 THEN text[0] ELSE "none"]
    /\ phase = "sync" => text[0] = "orig"
    /\ phase = "close" /\ ~merr => text[0] = "orig" /\ durable = {0}
    /\ phase \in {"walk", "handle"} /\ verdict # "match" =>
          /\ Alone /\ durable = {0}
          /\ text = [f \in Files |-> IF f = 0 THEN "orig" ELSE "none"]
    /\ verdict # "match" /\ phase \notin After => NotBegun
    /\ ~ShortWrites => ~torn

\* The message's file has arrived in the directory of the last delivery.
Arrived ==
    \E f \in Files, i \in Deliveries :
        /\ f \in durable /\ text[f] = Written(plan)
        /\ \A j \in Deliveries : j <= i
        /\ SourceDir = plan[i].dir
        /\ At(f, SourceDir, msg.name)

\* What has become of it while the list is executed, and afterwards.
Delivering ==
    /\ phase = "deliver" => verdict = "match" /\ ~merr
    /\ phase = "deliver" => Account /\ Course /\ Blameless
    /\ verdict = "match" /\ phase # "deliver" =>
          /\ phase \in After \cup {"walk"}
          /\ ~merr /\ Straight /\ ~Discarded /\ Deliveries # {} => Arrived

\* The status that main() comes to, and what it leaves of the temporary maildir.
Leaving ==
    /\ status \in {"0", "1", "75"} => phase = "exit" /\ (merr <=> status = "75")
    /\ faults = 0 /\ renames = 0 /\ Deliveries = Moves => ~merr
    /\ phase = "rmdir" /\ swept => Spooled = {}
    /\ phase = "exit" /\ status # "signal" /\ swept => tmp = {} /\ Spooled = {}

Kinds == MdaTypeOK /\ Control /\ msg.stdin

MdaInv == Kinds /\ Spooling /\ Delivering /\ Leaving

-----------------------------------------------------------------------------
\* The steps of main() itself, and those of the delivery and of readers.
Outside ==
    \/ MakeTemp \/ NullRewind \/ CreateSpool \/ ReadChunk \/ EndOfInput
    \/ SyncSpool \/ CloseSpool \/ Walk \/ Evaluate \/ Return \/ Sweep \/ Exit
Inside == [Next]_vars /\ UNCHANGED mdaVars

LEMMA StepCases == [MdaNext]_allVars => Outside \/ (Deliver \/ Reader \/ UNCHANGED allVars)
BY DEF MdaNext, MdaStep, MdaDone, Outside

LEMMA InsideCases ==
    Deliver \/ Reader \/ UNCHANGED allVars => Inside
BY DEF Deliver, Reader, Inside, Next, allVars, vars

\* matches_exec() does not change whether the message came from stdin, nor the
\* match list.
LEMMA StdinStays ==
    ASSUME TypeOK, [Next]_vars
    PROVE  msg'.stdin = msg.stdin /\ plan' = plan
<1>1. msg' \in {msg, [msg EXCEPT !.dir = Target, !.name = dname],
                [msg EXCEPT !.dir = SourceDir, !.name = dname,
                            !.fd = entry[SourceDir][dname]]} /\ plan' = plan
  BY DEF Next, Mdsort, MarkSeen, Terminated, OpenDst, RefuseTemporary,
     StatSource, CreateFile, RenameSource, WriteText, SyncText, UnlinkSource,
     UndoCreate, RestoreTime, SetMoved, Reopen, Discard, Exec, Reject, Close, vars
<1>2. QED
  BY <1>1 DEF TypeOK

\* main() leaves the delivery's own variables alone.
LEMMA OutsideLeaves ==
    Outside => UNCHANGED execVars /\ UNCHANGED renames
               /\ (faults' = faults \/ Fault)
BY DEF Outside, MakeTemp, NullRewind, CreateSpool, ReadChunk, EndOfInput,
   SyncSpool, CloseSpool, Walk, Evaluate, Return, Sweep, Exit, vars, execVars,
   NoFault

\* The types of the file system and of main()'s variables.
LEMMA OutsideTypes == Kinds /\ Outside => Kinds'
<1> SUFFICES ASSUME Kinds, Outside PROVE Kinds'
  OBVIOUS
<1>1. TypeOK /\ Control /\ msg.stdin
  BY DEF Kinds, MdaTypeOK
<1>2. /\ UNCHANGED execVars /\ UNCHANGED renames
      /\ (faults' = faults \/ Fault)
  BY OutsideLeaves
<1>3. 0 \in Files /\ SrcDir \in Dirs /\ msg.name \in Names
  BY <1>1, BoundsAssumption, SrcDirAssumption DEF Files, TypeOK
<1>4. entry' \in Layout
  <2>1. CASE UNCHANGED entry
    BY <1>1, <2>1 DEF TypeOK, Layout
  <2>2. CASE entry' = Link(SrcDir, msg.name, 0)
    BY <1>1, <1>3, <2>2, LinkEffect DEF TypeOK, Layout
  <2>3. ASSUME NEW kept \in SUBSET Spooled,
               entry' = [entry EXCEPT ![SrcDir] = [n \in Names |->
                            IF n \in kept THEN @[n] ELSE NoFile]]
        PROVE  entry' \in Layout
    BY <1>1, <1>3, <2>3 DEF TypeOK, Layout
  <2>4. QED
    BY <2>1, <2>2, <2>3 DEF Outside, MakeTemp, NullRewind, CreateSpool, ReadChunk,
       EndOfInput, SyncSpool, CloseSpool, Walk, Evaluate, Return, Sweep, Exit,
       vars, fsVars
<1>5. text' \in [Files -> Text] /\ durable' \subseteq Files
  <2>1. /\ \/ UNCHANGED text
           \/ \E t \in Text : text' = [text EXCEPT ![0] = t]
        /\ durable' = durable \/ durable' = durable \cup {0}
    BY DEF Outside, MakeTemp, NullRewind, CreateSpool, ReadChunk, EndOfInput,
       SyncSpool, CloseSpool, Walk, Evaluate, Return, Sweep, Exit, vars, fsVars,
       Text
  <2>2. QED
    BY <1>1, <1>3, <2>1 DEF TypeOK
<1>6. faults' \in 0 .. MaxFaults
  BY <1>1, <1>2, BoundsAssumption DEF TypeOK, Fault
<1>7. TypeOK'
  BY <1>1, <1>2, <1>4, <1>5, <1>6 DEF TypeOK, execVars, Layout
<1>8. Control' /\ msg'.stdin
  BY <1>1, <1>2 DEF Control, execVars, Act
<1>9. left' \in 0 .. Chunks
  <2>1. left' = left \/ (left > 0 /\ left' = left - 1)
    BY DEF Outside, MakeTemp, NullRewind, CreateSpool, ReadChunk, EndOfInput,
       SyncSpool, CloseSpool, Walk, Evaluate, Return, Sweep, Exit
  <2>2. QED
    BY <2>1, MdaAssumption DEF Kinds, MdaTypeOK
<1>10. /\ torn' \in BOOLEAN /\ merr' \in BOOLEAN /\ reject' \in BOOLEAN
       /\ swept' \in BOOLEAN
  BY MdaAssumption DEF Kinds, MdaTypeOK, Outside, MakeTemp, NullRewind,
     CreateSpool, ReadChunk, EndOfInput, SyncSpool, CloseSpool, Walk, Evaluate,
     Return, Sweep, Exit
<1>11. /\ phase' \in {"mkdtemp", "mkdir", "opendir", "null", "create", "read",
                  "sync", "close", "walk", "handle", "deliver", "sweep",
                  "rmdir", "exit"}
       /\ verdict' \in {"none", "match", "nomatch", "error"}
       /\ status' \in {"running", "0", "1", "75", "signal"}
  BY DEF Kinds, MdaTypeOK, Outside, MakeTemp, NullRewind, CreateSpool, ReadChunk,
     EndOfInput, SyncSpool, CloseSpool, Walk, Evaluate, Return, Sweep, Exit
<1>12. tmp' \in {{}, {"root"}, {"root", "new"}}
  BY DEF Kinds, MdaTypeOK, Outside, MakeTemp, NullRewind, CreateSpool, ReadChunk,
     EndOfInput, SyncSpool, CloseSpool, Walk, Evaluate, Return, Sweep, Exit
<1>13. QED
  BY <1>7, <1>8, <1>9, <1>10, <1>11, <1>12 DEF Kinds, MdaTypeOK

LEMMA KindsStep == Kinds /\ [MdaNext]_allVars => Kinds'
<1>1. Kinds /\ Inside => Kinds'
  <2> SUFFICES ASSUME Kinds, Inside PROVE Kinds'
    OBVIOUS
  <2>1. TypeOK' /\ Control' /\ msg'.stdin
    BY TypeStep, StdinStays DEF Kinds, MdaTypeOK, Inside
  <2>2. QED
    BY <2>1 DEF Kinds, MdaTypeOK, Inside, mdaVars
<1>2. QED
  BY <1>1, StepCases, InsideCases, OutsideTypes

-----------------------------------------------------------------------------
\* No reader looks into the temporary maildir.
LEMMA PrivateDir ==
    ASSUME entry \in Layout, msg.stdin, MarkSeen
    PROVE  /\ \A n \in Names : entry'[SrcDir][n] = entry[SrcDir][n]
           /\ \E d \in Dirs, n \in Names : d # SrcDir /\ entry[d][n] # NoFile
<1>1. PICK dr \in Dirs, nr \in Names :
         /\ dr.root # SrcDir.root /\ entry[dr][nr] # NoFile
         /\ entry' = Rename(dr, nr, SeenDir(dr), SeenName(nr))
  BY DEF MarkSeen, SeenDir, SeenName
<1>2. /\ SeenDir(dr) \in Dirs /\ SeenName(nr) \in Names
      /\ SeenDir(dr).root = dr.root
  BY DEF Dirs, Subdirs, Names, SeenDir, SeenName
<1>3. SrcDir # dr /\ SrcDir # SeenDir(dr) /\ SrcDir \in Dirs
  BY <1>1, <1>2, SrcDirAssumption
<1>4. QED
  BY <1>1, <1>2, <1>3, RenameEffect

\* Until the list is begun nobody but main() does anything: a reader finds no
\* file.
LEMMA SpoolingInside ==
    ASSUME Kinds, Spooling, Delivering, Deliver \/ Reader \/ UNCHANGED allVars
    PROVE  Spooling'
<1>1. UNCHANGED mdaVars
  BY DEF Deliver, Reader, allVars
<1>2. CASE phase \in After \/ verdict = "match"
  BY <1>1, <1>2 DEF Spooling, mdaVars, Before, During, After
<1>3. CASE phase \notin After /\ verdict # "match"
  <2>1. phase \in Before \cup During \cup {"walk", "handle"}
    BY <1>3 DEF Kinds, MdaTypeOK, Delivering, Before, During, After
  <2>2. ~Deliver
    BY <1>3 DEF Deliver, Delivering
  <2>3. ~MarkSeen
    <3>1. \A d \in Dirs, n \in Names : d # SrcDir => entry[d][n] = NoFile
      BY <1>3, <2>1 DEF Spooling, Alone
    <3>2. entry \in Layout /\ msg.stdin
      BY DEF Kinds, MdaTypeOK, TypeOK, Layout
    <3>3. QED
      BY <3>1, <3>2, PrivateDir
  <2>4. UNCHANGED vars
    BY <2>2, <2>3 DEF Reader, allVars
  <2>5. QED
    BY <1>1, <2>4 DEF Spooling, mdaVars, vars, Alone, NotBegun, Before, During,
       After
<1>4. QED
  BY <1>2, <1>3

\* How each step of main() brings the message on.
LEMMA SpoolingOutside ==
    ASSUME Kinds, Spooling, Delivering, Outside
    PROVE  Spooling'
<1>1. UNCHANGED execVars /\ UNCHANGED renames
  BY OutsideLeaves
<1>2. NotBegun' <=> NotBegun
  BY <1>1 DEF NotBegun, execVars
<1>3. entry' = entry => (Alone' <=> Alone)
  BY <1>1 DEF Alone, execVars
<1>4. /\ phase \in Before \cup During \cup {"walk", "handle", "deliver"} \cup After
      /\ 0 \in Files /\ text \in [Files -> Text] /\ entry \in Layout
      /\ SrcDir \in Dirs /\ msg.name \in Names
  BY BoundsAssumption, SrcDirAssumption
  DEF Kinds, MdaTypeOK, TypeOK, Before, During, After, Files, Layout
<1>5. CASE MakeTemp
  BY <1>2, <1>5 DEF MakeTemp, Spooling, Before, During, After, fsVars
<1>6. CASE NullRewind
  BY <1>2, <1>6 DEF NullRewind, Spooling, Before, During, After, vars
<1>7. CASE CreateSpool
  <2>1. CASE phase' = "sweep"
    BY <1>2, <1>7, <2>1 DEF CreateSpool, Spooling, Before, During, After
  <2>2. CASE /\ entry' = Link(SrcDir, msg.name, 0) /\ phase' = "read"
             /\ text' = [text EXCEPT ![0] = "empty"]
    <3>1. entry' = [d \in Dirs |-> [n \in Names |->
                       IF d = SrcDir /\ n = msg.name THEN 0 ELSE NoFile]]
      <4>1. /\ entry' \in Layout
            /\ \A d \in Dirs, n \in Names :
                  entry'[d][n] = IF d = SrcDir /\ n = msg.name THEN 0
                                 ELSE entry[d][n]
        BY <1>4, <2>2, LinkEffect
      <4>2. \A d \in Dirs, n \in Names : entry[d][n] = NoFile
        BY <1>7 DEF CreateSpool, Spooling, Before
      <4>3. \A d \in Dirs :
               entry'[d] = [n \in Names |->
                               IF d = SrcDir /\ n = msg.name THEN 0 ELSE NoFile]
        BY <4>1, <4>2 DEF Layout
      <4>4. QED
        BY <4>1, <4>3 DEF Layout
    <3>2. Alone'
      BY <1>1, <3>1 DEF Alone, execVars
    <3>3. text' = [f \in Files |-> IF f = 0 THEN text'[0] ELSE "none"]
      BY <1>4, <1>7, <2>2 DEF CreateSpool, Spooling, Before
    <3>4. QED
      BY <1>2, <1>7, <2>2, <3>2, <3>3
      DEF CreateSpool, Spooling, Before, During, After
  <2>3. QED
    BY <1>7, <2>1, <2>2 DEF CreateSpool
<1>8. CASE ReadChunk
  <2>1. \E t \in Text : text' = [text EXCEPT ![0] = t]
    <3>1. text' = [text EXCEPT ![0] = "part"] \/ text' = [text EXCEPT ![0] = @]
      BY <1>4, <1>8 DEF ReadChunk
    <3>2. QED
      BY <1>4, <3>1 DEF Text
  <2>2. text' = [f \in Files |-> IF f = 0 THEN text'[0] ELSE "none"]
    BY <1>4, <1>8, <2>1 DEF ReadChunk, Spooling, During
  <2>3. torn' = torn \/ ShortWrites
    BY <1>8, MdaAssumption DEF ReadChunk, Kinds, MdaTypeOK
  <2>4. QED
    BY <1>2, <1>3, <1>8, <2>2, <2>3
    DEF ReadChunk, Spooling, Before, During, After
<1>9. CASE EndOfInput
  <2>1. CASE phase' = "close" /\ merr' = TRUE /\ text' = text
    BY <1>2, <1>3, <1>9, <2>1 DEF EndOfInput, Spooling, Before, During, After
  <2>2. CASE /\ phase' = "sync" /\ text' = [text EXCEPT ![0] = "orig"]
             /\ merr' = merr
    <3>1. text' = [f \in Files |-> IF f = 0 THEN text'[0] ELSE "none"]
          /\ text'[0] = "orig"
      BY <1>4, <1>9, <2>2 DEF EndOfInput, Spooling, During
    <3>2. QED
      BY <1>2, <1>3, <1>9, <2>2, <3>1
      DEF EndOfInput, Spooling, Before, During, After
  <2>3. QED
    BY <1>9, <2>1, <2>2 DEF EndOfInput
<1>10. CASE SyncSpool
  BY <1>2, <1>3, <1>10 DEF SyncSpool, Spooling, Before, During, After
<1>11. CASE CloseSpool
  BY <1>2, <1>3, <1>11 DEF CloseSpool, Spooling, Before, During, After, fsVars
<1>12. CASE Walk
  BY <1>2, <1>3, <1>12 DEF Walk, Spooling, Before, During, After, fsVars
<1>13. CASE Evaluate
  BY <1>2, <1>3, <1>13 DEF Evaluate, Spooling, Before, During, After, fsVars
<1>14. CASE Return
  BY <1>2, <1>14 DEF Return, Spooling, Delivering, Before, During, After
<1>15. CASE Sweep \/ Exit
  BY <1>15 DEF Sweep, Exit, Spooling, Before, During, After
<1>16. QED
  BY <1>5, <1>6, <1>7, <1>8, <1>9, <1>10, <1>11, <1>12, <1>13, <1>14, <1>15
  DEF Outside

-----------------------------------------------------------------------------
\* A list carried out to its end has brought the message to its last delivery.
LEMMA EndArrived ==
    ASSUME Account, Course, msg.stdin, pc = "done", ~error, ~Discarded, Straight,
           Deliveries # {}
    PROVE  Arrived
<1>1. step = Len(plan) + 1 /\ Len(plan) \in Nat /\ step - 1 = Len(plan)
  BY Types DEF Account, Outcome, Over
<1>2. PICK f \in Files : IsMessage(f) /\ At(f, SourceDir, msg.name)
  BY DEF Course, Tracked, Over
<1>3. f \in durable /\ text[f] = Written(plan)
  BY <1>1, <1>2 DEF IsMessage, Written, WroteBefore
<1>4. PICK i \in 1 .. Len(plan) :
         /\ plan[i].act = "move" /\ plan[i].dir = SourceDir
         /\ \A j \in i + 1 .. Len(plan) : plan[j].act # "move"
  BY <1>1 DEF Account, Placed, Deliveries, Moves
<1>5. i \in Moves /\ \A j \in Moves : j <= i
  BY <1>1, <1>4 DEF Moves
<1>6. ~Temporary(plan[i].dir)
  <2>1. PICK k \in Moves : ~Temporary(plan[k].dir)
    BY DEF Deliveries
  <2>2. k = i \/ k < i
    BY <1>5, <2>1 DEF Moves
  <2>3. QED
    BY <1>5, <2>1, <2>2 DEF Straight
<1>7. i \in Deliveries /\ \A j \in Deliveries : j <= i
  BY <1>5, <1>6 DEF Deliveries
<1>8. QED
  BY <1>2, <1>3, <1>4, <1>7 DEF Arrived

\* The message stays where it has arrived: readers mark it as seen at most, and
\* the temporary maildir, which is emptied, is another.
LEMMA ArrivedStays ==
    ASSUME Kinds, Arrived, UNCHANGED <<text, durable, msg, plan, src>>,
           \/ MarkSeen
           \/ \A d \in Dirs, n \in Names :
                 ~Temporary(d) => entry'[d][n] = entry[d][n]
    PROVE  Arrived'
<1>1. PICK f \in Files, i \in Deliveries :
         /\ f \in durable /\ text[f] = Written(plan)
         /\ \A j \in Deliveries : j <= i
         /\ SourceDir = plan[i].dir
         /\ At(f, SourceDir, msg.name)
  BY DEF Arrived
<1>2. /\ SourceDir' = SourceDir /\ Deliveries' = Deliveries
      /\ SourceDir \in Dirs /\ msg.name \in Names /\ entry \in Layout
      /\ ~Temporary(SourceDir)
  BY <1>1, DirTypes
  DEF SourceDir, HandleDir, Deliveries, Moves, Kinds, MdaTypeOK, TypeOK, Layout
<1>3. PICK d \in Dirs, n \in Names : d = SourceDir /\ n = msg.name
  BY <1>2
<1>4. At(f, d, n)'
  <2>1. CASE MarkSeen
    BY <1>1, <1>2, <1>3, <2>1, MarkKeepsAt
  <2>2. CASE \A x \in Dirs, y \in Names :
                ~Temporary(x) => entry'[x][y] = entry[x][y]
    <3>1. /\ SeenDir(d) \in Dirs /\ SeenName(n) \in Names
          /\ ~Temporary(d) /\ ~Temporary(SeenDir(d))
      BY <1>2, <1>3 DEF Dirs, Subdirs, Names, SeenDir, SeenName, Temporary
    <3>2. /\ entry'[d][n] = entry[d][n]
          /\ entry'[SeenDir(d)][SeenName(n)] = entry[SeenDir(d)][SeenName(n)]
      BY <2>2, <3>1
    <3>3. QED
      BY <1>1, <1>3, <3>2 DEF At, SeenDir, SeenName
  <2>3. QED
    BY <2>1, <2>2
<1>5. At(f, SourceDir, msg.name)'
  BY <1>2, <1>3, <1>4 DEF At, SeenDir, SeenName
<1>6. QED
  BY <1>1, <1>2, <1>5 DEF Arrived

\* What the list and the outcome of its execution say stays.
LEMMA VerdictStays ==
    ASSUME UNCHANGED <<plan, step>>
    PROVE  /\ Straight' <=> Straight
           /\ Deliveries' = Deliveries /\ Moves' = Moves
           /\ Discarded' <=> Discarded
BY DEF Straight, Deliveries, Moves, Discarded

LEMMA DeliveringInside ==
    ASSUME Kinds, Delivering, Deliver \/ Reader \/ UNCHANGED allVars
    PROVE  Delivering'
<1>1. [Next]_vars /\ UNCHANGED mdaVars
  BY InsideCases DEF Inside
<1>2. CASE phase = "deliver"
  BY <1>1, <1>2, AccountSteps, CourseStep, BlamelessStep
  DEF Delivering, mdaVars, Kinds
<1>3. CASE phase # "deliver"
  <2>1. \/ MarkSeen
        \/ UNCHANGED vars
    BY <1>3 DEF Deliver, Reader, allVars
  <2>2. UNCHANGED <<text, durable, msg, plan, src, step>>
    BY <2>1 DEF MarkSeen, vars, ctlVars
  <2>3. Arrived => Arrived'
    BY <2>1, <2>2, ArrivedStays DEF vars
  <2>4. QED
    BY <1>1, <1>3, <2>2, <2>3, VerdictStays DEF Delivering, mdaVars
<1>4. QED
  BY <1>2, <1>3

\* The list is begun, executed to its end, and its result is main()'s.
LEMMA DeliveringOutside ==
    ASSUME Kinds, Spooling, Delivering, Outside
    PROVE  Delivering'
<1>1. UNCHANGED execVars /\ UNCHANGED renames
  BY OutsideLeaves
<1>2. UNCHANGED <<msg, plan, src, step>> /\ merr \in BOOLEAN
  BY <1>1 DEF execVars, Kinds, MdaTypeOK
<1>3. CASE Evaluate /\ phase' = "deliver"
  <2>1. UNCHANGED vars /\ verdict' = "match" /\ ~merr' /\ phase = "handle"
    BY <1>3 DEF Evaluate, vars, fsVars, execVars, Spooling
  <2>2. AtStart
    <3>1. NotBegun /\ Alone /\ durable = {0}
          /\ text = [f \in Files |-> IF f = 0 THEN "orig" ELSE "none"]
      BY <2>1 DEF Spooling, Before, During, After
    <3>2. faults \in 0 .. MaxFaults /\ TRUE \in Modes
      BY MdaAssumption DEF Kinds, MdaTypeOK, TypeOK
    <3>3. PICK n \in Names :
             /\ dname = n
             /\ msg = [dir |-> SrcDir, name |-> n, seen |-> n.seen, fd |-> 0,
                        stdin |-> TRUE]
      BY <3>1 DEF NotBegun
    <3>4. entry = [d \in Dirs |-> [m \in Names |->
                      IF d = SrcDir /\ m = n THEN 0 ELSE NoFile]]
      BY <3>1, <3>3 DEF Alone
    <3>5. QED
      BY <3>1, <3>2, <3>3, <3>4 DEF AtStart, Ready, NotBegun
  <2>3. Account /\ Course /\ ~error /\ Blameless
    BY <2>2, AccountSteps, InitCourse DEF AtStart, Ready, Blameless
  <2>4. Account' /\ Course' /\ Blameless'
    BY <2>1, <2>3, AccountSteps, CourseStep, BlamelessStep DEF Kinds
  <2>5. QED
    BY <1>3, <2>1, <2>4 DEF Delivering
<1>4. CASE Return
  <2>1. /\ phase = "deliver" /\ pc = "done" /\ UNCHANGED vars
        /\ Account /\ Course /\ msg.stdin /\ phase' = "walk"
        /\ ~merr' => ~error
    BY <1>4 DEF Return, Delivering, Kinds, Result
  <2>2. ~error /\ Straight /\ ~Discarded /\ Deliveries # {} => Arrived
    BY <2>1, EndArrived
  <2>3. Arrived => Arrived'
    BY <2>1, ArrivedStays DEF vars
  <2>4. QED
    BY <1>2, <2>1, <2>2, <2>3, VerdictStays DEF Delivering, After
<1>5. CASE (Walk \/ Exit \/ Sweep) /\ verdict = "match"
  <2>1. /\ ~merr' => ~merr
        /\ phase' \in After /\ phase # "deliver" /\ UNCHANGED <<text, durable>>
    BY <1>2, <1>5 DEF Walk, Exit, Sweep, After, fsVars
  <2>2. \A d \in Dirs, n \in Names : ~Temporary(d) => entry'[d][n] = entry[d][n]
    <3>1. CASE entry' = entry
      BY <3>1
    <3>2. CASE Sweep
      BY <3>2 DEF Sweep, Temporary, Kinds, MdaTypeOK, TypeOK
    <3>3. QED
      BY <1>5, <3>1, <3>2 DEF Walk, Exit, fsVars
  <2>3. Arrived => Arrived'
    BY <1>2, <2>1, <2>2, ArrivedStays
  <2>4. QED
    BY <1>2, <1>5, <2>1, <2>3, VerdictStays DEF Delivering, After
<1>6. CASE ~(Return \/ (Evaluate /\ phase' = "deliver")
             \/ ((Walk \/ Exit \/ Sweep) /\ verdict = "match"))
  <2>1. verdict' # "match" /\ phase' # "deliver"
    BY <1>6 DEF Outside, MakeTemp, NullRewind, CreateSpool, ReadChunk, EndOfInput,
       SyncSpool, CloseSpool, Walk, Evaluate, Sweep, Exit, Spooling, Delivering,
       Before, During
  <2>2. QED
    BY <2>1 DEF Delivering
<1>7. QED
  BY <1>3, <1>4, <1>5, <1>6

-----------------------------------------------------------------------------
\* The status is that of the delivery, and what is left in the temporary maildir
\* was left by maildir_close().
LEMMA LeavingStep ==
    Kinds /\ Delivering /\ Leaving /\ [MdaNext]_allVars => Leaving'
<1> SUFFICES ASSUME Kinds, Delivering, Leaving, [MdaNext]_allVars PROVE Leaving'
  OBVIOUS
<1>1. /\ faults \in Nat /\ renames \in Nat /\ merr \in BOOLEAN
      /\ entry \in Layout /\ msg.stdin
  BY BoundsAssumption DEF Kinds, MdaTypeOK, TypeOK, Layout
<1>2. CASE Deliver \/ Reader \/ UNCHANGED allVars
  <2>1. [Next]_vars /\ UNCHANGED mdaVars /\ plan' = plan
    BY <1>2, InsideCases, StdinStays DEF Inside, Kinds, MdaTypeOK
  <2>2. phase \in {"rmdir", "exit"} => Spooled' = Spooled
    <3>1. CASE MarkSeen
      BY <1>1, <3>1, PrivateDir DEF Spooled
    <3>2. CASE UNCHANGED vars
      BY <3>2 DEF Spooled, vars
    <3>3. QED
      BY <1>2, <3>1, <3>2 DEF Deliver, Reader, allVars
  <2>3. faults' = 0 /\ renames' = 0 /\ (Deliveries = Moves)' =>
            faults = 0 /\ renames = 0 /\ Deliveries = Moves
    <3>1. faults' = faults \/ faults' = faults + 1
      BY <2>1 DEF Next, Mdsort, MarkSeen, Terminated, OpenDst, RefuseTemporary,
         StatSource, CreateFile, RenameSource, WriteText, SyncText, UnlinkSource,
         UndoCreate, RestoreTime, SetMoved, Reopen, Discard, Exec, Reject, Close,
         vars, Fault, NoFault
    <3>2. renames' = renames \/ renames' = renames + 1
      BY <2>1 DEF Next, Mdsort, MarkSeen, Terminated, OpenDst, RefuseTemporary,
         StatSource, CreateFile, RenameSource, WriteText, SyncText, UnlinkSource,
         UndoCreate, RestoreTime, SetMoved, Reopen, Discard, Exec, Reject, Close,
         vars
    <3>3. Deliveries' = Deliveries /\ Moves' = Moves
      BY <2>1 DEF Deliveries, Moves
    <3>4. QED
      BY <1>1, <3>1, <3>2, <3>3
  <2>4. QED
    BY <2>1, <2>2, <2>3 DEF Leaving, mdaVars
<1>3. CASE Outside
  <2>1. /\ UNCHANGED execVars /\ UNCHANGED renames
        /\ (faults' = faults \/ Fault)
    BY <1>3, OutsideLeaves
  <2>2. Deliveries' = Deliveries /\ Moves' = Moves
    BY <2>1 DEF Deliveries, Moves, execVars
  <2>3. Fault => faults' # 0
    BY <1>1 DEF Fault
  <2>4. CASE Return
    <3>1. Result = "error" => error
      BY DEF Result, Kinds, MdaTypeOK, TypeOK
    <3>2. QED
      BY <2>2, <2>4, <3>1 DEF Return, Delivering, Blameless, Leaving, vars
  <2>5. CASE Sweep
    <3>1. PICK kept \in SUBSET Spooled :
             /\ entry' = [entry EXCEPT ![SrcDir] = [n \in Names |->
                             IF n \in kept THEN @[n] ELSE NoFile]]
             /\ IF kept = {} THEN NoFault ELSE Fault
             /\ swept' = (kept = {})
      BY <2>5 DEF Sweep
    <3>2. \A n \in Names :
             entry'[SrcDir][n] = IF n \in kept THEN entry[SrcDir][n] ELSE NoFile
      BY <1>1, <3>1, SrcDirAssumption DEF Layout
    <3>3. swept' => Spooled' = {}
      BY <3>1, <3>2 DEF Spooled
    <3>4. faults' = 0 => faults = 0
      BY <1>1, <2>1, <2>3
    <3>5. QED
      BY <2>1, <2>2, <2>5, <3>3, <3>4 DEF Sweep, Leaving
  <2>6. CASE Exit
    <3>1. Spooled' = Spooled /\ UNCHANGED merr
      BY <2>6 DEF Exit, Spooled, fsVars
    <3>2. QED
      BY <1>1, <2>1, <2>2, <2>3, <2>6, <3>1 DEF Exit, Leaving
  <2>7. CASE \/ MakeTemp \/ NullRewind \/ CreateSpool \/ ReadChunk \/ EndOfInput
             \/ SyncSpool \/ CloseSpool \/ Walk \/ Evaluate
    <3>1. merr' => merr \/ Fault
      BY <2>7 DEF MakeTemp, NullRewind, CreateSpool, ReadChunk, EndOfInput,
         SyncSpool, CloseSpool, Walk, Evaluate
    <3>2. \/ status' = status /\ phase # "exit"
          \/ status' = "signal"
      BY <2>7 DEF MakeTemp, NullRewind, CreateSpool, ReadChunk, EndOfInput,
         SyncSpool, CloseSpool, Walk, Evaluate
    <3>3. \/ phase' \notin {"rmdir", "exit"}
          \/ status' = "signal" /\ phase' = "exit"
      BY <2>7 DEF MakeTemp, NullRewind, CreateSpool, ReadChunk, EndOfInput,
         SyncSpool, CloseSpool, Walk, Evaluate
    <3>4. faults' = 0 => faults = 0 /\ ~Fault
      BY <1>1, <2>1, <2>3
    <3>5. QED
      BY <2>1, <2>2, <3>1, <3>2, <3>3, <3>4 DEF Leaving
  <2>8. QED
    BY <1>3, <2>4, <2>5, <2>6, <2>7 DEF Outside
<1>4. QED
  BY <1>2, <1>3, StepCases

LEMMA MdaInvStep == MdaInv /\ [MdaNext]_allVars => MdaInv'
BY StepCases, KindsStep, SpoolingInside, SpoolingOutside, DeliveringInside,
   DeliveringOutside, LeavingStep DEF MdaInv

\* At the start there is nothing.
LEMMA MdaInitInv == MdaInit => MdaInv
<1> SUFFICES ASSUME MdaInit PROVE MdaInv
  OBVIOUS
<1>1. /\ plan \in Plans /\ step = 1 /\ pc = Begin(plan, 1)
      /\ Len(plan) \in 1 .. MaxPlan /\ 1 \in 1 .. Len(plan) + 1
  BY PlanType DEF MdaInit
<1>2. PICK i \in Ids :
         LET n == [id |-> i, seen |-> FALSE]
         IN  /\ msg = [dir |-> SrcDir, name |-> n, seen |-> FALSE, fd |-> 0,
                    stdin |-> TRUE]
             /\ dname = n
  BY DEF MdaInit
<1>3. /\ 0 \in Files /\ SrcDir \in Dirs /\ 0 \in 0 .. Chunks
      /\ 0 \in 0 .. MaxFaults /\ 0 \in 0 .. MaxRenames
  BY BoundsAssumption, SrcDirAssumption, MdaAssumption DEF Files
<1>4. pc \in PCs /\ Control
  BY <1>1, BeginType DEF PCs, Control, Act
<1>5. /\ dname \in Names /\ msg.stdin
      /\ msg \in [dir : Dirs, name : Names, seen : BOOLEAN, fd : Files,
                  stdin : BOOLEAN]
  BY <1>2, <1>3 DEF Names
<1>6. entry \in [Dirs -> [Names -> Files \cup {NoFile}]]
      /\ text \in [Files -> Text] /\ durable \subseteq Files
  BY DEF MdaInit, Text
<1>7. TypeOK
  <2>1. /\ src = 0 /\ opened = {0} /\ doutime = FALSE /\ error = FALSE
        /\ rv = "success" /\ faults = 0 /\ renames = 0
    BY DEF MdaInit
  <2>2. /\ step \in 1 .. Len(plan) + 1 /\ src \in 0 .. Len(plan)
        /\ opened \subseteq 0 .. Len(plan)
        /\ faults \in 0 .. MaxFaults /\ renames \in 0 .. MaxRenames
    BY <1>1, <1>3, <2>1
  <2>3. QED
    BY <1>1, <1>4, <1>5, <1>6, <2>1, <2>2 DEF TypeOK
<1>8. Kinds
  BY <1>4, <1>5, <1>7 DEF Kinds, MdaTypeOK, MdaInit
<1>9. NotBegun
  <2>1. dname.seen = FALSE /\ msg = [dir |-> SrcDir, name |-> dname,
              seen |-> dname.seen, fd |-> 0, stdin |-> TRUE]
    BY <1>2
  <2>2. QED
    BY <1>1, <1>5, <2>1 DEF NotBegun, MdaInit
<1>10. Spooling
  BY <1>9 DEF Spooling, MdaInit, Before, During, After
<1>11. Delivering /\ Leaving
  BY DEF Delivering, Leaving, MdaInit
<1>12. QED
  BY <1>8, <1>10, <1>11 DEF MdaInv

\* What the proofs rest on holds throughout: the phase of main() tells what there
\* is of the spooled file, of the delivery and of the temporary maildir.
THEOREM MdaInvariant == MdaSpec => []MdaInv
BY MdaInitInv, MdaInvStep, PTL DEF MdaSpec

\* The variables of Mda keep their types.
THEOREM MdaTypeCorrect == MdaSpec => []MdaTypeOK
<1>1. MdaInv => MdaTypeOK
  BY DEF MdaInv, Kinds
<1>2. QED
  BY <1>1, MdaInvariant, PTL

\* Status 0 for a message that was to be delivered: it is whole, on the disk and
\* in the maildir of the last delivery, with the headers asked for, whatever
\* system calls failed and whatever a reader has renamed meanwhile.  This takes
\* a list that is straight, and a write() that writes what it is asked to.
THEOREM AcceptedMessageIsKept ==
    MdaSpec => [](~ShortWrites /\ Straight => AcceptedIsKept)
<1>1. MdaInv => (~ShortWrites /\ Straight => AcceptedIsKept)
  <2> SUFFICES ASSUME MdaInv, ~ShortWrites, Straight, status = "0",
                      verdict = "match", Deliveries # {}, ~Discarded
               PROVE  /\ ~torn
                      /\ \E i \in Deliveries, d \in Dirs, n \in Names :
                            /\ \A j \in Deliveries : j <= i
                            /\ d.root = plan[i].dir.root
                            /\ entry[d][n] # NoFile
                            /\ entry[d][n] \in durable
                            /\ text[entry[d][n]] = Written(plan)
    BY DEF AcceptedIsKept
  <2>1. phase = "exit" /\ ~merr
    BY DEF MdaInv, Leaving, Kinds, MdaTypeOK
  <2>2. Arrived /\ ~torn
    BY <2>1 DEF MdaInv, Delivering, Spooling
  <2>3. PICK f \in Files, i \in Deliveries :
           /\ f \in durable /\ text[f] = Written(plan)
           /\ \A j \in Deliveries : j <= i
           /\ SourceDir = plan[i].dir
           /\ At(f, SourceDir, msg.name)
    BY <2>2 DEF Arrived
  <2>4. f # NoFile
    BY DEF Files, NoFile
  <2>5. SourceDir \in Dirs /\ msg.name \in Names
    BY DirTypes DEF MdaInv, Kinds, MdaTypeOK, TypeOK
  <2>6. /\ SeenDir(SourceDir) \in Dirs /\ SeenName(msg.name) \in Names
        /\ SeenDir(SourceDir).root = SourceDir.root
    BY <2>5 DEF Dirs, Subdirs, Names, SeenDir, SeenName
  <2>7. PICK d \in Dirs, n \in Names :
           entry[d][n] = f /\ d.root = SourceDir.root
    BY <2>3, <2>5, <2>6 DEF At
  <2>8. QED
    BY <2>2, <2>3, <2>4, <2>7
<1>2. QED
  BY <1>1, MdaInvariant, PTL

\* When mdsort has exited and no removal failed the temporary maildir is gone
\* with all files in it, however the delivery ended, for lists of any length.
THEOREM TemporaryIsGone == MdaSpec => []TemporaryRemoved
<1>1. MdaInv => TemporaryRemoved
  BY DEF MdaInv, Leaving, TemporaryRemoved
<1>2. QED
  BY <1>1, MdaInvariant, PTL

\* A message is only deferred if a system call failed, a reader has renamed
\* something, or an action names the temporary maildir.
THEOREM NothingDeferred == MdaSpec => []FaultlessIsAccepted
<1>1. MdaInv => FaultlessIsAccepted
  BY DEF MdaInv, Leaving, FaultlessIsAccepted
<1>2. QED
  BY <1>1, MdaInvariant, PTL
=============================================================================
