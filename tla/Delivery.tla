------------------------------ MODULE Delivery ------------------------------
(***************************************************************************)
(* How mdsort carries out the actions selected for one message: the loop   *)
(* of matches_exec() (src/match.c) and the maildir operations it calls,    *)
(* maildir_move(), maildir_write() and maildir_unlink() (src/maildir.c),   *)
(* one step per system call.  Every system call may fail, and a mail       *)
(* reader renames files of the maildirs between any two steps.             *)
(*                                                                         *)
(* A state is what a crash of the process leaves on disk, so an invariant  *)
(* about the file system alone also says what a crash at that point does.  *)
(***************************************************************************)
EXTENDS Maildir, Integers, Sequences, FiniteSets

CONSTANTS
    SrcDir,      \* directory the message was found in, one of Dirs
    Ids,         \* unique parts of file names: time.pid_count.host
    Plans,       \* match lists left by evaluation and merging
    MaxPlan,     \* bound on the length of a match list
    Modes,       \* values of msg.stdin, BOOLEAN for all
    MaxFaults,   \* bound on the number of failing system calls
    MaxRenames   \* bound on the number of renames by the mail reader

\* A file name is its unique part and whether its flags include S (seen); the
\* other flags are copied from name to name by every operation.
Names == [id : Ids, seen : BOOLEAN]

\* Inode 0 is the message as found, inode i the file created by action i.
Files == 0 .. MaxPlan
NoFile == -1

\* What an inode holds: "orig" and "edited" are the whole message, before and
\* after label or add-header changed its headers.
Text == {"none", "empty", "part", "orig", "edited"}
Whole == {"orig", "edited"}

\* "move" stands for move, flag and flags (one case of matches_exec), with the
\* directory mh_path names; "write" for label and add-header.  dir matters to
\* "move" only.
Verbs == {"move", "write", "discard", "exec", "reject"}
Actions == [act : Verbs, dir : Dirs]

\* The configuration parser refuses discard and reject combined with another
\* action of the same rule, pass included, so only a last action is either.
WellFormed(p) ==
    /\ p # << >>
    /\ \A i \in 1 .. Len(p) : p[i].act \in {"discard", "reject"} => i = Len(p)

ASSUME SrcDirAssumption == SrcDir \in Dirs
ASSUME BoundsAssumption ==
    /\ MaxPlan \in Nat /\ MaxFaults \in Nat /\ MaxRenames \in Nat
    /\ Modes \subseteq BOOLEAN
ASSUME PlansAssumption ==
    \A p \in Plans : /\ p \in Seq(Actions)
                     /\ Len(p) <= MaxPlan
                     /\ WellFormed(p)

VARIABLES
    \* file system
    entry,     \* entry[d][n]: inode the directory d links under the name n
    text,      \* text[f]: what inode f holds
    durable,   \* inodes whose content has reached the disk
    \* mdsort
    msg,       \* struct message: path (dir), name, me_mflags (seen), me_fd (fd);
               \* stdin: SrcDir is the temporary maildir of stdin mode
    plan,      \* the match list
    step,      \* index of the action being executed
    pc,        \* next system call
    src,       \* handle of the source maildir: 0 is main's, i that of action i
    opened,    \* handles not closed yet
    doutime,   \* maildir_move() has a modification time to restore
    dname,     \* name created by maildir_genname()
    error,     \* matches_exec()'s error
    rv,        \* matches_exec()'s rv
    \* bounds
    faults, renames

fsVars == <<entry, text, durable>>
ctlVars == <<src, opened, doutime, dname>>
vars == <<entry, text, durable, msg, plan, step, pc, src, opened, doutime,
          dname, error, rv, faults, renames>>

-----------------------------------------------------------------------------
Act == plan[step]
HandleDir(h) == IF h = 0 THEN SrcDir ELSE plan[h].dir
SourceDir == HandleDir(src)

\* The directory a new file goes to: maildir_write() stays in the source.
Target == IF Act.act = "move" THEN Act.dir ELSE SourceDir

\* Variant: the file is written with the headers it was parsed with.
WrittenAsParsed(p) == "orig"

\* matches_interpolate() has changed the headers in memory before the first
\* action runs: whatever message_write() writes has all of them.
Written(p) == IF \E i \in 1 .. Len(p) : p[i].act = "write" THEN "edited"
              ELSE "orig"

FirstCall(verb) == CASE verb = "move" -> "open"
                     [] verb = "write" -> "create"
                     [] OTHER -> verb

\* The program counter at the beginning of action i of plan p.
Begin(p, i) == IF i > Len(p) THEN "close" ELSE FirstCall(p[i].act)

Link(d, n, f) == [entry EXCEPT ![d][n] = f]
Unlink(d, n) == [entry EXCEPT ![d][n] = NoFile]
Rename(d, n, dd, nn) ==
    [[entry EXCEPT ![d][n] = NoFile] EXCEPT ![dd][nn] = entry[d][n]]

\* The temporary maildir has a single subdirectory.
Missing(d) == msg.stdin /\ d.root = SrcDir.root /\ d # SrcDir

SourceExists == entry[SourceDir][msg.name] # NoFile

Fault == faults < MaxFaults /\ faults' = faults + 1
NoFault == UNCHANGED faults

\* The action fails: the loop is left and matches_exec() returns an error.
Fail == error' = TRUE /\ pc' = "close"

\* Variant: the next match is skipped.
AdvanceByTwo == step' = step + 2 /\ pc' = Begin(plan, step + 2)

\* The action is done: on to the next one.
Advance == step' = step + 1 /\ pc' = Begin(plan, step + 1)

-----------------------------------------------------------------------------
\* matches_exec() is called: the message is the only file, whole and on disk.
Ready ==
    /\ plan \in Plans
    /\ \E n \in Names, stdin \in Modes :
          /\ entry = [d \in Dirs |-> [m \in Names |->
                         IF d = SrcDir /\ m = n THEN 0 ELSE NoFile]]
          /\ msg = [dir |-> SrcDir, name |-> n, seen |-> n.seen, fd |-> 0,
                     stdin |-> stdin]
          /\ dname = n
    /\ text = [f \in Files |-> IF f = 0 THEN "orig" ELSE "none"]
    /\ durable = {0}
    /\ step = 1
    /\ pc = Begin(plan, 1)
    /\ src = 0
    /\ opened = {0}
    /\ doutime = FALSE
    /\ error = FALSE
    /\ rv = "success"

Init == Ready /\ faults = 0 /\ renames = 0

\* maildir_open(): opendir() of the destination.
OpenDst ==
    /\ pc = "open"
    /\ \/ /\ ~Missing(Act.dir)
          /\ opened' = opened \cup {step}
          /\ pc' = "stat"
          /\ UNCHANGED <<error, faults>>
       \/ /\ IF Missing(Act.dir) THEN NoFault ELSE Fault
          /\ Fail
          /\ UNCHANGED opened
    /\ UNCHANGED <<fsVars, msg, plan, step, src, doutime, dname, rv, renames>>

\* The checks at the top of maildir_move().
RefuseTemporary ==
    /\ pc = "stat"
    /\ msg.stdin /\ src = 0 /\ Act.dir.root = SrcDir.root
    /\ opened' = opened \ {step}
    /\ Fail
    /\ UNCHANGED <<fsVars, msg, plan, step, src, doutime, dname, rv, faults,
                   renames>>

\* fstatat() of the source for its modification time, not on stdin's file.
\* A failure is only warned about.
StatSource ==
    /\ pc = "stat"
    /\ ~(msg.stdin /\ src = 0 /\ Act.dir.root = SrcDir.root)
    /\ IF msg.stdin /\ src = 0
         THEN doutime' = FALSE /\ NoFault
         ELSE \/ doutime' = SourceExists /\ NoFault
              \/ doutime' = FALSE /\ SourceExists /\ Fault
    /\ pc' = "create"
    /\ UNCHANGED <<fsVars, msg, plan, step, src, opened, dname, error, rv,
                   renames>>

\* maildir_genname(): openat(O_CREAT | O_EXCL) counting up to a free name.
CreateFile ==
    /\ pc = "create"
    /\ \/ /\ \E i \in Ids :
                LET n == [id |-> i,
                          seen |-> MsgFlags(SourceDir, Target, msg.seen)]
                IN  /\ entry[Target][n] = NoFile
                    /\ entry' = Link(Target, n, step)
                    /\ dname' = n
          /\ text' = [text EXCEPT ![step] = "empty"]
          /\ pc' = IF Act.act = "move" THEN "rename" ELSE "write"
          /\ UNCHANGED <<opened, error, faults>>
       \/ /\ Fault
          /\ Fail
          /\ opened' = opened \ {step}
          /\ UNCHANGED <<entry, text, dname>>
    /\ UNCHANGED <<durable, msg, plan, step, src, doutime, rv, renames>>

\* maildir_rename() over the file just created.  Across file systems the
\* message is written to that file instead.
RenameSource ==
    /\ pc = "rename"
    /\ \/ /\ Device[SourceDir.root] = Device[Target.root]
          /\ SourceExists
          /\ entry' = Rename(SourceDir, msg.name, Target, dname)
          /\ pc' = "utimes"
          /\ UNCHANGED <<error, faults>>
       \/ /\ Device[SourceDir.root] # Device[Target.root]
          /\ pc' = "write"
          /\ UNCHANGED <<entry, error, faults>>
       \/ /\ Device[SourceDir.root] = Device[Target.root]
          /\ IF SourceExists THEN Fault ELSE NoFault
          /\ error' = TRUE
          /\ pc' = "undo"
          /\ UNCHANGED entry
    /\ UNCHANGED <<text, durable, msg, plan, step, src, opened, doutime, dname,
                   rv, renames>>

\* Variant: the result of message_write() is not looked at.
WriteTextUnchecked ==
    /\ pc = "write"
    /\ \/ text' = [text EXCEPT ![step] = Written(plan)] /\ NoFault
       \/ text' = [text EXCEPT ![step] = "part"] /\ Fault
    /\ pc' = "sync"
    /\ UNCHANGED <<entry, durable, msg, plan, step, ctlVars, error, rv, renames>>

\* message_write(), the headers and the body.  A failed write, flush or close
\* leaves any prefix of the message.
WriteText ==
    /\ pc = "write"
    /\ \/ /\ text' = [text EXCEPT ![step] = Written(plan)]
          /\ pc' = "sync"
          /\ UNCHANGED <<error, faults>>
       \/ /\ Fault
          /\ \E t \in {"empty", "part", Written(plan)} :
                text' = [text EXCEPT ![step] = t]
          /\ error' = TRUE
          /\ pc' = "undo"
    /\ UNCHANGED <<entry, durable, msg, plan, step, ctlVars, rv, renames>>

\* Variant: no fsync() before the source is unlinked.
SyncTextNever ==
    /\ pc = "sync"
    /\ pc' = "unlink"
    /\ UNCHANGED <<fsVars, msg, plan, step, ctlVars, error, rv, faults, renames>>

\* message_write(), the fsync().
SyncText ==
    /\ pc = "sync"
    /\ \/ /\ durable' = durable \cup {step}
          /\ pc' = "unlink"
          /\ UNCHANGED <<error, faults>>
       \/ /\ Fault
          /\ error' = TRUE
          /\ pc' = "undo"
          /\ UNCHANGED durable
    /\ UNCHANGED <<entry, text, msg, plan, step, ctlVars, rv, renames>>

\* maildir_unlink() of the file just copied.
UnlinkSource ==
    /\ pc = "unlink"
    /\ \/ /\ SourceExists
          /\ entry' = Unlink(SourceDir, msg.name)
          /\ pc' = IF Act.act = "move" THEN "utimes" ELSE "reopen"
          /\ UNCHANGED <<error, faults>>
       \/ /\ IF SourceExists THEN Fault ELSE NoFault
          /\ error' = TRUE
          /\ pc' = "undo"
          /\ UNCHANGED entry
    /\ UNCHANGED <<text, durable, msg, plan, step, ctlVars, rv, renames>>

\* Variant: the file created is left behind.
UndoNothing ==
    /\ pc = "undo"
    /\ opened' = opened \ {step}
    /\ pc' = "close"
    /\ UNCHANGED <<fsVars, msg, plan, step, src, doutime, dname, error, rv,
                   faults, renames>>

\* "Try to reduce side effects": maildir_unlink() of the file created, its
\* result ignored.  matches_exec() closes the destination of a move.
UndoCreate ==
    /\ pc = "undo"
    /\ \/ entry' = Unlink(Target, dname) /\ NoFault
       \/ Fault /\ UNCHANGED entry
    /\ opened' = opened \ {step}
    /\ pc' = "close"
    /\ UNCHANGED <<text, durable, msg, plan, step, src, doutime, dname, error,
                   rv, renames>>

\* utimensat() on the moved message.
RestoreTime ==
    /\ pc = "utimes"
    /\ \/ /\ doutime => entry[Target][dname] # NoFile
          /\ pc' = "setfile"
          /\ UNCHANGED <<opened, error, faults>>
       \/ /\ doutime
          /\ IF entry[Target][dname] # NoFile THEN Fault ELSE NoFault
          /\ opened' = opened \ {step}
          /\ Fail
    /\ UNCHANGED <<fsVars, msg, plan, step, src, doutime, dname, rv, renames>>

\* Variant: the source stays what it was.
SetMovedSameSource ==
    /\ pc = "setfile"
    /\ msg' = [msg EXCEPT !.dir = Target, !.name = dname]
    /\ opened' = opened \ {step}
    /\ Advance
    /\ UNCHANGED <<fsVars, plan, src, doutime, dname, error, rv, faults, renames>>

\* message_set_file(), then the destination becomes the source unless they
\* are the same directory (maildir_cmp); main's handle stays open.
SetMoved ==
    /\ pc = "setfile"
    /\ \/ /\ msg' = [msg EXCEPT !.dir = Target, !.name = dname]
          /\ IF Target # SourceDir
               THEN /\ src' = step
                    /\ opened' = IF src # 0 THEN opened \ {src} ELSE opened
               ELSE /\ opened' = opened \ {step}
                    /\ UNCHANGED src
          /\ Advance
          /\ UNCHANGED <<error, faults>>
       \/ /\ Fault
          /\ Fail
          /\ opened' = opened \ {step}
          /\ UNCHANGED <<msg, src, step>>
    /\ UNCHANGED <<fsVars, plan, doutime, dname, rv, renames>>

\* Variant: the message keeps the descriptor of the file it was parsed from.
ReopenNot ==
    /\ pc = "reopen"
    /\ msg' = [msg EXCEPT !.dir = SourceDir, !.name = dname]
    /\ Advance
    /\ UNCHANGED <<fsVars, plan, ctlVars, error, rv, faults, renames>>

\* The end of maildir_write(): open the new file, make it the message's.
Reopen ==
    /\ pc = "reopen"
    /\ \/ /\ entry[SourceDir][dname] # NoFile
          /\ msg' = [msg EXCEPT !.dir = SourceDir, !.name = dname,
                                !.fd = entry[SourceDir][dname]]
          /\ Advance
          /\ UNCHANGED <<error, faults>>
       \/ /\ IF entry[SourceDir][dname] # NoFile THEN Fault ELSE NoFault
          /\ Fail
          /\ UNCHANGED <<msg, step>>
    /\ UNCHANGED <<fsVars, plan, ctlVars, rv, renames>>

\* EXPR_TYPE_DISCARD
Discard ==
    /\ pc = "discard"
    /\ \/ /\ SourceExists
          /\ entry' = Unlink(SourceDir, msg.name)
          /\ Advance
          /\ UNCHANGED <<error, faults>>
       \/ /\ IF SourceExists THEN Fault ELSE NoFault
          /\ Fail
          /\ UNCHANGED <<entry, step>>
    /\ UNCHANGED <<text, durable, msg, plan, ctlVars, rv, renames>>

\* Variant: the loop goes on after a command that failed.
ExecContinues ==
    /\ pc = "exec"
    /\ \/ UNCHANGED <<error, faults>>
       \/ Fault /\ error' = TRUE
    /\ Advance
    /\ UNCHANGED <<fsVars, msg, plan, ctlVars, rv, renames>>

\* EXPR_TYPE_EXEC: the command reads the message from a duplicate of msg.fd; a
\* failure to start it and a non-zero exit are errors alike.
Exec ==
    /\ pc = "exec"
    /\ \/ Advance /\ UNCHANGED <<error, faults>>
       \/ Fault /\ Fail /\ UNCHANGED step
    /\ UNCHANGED <<fsVars, msg, plan, ctlVars, rv, renames>>

\* EXPR_TYPE_REJECT
Reject ==
    /\ pc = "reject"
    /\ rv' = "rejected"
    /\ Advance
    /\ UNCHANGED <<fsVars, msg, plan, ctlVars, error, faults, renames>>

\* Variant: the last destination stays open.
CloseNothing ==
    /\ pc = "close"
    /\ pc' = "done"
    /\ UNCHANGED <<fsVars, msg, plan, step, ctlVars, error, rv, faults, renames>>

\* The end of matches_exec(): close the source unless it is main's.
Close ==
    /\ pc = "close"
    /\ opened' = IF src # 0 THEN opened \ {src} ELSE opened
    /\ pc' = "done"
    /\ UNCHANGED <<fsVars, msg, plan, step, src, doutime, dname, error, rv,
                   faults, renames>>

\* Variant: error is not looked at.
ResultWithoutError == rv

\* What matches_exec() returns.
Result == IF error THEN "error" ELSE rv

Mdsort ==
    \/ OpenDst \/ RefuseTemporary \/ StatSource \/ CreateFile \/ RenameSource
    \/ WriteText \/ SyncText \/ UnlinkSource \/ UndoCreate \/ RestoreTime
    \/ SetMoved \/ Reopen \/ Discard \/ Exec \/ Reject \/ Close

\* A mail reader marks a message as seen: it renames the file to the same
\* unique part in cur, whole or not, whoever is using it.  The temporary
\* maildir is private.  Readers are taken not to rename over another message.
MarkSeen ==
    /\ renames < MaxRenames
    /\ \E d \in Dirs, n \in Names :
          LET dd == [d EXCEPT !.sub = "cur"]
              nn == [n EXCEPT !.seen = TRUE]
          IN  /\ ~(msg.stdin /\ d.root = SrcDir.root)
              /\ entry[d][n] # NoFile
              /\ entry[dd][nn] = NoFile
              /\ entry' = Rename(d, n, dd, nn)
    /\ renames' = renames + 1
    /\ UNCHANGED <<text, durable, msg, plan, step, pc, ctlVars, error, rv,
                   faults>>

Terminated == pc = "done" /\ UNCHANGED vars

Next == Mdsort \/ MarkSeen \/ Terminated

Spec == Init /\ [][Next]_vars

\* mdsort is one sequential process: it keeps running.  Nothing is assumed of
\* the mail reader.
FairSpec == Spec /\ WF_vars(Mdsort)

-----------------------------------------------------------------------------
PCs == {"open", "stat", "create", "rename", "write", "sync", "unlink", "undo",
        "utimes", "setfile", "reopen", "discard", "exec", "reject", "close",
        "done"}

\* The variables have their types.
TypeOK ==
    /\ entry \in [Dirs -> [Names -> Files \cup {NoFile}]]
    /\ text \in [Files -> Text]
    /\ durable \subseteq Files
    /\ msg \in [dir : Dirs, name : Names, seen : BOOLEAN, fd : Files,
                stdin : BOOLEAN]
    /\ plan \in Plans
    /\ step \in 1 .. Len(plan) + 1
    /\ pc \in PCs
    /\ src \in 0 .. Len(plan)
    /\ opened \subseteq 0 .. Len(plan)
    /\ doutime \in BOOLEAN
    /\ dname \in Names
    /\ error \in BOOLEAN
    /\ rv \in {"success", "rejected"}
    /\ faults \in 0 .. MaxFaults
    /\ renames \in 0 .. MaxRenames

Linked(f) == \E d \in Dirs, n \in Names : entry[d][n] = f

\* f is a copy of the message that survives a crash and a power failure.
Good(f) == text[f] \in Whole /\ f \in durable /\ Linked(f)

Discarded == plan[Len(plan)].act = "discard" /\ step = Len(plan) + 1

\* At every point of every delivery, unless the message was discarded, some
\* file of some maildir is the whole message with its content on the disk:
\* no failing system call, no crash and no reader renaming files loses it
\* (maildir_move, maildir_write: write, fsync, and only then unlink).
NoLoss == Discarded \/ \E f \in Files : Good(f)

\* When mdsort is done, at most one system call failed and nobody else touched
\* the files, exactly one file is left: the message, neither duplicated nor
\* beside a half-written copy ("try to reduce side effects").
NoLeftover ==
    pc = "done" /\ faults <= 1 /\ renames = 0 =>
        Cardinality({x \in Dirs \X Names : entry[x[1]][x[2]] # NoFile})
            = IF Discarded THEN 0 ELSE 1

Moves == {i \in 1 .. Len(plan) : plan[i].act = "move"}
LastDir == IF Moves = {} THEN SrcDir
           ELSE plan[CHOOSE i \in Moves : \A j \in Moves : j <= i].dir

\* A delivery that reports success did all of its actions: the only file is the
\* whole message in the directory of the last move, with the headers the labels
\* asked for, and the path and name in memory are those of the file.
SuccessIsComplete ==
    pc = "done" /\ ~error /\ renames = 0 /\ ~Discarded =>
        \A d \in Dirs, n \in Names :
            IF d = LastDir /\ n = msg.name
            THEN entry[d][n] \in durable /\
                 text[entry[d][n]] =
                    IF \E i \in 1 .. Len(plan) : plan[i].act = "write"
                    THEN "edited" ELSE "orig"
            ELSE entry[d][n] = NoFile

\* Between two actions the source maildir, which the next system calls are
\* relative to, is the directory of the message's path, and nothing but a
\* reader can have taken the file away.
SourceFollowsMessage ==
    pc \in {"open", "stat", "create", "discard", "exec", "reject"} =>
        /\ msg.dir = SourceDir
        /\ renames = 0 => SourceExists

\* The file descriptor an exec action reads from is the whole message, with the
\* changes of the label and add-header actions before it (maildir_write's
\* comment on updating the message fd).
ExecReadsCurrent ==
    pc = "exec" =>
        /\ text[msg.fd] \in Whole
        /\ (\E i \in 1 .. step - 1 : plan[i].act = "write") =>
               text[msg.fd] = "edited"

\* The handles of maildirs: the source is open for as long as it is used, never
\* main's is closed, and none is left open at the end (matches_exec's chsrc).
HandlesBalanced ==
    /\ pc # "done" => opened \in {{0, src}, {0, src, step}}
    /\ pc \in {"stat", "create", "rename", "setfile"} =>
           (Act.act = "move") = (step \in opened)
    /\ pc = "done" => opened = {0}

\* After an error no later action of the list is begun, and the error is not
\* forgotten (matches_exec leaves the loop).
ErrorStops == [][error => error' /\ step' = step]_vars

\* A file of a maildir is only ever unlinked or overwritten while another good
\* copy stays, the message itself excepted when it is discarded: files that
\* are not good can come and go, good ones only for a good one.
GoodReplaced ==
    [][\A f \in Files : Good(f) /\ ~Good(f)' =>
          \/ pc = "discard"
          \/ \E g \in Files \ {f} : Good(g) /\ Good(g)']_vars

-----------------------------------------------------------------------------
(***************************************************************************)
(* The inductive invariant behind NoLoss.  The heart of it is Kept: from   *)
(* the moment action "step" has created its file until the old one is      *)
(* unlinked, a good copy exists in some OTHER file.  Owned says that what  *)
(* the undo step unlinks, and a rename overwrites, is that new file.       *)
(***************************************************************************)
Untouched == {"open", "stat", "create", "discard", "exec", "reject"}
Busy == {"rename", "write", "sync", "unlink", "undo"}

Control ==
    pc \notin {"close", "done"} =>
        step <= Len(plan) /\ (pc = "discard" => Act.act = "discard")

Fresh == \A f \in Files :
            f > step \/ (f = step /\ pc \in Untouched) => text[f] = "none"

Owned ==
    pc \in Busy =>
        /\ entry[Target][dname] \in {NoFile, step}
        /\ Target.sub = "cur" /\ dname.seen => entry[Target][dname] = step

Pending ==
    /\ pc = "rename" => text[step] = "empty"
    /\ pc \in {"rename", "write", "sync", "unlink"} => Linked(step)
    /\ pc \in {"sync", "unlink"} => text[step] \in Whole
    /\ pc = "unlink" => step \in durable

Kept == \/ Discarded
        \/ \E f \in Files : Good(f) /\ (pc \in Busy => f # step)

\* The conjunction is inductive, and implies NoLoss.
IInv == TypeOK /\ Control /\ Fresh /\ Owned /\ Pending /\ Kept

-----------------------------------------------------------------------------
(***************************************************************************)
(* Refinement of Intent, for a delivery no reader interferes with: an      *)
(* action has taken effect once the file it works on is no longer where    *)
(* the action found it.                                                    *)
(***************************************************************************)
InEffect == step <= Len(plan) /\ ~SourceExists
MessageFile == IF SourceExists THEN entry[SourceDir][msg.name]
               ELSE entry[Target][dname]

Done == IF InEffect THEN step ELSE step - 1
Where == IF Discarded THEN {}
         ELSE IF SourceExists THEN {SourceDir} ELSE {Target}
Edited == ~Discarded /\ text[MessageFile] = "edited"
Ended == IF pc = "done" THEN Result ELSE "running"

Promise == INSTANCE Intent WITH
    done <- Done, where <- Where, edited <- Edited, outcome <- Ended

\* System calls that fail notwithstanding, a delivery performs its list one
\* action at a time, each one entirely or not at all, stops at the first that
\* fails, reports it, and comes to an end.
KeepsPromise == Promise!Spec

=============================================================================
