-------------------------------- MODULE Mda --------------------------------
(***************************************************************************)
(* mdsort as a mail delivery agent ("mdsort -"): main() spools the message *)
(* read from stdin into a temporary maildir (maildir_stdin), evaluates it, *)
(* delivers it as Delivery does, removes the temporary maildir             *)
(* (maildir_close) and tells the mail server by its exit code whether the  *)
(* message may be forgotten.  SrcDir is the new directory of the temporary *)
(* maildir, msg.stdin is TRUE.                                             *)
(***************************************************************************)
EXTENDS Delivery

CONSTANTS
    Chunks,       \* bound on the number of reads the message takes
    ShortWrites   \* TRUE: write() may write less than it was asked to

ASSUME MdaAssumption ==
    /\ Modes = {TRUE} /\ SrcDir.sub = "new"
    /\ Chunks \in Nat /\ ShortWrites \in BOOLEAN

VARIABLES
    phase,     \* where main() is
    left,      \* chunks of the message not read yet
    torn,      \* the spooled file lacks some of what was read
    tmp,       \* directories of the temporary maildir that exist
    verdict,   \* outcome of handle_message() before execution
    merr,      \* main's error
    reject,    \* main's reject
    swept,     \* history: every removal that maildir_close() tried succeeded
    status     \* exit status

mdaVars == <<phase, left, torn, tmp, verdict, merr, reject, swept, status>>
allVars == <<vars, mdaVars>>

\* All variables of Delivery but those of the file system and of the bounds.
execVars == <<msg, plan, step, pc, src, opened, doutime, dname, error, rv>>

-----------------------------------------------------------------------------
MdaInit ==
    /\ plan \in Plans
    /\ \E i \in Ids :
          LET n == [id |-> i, seen |-> FALSE]
          IN  /\ msg = [dir |-> SrcDir, name |-> n, seen |-> FALSE, fd |-> 0,
                     stdin |-> TRUE]
              /\ dname = n
    /\ entry = [d \in Dirs |-> [n \in Names |-> NoFile]]
    /\ text = [f \in Files |-> "none"]
    /\ durable = {}
    /\ step = 1 /\ pc = Begin(plan, 1) /\ src = 0 /\ opened = {0}
    /\ doutime = FALSE /\ error = FALSE /\ rv = "success"
    /\ faults = 0 /\ renames = 0
    /\ phase = "mkdtemp"
    /\ left \in 0 .. Chunks
    /\ torn = FALSE /\ tmp = {} /\ verdict = "none"
    /\ merr = FALSE /\ reject = FALSE /\ swept = TRUE /\ status = "running"

\* mkdtemp(), mkdir() and opendir() of the temporary maildir.
MakeTemp ==
    /\ \/ /\ phase = "mkdtemp"
          /\ \/ tmp' = {"root"} /\ phase' = "mkdir" /\ NoFault
             \/ Fault /\ phase' = "null" /\ UNCHANGED tmp
       \/ /\ phase = "mkdir"
          /\ \/ tmp' = {"root", "new"} /\ phase' = "opendir" /\ NoFault
             \/ Fault /\ phase' = "null" /\ UNCHANGED tmp
       \/ /\ phase = "opendir"
          /\ \/ phase' = "create" /\ NoFault
             \/ Fault /\ phase' = "null"
          /\ UNCHANGED tmp
    /\ UNCHANGED <<fsVars, execVars, renames, left, torn, verdict, merr, reject,
                   swept, status>>

\* maildir_open() failed before the directory was open, and calls
\* maildir_close(): rewinddir(NULL) kills the process.
NullRewind ==
    /\ phase = "null"
    /\ phase' = "exit"
    /\ status' = "signal"
    /\ UNCHANGED <<vars, left, torn, tmp, verdict, merr, reject, swept>>

\* maildir_genname() of the spool file.
CreateSpool ==
    /\ phase = "create"
    /\ \/ /\ entry' = Link(SrcDir, msg.name, 0)
          /\ text' = [text EXCEPT ![0] = "empty"]
          /\ phase' = "read"
          /\ UNCHANGED <<merr, faults>>
       \/ /\ Fault
          /\ merr' = TRUE
          /\ phase' = "sweep"
          /\ UNCHANGED <<entry, text>>
    /\ UNCHANGED <<durable, execVars, renames, left, torn, tmp, verdict, reject,
                   swept, status>>

\* Variant: the end of the input is not recognised.
ReadPastEnd ==
    /\ phase = "read"
    /\ left' = left - 1
    /\ text' = [text EXCEPT ![0] = "part"]
    /\ UNCHANGED <<entry, durable, execVars, faults, renames, phase, torn, tmp,
                   verdict, merr, reject, swept, status>>

\* One turn of the loop of maildir_stdin(): read() and write().  The result of
\* write() is only compared to -1.
ReadChunk ==
    /\ phase = "read" /\ left > 0
    /\ \/ /\ left' = left - 1
          /\ text' = [text EXCEPT ![0] = "part"]
          /\ torn' \in {torn, torn \/ ShortWrites}
          /\ UNCHANGED <<phase, merr, faults>>
       \/ /\ Fault
          /\ merr' = TRUE
          /\ phase' = "close"
          /\ UNCHANGED <<left, text, torn>>
    /\ UNCHANGED <<entry, durable, execVars, renames, tmp, verdict, reject,
                   swept, status>>

\* read() returns 0, or fails.
EndOfInput ==
    /\ phase = "read" /\ left = 0
    /\ \/ /\ text' = [text EXCEPT ![0] = "orig"]
          /\ phase' = "sync"
          /\ UNCHANGED <<merr, faults>>
       \/ /\ Fault
          /\ merr' = TRUE
          /\ phase' = "close"
          /\ UNCHANGED text
    /\ UNCHANGED <<entry, durable, execVars, renames, left, torn, tmp, verdict,
                   reject, swept, status>>

\* Variant: the result of fsync() is only warned about.
SyncSpoolUnchecked ==
    /\ phase = "sync"
    /\ \/ durable' = durable \cup {0} /\ NoFault
       \/ Fault /\ UNCHANGED durable
    /\ phase' = "close"
    /\ UNCHANGED <<entry, text, execVars, renames, left, torn, tmp, verdict,
                   merr, reject, swept, status>>

\* fsync() of the spool file.
SyncSpool ==
    /\ phase = "sync"
    /\ \/ durable' = durable \cup {0} /\ UNCHANGED <<merr, faults>>
       \/ Fault /\ merr' = TRUE /\ UNCHANGED durable
    /\ phase' = "close"
    /\ UNCHANGED <<entry, text, execVars, renames, left, torn, tmp, verdict,
                   reject, swept, status>>

\* close() of the spool file.  On any error maildir_open() closes the maildir.
CloseSpool ==
    /\ phase = "close"
    /\ \/ UNCHANGED <<merr, faults>>
       \/ Fault /\ merr' = TRUE
    /\ phase' = IF merr' THEN "sweep" ELSE "walk"
    /\ UNCHANGED <<fsVars, execVars, renames, left, torn, tmp, verdict, reject,
                   swept, status>>

\* Variant: the directory does not end.
WalkForever ==
    /\ phase = "walk"
    /\ phase' = "handle"
    /\ UNCHANGED <<vars, left, torn, tmp, verdict, merr, reject, swept, status>>

\* maildir_walk() in main(): the spooled message, then nothing.  Files that the
\* actions create in the directory are taken not to show up.
Walk ==
    /\ phase = "walk"
    /\ \/ /\ phase' = IF verdict = "none" THEN "handle" ELSE "sweep"
          /\ UNCHANGED <<merr, faults>>
       \/ Fault /\ merr' = TRUE /\ phase' = "sweep"
    /\ UNCHANGED <<fsVars, execVars, renames, left, torn, tmp, verdict, reject,
                   swept, status>>

\* handle_message() up to matches_exec(): parse, evaluate, interpolate.
Evaluate ==
    /\ phase = "handle"
    /\ \/ verdict' \in {"match", "nomatch"} /\ UNCHANGED <<merr, faults>>
       \/ Fault /\ verdict' = "error" /\ merr' = TRUE
    /\ phase' = IF verdict' = "match" THEN "deliver" ELSE "walk"
    /\ UNCHANGED <<fsVars, execVars, renames, left, torn, tmp, reject, swept,
                   status>>

\* matches_exec(), step by step.
Deliver == phase = "deliver" /\ Mdsort /\ UNCHANGED mdaVars

\* Variant: anything but success is an error.
ReturnRejectIsError ==
    /\ phase = "deliver" /\ pc = "done"
    /\ merr' = (merr \/ Result # "success")
    /\ phase' = "walk"
    /\ UNCHANGED <<vars, left, torn, tmp, verdict, reject, swept, status>>

\* The end of handle_message().
Return ==
    /\ phase = "deliver" /\ pc = "done"
    /\ merr' = (merr \/ Result = "error")
    /\ reject' = (Result = "rejected")
    /\ phase' = "walk"
    /\ UNCHANGED <<vars, left, torn, tmp, verdict, swept, status>>

Spooled == {n \in Names : entry[SrcDir][n] # NoFile}

\* Variant: after an error the files are left for a postmortem.
SweepUnlessError ==
    /\ phase = "sweep"
    /\ entry' = IF merr THEN entry
                ELSE [entry EXCEPT ![SrcDir] = [n \in Names |-> NoFile]]
    /\ phase' = "rmdir"
    /\ UNCHANGED <<text, durable, execVars, faults, renames, left, torn, tmp,
                   verdict, merr, reject, swept, status>>

\* The loop of maildir_close(): best effort, a file that cannot be removed is
\* skipped, a readdir() that fails leaves the rest.
Sweep ==
    /\ phase = "sweep"
    /\ \E kept \in SUBSET Spooled :
          /\ entry' = [entry EXCEPT ![SrcDir] = [n \in Names |->
                          IF n \in kept THEN @[n] ELSE NoFile]]
          /\ IF kept = {} THEN NoFault ELSE Fault
          /\ swept' = (kept = {})
    /\ phase' = "rmdir"
    /\ UNCHANGED <<text, durable, execVars, renames, left, torn, tmp, verdict,
                   merr, reject, status>>

\* rmdir() of md_path, then of md_root, and the end of main().
Exit ==
    /\ phase = "rmdir"
    /\ \/ /\ tmp' = IF Spooled = {} THEN {} ELSE tmp
          /\ UNCHANGED <<swept, faults>>
       \/ /\ Fault
          /\ swept' = FALSE
          /\ tmp' \in {{"root"}, {"root", "new"}}
    /\ phase' = "exit"
    /\ status' = IF merr THEN "75" ELSE IF reject THEN "1" ELSE "0"
    /\ UNCHANGED <<fsVars, execVars, renames, left, torn, verdict, merr, reject>>

MdaStep ==
    \/ MakeTemp \/ NullRewind \/ CreateSpool \/ ReadChunk \/ EndOfInput
    \/ SyncSpool \/ CloseSpool \/ Walk \/ Evaluate \/ Deliver \/ Return
    \/ Sweep \/ Exit

Reader == MarkSeen /\ UNCHANGED mdaVars

MdaDone == phase = "exit" /\ UNCHANGED allVars

MdaNext == MdaStep \/ Reader \/ MdaDone

MdaSpec == MdaInit /\ [][MdaNext]_allVars

\* One sequential process, whose standard input ends.
MdaFairSpec == MdaSpec /\ WF_allVars(MdaStep)

-----------------------------------------------------------------------------
\* The type invariant.
MdaTypeOK ==
    /\ phase \in {"mkdtemp", "mkdir", "opendir", "null", "create", "read",
                  "sync", "close", "walk", "handle", "deliver", "sweep",
                  "rmdir", "exit"}
    /\ left \in 0 .. Chunks
    /\ torn \in BOOLEAN /\ merr \in BOOLEAN /\ reject \in BOOLEAN
    /\ swept \in BOOLEAN
    /\ tmp \in {{}, {"root"}, {"root", "new"}}
    /\ verdict \in {"none", "match", "nomatch", "error"}
    /\ status \in {"running", "0", "1", "75", "signal"}
    /\ TypeOK

Temporary(d) == d.root = SrcDir.root

\* The moves of the list to where mail is kept.
Deliveries == {i \in Moves : ~Temporary(plan[i].dir)}

\* Exit status 0 tells the mail server that the message is delivered: then the
\* maildir of the last move has all of what came in on stdin, on the disk, with
\* the headers that were asked for, whatever failed and was recovered from.
AcceptedIsKept ==
    status = "0" /\ verdict = "match" /\ Deliveries # {} /\ ~Discarded =>
        /\ ~torn
        /\ \E i \in Deliveries, d \in Dirs, n \in Names :
              /\ \A j \in Deliveries : j <= i
              /\ d.root = plan[i].dir.root
              /\ entry[d][n] # NoFile
              /\ entry[d][n] \in durable
              /\ text[entry[d][n]] = Written(plan)

\* The temporary maildir is gone at the end, with all of the files that the
\* actions left in it, whether the delivery succeeded or not, unless its removal
\* fails ("maildir_close() removes the complete temporary directory").
TemporaryRemoved ==
    phase = "exit" /\ status # "signal" /\ swept => tmp = {} /\ Spooled = {}

\* mdsort does not defer a message when no system call failed and no action names
\* the temporary maildir, as flags before a move does: 75 would make the mail
\* server send the message again and again.
FaultlessIsAccepted ==
    /\ phase = "exit" /\ faults = 0 /\ renames = 0
    /\ Deliveries = Moves
    => status # "75"

\* mdsort exits, whatever fails.
Exits == <>(phase = "exit")
=============================================================================
