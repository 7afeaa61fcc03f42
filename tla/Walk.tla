-------------------------------- MODULE Walk --------------------------------
(***************************************************************************)
(* mdsort walking maildirs: the loop of main() over maildir blocks (src/   *)
(* mdsort.c), maildir_walk() over new and then cur (src/maildir.c), and    *)
(* handle_message() for each entry, which creates, renames and unlinks     *)
(* files in the directories being walked.  Maildirs are not locked:        *)
(* several mdsort processes may walk, and a mail reader renames.           *)
(*                                                                         *)
(* A rule has one action; lists of them, and failing system calls within   *)
(* an action, are the subject of Delivery.                                 *)
(***************************************************************************)
EXTENDS Maildir, Integers, Sequences, FiniteSets

CONSTANTS
    Procs,       \* processes
    Temporary,   \* the roots that are temporary maildirs of stdin mode
    Scenarios,   \* what the processes are run on, see Scenario
    NMsgs,       \* number of messages, 1 .. NMsgs
    MaxIds,      \* bound on the number of files
    Echoes       \* readdir() may show files created since opendir() as long
                 \* as no more than this many exist

Msgs == 1 .. NMsgs

\* A file is known by a number, the unique part of the name it was created
\* with: maildir_genname() tries names until one does not exist.
Ids == 1 .. MaxIds
NoFile == 0
Names == [id : Ids, seen : BOOLEAN]

\* What a file holds: the message it is of, whether all of it, and whether it
\* has the label.
Contents == [msg : Msgs \cup {0}, whole : BOOLEAN, label : BOOLEAN]

\* One rule: "match <cond> <act>".  root matters to move only.
Rules == [cond : {"all", "new", "unlabelled"},
          act : {"move", "flag", "label", "discard"}, root : Roots]

\* The maildirs in the configuration of each process, its rule, where the
\* messages are, and the bounds on system calls that fail and on renames by
\* the mail reader.
Scenario == [blocks : [Procs -> Seq(Roots)], rule : [Procs -> Rules],
             at : [Msgs -> Dirs], faults : Nat, renames : Nat]

\* The temporary maildir has no cur: maildir_stdin() puts the message in new.
ASSUME ScenariosAssumption ==
    /\ Scenarios \subseteq Scenario
    /\ \A s \in Scenarios, m \in Msgs :
          s.at[m].root \in Temporary => s.at[m].sub = "new"
ASSUME WalkAssumption ==
    /\ Temporary \subseteq Roots
    /\ "reader" \notin Procs
    /\ NMsgs \in Nat \ {0} /\ MaxIds \in Nat /\ NMsgs < MaxIds

VARIABLES
    sc,        \* the scenario
    entry,     \* entry[d][n]: file the directory d links under the name n
    file,      \* file[i]: content of file i
    made,      \* number of files created so far
    \* one of each per process
    pc,        \* next system call
    block,     \* index of the maildir being walked
    sub,       \* md_subdir
    stream,    \* md_dir: the names readdir() has to return, and those it may
    cur,       \* the message handled: its name, its content as parsed, the name
               \* and the file created for it
    error,     \* main()'s error
    \* history
    handled,   \* messages evaluated
    acted,     \* how often the action was carried out on each message
    touched,   \* who went about to change a message, or renamed it inside of cur
    broken,    \* blocks of which the walk was given up
    torn,      \* messages whose unfinished file was copied or discarded
    dropped,   \* messages discarded
    \* bounds
    faults, renames

fsVars == <<entry, file, made>>
history == <<handled, acted, touched, broken, torn, dropped>>
walkVars == <<block, sub>>
vars == <<sc, entry, file, made, pc, block, sub, stream, cur, error, handled,
          acted, touched, broken, torn, dropped, faults, renames>>

-----------------------------------------------------------------------------
Root(p) == sc.blocks[p][block[p]]
Here(p) == [root |-> Root(p), sub |-> sub[p]]
Rule(p) == sc.rule[p]

Linked(d) == {n \in Names : entry[d][n] # NoFile}

\* Variant: the label is looked for under another name.
ConditionMisspelt(r, d, c) ==
    CASE r.cond = "new" -> d.sub = "new"
      [] OTHER -> TRUE

\* expr_eval_all(), expr_eval_new(), and "! header X-Label": the message as
\* parsed, in the directory its path names.
Condition(r, d, c) ==
    CASE r.cond = "all" -> TRUE
      [] r.cond = "new" -> d.sub = "new"
      [] r.cond = "unlabelled" -> ~c.label

\* The destination: the maildir of the move with the subdirectory the message
\* is in, cur for "flag !new", and the source for a label.
Target(p) == CASE Rule(p).act = "move" -> [root |-> Rule(p).root, sub |-> sub[p]]
               [] Rule(p).act = "flag" -> [root |-> Root(p), sub |-> "cur"]
               [] OTHER -> Here(p)

\* maildir_rename() succeeds; otherwise the message is copied and unlinked.
Renames(p) == Rule(p).act \in {"move", "flag"}
              /\ Device[Root(p)] = Device[Target(p).root]

\* All open directory streams after the entries have become e.  readdir(3) has
\* to return a name that is there from opendir() on; one created or removed in
\* the meantime it may return or not.
Streams(e) ==
    [p \in Procs |->
       LET d == Here(p)
           gone == {n \in stream[p].must : e[d][n] = NoFile}
           added == {n \in Names : entry[d][n] = NoFile /\ e[d][n] # NoFile}
       IN  IF pc[p] \in {"open", "done"} THEN stream[p]
           ELSE [must |-> stream[p].must \ gone,
                 may |-> stream[p].may \cup gone \cup added]]

Change(e) == entry' = e /\ stream' = Streams(e)
Unlink(d, n) == [entry EXCEPT ![d][n] = NoFile]
Rename(d, n, dd, nn) ==
    [[entry EXCEPT ![d][n] = NoFile] EXCEPT ![dd][nn] = entry[d][n]]

Goto(p, call) == pc' = [pc EXCEPT ![p] = call]
Fail(p) == error' = [error EXCEPT ![p] = TRUE]
Fault == faults < sc.faults /\ faults' = faults + 1
NoFault == UNCHANGED faults

\* Variant: the list of paths is not left at its end.
NextBlockUnchecked(p) ==
    /\ block' = [block EXCEPT ![p] = @ + 1]
    /\ sub' = [sub EXCEPT ![p] = "new"]
    /\ Goto(p, "open")

\* maildir_close() and the next path of main()'s loop.
NextBlock(p) ==
    /\ block' = [block EXCEPT ![p] = @ + 1]
    /\ sub' = [sub EXCEPT ![p] = "new"]
    /\ Goto(p, IF block[p] < Len(sc.blocks[p]) THEN "open" ELSE "done")

\* The walk of a maildir fails: the rest of it is left alone.
GiveUp(p) ==
    /\ Fault
    /\ Fail(p)
    /\ broken' = broken \cup {<<p, block[p]>>}
    /\ NextBlock(p)

\* The action took effect on the message that is in file i.
Done(p, i) == acted' = [acted EXCEPT ![p][file[i].msg] = @ + 1]

-----------------------------------------------------------------------------
NoName == [id |-> 1, seen |-> FALSE]
NoContent == [msg |-> 0, whole |-> FALSE, label |-> FALSE]

Init ==
    /\ sc \in Scenarios
    /\ entry = [d \in Dirs |-> [n \in Names |->
                   IF n.id \in Msgs /\ ~n.seen /\ sc.at[n.id] = d
                   THEN n.id ELSE NoFile]]
    /\ file = [i \in Ids |-> IF i \in Msgs
                             THEN [NoContent EXCEPT !.msg = i, !.whole = TRUE]
                             ELSE NoContent]
    /\ made = NMsgs
    /\ pc = [p \in Procs |-> IF sc.blocks[p] = << >> THEN "done" ELSE "open"]
    /\ block = [p \in Procs |-> 1]
    /\ sub = [p \in Procs |-> "new"]
    /\ stream = [p \in Procs |-> [must |-> {}, may |-> {}]]
    /\ cur = [p \in Procs |-> [name |-> NoName, parsed |-> NoContent,
                               dname |-> NoName, dfile |-> NoFile]]
    /\ error = [p \in Procs |-> FALSE]
    /\ handled = [p \in Procs |-> {}]
    /\ acted = [p \in Procs |-> [m \in Msgs |-> 0]]
    /\ touched = [m \in Msgs |-> {}]
    /\ broken = {}
    /\ torn = {}
    /\ dropped = {}
    /\ faults = 0
    /\ renames = 0

\* maildir_opendir(), from maildir_open() or from maildir_walk().
Open(p) ==
    /\ pc[p] = "open"
    /\ \/ /\ stream' = [stream EXCEPT ![p] = [must |-> Linked(Here(p)), may |-> {}]]
          /\ Goto(p, "read")
          /\ UNCHANGED <<walkVars, error, broken, faults>>
       \/ /\ GiveUp(p)
          /\ UNCHANGED stream
    /\ UNCHANGED <<sc, fsVars, cur, handled, acted, touched, torn, dropped, renames>>

\* maildir_read(): readdir() returns a name, or fails.
Read(p) ==
    /\ pc[p] = "read"
    /\ \/ /\ \E n \in stream[p].must \cup IF made <= Echoes THEN stream[p].may
                                          ELSE {} :
                /\ stream' = [stream EXCEPT ![p].must = @ \ {n},
                                            ![p].may = @ \ {n}]
                /\ cur' = [cur EXCEPT ![p].name = n]
          /\ Goto(p, "parse")
          /\ UNCHANGED <<walkVars, error, broken, faults>>
       \/ /\ GiveUp(p)
          /\ UNCHANGED <<stream, cur>>
    /\ UNCHANGED <<sc, fsVars, handled, acted, touched, torn, dropped, renames>>

\* Variant: only new is walked.
EndOfDirectoryOfNew(p) ==
    /\ pc[p] = "read"
    /\ stream[p].must = {}
    /\ NextBlock(p)
    /\ UNCHANGED <<sc, fsVars, stream, cur, error, history, faults, renames>>

\* Variant: after cur comes new.
EndOfDirectoryForever(p) ==
    /\ pc[p] = "read"
    /\ stream[p].must = {}
    /\ sub' = [sub EXCEPT ![p] = IF @ = "new" THEN "cur" ELSE "new"]
    /\ Goto(p, "open")
    /\ UNCHANGED <<sc, block, fsVars, stream, cur, error, history, faults, renames>>

\* readdir() has nothing more: maildir_next() goes from new to cur, and ends
\* the walk there.  The temporary maildir has no cur.
EndOfDirectory(p) ==
    /\ pc[p] = "read"
    /\ stream[p].must = {}
    /\ IF sub[p] = "new" /\ Root(p) \notin Temporary
         THEN /\ sub' = [sub EXCEPT ![p] = "cur"]
              /\ Goto(p, "open")
              /\ UNCHANGED block
         ELSE NextBlock(p)
    /\ UNCHANGED <<sc, fsVars, stream, cur, error, history, faults, renames>>

\* handle_message(): message_parse() opens the file, if it is still there, and
\* reads it, then the rule is evaluated.
Parse(p) ==
    /\ pc[p] = "parse"
    /\ LET i == entry[Here(p)][cur[p].name]
           c == file[i]
       IN  IF i = NoFile
           THEN /\ Fail(p)
                /\ Goto(p, "read")
                /\ UNCHANGED <<cur, handled, touched, torn>>
           ELSE /\ cur' = [cur EXCEPT ![p].parsed = c]
                /\ handled' = [handled EXCEPT ![p] = @ \cup {c.msg}]
                /\ IF ~Condition(Rule(p), Here(p), c)
                   THEN Goto(p, "read") /\ UNCHANGED <<touched, torn>>
                   ELSE /\ Goto(p, IF Rule(p).act = "discard" THEN "unlink"
                                   ELSE "create")
                        /\ touched' = [touched EXCEPT ![c.msg] = @ \cup {p}]
                        /\ torn' = IF c.whole \/ Renames(p) THEN torn
                                   ELSE torn \cup {c.msg}
                /\ UNCHANGED error
    /\ UNCHANGED <<sc, fsVars, walkVars, stream, acted, broken, dropped, faults,
                   renames>>

\* Variant: the new file gets the name of the old one.
CreateSameName(p) ==
    /\ pc[p] = "create"
    /\ LET n == [cur[p].name EXCEPT !.seen =
                    MsgFlags(Here(p), Target(p), cur[p].name.seen)]
       IN  /\ made' = made + 1
           /\ Change([entry EXCEPT ![Target(p)][n] = made + 1])
           /\ file' = [file EXCEPT ![made + 1].msg = cur[p].parsed.msg]
           /\ cur' = [cur EXCEPT ![p].dname = n, ![p].dfile = made + 1]
           /\ Goto(p, IF Renames(p) THEN "rename" ELSE "write")
    /\ UNCHANGED <<sc, walkVars, error, history, faults, renames>>

\* maildir_genname() in the destination.
Create(p) ==
    /\ pc[p] = "create"
    /\ \/ LET n == [id |-> made + 1,
                    seen |-> MsgFlags(Here(p), Target(p), cur[p].name.seen)]
          IN  /\ made < MaxIds
              /\ made' = made + 1
              /\ Change([entry EXCEPT ![Target(p)][n] = made + 1])
              /\ file' = [file EXCEPT ![made + 1].msg = cur[p].parsed.msg]
              /\ cur' = [cur EXCEPT ![p].dname = n, ![p].dfile = made + 1]
              /\ Goto(p, IF Renames(p) THEN "rename" ELSE "write")
              /\ UNCHANGED <<error, faults>>
       \/ /\ Fault
          /\ Fail(p)
          /\ Goto(p, "read")
          /\ UNCHANGED <<fsVars, stream, cur>>
    /\ UNCHANGED <<sc, walkVars, history, renames>>

\* maildir_rename(): whatever has the name by now is moved.
RenameSource(p) ==
    /\ pc[p] = "rename"
    /\ LET i == entry[Here(p)][cur[p].name]
       IN  IF i = NoFile
           THEN /\ Fail(p)
                /\ Goto(p, "undo")
                /\ UNCHANGED <<entry, stream, acted>>
           ELSE /\ Change(Rename(Here(p), cur[p].name, Target(p), cur[p].dname))
                /\ Done(p, i)
                /\ Goto(p, "finish")
                /\ UNCHANGED error
    /\ UNCHANGED <<sc, file, made, walkVars, cur, handled, touched, broken, torn,
                   dropped, faults, renames>>

\* message_write(), by descriptor: the message as it was parsed, labelled.
WriteCopy(p) ==
    /\ pc[p] = "write"
    /\ file' = [file EXCEPT ![cur[p].dfile] =
                   [cur[p].parsed EXCEPT !.label = @ \/ Rule(p).act = "label"]]
    /\ Goto(p, "unlink")
    /\ UNCHANGED <<sc, entry, made, walkVars, stream, cur, error, history, faults,
                   renames>>

\* maildir_unlink() of the source: of whatever has the name by now.
UnlinkSource(p) ==
    /\ pc[p] = "unlink"
    /\ LET i == entry[Here(p)][cur[p].name]
           discard == Rule(p).act = "discard"
       IN  IF i = NoFile
           THEN /\ Fail(p)
                /\ Goto(p, IF discard THEN "read" ELSE "undo")
                /\ UNCHANGED <<entry, stream, acted, dropped>>
           ELSE /\ Change(Unlink(Here(p), cur[p].name))
                /\ Done(p, i)
                /\ dropped' = IF discard /\ cur[p].parsed.whole
                              THEN dropped \cup {file[i].msg} ELSE dropped
                /\ Goto(p, IF discard THEN "read" ELSE "finish")
                /\ UNCHANGED error
    /\ UNCHANGED <<sc, file, made, walkVars, cur, handled, touched, broken, torn,
                   faults, renames>>

\* "Try to reduce side effects".
Undo(p) ==
    /\ pc[p] = "undo"
    /\ Change(Unlink(Target(p), cur[p].dname))
    /\ Goto(p, "read")
    /\ UNCHANGED <<sc, file, made, walkVars, cur, error, history, faults, renames>>

\* Variant: the modification time is set on the old name.
FinishSource(p) ==
    /\ pc[p] = "finish"
    /\ IF entry[Here(p)][cur[p].name] = NoFile /\ Root(p) \notin Temporary
         THEN Fail(p) ELSE UNCHANGED error
    /\ Goto(p, "read")
    /\ UNCHANGED <<sc, fsVars, walkVars, stream, cur, history, faults, renames>>

\* utimensat(), or openat() after a label: the new file has to be there still.
Finish(p) ==
    /\ pc[p] = "finish"
    /\ IF entry[Target(p)][cur[p].dname] = NoFile /\ Root(p) \notin Temporary
         THEN Fail(p) ELSE UNCHANGED error
    /\ Goto(p, "read")
    /\ UNCHANGED <<sc, fsVars, walkVars, stream, cur, history, faults, renames>>

Step(p) ==
    \/ Open(p) \/ Read(p) \/ EndOfDirectory(p) \/ Parse(p) \/ Create(p)
    \/ RenameSource(p) \/ WriteCopy(p) \/ UnlinkSource(p) \/ Undo(p) \/ Finish(p)

\* A mail reader marks a message as seen, in cur.
MarkSeen ==
    /\ renames < sc.renames
    /\ \E d \in Dirs, n \in Names :
          LET dd == [d EXCEPT !.sub = "cur"]
              nn == [n EXCEPT !.seen = TRUE]
          IN  /\ d.root \notin Temporary
              /\ entry[d][n] # NoFile
              /\ entry[dd][nn] = NoFile
              /\ Change(Rename(d, n, dd, nn))
              /\ touched' = IF d = dd
                            THEN [touched EXCEPT ![file[entry[d][n]].msg] =
                                     @ \cup {"reader"}]
                            ELSE touched
    /\ renames' = renames + 1
    /\ UNCHANGED <<sc, file, made, pc, walkVars, cur, error, handled, acted,
                   broken, torn, dropped, faults>>

AllDone == \A p \in Procs : pc[p] = "done"
Terminated == AllDone /\ UNCHANGED vars

Next == (\E p \in Procs : Step(p)) \/ MarkSeen \/ Terminated

Spec == Init /\ [][Next]_vars

\* Every process keeps running; nothing is assumed of the reader, nor of which
\* of the names it may return readdir() does return.
FairSpec == Spec /\ \A p \in Procs : WF_vars(Step(p))

-----------------------------------------------------------------------------
PCs == {"open", "read", "parse", "create", "rename", "write", "unlink", "undo",
        "finish", "done"}

\* The variables have their types.
TypeOK ==
    /\ sc \in Scenarios
    /\ entry \in [Dirs -> [Names -> Ids \cup {NoFile}]]
    /\ file \in [Ids -> Contents]
    /\ made \in Ids
    /\ pc \in [Procs -> PCs]
    /\ block \in [Procs -> Nat]
    /\ \A p \in Procs : pc[p] # "done" => block[p] \in DOMAIN sc.blocks[p]
    /\ sub \in [Procs -> Subdirs]
    /\ stream \in [Procs -> [must : SUBSET Names, may : SUBSET Names]]
    /\ cur \in [Procs -> [name : Names, parsed : Contents, dname : Names,
                          dfile : Ids \cup {NoFile}]]
    /\ error \in [Procs -> BOOLEAN]
    /\ handled \in [Procs -> SUBSET Msgs]
    /\ touched \in [Msgs -> SUBSET (Procs \cup {"reader"})]

Exists(m) == \E d \in Dirs : \E n \in Linked(d) :
                file[entry[d][n]].msg = m /\ file[entry[d][n]].whole

\* Several processes and a reader on the same maildirs lose no message, unless
\* one of them copies or discards a file that another is still writing: files
\* are created in new and cur, not in tmp (maildir_genname), so this happens.
\* Renaming such a file does no harm.
NoneLost == \A m \in Msgs : Exists(m) \/ m \in dropped \/ m \in torn

Alone(p, m) == touched[m] \subseteq {p}

\* A message that was in a maildir when mdsort was started has been looked at
\* when it is done, whatever else failed, if that maildir could be walked to its
\* end, and nobody else changed the message but for moving it from new to cur
\* (maildir_walk: new comes before cur).
EveryMessageHandled ==
    \A p \in Procs, m \in Msgs :
        /\ pc[p] = "done"
        /\ Alone(p, m)
        /\ \E b \in 1 .. Len(sc.blocks[p]) :
              <<p, b>> \notin broken /\ sc.blocks[p][b] = sc.at[m].root
        => m \in handled[p]

\* A rule that no longer holds for what it did, or that moves messages out of
\* the maildirs mdsort walks.
Settles(p) ==
    \/ Rule(p).act = "discard"
    \/ Rule(p).act = "move" /\ \A b \in 1 .. Len(sc.blocks[p]) :
                                   sc.blocks[p][b] # Rule(p).root
    \/ Rule(p).act = "flag" /\ Rule(p).cond = "new"
    \/ Rule(p).act = "label" /\ Rule(p).cond = "unlabelled"

\* Although readdir() may return the files that actions create, no message is
\* acted upon twice if the rule settles.
ActsOnce ==
    \A p \in Procs, m \in Msgs :
        Settles(p) /\ Alone(p, m) => acted[p][m] <= 1

\* A process that has the maildirs to itself and meets no failure does not
\* report one: it never comes across a file that it has itself removed.
NoErrorOfItsOwn ==
    \A p \in Procs :
        error[p] /\ faults = 0 /\ renames = 0 => \E m \in Msgs : ~Alone(p, m)

\* All processes end.  Rules that settle need no bound for this: they create a
\* bounded number of files.  The others only end because readdir() ceases to
\* return what is created, after Echoes files.
Ends == <>AllDone

=============================================================================
