----------------------------- MODULE AloneProofs -----------------------------
(***************************************************************************)
(* Proofs about what a process of Walk does to the messages that nobody    *)
(* else changes: it handles each of them, acts upon it once if its rule    *)
(* settles, and reports no error where nothing fails.  The directories it  *)
(* reads are changed by its own actions, by other processes, which are at  *)
(* work on other messages, and by a mail reader.                           *)
(***************************************************************************)
EXTENDS WalkProofs

\* Process p works on a file of message m, the one it has parsed or its own.
Busy(p, m) ==
    \/ Past(p) /\ cur[p].parsed.msg = m
    \/ Pending(p) /\ file[cur[p].dfile].msg = m

\* A file of message m is linked in d under the name n.
Of(m, d, n) == entry[d][n] # NoFile /\ file[entry[d][n]].msg = m

\* No file has two names.
OneName ==
    \A d, dd \in Dirs, n, nn \in Names :
        entry[d][n] # NoFile /\ entry[d][n] = entry[dd][nn] => d = dd /\ n = nn

\* The files there were at the beginning are not created again, and whoever works
\* on a message has handled it and is known to have touched it.
Worked ==
    /\ faults \in Nat /\ renames \in Nat /\ NMsgs <= made
    /\ acted \in [Procs -> [Msgs -> Nat]]
    /\ \A m \in Msgs : file[m].msg = m
    /\ \A p \in Procs :
          /\ Pending(p) => cur[p].dfile > NMsgs
          /\ pc[p] \in {"create", "rename", "write"} => Rule(p).act # "discard"
          /\ \A m \in Msgs : Busy(p, m) => p \in touched[m] /\ m \in handled[p]

\* A place where the rule of p would still act upon a message.
Fresh(p, d, n) ==
    CASE Rule(p).act = "move" ->
            \E b \in 1 .. Len(sc.blocks[p]) : sc.blocks[p][b] = d.root
      [] Rule(p).act = "flag" -> d.sub = "new"
      [] Rule(p).act = "label" -> n.id \in Msgs
      [] OTHER -> TRUE

\* In such places there is only the message's first file, and only until p has
\* acted; elsewhere all files are labelled, once written, if p labels.
Settled(p, m) ==
    /\ acted[p][m] \in {0, 1}
    /\ \A d \in Dirs, n \in Names : Of(m, d, n) =>
          IF Fresh(p, d, n) THEN entry[d][n] = m /\ acted[p][m] = 0
          ELSE Rule(p).act = "label" =>
                  \/ file[entry[d][n]].label
                  \/ pc[p] = "write" /\ entry[d][n] = cur[p].dfile
    /\ Past(p) /\ cur[p].parsed.msg = m => Fresh(p, Here(p), cur[p].name)

Settling ==
    \A p \in Procs, m \in Msgs : Settles(p) /\ Alone(p, m) => Settled(p, m)

\* Process p has yet to come to the name n in d, in block b.
Ahead(p, b, d, n) ==
    \/ block[p] < b
    \/ /\ block[p] = b /\ pc[p] = "open"
       /\ sub[p] = "new" \/ d.sub = "cur"
    \/ /\ block[p] = b /\ pc[p] \notin {"open", "done"}
       /\ \/ sub[p] = "new" /\ d.sub = "cur"
          \/ /\ sub[p] = d.sub
             /\ n \in stream[p].must \/ (pc[p] = "parse" /\ cur[p].name = n)

\* The first file of message m is where it was, or a reader has moved it to cur,
\* and p comes to it in every block of that maildir it has not given up.
WaitsAt(p, m, d, n) ==
    /\ entry[d][n] = m /\ d.root = sc.at[m].root
    /\ d = sc.at[m] \/ (d.sub = "cur" /\ d.root \notin Temporary)
    /\ \A b \in 1 .. Len(sc.blocks[p]) :
          sc.blocks[p][b] = d.root /\ <<p, b>> \notin broken => Ahead(p, b, d, n)
Waiting(p, m) == \E d \in Dirs, n \in Names : WaitsAt(p, m, d, n)

Looking ==
    /\ \A p \in Procs : pc[p] = "done" => block[p] > Len(sc.blocks[p])
    /\ \A p \in Procs, m \in Msgs : Alone(p, m) => m \in handled[p] \/ Waiting(p, m)

\* Every name p has still to read, and those it works with, are there.
Untroubled(p) ==
    /\ ~error[p] /\ pc[p] # "undo"
    /\ pc[p] \notin {"open", "done"} =>
          \A n \in stream[p].must \cup stream[p].may : entry[Here(p)][n] # NoFile
    /\ pc[p] = "parse" \/ Past(p) =>
          /\ entry[Here(p)][cur[p].name] # NoFile
          /\ cur[p].name \notin stream[p].must \cup stream[p].may
    /\ Pending(p) \/ pc[p] = "finish" => entry[Target(p)][cur[p].dname] # NoFile

Peaceful(p) == faults = 0 /\ renames = 0 /\ \A m \in Msgs : Alone(p, m)
Quiet == \A p \in Procs : Peaceful(p) => Untroubled(p)

AInv == WInv /\ OneName /\ Worked /\ Settling /\ Looking /\ Quiet

-----------------------------------------------------------------------------
\* What the steps of a process change in directories and files.
Still == UNCHANGED <<entry, file, made, acted>>

LEMMA Kinds ==
    ASSUME WInv, NEW p \in Procs, Step(p)
    PROVE  \/ Still
           \/ Create(p) /\ made' # made
           \/ RenameSource(p) /\ entry[Here(p)][cur[p].name] # NoFile
           \/ WriteCopy(p)
           \/ UnlinkSource(p) /\ entry[Here(p)][cur[p].name] # NoFile
           \/ Undo(p)
<1>1. CASE Open(p) \/ Read(p) \/ EndOfDirectory(p) \/ Parse(p) \/ Finish(p)
  BY <1>1 DEF Open, Read, EndOfDirectory, Parse, Finish, fsVars, history, Still
<1>2. CASE Create(p)
  <2>1. made' = made => Still
    BY <1>2, Parts, Constants DEF Create, fsVars, history, Still, WInv, Ids
  <2>2. QED
    BY <1>2, <2>1
<1>3. CASE RenameSource(p)
  BY <1>3 DEF RenameSource, Still
<1>4. CASE UnlinkSource(p)
  BY <1>4 DEF UnlinkSource, Still
<1>5. QED
  BY <1>1, <1>2, <1>3, <1>4 DEF Step

LEMMA WriteFacts ==
    ASSUME WInv, NEW p \in Procs, WriteCopy(p)
    PROVE  /\ entry' = entry /\ made' = made /\ acted' = acted /\ cur' = cur
           /\ pc[p] = "write" /\ pc'[p] = "unlink" /\ stream' = stream
           /\ cur[p].dfile \in Ids
           /\ file[cur[p].dfile].msg = cur[p].parsed.msg
           /\ file'[cur[p].dfile].msg = cur[p].parsed.msg
           /\ Rule(p).act = "label" => file'[cur[p].dfile].label
           /\ \A i \in Ids : i # cur[p].dfile => file'[i] = file[i]
<1>1. /\ TypeOK /\ Owned /\ pc[p] = "write" /\ pc \in [Procs -> PCs]
      /\ file \in [Ids -> Contents] /\ cur[p].parsed \in Contents
  BY Parts, ProcessTypes DEF WInv, WriteCopy
<1>2. Pending(p) /\ Past(p)
  BY <1>1 DEF Pending, Past
<1>3. /\ cur[p].dfile \in Ids /\ file[cur[p].dfile].msg = cur[p].parsed.msg
  BY <1>1, <1>2 DEF Owned
<1>4. /\ entry' = entry /\ made' = made /\ acted' = acted /\ cur' = cur
      /\ stream' = stream /\ pc' = [pc EXCEPT ![p] = "unlink"]
  BY DEF WriteCopy, history, Goto
<1> DEFINE c == [cur[p].parsed EXCEPT !.label = @ \/ Rule(p).act = "label"]
<1>5. file' = [file EXCEPT ![cur[p].dfile] = c]
  BY DEF WriteCopy
<1>6. c.msg = cur[p].parsed.msg /\ (Rule(p).act = "label" => c.label)
  BY <1>1 DEF Contents
<1> HIDE DEF c
<1>7. QED
  BY <1>1, <1>3, <1>4, <1>5, <1>6

LEMMA UnlinkFacts ==
    ASSUME WInv, NEW p \in Procs, UnlinkSource(p), entry[Here(p)][cur[p].name] # NoFile
    PROVE  /\ Here(p) \in Dirs /\ cur[p].name \in Names
           /\ file[entry[Here(p)][cur[p].name]].msg = cur[p].parsed.msg
           /\ cur[p].parsed.msg \in Msgs
           /\ \A d \in Dirs, x \in Names :
                 entry'[d][x] = IF d = Here(p) /\ x = cur[p].name THEN NoFile
                                ELSE entry[d][x]
           /\ stream' = Streams(entry') /\ Done(p, entry[Here(p)][cur[p].name])
           /\ file' = file /\ made' = made /\ cur' = cur
           /\ pc[p] = "unlink"
           /\ pc'[p] = IF Rule(p).act = "discard" THEN "read" ELSE "finish"
<1>1. /\ TypeOK /\ Numbered /\ Parsed /\ pc[p] = "unlink" /\ entry \in Layout
      /\ pc \in [Procs -> PCs]
  BY Parts DEF WInv, UnlinkSource
<1>2. Here(p) \in Dirs /\ cur[p].name \in Names
  BY <1>1, ProcessTypes
<1>3. /\ Change(Unlink(Here(p), cur[p].name)) /\ Done(p, entry[Here(p)][cur[p].name])
      /\ file' = file /\ made' = made /\ cur' = cur
      /\ Goto(p, IF Rule(p).act = "discard" THEN "read" ELSE "finish")
  BY DEF UnlinkSource
<1>4. /\ file[entry[Here(p)][cur[p].name]].msg = cur[p].parsed.msg
      /\ cur[p].parsed.msg \in Msgs
  BY <1>1, <1>2, LinkedFile DEF Parsed, Past, NameOf
<1>5. \A d \in Dirs, x \in Names :
         entry'[d][x] = IF d = Here(p) /\ x = cur[p].name THEN NoFile ELSE entry[d][x]
  BY <1>1, <1>2, <1>3, UnlinkEffect DEF Change
<1>6. pc'[p] = IF Rule(p).act = "discard" THEN "read" ELSE "finish"
  BY <1>1, <1>3 DEF Goto
<1>7. QED
  BY <1>1, <1>2, <1>3, <1>4, <1>5, <1>6 DEF Change

LEMMA UndoFacts ==
    ASSUME WInv, NEW p \in Procs, Undo(p)
    PROVE  /\ Target(p) \in Dirs /\ cur[p].dname \in Names
           /\ Pending(p) /\ entry[Target(p)][cur[p].dname] \in {NoFile, cur[p].dfile}
           /\ \A d \in Dirs, x \in Names :
                 entry'[d][x] = IF d = Target(p) /\ x = cur[p].dname THEN NoFile
                                ELSE entry[d][x]
           /\ stream' = Streams(entry') /\ acted' = acted
           /\ file' = file /\ made' = made /\ cur' = cur
           /\ pc[p] = "undo" /\ pc'[p] = "read"
<1>1. /\ TypeOK /\ Owned /\ pc[p] = "undo" /\ Pending(p) /\ entry \in Layout
      /\ pc \in [Procs -> PCs]
  BY Parts DEF WInv, Undo, Pending
<1>2. Target(p) \in Dirs /\ cur[p].dname \in Names
  BY <1>1, ProcessTypes
<1>3. /\ Change(Unlink(Target(p), cur[p].dname)) /\ Goto(p, "read")
      /\ file' = file /\ made' = made /\ cur' = cur /\ acted' = acted
  BY DEF Undo, history
<1>4. entry[Target(p)][cur[p].dname] \in {NoFile, cur[p].dfile}
  BY <1>1, <1>2 DEF Owned
<1>5. \A d \in Dirs, x \in Names :
         entry'[d][x] = IF d = Target(p) /\ x = cur[p].dname THEN NoFile ELSE entry[d][x]
  BY <1>1, <1>2, <1>3, UnlinkEffect DEF Change
<1>6. pc'[p] = "read"
  BY <1>1, <1>3 DEF Goto
<1>7. QED
  BY <1>1, <1>2, <1>3, <1>4, <1>5, <1>6 DEF Change

\* What a process does not work on stays as it is.
Same(m) ==
    /\ \A d \in Dirs, n \in Names : Of(m, d, n) \/ Of(m, d, n)' =>
          /\ Of(m, d, n) /\ Of(m, d, n)' /\ entry'[d][n] = entry[d][n]
          /\ file'[entry[d][n]] = file[entry[d][n]]
    /\ \A p \in Procs : acted'[p][m] = acted[p][m]

LEMMA OthersStay ==
    ASSUME WInv, Worked, NEW p \in Procs, Step(p), NEW m \in Msgs, ~Busy(p, m)
    PROVE  Same(m)
<1>1. /\ TypeOK /\ Numbered /\ Parsed /\ Owned
      /\ acted \in [Procs -> [Msgs -> Nat]]
  BY DEF WInv, Worked
<1>2. \A d \in Dirs, n \in Names : entry[d][n] # NoFile =>
         /\ entry[d][n] \in Ids /\ entry[d][n] <= made /\ entry[d][n] \in Nat
         /\ n.id <= made /\ n.id \in Nat /\ made \in Nat
         /\ file[entry[d][n]].msg = file[n.id].msg
  BY <1>1, LinkedFile
<1>3. CASE Still
  BY <1>3 DEF Same, Still, Of
<1>4. CASE Create(p) /\ made' # made
  <2>1. PICK n \in Names : LET k == made + 1 IN
              /\ k \in Ids /\ k \in Nat /\ made \in Nat /\ n.id = k
              /\ Target(p) \in Dirs
              /\ \A d \in Dirs, x \in Names :
                    entry'[d][x] = IF d = Target(p) /\ x = n THEN k ELSE entry[d][x]
              /\ \A i \in Ids : i # k => file'[i] = file[i]
              /\ file'[k].msg = cur[p].parsed.msg
    BY <1>4, CreateFacts
  <2>2. file'[made + 1].msg # m /\ acted' = acted
    BY <1>4, <2>1 DEF Busy, Past, Create, history
  <2>3. entry[Target(p)][n] = NoFile
    BY <1>2, <2>1
  <2>4. ASSUME NEW d \in Dirs, NEW x \in Names, Of(m, d, x) \/ Of(m, d, x)'
        PROVE  /\ Of(m, d, x) /\ Of(m, d, x)' /\ entry'[d][x] = entry[d][x]
               /\ file'[entry[d][x]] = file[entry[d][x]]
    <3>1. ~(d = Target(p) /\ x = n)
      BY <2>1, <2>2, <2>3, <2>4 DEF Of
    <3>2. entry'[d][x] = entry[d][x] /\ entry[d][x] # NoFile
      BY <2>1, <2>4, <3>1 DEF Of
    <3>3. file'[entry[d][x]] = file[entry[d][x]]
      BY <1>2, <2>1, <3>2
    <3>4. QED
      BY <2>4, <3>2, <3>3 DEF Of
  <2>5. QED
    BY <2>2, <2>4 DEF Same
<1>5. CASE RenameSource(p) /\ entry[Here(p)][cur[p].name] # NoFile
  <2>1. PICK h, a, t, b, i : /\ h = Here(p) /\ a = cur[p].name
                             /\ t = Target(p) /\ b = cur[p].dname /\ i = entry[h][a]
    OBVIOUS
  <2>2. /\ h \in Dirs /\ a \in Names /\ t \in Dirs /\ b \in Names
        /\ file[i].msg = file[b.id].msg /\ i # NoFile
        /\ \A d \in Dirs, x \in Names :
              /\ entry'[d][x] = IF d = t /\ x = b THEN i
                                ELSE IF d = h /\ x = a THEN NoFile ELSE entry[d][x]
              /\ x.id = b.id => entry[d][x] \in {NoFile, b.id}
        /\ pc[p] = "rename" /\ file' = file
    BY <1>5, <2>1, RenameFacts
  <2>3. file[i].msg = cur[p].parsed.msg /\ file[i].msg # m /\ file[i].msg \in Msgs
    BY <1>1, <2>1, <2>2, LinkedFile DEF Parsed, Past, NameOf, Busy
  <2>4. Done(p, i)
    BY <1>5, <2>1 DEF RenameSource
  <2>5. \A q \in Procs : acted'[q][m] = acted[q][m]
    BY <1>1, <2>3, <2>4 DEF Done
  <2>6. ASSUME NEW d \in Dirs, NEW x \in Names, Of(m, d, x) \/ Of(m, d, x)'
        PROVE  Of(m, d, x) /\ Of(m, d, x)' /\ entry'[d][x] = entry[d][x]
    <3>1. ~(d = t /\ x = b)
      <4>1. d = t /\ x = b => entry'[d][x] = i /\ entry[d][x] \in {NoFile, b.id}
        BY <2>2
      <4>2. QED
        BY <2>2, <2>3, <2>6, <4>1 DEF Of
    <3>2. ~(d = h /\ x = a)
      BY <2>1, <2>2, <2>3, <2>6, <3>1 DEF Of
    <3>3. entry'[d][x] = entry[d][x]
      BY <2>2, <3>1, <3>2
    <3>4. QED
      BY <2>2, <2>6, <3>3 DEF Of
  <2>7. QED
    BY <2>2, <2>5, <2>6 DEF Same
<1>6. CASE WriteCopy(p)
  <2>1. cur[p].parsed.msg # m
    BY <1>6 DEF WriteCopy, Busy, Past
  <2>2. QED
    BY <1>2, <1>6, <2>1, WriteFacts DEF Same, Of
<1>7. CASE UnlinkSource(p) /\ entry[Here(p)][cur[p].name] # NoFile
  <2>1. cur[p].parsed.msg # m
    BY <1>7, UnlinkFacts DEF Busy, Past
  <2>2. \A q \in Procs : acted'[q][m] = acted[q][m]
    BY <1>1, <1>7, <2>1, UnlinkFacts DEF Done
  <2>3. QED
    BY <1>7, <2>1, <2>2, UnlinkFacts DEF Same, Of
<1>8. CASE Undo(p)
  <2>1. file[cur[p].dfile].msg # m
    BY <1>8, UndoFacts DEF Busy
  <2>2. QED
    BY <1>8, <2>1, UndoFacts DEF Same, Of
<1>9. QED
  BY <1>3, <1>4, <1>5, <1>6, <1>7, <1>8, Kinds

-----------------------------------------------------------------------------
\* The mail reader moves a file to a seen name in cur that is free.
LEMMA MarkFacts ==
    ASSUME WInv, MarkSeen
    PROVE  \E d, dd \in Dirs, n, nn \in Names :
              /\ dd.root = d.root /\ dd.sub = "cur" /\ (d = dd \/ d.sub = "new")
              /\ nn.id = n.id /\ d.root \notin Temporary
              /\ entry[d][n] # NoFile /\ entry[dd][nn] = NoFile
              /\ \A x \in Dirs, y \in Names :
                    entry'[x][y] = IF x = dd /\ y = nn THEN entry[d][n]
                                   ELSE IF x = d /\ y = n THEN NoFile
                                   ELSE entry[x][y]
              /\ stream' = Streams(entry')
              /\ \A m \in Msgs : /\ touched[m] \subseteq touched'[m]
                                 /\ d = dd /\ file[entry[d][n]].msg = m =>
                                       "reader" \in touched'[m]
              /\ renames' = renames + 1
              /\ UNCHANGED <<sc, file, made, pc, block, sub, cur, error, handled, acted,
                             broken, faults>>
<1>1. PICK d \in Dirs, n \in Names :
          LET dd == [d EXCEPT !.sub = "cur"]
              nn == [n EXCEPT !.seen = TRUE]
          IN  /\ d.root \notin Temporary
              /\ entry[d][n] # NoFile /\ entry[dd][nn] = NoFile
              /\ Change(Rename(d, n, dd, nn))
              /\ touched' = IF d = dd
                            THEN [touched EXCEPT ![file[entry[d][n]].msg] =
                                     @ \cup {"reader"}]
                            ELSE touched
  BY DEF MarkSeen
<1>2. PICK dd, nn : dd = [d EXCEPT !.sub = "cur"] /\ nn = [n EXCEPT !.seen = TRUE]
  OBVIOUS
<1>3. /\ dd \in Dirs /\ nn \in Names /\ nn.id = n.id
      /\ dd.root = d.root /\ dd.sub = "cur"
  BY <1>2 DEF Dirs, Subdirs, Names
<1>4. d = dd \/ d.sub = "new"
  BY <1>2 DEF Dirs, Subdirs
<1>5. /\ entry[d][n] # NoFile /\ entry[dd][nn] = NoFile
      /\ entry' = Rename(d, n, dd, nn) /\ stream' = Streams(entry')
      /\ touched' = IF d = dd
                    THEN [touched EXCEPT ![file[entry[d][n]].msg] = @ \cup {"reader"}]
                    ELSE touched
  BY <1>1, <1>2 DEF Change
<1>6. \A x \in Dirs, y \in Names :
         entry'[x][y] = IF x = dd /\ y = nn THEN entry[d][n]
                        ELSE IF x = d /\ y = n THEN NoFile ELSE entry[x][y]
  BY <1>3, <1>5, RenameEffect, Parts DEF WInv
<1>7. \A m \in Msgs : /\ touched[m] \subseteq touched'[m]
                      /\ d = dd /\ file[entry[d][n]].msg = m =>
                            "reader" \in touched'[m]
  BY <1>5, Parts DEF WInv
<1>8. /\ renames' = renames + 1
      /\ UNCHANGED <<sc, file, made, pc, block, sub, cur, error, handled, acted,
                     broken, faults>>
  BY DEF MarkSeen, walkVars
<1>9. QED
  BY <1>1, <1>3, <1>4, <1>5, <1>6, <1>7, <1>8

\* No step gives a file a second name.
LEMMA OneNameKeeps ==
    ASSUME WInv, OneName, (\E p \in Procs : Step(p)) \/ MarkSeen
    PROVE  OneName'
<1>1. TypeOK /\ Numbered
  BY DEF WInv
<1>2. \A d \in Dirs, n \in Names : entry[d][n] # NoFile =>
         /\ entry[d][n] \in Nat /\ entry[d][n] <= made /\ n.id <= made
         /\ made \in Nat /\ n.id \in Nat
  BY <1>1, LinkedFile
<1>3. ASSUME \A d \in Dirs, n \in Names : entry'[d][n] \in {NoFile, entry[d][n]}
      PROVE  OneName'
  BY <1>3 DEF OneName
<1>4. ASSUME NEW h \in Dirs, NEW a \in Names, NEW t \in Dirs, NEW b \in Names,
             entry[h][a] # NoFile,
             \A x \in Dirs, y \in Names :
                entry'[x][y] = IF x = t /\ y = b THEN entry[h][a]
                               ELSE IF x = h /\ y = a THEN NoFile ELSE entry[x][y]
      PROVE  OneName'
  BY <1>4 DEF OneName
<1>5. ASSUME NEW p \in Procs, Step(p)
      PROVE  OneName'
  <2>1. CASE Still \/ WriteCopy(p)
    BY <1>3, <2>1 DEF Still, WriteCopy
  <2>2. CASE Create(p) /\ made' # made
    <3>1. PICK n \in Names : LET k == made + 1 IN
                /\ k \in Nat /\ made \in Nat /\ n.id = k /\ Target(p) \in Dirs
                /\ \A d \in Dirs, x \in Names :
                      entry'[d][x] = IF d = Target(p) /\ x = n THEN k ELSE entry[d][x]
      BY <2>2, CreateFacts
    <3>2. \A d \in Dirs, x \in Names : entry[d][x] # made + 1
      BY <1>2, <3>1, Constants DEF NoFile
    <3>3. QED
      BY <3>1, <3>2 DEF OneName
  <2>3. CASE RenameSource(p) /\ entry[Here(p)][cur[p].name] # NoFile
    <3>1. PICK h, a, t, b : /\ h = Here(p) /\ a = cur[p].name
                            /\ t = Target(p) /\ b = cur[p].dname
      OBVIOUS
    <3>2. /\ h \in Dirs /\ a \in Names /\ t \in Dirs /\ b \in Names
          /\ \A x \in Dirs, y \in Names :
                entry'[x][y] = IF x = t /\ y = b THEN entry[h][a]
                               ELSE IF x = h /\ y = a THEN NoFile ELSE entry[x][y]
      BY <2>3, <3>1, RenameFacts
    <3>3. entry[h][a] # NoFile
      BY <2>3, <3>1
    <3>4. QED
      BY <1>4, <3>2, <3>3
  <2>4. CASE UnlinkSource(p) /\ entry[Here(p)][cur[p].name] # NoFile
    BY <1>3, <2>4, UnlinkFacts
  <2>5. CASE Undo(p)
    BY <1>3, <2>5, UndoFacts
  <2>6. QED
    BY <1>5, <2>1, <2>2, <2>3, <2>4, <2>5, Kinds
<1>6. CASE MarkSeen
  <2>1. PICK d \in Dirs, dd \in Dirs, n \in Names, nn \in Names :
              /\ entry[d][n] # NoFile
              /\ \A x \in Dirs, y \in Names :
                    entry'[x][y] = IF x = dd /\ y = nn THEN entry[d][n]
                                   ELSE IF x = d /\ y = n THEN NoFile
                                   ELSE entry[x][y]
    BY <1>6, MarkFacts
  <2>2. QED
    BY <1>4, <2>1
<1>7. QED
  BY <1>5, <1>6

\* Where a process works on a message, it has been known to before the step or has
\* just parsed it.
LEMMA BusyStep ==
    ASSUME WInv, Worked, NEW p \in Procs, Step(p), NEW m \in Msgs
    PROVE  /\ Pending(p)' => cur'[p].dfile > NMsgs
           /\ Busy(p, m)' =>
                 \/ Busy(p, m) /\ ~Parse(p)
                 \/ /\ Parse(p) /\ Past(p)'
                    /\ Of(m, Here(p), cur[p].name)
                    /\ p \in touched'[m] /\ m \in handled'[p]
<1>1. /\ TypeOK /\ Numbered /\ Owned /\ pc \in [Procs -> PCs] /\ NMsgs <= made
      /\ Pending(p) => cur[p].dfile > NMsgs
      /\ NMsgs \in Nat /\ made \in Nat
  BY Parts, Constants DEF WInv, Worked, Ids
<1>2. CASE Open(p) \/ Read(p) \/ EndOfDirectory(p) \/ Finish(p) \/ Undo(p)
  <2>1. ~Past(p)' /\ ~Pending(p)'
    BY <1>1, <1>2 DEF Open, Read, EndOfDirectory, Finish, Undo, GiveUp, NextBlock, Goto,
       Past, Pending
  <2>2. QED
    BY <2>1 DEF Busy
<1>3. CASE Parse(p)
  <2>1. CASE ~Past(p)'
    <3>1. ~Pending(p)'
      <4>1. pc'[p] \in {"read", "unlink", "create"}
        BY <1>1, <1>3 DEF Parse, Goto
      <4>2. QED
        BY <2>1, <4>1 DEF Past, Pending
    <3>2. QED
      BY <2>1, <3>1 DEF Busy
  <2>2. CASE Past(p)'
    <3>1. /\ entry[Here(p)][cur[p].name] # NoFile /\ ~Pending(p)'
          /\ cur'[p].parsed = file[entry[Here(p)][cur[p].name]]
      BY <1>3, <2>2, ParseEffect
    <3>2. PICK c : c = file[entry[Here(p)][cur[p].name]]
      OBVIOUS
    <3>3. /\ handled' = [handled EXCEPT ![p] = @ \cup {c.msg}]
          /\ touched' = [touched EXCEPT ![c.msg] = @ \cup {p}]
      BY <1>1, <1>3, <2>2, <3>1, <3>2 DEF Parse, Goto, Past
    <3>4. m = c.msg => p \in touched'[m] /\ m \in handled'[p]
      BY <1>1, <3>3, Parts
    <3>5. QED
      BY <1>3, <2>2, <3>1, <3>2, <3>4 DEF Busy, Of
  <2>3. QED
    BY <2>1, <2>2
<1>4. CASE Create(p) /\ made' # made
  <2>1. PICK n \in Names : LET k == made + 1 IN
              /\ file'[k].msg = cur[p].parsed.msg /\ cur'[p].dfile = k
              /\ cur'[p].parsed = cur[p].parsed
    BY <1>4, CreateFacts
  <2>2. QED
    BY <1>1, <1>4, <2>1 DEF Create, Busy, Past, Parse
<1>5. CASE Create(p) /\ made' = made
  <2>1. Goto(p, "read")
    BY <1>1, <1>5 DEF Create
  <2>2. QED
    BY <1>1, <2>1 DEF Goto, Busy, Past, Pending
<1>6. CASE RenameSource(p)
  <2>1. /\ cur' = cur /\ file' = file /\ pc[p] = "rename"
        /\ pc'[p] \in {"undo", "finish"}
    BY <1>1, <1>6 DEF RenameSource, Goto
  <2>2. Pending(p) /\ ~Past(p)'
    BY <2>1 DEF Pending, Past
  <2>3. QED
    BY <1>1, <2>1, <2>2 DEF Busy, Parse
<1>7. CASE WriteCopy(p)
  <2>1. Pending(p) /\ Past(p) /\ cur' = cur
    BY <1>7, WriteFacts DEF Pending, Past
  <2>2. QED
    BY <1>1, <1>7, <2>1, WriteFacts DEF Busy, Parse
<1>8. CASE UnlinkSource(p)
  <2>1. /\ cur' = cur /\ file' = file /\ pc[p] = "unlink"
        /\ \/ pc'[p] \in {"read", "finish"}
           \/ pc'[p] = "undo" /\ Rule(p).act # "discard"
    BY <1>1, <1>8 DEF UnlinkSource, Goto
  <2>2. Past(p) /\ ~Past(p)' /\ (Pending(p)' => Pending(p))
    BY <2>1 DEF Pending, Past
  <2>3. QED
    BY <1>1, <2>1, <2>2 DEF Busy, Parse
<1>9. QED
  BY <1>2, <1>3, <1>4, <1>5, <1>6, <1>7, <1>8 DEF Step

\* History only grows.
LEMMA HistoryGrows ==
    ASSUME WInv, (\E p \in Procs : Step(p)) \/ MarkSeen
    PROVE  /\ \A m \in Msgs : touched[m] \subseteq touched'[m]
           /\ \A p \in Procs : handled[p] \subseteq handled'[p]
           /\ broken \subseteq broken'
           /\ faults' \in {faults, faults + 1} /\ renames' \in {renames, renames + 1}
<1>1. /\ handled \in [Procs -> SUBSET Msgs]
      /\ touched \in [Msgs -> SUBSET (Procs \cup {"reader"})]
  BY Parts DEF WInv
<1>2. ASSUME NEW p \in Procs, Step(p)
      PROVE  /\ \A m \in Msgs : touched[m] \subseteq touched'[m]
             /\ \A q \in Procs : handled[q] \subseteq handled'[q]
             /\ broken \subseteq broken'
             /\ faults' \in {faults, faults + 1} /\ renames' = renames
  <2>1. CASE Open(p) \/ Read(p) \/ EndOfDirectory(p) \/ Finish(p)
    BY <2>1 DEF Open, Read, EndOfDirectory, Finish, GiveUp, Fault, history
  <2>2. CASE Parse(p)
    BY <1>1, <2>2 DEF Parse
  <2>3. CASE Create(p) \/ RenameSource(p) \/ WriteCopy(p)
    BY <2>3 DEF Create, RenameSource, WriteCopy, Fault, history
  <2>4. CASE UnlinkSource(p) \/ Undo(p)
    BY <2>4 DEF UnlinkSource, Undo, history
  <2>5. QED
    BY <1>2, <2>1, <2>2, <2>3, <2>4 DEF Step
<1>3. CASE MarkSeen
  <2>1. \A m \in Msgs : touched[m] \subseteq touched'[m]
    BY <1>3, MarkFacts
  <2>2. /\ UNCHANGED <<handled, broken, faults>> /\ renames' = renames + 1
    BY <1>3 DEF MarkSeen
  <2>3. QED
    BY <2>1, <2>2
<1>4. QED
  BY <1>2, <1>3

\* A process that works on a message after a step has done so before it, or has
\* just parsed the message, and its rule holds.
LEMMA ActingStep ==
    ASSUME WInv, NEW p \in Procs, Step(p)
    PROVE  /\ sc' = sc /\ Rule(p)' = Rule(p)
           /\ Past(p)' =>
                 /\ sub' = sub /\ block' = block /\ cur'[p].name = cur[p].name
                 /\ \/ Past(p) /\ cur'[p].parsed = cur[p].parsed
                    \/ /\ Parse(p)
                       /\ Condition(Rule(p), Here(p),
                                    file[entry[Here(p)][cur[p].name]])
           /\ pc'[p] \in {"create", "rename", "write"} =>
                 pc[p] \in {"create", "rename"} \/ Rule(p).act # "discard"
<1>1. TypeOK /\ pc \in [Procs -> PCs] /\ cur \in [Procs -> Place]
  BY Parts DEF WInv
<1>2. CASE Open(p) \/ Read(p) \/ EndOfDirectory(p) \/ Finish(p) \/ Undo(p)
  <2>1. sc' = sc /\ pc'[p] \in {"open", "done", "read", "parse"}
    BY <1>1, <1>2 DEF Open, Read, EndOfDirectory, Finish, Undo, GiveUp, NextBlock, Goto
  <2>2. QED
    BY <2>1 DEF Past, Rule
<1>3. CASE Parse(p)
  <2>1. sc' = sc /\ UNCHANGED walkVars /\ pc'[p] \in {"read", "unlink", "create"}
    BY <1>1, <1>3 DEF Parse, Goto
  <2>2. CASE ~Past(p)'
    BY <2>1, <2>2 DEF Past, Rule
  <2>3. CASE Past(p)'
    <3>1. /\ entry[Here(p)][cur[p].name] # NoFile /\ cur'[p].name = cur[p].name
          /\ pc'[p] = IF Rule(p).act = "discard" THEN "unlink" ELSE "create"
      BY <1>3, <2>3, ParseEffect
    <3>2. Condition(Rule(p), Here(p), file[entry[Here(p)][cur[p].name]])
      BY <1>1, <1>3, <2>3, <3>1 DEF Parse, Goto, Past
    <3>3. QED
      BY <1>3, <2>1, <3>1, <3>2 DEF Rule, walkVars
  <2>4. QED
    BY <2>2, <2>3
<1>4. CASE Create(p)
  <2>1. /\ sc' = sc /\ UNCHANGED walkVars /\ pc[p] = "create"
        /\ cur'[p].name = cur[p].name /\ cur'[p].parsed = cur[p].parsed
    BY <1>1, <1>4 DEF Create, Place
  <2>2. QED
    BY <2>1 DEF Past, Rule, walkVars
<1>5. CASE RenameSource(p) \/ WriteCopy(p) \/ UnlinkSource(p)
  <2>1. /\ sc' = sc /\ UNCHANGED walkVars /\ cur' = cur
        /\ pc[p] \in {"rename", "write", "unlink"}
        /\ pc'[p] \in {"undo", "finish", "unlink", "read"}
    BY <1>1, <1>5 DEF RenameSource, WriteCopy, UnlinkSource, Goto
  <2>2. QED
    BY <2>1 DEF Past, Rule, walkVars
<1>6. QED
  BY <1>2, <1>3, <1>4, <1>5 DEF Step

\* Who works on what, after a step.
LEMMA WorkedKeeps ==
    ASSUME WInv, Worked, (\E p \in Procs : Step(p)) \/ MarkSeen
    PROVE  Worked'
<1>1. /\ TypeOK /\ Numbered /\ Owned /\ Worked
      /\ file \in [Ids -> Contents] /\ NMsgs \in Nat /\ made \in Nat
      /\ NMsgs <= made /\ Msgs \subseteq Ids
  BY Parts, Constants DEF WInv, Worked, Ids
<1>2. faults' \in Nat /\ renames' \in Nat
  BY <1>1, HistoryGrows DEF Worked
<1>3. ASSUME NEW p \in Procs, Step(p)
      PROVE  Worked'
  <2>1. ASSUME NEW i \in Ids, i <= made, i <= NMsgs \/ ~Pending(p) \/ i # cur[p].dfile
        PROVE  file'[i] = file[i]
    <3>1. i \in Nat
      BY Constants
    <3>2. CASE Create(p) /\ made' # made
      BY <1>1, <2>1, <3>1, <3>2, CreateFacts
    <3>3. CASE WriteCopy(p)
      <4>1. Pending(p) /\ cur[p].dfile > NMsgs /\ cur[p].dfile \in Nat
        BY <1>1, <3>3, ProcessTypes DEF WriteCopy, Pending, Worked
      <4>2. i # cur[p].dfile
        BY <1>1, <2>1, <3>1, <4>1
      <4>3. QED
        BY <2>1, <3>3, <4>2, WriteFacts
    <3>4. QED
      BY <1>3, <3>2, <3>3, Kinds DEF Still, RenameSource, UnlinkSource, Undo
  <2>2. made <= made'
    <3>1. made' # made => Create(p)
      BY <1>3, Kinds DEF Still, RenameSource, WriteCopy, UnlinkSource, Undo
    <3>2. QED
      BY <1>1, <3>1, CreateFacts
  <2>3. \A m \in Msgs : file'[m].msg = m
    <3>1. \A m \in Msgs : m \in Ids /\ m <= made /\ m <= NMsgs /\ m \in Nat
      BY <1>1 DEF Msgs
    <3>2. QED
      BY <1>1, <2>1, <3>1 DEF Worked
  <2>4. acted' \in [Procs -> [Msgs -> Nat]]
    <3>1. acted \in [Procs -> [Msgs -> Nat]]
      BY DEF Worked
    <3>2. ASSUME NEW i, Done(p, i), file[i].msg \in Msgs
          PROVE  acted' \in [Procs -> [Msgs -> Nat]]
      BY <3>1, <3>2 DEF Done
    <3>3. CASE RenameSource(p) /\ entry[Here(p)][cur[p].name] # NoFile
      <4>1. Here(p) \in Dirs /\ cur[p].name \in Names
        BY <3>3, RenameFacts
      <4>2. QED
        BY <1>1, <3>2, <3>3, <4>1, LinkedFile DEF RenameSource
    <3>4. CASE UnlinkSource(p) /\ entry[Here(p)][cur[p].name] # NoFile
      BY <3>2, <3>4, UnlinkFacts
    <3>5. QED
      BY <1>3, <3>1, <3>3, <3>4, Kinds, WriteFacts, UndoFacts DEF Still, Create, history
  <2>5. ASSUME NEW q \in Procs
        PROVE  /\ Pending(q)' => cur'[q].dfile > NMsgs
               /\ pc'[q] \in {"create", "rename", "write"} => Rule(q)'.act # "discard"
               /\ \A m \in Msgs : Busy(q, m)' => q \in touched'[m] /\ m \in handled'[q]
    <3>1. CASE q = p
      <4>1. Pending(p)' => cur'[p].dfile > NMsgs
        <5>1. 1 \in Msgs
          BY Constants DEF Msgs
        <5>2. QED
          BY <1>3, <5>1, BusyStep
      <4>2. ASSUME NEW m \in Msgs, Busy(p, m)'
            PROVE  p \in touched'[m] /\ m \in handled'[p]
        <5>1. \/ Busy(p, m)
              \/ p \in touched'[m] /\ m \in handled'[p]
          BY <1>3, <4>2, BusyStep
        <5>2. Busy(p, m) => p \in touched[m] /\ m \in handled[p]
          BY DEF Worked
        <5>3. QED
          BY <1>3, <5>1, <5>2, HistoryGrows
      <4>3. pc'[p] \in {"create", "rename", "write"} => Rule(p)'.act # "discard"
        BY <1>1, <1>3, ActingStep DEF Worked
      <4>4. QED
        BY <3>1, <4>1, <4>2, <4>3
    <3>2. CASE q # p
      <4>1. /\ cur'[q] = cur[q] /\ pc'[q] = pc[q] /\ Rule(q)' = Rule(q)
            /\ Past(q)' <=> Past(q)
            /\ Pending(q)' <=> Pending(q)
        BY <1>1, <1>3, <3>2, FrameHolds, FrameFacts
      <4>2. Pending(q) => file'[cur[q].dfile] = file[cur[q].dfile]
        BY <1>1, <2>1, <3>2 DEF Owned
      <4>3. \A m \in Msgs : Busy(q, m)' => Busy(q, m)
        BY <4>1, <4>2 DEF Busy
      <4>4. \A m \in Msgs : Busy(q, m) => q \in touched[m] /\ m \in handled[q]
        BY DEF Worked
      <4>5. /\ Pending(q) => cur[q].dfile > NMsgs
            /\ pc[q] \in {"create", "rename", "write"} => Rule(q).act # "discard"
        BY DEF Worked
      <4>6. QED
        BY <1>3, <4>1, <4>3, <4>4, <4>5, HistoryGrows
    <3>3. QED
      BY <3>1, <3>2
  <2>6. NMsgs <= made'
    <3>1. made' \in Nat
      BY <1>1, <1>3, TypeStep, Parts DEF Next, TypeOK, Ids
    <3>2. QED
      BY <1>1, <2>2, <3>1
  <2>7. QED
    BY <1>2, <2>3, <2>4, <2>5, <2>6 DEF Worked
<1>4. CASE MarkSeen
  <2>1. UNCHANGED <<file, made, pc, cur, handled, acted, sc>>
    BY <1>4, MarkFacts
  <2>2. \A q \in Procs : /\ (Pending(q)' <=> Pending(q)) /\ Rule(q)' = Rule(q)
                         /\ \A m \in Msgs : Busy(q, m)' <=> Busy(q, m)
    BY <2>1 DEF Busy, Pending, Past, Rule
  <2>3. \A m \in Msgs : touched[m] \subseteq touched'[m]
    BY <1>4, HistoryGrows
  <2>4. QED
    BY <1>2, <2>1, <2>2, <2>3 DEF Worked
<1>5. QED
  BY <1>3, <1>4

-----------------------------------------------------------------------------
\* Where the rule of p acts does not depend on the state.
LEMMA FreshStays ==
    ASSUME sc' = sc, NEW p \in Procs
    PROVE  /\ Rule(p)' = Rule(p) /\ (Settles(p)' <=> Settles(p))
           /\ \A d \in Dirs, n \in Names : Fresh(p, d, n)' <=> Fresh(p, d, n)
  BY DEF Rule, Settles, Fresh

\* What p acts upon is in a place where its rule acts.
LEMMA ActsOnFresh ==
    ASSUME WInv, NEW p \in Procs, Step(p), NEW m \in Msgs, Settles(p), Settled(p, m),
           Past(p)', cur'[p].parsed.msg = m
    PROVE  Fresh(p, Here(p), cur[p].name)' /\ Fresh(p, Here(p), cur[p].name)
<1>1. /\ sc' = sc /\ sub' = sub /\ block' = block /\ cur'[p].name = cur[p].name
      /\ \/ Past(p) /\ cur'[p].parsed = cur[p].parsed
         \/ /\ Parse(p)
            /\ Condition(Rule(p), Here(p), file[entry[Here(p)][cur[p].name]])
  BY ActingStep
<1>2. Here(p)' = Here(p) /\ Rule(p)' = Rule(p)
  BY <1>1 DEF Here, Root, Rule
<1>3. Fresh(p, Here(p), cur[p].name)
  <2>1. CASE Past(p) /\ cur'[p].parsed = cur[p].parsed
    BY <2>1 DEF Settled
  <2>2. CASE /\ Parse(p)
             /\ Condition(Rule(p), Here(p), file[entry[Here(p)][cur[p].name]])
    <3>1. /\ Here(p) \in Dirs /\ cur[p].name \in Names /\ pc[p] = "parse"
          /\ Of(m, Here(p), cur[p].name)
      BY <2>2, ParseEffect DEF Of, Parse
    <3>2. CASE Rule(p).act = "move"
      <4>1. block[p] \in DOMAIN sc.blocks[p] /\ sc.blocks[p] \in Seq(Roots)
        BY <3>1, ScenarioType DEF WInv, TypeOK
      <4>2. block[p] \in 1 .. Len(sc.blocks[p])
        BY <4>1
      <4>3. QED
        BY <3>2, <4>2 DEF Fresh, Here, Root
    <3>3. CASE Rule(p).act = "flag"
      BY <2>2, <3>3 DEF Settles, Condition, Fresh
    <3>4. CASE Rule(p).act = "label"
      <4>1. Rule(p).cond = "unlabelled"
        BY <3>4 DEF Settles
      <4>2. ~file[entry[Here(p)][cur[p].name]].label
        BY <2>2, <4>1 DEF Condition
      <4>3. QED
        BY <3>1, <3>4, <4>2 DEF Settled
    <3>5. CASE Rule(p).act = "discard"
      BY <3>5 DEF Fresh
    <3>6. QED
      BY <3>2, <3>3, <3>4, <3>5 DEF Settles
  <2>3. QED
    BY <1>1, <2>1, <2>2
<1>4. QED
  BY <1>1, <1>2, <1>3 DEF Fresh

\* What Settled says of the places of a message.
Spent(p, m, d, n) ==
    Of(m, d, n) =>
        IF Fresh(p, d, n) THEN entry[d][n] = m /\ acted[p][m] = 0
        ELSE Rule(p).act = "label" =>
                \/ file[entry[d][n]].label
                \/ pc[p] = "write" /\ entry[d][n] = cur[p].dfile

LEMMA SpentKeeps ==
    ASSUME WInv, OneName, Worked, NEW p \in Procs, Step(p), NEW m \in Msgs,
           Settles(p), Settled(p, m)
    PROVE  /\ acted'[p][m] \in {0, 1}
           /\ \A d \in Dirs, n \in Names : Spent(p, m, d, n)'
<1>1. /\ acted[p][m] \in {0, 1} /\ acted \in [Procs -> [Msgs -> Nat]]
      /\ \A d \in Dirs, n \in Names : Spent(p, m, d, n)
  BY DEF Settled, Spent, Worked
<1>2. /\ sc' = sc /\ Rule(p)' = Rule(p)
      /\ \A d \in Dirs, n \in Names : Fresh(p, d, n)' <=> Fresh(p, d, n)
  BY ActingStep, FreshStays
<1>3. Rule(p).act \in {"move", "flag", "label", "discard"}
  BY DEF Settles
<1>4. CASE WriteCopy(p)
  <2>1. ASSUME NEW d \in Dirs, NEW n \in Names, Of(m, d, n)'
        PROVE  Spent(p, m, d, n)'
    <3>1. entry'[d][n] = entry[d][n] /\ entry[d][n] # NoFile /\ entry[d][n] \in Ids
      BY <1>4, <2>1, WriteFacts, LinkedFile DEF Of, WInv
    <3>2. Of(m, d, n)
      BY <1>4, <2>1, <3>1, WriteFacts DEF Of
    <3>3. Fresh(p, d, n) => Spent(p, m, d, n)'
      BY <1>1, <1>2, <1>4, <3>1, <3>2, WriteFacts DEF Spent
    <3>4. ASSUME ~Fresh(p, d, n), Rule(p).act = "label"
          PROVE  file'[entry[d][n]].label
      <4>1. CASE entry[d][n] = cur[p].dfile
        BY <1>4, <3>4, <4>1, WriteFacts
      <4>2. CASE entry[d][n] # cur[p].dfile
        BY <1>1, <1>4, <3>1, <3>2, <3>4, <4>2, WriteFacts DEF Spent
      <4>3. QED
        BY <4>1, <4>2
    <3>5. QED
      BY <1>2, <3>1, <3>3, <3>4 DEF Spent
  <2>2. QED
    BY <1>1, <1>4, <2>1, WriteFacts DEF Spent
<1>5. CASE ~WriteCopy(p)
  <2>1. pc[p] # "write"
    BY <1>5 DEF Step, Open, Read, EndOfDirectory, Parse, Create, RenameSource,
       UnlinkSource, Undo, Finish
  <2>2. \A d \in Dirs, n \in Names :
           Of(m, d, n) => IF Fresh(p, d, n) THEN entry[d][n] = m /\ acted[p][m] = 0
                          ELSE Rule(p).act = "label" => file[entry[d][n]].label
    BY <1>1, <2>1 DEF Spent
  <2>3. CASE Still
    BY <1>1, <1>2, <2>2, <2>3 DEF Still, Of, Spent
  <2>4. CASE Create(p) /\ made' # made
    <3>1. PICK t : t = Target(p)
      OBVIOUS
    <3>2. PICK n \in Names : LET k == made + 1 IN
                /\ k \in Ids /\ k \in Nat /\ made \in Nat /\ n.id = k
                /\ t \in Dirs
                /\ \A d \in Dirs, x \in Names :
                      /\ entry'[d][x] = IF d = t /\ x = n THEN k ELSE entry[d][x]
                      /\ entry[d][x] # NoFile =>
                            entry[d][x] \in Ids /\ entry[d][x] <= made
                /\ \A i \in Ids : i # k => file'[i] = file[i]
                /\ file'[k].msg = cur[p].parsed.msg
                /\ cur'[p].dfile = k
                /\ pc[p] = "create" /\ pc'[p] = IF Renames(p) THEN "rename" ELSE "write"
      BY <2>4, <3>1, CreateFacts
    <3>3. acted' = acted
      BY <2>4 DEF Create, history
    <3>4. ASSUME NEW d \in Dirs, NEW x \in Names, ~(d = t /\ x = n), Of(m, d, x)'
          PROVE  Spent(p, m, d, x)'
      <4>1. /\ entry'[d][x] = entry[d][x] /\ entry[d][x] # NoFile
            /\ entry[d][x] \in Ids /\ entry[d][x] <= made
        BY <3>2, <3>4 DEF Of
      <4>2. entry[d][x] # made + 1
        BY <3>2, <4>1, Constants
      <4>3. file'[entry[d][x]] = file[entry[d][x]]
        BY <3>2, <4>1, <4>2
      <4>4. Of(m, d, x)
        BY <3>4, <4>1, <4>3 DEF Of
      <4>5. QED
        BY <1>2, <2>2, <3>3, <4>1, <4>3, <4>4 DEF Spent
    <3>5. ASSUME Of(m, t, n)'
          PROVE  Spent(p, m, t, n)'
      <4>1. entry'[t][n] = made + 1
        BY <3>2
      <4>2. cur[p].parsed.msg = m
        BY <3>2, <3>5, <4>1 DEF Of
      <4>3. Fresh(p, Here(p), cur[p].name)
        BY <3>2, <4>2 DEF Settled, Past
      <4>4. ~Fresh(p, t, n)
        <5>1. CASE Rule(p).act = "move"
          BY <3>1, <5>1 DEF Settles, Fresh, Target
        <5>2. CASE Rule(p).act = "flag"
          BY <3>1, <5>2 DEF Fresh, Target
        <5>3. CASE Rule(p).act = "label"
          <6>1. n.id \notin Msgs
            BY <3>2, Constants DEF Msgs, Worked
          <6>2. QED
            BY <5>3, <6>1 DEF Fresh
        <5>4. Rule(p).act # "discard"
          BY <3>2 DEF Worked
        <5>5. QED
          BY <1>3, <5>1, <5>2, <5>3, <5>4
      <4>5. Rule(p).act = "label" => pc'[p] = "write" /\ entry'[t][n] = cur'[p].dfile
        BY <3>2, <4>1 DEF Renames
      <4>6. ~Fresh(p, t, n)'
        BY <1>2, <3>2, <4>4
      <4>7. QED
        BY <1>2, <4>5, <4>6 DEF Spent
    <3>6. \A d \in Dirs, x \in Names : Of(m, d, x)' => Spent(p, m, d, x)'
      BY <3>4, <3>5
    <3>7. QED
      BY <1>1, <3>3, <3>6 DEF Spent
  <2>5. ASSUME NEW h \in Dirs, NEW a \in Names, Of(m, h, a), Fresh(p, h, a),
               acted'[p][m] = acted[p][m] + 1, file' = file,
               \A d \in Dirs, x \in Names :
                  Of(m, d, x)' =>
                     \/ entry'[d][x] = entry[d][x] /\ ~(d = h /\ x = a)
                     \/ ~Fresh(p, d, x) /\ Rule(p).act # "label"
        PROVE  /\ acted'[p][m] \in {0, 1}
               /\ \A d \in Dirs, x \in Names : Spent(p, m, d, x)'
    <3>1. acted[p][m] = 0 /\ entry[h][a] = m
      BY <2>2, <2>5
    <3>2. ASSUME NEW d \in Dirs, NEW x \in Names, Of(m, d, x)'
          PROVE  Spent(p, m, d, x)'
      <4>1. CASE ~Fresh(p, d, x) /\ Rule(p).act # "label"
        BY <1>2, <4>1 DEF Spent
      <4>2. CASE entry'[d][x] = entry[d][x] /\ ~(d = h /\ x = a)
        <5>1. Of(m, d, x)
          BY <2>5, <3>2, <4>2 DEF Of
        <5>2. ~Fresh(p, d, x)
          BY <2>2, <3>1, <4>2, <5>1, <2>5 DEF OneName, Of
        <5>3. QED
          BY <1>2, <2>2, <2>5, <4>2, <5>1, <5>2 DEF Spent
      <4>3. QED
        BY <2>5, <3>2, <4>1, <4>2
    <3>3. QED
      BY <2>5, <3>1, <3>2 DEF Spent
  <2>6. QED
    <3>1. CASE RenameSource(p) /\ entry[Here(p)][cur[p].name] # NoFile
      <4>1. PICK h, a, t, b : /\ h = Here(p) /\ a = cur[p].name
                              /\ t = Target(p) /\ b = cur[p].dname
        OBVIOUS
      <4>2. CASE cur[p].parsed.msg = m
        <5>1. /\ h \in Dirs /\ a \in Names
              /\ \A d \in Dirs, x \in Names :
                    entry'[d][x] = IF d = t /\ x = b THEN entry[h][a]
                                   ELSE IF d = h /\ x = a THEN NoFile ELSE entry[d][x]
              /\ pc[p] = "rename" /\ file' = file
          BY <3>1, <4>1, RenameFacts
        <5>2. Of(m, h, a)
          BY <3>1, <4>1, <4>2, <5>1, LinkedFile DEF WInv, Parsed, Past, NameOf, Of
        <5>3. Fresh(p, h, a)
          BY <4>1, <4>2, <5>1 DEF Settled, Past
        <5>4. Renames(p)
          BY <5>1 DEF WInv, Parsed, Past
        <5>5. Rule(p).act # "label"
          BY <5>4 DEF Renames
        <5>6. \A x \in Names : ~Fresh(p, t, x)
          <6>1. CASE Rule(p).act = "move"
            BY <4>1, <6>1 DEF Settles, Fresh, Target
          <6>2. CASE Rule(p).act = "flag"
            BY <4>1, <6>2 DEF Fresh, Target
          <6>3. QED
            BY <5>4, <6>1, <6>2 DEF Renames
        <5>7. acted'[p][m] = acted[p][m] + 1
          <6>1. Done(p, entry[h][a])
            BY <3>1, <4>1 DEF RenameSource
          <6>2. QED
            BY <1>1, <5>2, <6>1 DEF Done, Of
        <5>8. \A d \in Dirs, x \in Names :
                 Of(m, d, x)' =>
                    \/ entry'[d][x] = entry[d][x] /\ ~(d = h /\ x = a)
                    \/ ~Fresh(p, d, x) /\ Rule(p).act # "label"
          BY <5>1, <5>5, <5>6 DEF Of
        <5>9. QED
          BY <2>5, <5>1, <5>2, <5>3, <5>7, <5>8
      <4>3. CASE cur[p].parsed.msg # m
        <5>1. Pending(p) /\ Past(p) /\ TypeOK
          BY <3>1 DEF RenameSource, Pending, Past, WInv
        <5>2. ~Busy(p, m)
          BY <4>3, <5>1 DEF Busy, WInv, Owned
        <5>3. QED
          BY <1>1, <1>2, <2>2, <5>2, OthersStay DEF Same, Spent
      <4>4. QED
        BY <4>2, <4>3
    <3>2. CASE UnlinkSource(p) /\ entry[Here(p)][cur[p].name] # NoFile
      <4>1. PICK h, a : h = Here(p) /\ a = cur[p].name
        OBVIOUS
      <4>2. /\ h \in Dirs /\ a \in Names
            /\ file[entry[h][a]].msg = cur[p].parsed.msg
            /\ entry[h][a] # NoFile
            /\ \A d \in Dirs, x \in Names :
                  entry'[d][x] = IF d = h /\ x = a THEN NoFile ELSE entry[d][x]
            /\ Done(p, entry[h][a]) /\ file' = file /\ pc[p] = "unlink"
        BY <3>2, <4>1, UnlinkFacts
      <4>3. CASE cur[p].parsed.msg = m
        <5>1. Of(m, h, a) /\ Fresh(p, h, a)
          BY <4>1, <4>2, <4>3 DEF Settled, Past, Of
        <5>2. acted'[p][m] = acted[p][m] + 1
          BY <1>1, <4>2, <4>3 DEF Done
        <5>3. \A d \in Dirs, x \in Names :
                 Of(m, d, x)' => entry'[d][x] = entry[d][x] /\ ~(d = h /\ x = a)
          BY <4>2 DEF Of
        <5>4. QED
          BY <2>5, <4>2, <5>1, <5>2, <5>3
      <4>4. CASE cur[p].parsed.msg # m
        <5>1. acted'[p][m] = acted[p][m]
          BY <1>1, <4>2, <4>4 DEF Done
        <5>2. QED
          BY <1>1, <1>2, <2>2, <4>2, <5>1 DEF Spent, Of
      <4>5. QED
        BY <4>3, <4>4
    <3>3. CASE Undo(p)
      BY <1>1, <1>2, <2>2, <3>3, UndoFacts DEF Spent, Of
    <3>4. QED
      BY <1>5, <2>3, <2>4, <3>1, <3>2, <3>3, Kinds
<1>6. QED
  BY <1>4, <1>5

\* A rule that settles acts only upon files as they were before it acted.
LEMMA SettlingKeeps ==
    ASSUME WInv, OneName, Worked, Settling, (\E p \in Procs : Step(p)) \/ MarkSeen
    PROVE  Settling'
<1> SUFFICES ASSUME NEW p \in Procs, NEW m \in Msgs, Settles(p)', Alone(p, m)'
             PROVE  Settled(p, m)'
  BY DEF Settling
<1>1. /\ sc' = sc /\ Settles(p) /\ Rule(p)' = Rule(p)
      /\ \A d \in Dirs, n \in Names : Fresh(p, d, n)' <=> Fresh(p, d, n)
  <2>1. sc' = sc
    BY ActingStep, MarkFacts
  <2>2. QED
    BY <2>1, FreshStays
<1>2. Alone(p, m) /\ Settled(p, m)
  BY <1>1, HistoryGrows DEF Alone, Settling
<1>3. \A d \in Dirs, n \in Names : Spent(p, m, d, n)
  BY <1>2 DEF Settled, Spent
<1>4. ASSUME acted'[p][m] \in {0, 1}, \A d \in Dirs, n \in Names : Spent(p, m, d, n)',
             Past(p)' /\ cur'[p].parsed.msg = m => Fresh(p, Here(p), cur[p].name)'
      PROVE  Settled(p, m)'
  BY <1>4 DEF Settled, Spent
<1>5. CASE Step(p)
  <2>1. Past(p)' /\ cur'[p].parsed.msg = m => Fresh(p, Here(p), cur[p].name)'
    BY <1>1, <1>2, <1>5, ActsOnFresh
  <2>2. QED
    BY <1>1, <1>2, <1>4, <1>5, <2>1, SpentKeeps
<1>6. ASSUME NEW q \in Procs \ {p}, Step(q)
      PROVE  Settled(p, m)'
  <2>1. ~Busy(q, m)
    BY <1>2, <1>6 DEF Worked, Alone
  <2>2. Same(m)
    BY <1>6, <2>1, OthersStay
  <2>3. /\ pc'[p] = pc[p] /\ cur'[p] = cur[p] /\ block'[p] = block[p]
        /\ sub'[p] = sub[p]
        /\ Past(p)' <=> Past(p)
    BY <1>6, FrameHolds, FrameFacts DEF WInv, Frame
  <2>4. Fresh(p, Here(p), cur[p].name)' <=> Fresh(p, Here(p), cur[p].name)
    BY <1>1, <2>3 DEF Fresh, Here, Root
  <2>5. \A d \in Dirs, n \in Names : Spent(p, m, d, n)'
    BY <1>1, <1>3, <2>2, <2>3 DEF Spent, Same
  <2>6. QED
    BY <1>2, <1>4, <2>2, <2>3, <2>4, <2>5 DEF Settled, Same
<1>7. CASE MarkSeen
  <2>1. PICK d \in Dirs, dd \in Dirs, n \in Names, nn \in Names :
              /\ dd.root = d.root /\ dd.sub = "cur" /\ (d = dd \/ d.sub = "new")
              /\ nn.id = n.id
              /\ entry[d][n] # NoFile /\ entry[dd][nn] = NoFile
              /\ \A x \in Dirs, y \in Names :
                    entry'[x][y] = IF x = dd /\ y = nn THEN entry[d][n]
                                   ELSE IF x = d /\ y = n THEN NoFile
                                   ELSE entry[x][y]
              /\ d = dd /\ file[entry[d][n]].msg = m => "reader" \in touched'[m]
              /\ UNCHANGED <<sc, file, pc, block, sub, cur, acted>>
    <3>1. acted' = acted
      BY <1>7 DEF MarkSeen
    <3>2. QED
      BY <1>7, <3>1, MarkFacts
  <2>2. Past(p)' /\ cur'[p].parsed.msg = m => Fresh(p, Here(p), cur[p].name)'
    BY <1>2, <2>1 DEF Settled, Past, Fresh, Here, Root, Rule
  <2>3. ASSUME NEW x \in Dirs, NEW y \in Names, Of(m, x, y)'
        PROVE  Spent(p, m, x, y)'
    <3>1. CASE x = dd /\ y = nn
      <4>1. entry'[x][y] = entry[d][n] /\ Of(m, d, n)
        BY <2>1, <2>3, <3>1 DEF Of
      <4>2. d # dd
        BY <2>1, <4>1, WalkAssumption DEF Alone, Of
      <4>3. Fresh(p, dd, nn) => Fresh(p, d, n)
        BY <2>1, <4>2 DEF Fresh
      <4>4. ~Fresh(p, dd, nn) /\ Rule(p).act = "label" => ~Fresh(p, d, n)
        BY <2>1 DEF Fresh
      <4>5. QED
        BY <1>1, <1>3, <2>1, <3>1, <4>1, <4>3, <4>4 DEF Spent
    <3>2. CASE ~(x = dd /\ y = nn)
      BY <1>1, <1>3, <2>1, <2>3, <3>2 DEF Spent, Of
    <3>3. QED
      BY <3>1, <3>2
  <2>4. QED
    BY <1>2, <1>4, <2>1, <2>2, <2>3 DEF Settled, Spent
<1>8. QED
  BY <1>5, <1>6, <1>7

-----------------------------------------------------------------------------
\* How the directory stream of a process changes when others act, and when it
\* acts upon a message itself.
LEMMA StreamOfStep ==
    ASSUME WInv, NEW p \in Procs, NEW q \in Procs, Step(q),
           p # q \/ pc[p] \notin {"open", "read"}
    PROVE  stream'[p] = stream[p] \/ stream' = Streams(entry')
<1>1. stream \in [Procs -> StreamSet]
  BY Parts DEF WInv
<1>2. CASE Open(q) \/ Read(q)
  <2>1. pc[q] \in {"open", "read"}
    BY <1>2 DEF Open, Read
  <2>2. \/ stream' = stream
        \/ \E s : stream' = [stream EXCEPT ![q] = s]
        \/ \E n : stream' = [stream EXCEPT ![q].must = @ \ {n}, ![q].may = @ \ {n}]
    BY <1>2 DEF Open, Read
  <2>3. p # q
    BY <2>1
  <2>4. \A n : stream' = [stream EXCEPT ![q].must = @ \ {n}, ![q].may = @ \ {n}] =>
                  stream'[p] = stream[p]
    BY <1>1, <2>3
  <2>5. \A s : stream' = [stream EXCEPT ![q] = s] => stream'[p] = stream[p]
    BY <1>1, <2>3
  <2>6. QED
    BY <2>2, <2>4, <2>5
<1>3. CASE EndOfDirectory(q) \/ Parse(q) \/ WriteCopy(q) \/ Finish(q)
  BY <1>3 DEF EndOfDirectory, Parse, WriteCopy, Finish
<1>4. CASE Create(q)
  BY <1>4 DEF Create, Change
<1>5. CASE RenameSource(q) \/ UnlinkSource(q) \/ Undo(q)
  BY <1>5 DEF RenameSource, UnlinkSource, Undo, Change
<1>6. QED
  BY <1>2, <1>3, <1>4, <1>5 DEF Step

\* A name that stays linked is still to be read.
LEMMA MustStays ==
    ASSUME NEW p \in Procs, NEW n, n \in stream[p].must, pc[p] \notin {"open", "done"},
           stream'[p] = stream[p] \/ stream' = Streams(entry'),
           entry'[Here(p)][n] # NoFile
    PROVE  n \in stream'[p].must
<1>1. CASE stream'[p] = stream[p]
  BY <1>1
<1>2. CASE stream' = Streams(entry')
  <2>1. stream'[p].must = stream[p].must
                          \ {x \in stream[p].must : entry'[Here(p)][x] = NoFile}
    BY <1>2 DEF Streams
  <2>2. QED
    BY <2>1
<1>3. QED
  BY <1>1, <1>2

LEMMA AheadStays ==
    ASSUME TypeOK, NEW p \in Procs, NEW b, NEW d \in Dirs, NEW n \in Names,
           Ahead(p, b, d, n), sc.blocks[p][b] = d.root, entry'[d][n] # NoFile,
           block'[p] = block[p], sub'[p] = sub[p],
           \/ pc'[p] = pc[p] /\ cur'[p].name = cur[p].name
           \/ pc[p] \notin {"open", "parse", "done"} /\ pc'[p] \notin {"open", "done"},
           stream'[p] = stream[p] \/ stream' = Streams(entry')
    PROVE  Ahead(p, b, d, n)'
<1>1. CASE block[p] < b
  BY <1>1 DEF Ahead
<1>2. CASE block[p] = b /\ n \in stream[p].must /\ sub[p] = d.sub
           /\ pc[p] \notin {"open", "done"}
  <2>1. Here(p) = d
    BY <1>2 DEF Here, Root, Dirs
  <2>2. n \in stream'[p].must
    BY <1>2, <2>1, MustStays
  <2>3. QED
    BY <1>2, <2>2 DEF Ahead
<1>3. QED
  BY <1>1, <1>2 DEF Ahead

\* Only where the walk of a maildir ends a process comes to a further block.
LEMMA AheadNext ==
    ASSUME TypeOK, NEW p \in Procs, sc' = sc, NextBlock(p), NEW d, NEW n,
           NEW b \in 1 .. Len(sc.blocks[p]), block[p] < b
    PROVE  Ahead(p, b, d, n)'
<1>1. /\ block[p] \in Nat /\ sc.blocks[p] \in Seq(Roots)
      /\ block'[p] = block[p] + 1 /\ sub'[p] = "new"
      /\ pc'[p] = IF block[p] < Len(sc.blocks[p]) THEN "open" ELSE "done"
  BY Parts, ScenarioType DEF NextBlock, Goto
<1>2. block'[p] < b \/ (block'[p] = b /\ pc'[p] = "open")
  BY <1>1
<1>3. QED
  BY <1>1, <1>2 DEF Ahead

LEMMA AheadStep ==
    ASSUME WInv, NEW p \in Procs, Step(p), NEW m \in Msgs, m \notin handled'[p],
           file[m].msg = m, NEW d \in Dirs, NEW n \in Names, entry[d][n] = m,
           entry'[d][n] = m, d = sc.at[m] \/ d.root \notin Temporary,
           NEW b \in 1 .. Len(sc.blocks[p]), sc.blocks[p][b] = d.root,
           <<p, b>> \notin broken', Ahead(p, b, d, n)
    PROVE  Ahead(p, b, d, n)'
<1>1. /\ TypeOK /\ sc' = sc /\ pc \in [Procs -> PCs] /\ block[p] \in Nat
      /\ cur \in [Procs -> Place] /\ stream \in [Procs -> StreamSet]
      /\ m # NoFile
  BY ActingStep, Parts, Constants DEF WInv
<1>2. block[p] = b /\ sub[p] = d.sub => Here(p) = d
  BY DEF Here, Root, Dirs
<1>3. ASSUME GiveUp(p)
      PROVE  Ahead(p, b, d, n)'
  <2>1. block[p] # b /\ NextBlock(p)
    BY <1>3 DEF GiveUp
  <2>2. block[p] < b
    BY <2>1 DEF Ahead
  <2>3. QED
    BY <1>1, <2>1, <2>2, AheadNext
<1>4. CASE Open(p) /\ ~GiveUp(p)
  <2>1. /\ stream' = [stream EXCEPT ![p] = [must |-> Linked(Here(p)), may |-> {}]]
        /\ Goto(p, "read") /\ UNCHANGED walkVars /\ pc[p] = "open"
    BY <1>4 DEF Open
  <2>2. pc'[p] = "read" /\ stream'[p].must = Linked(Here(p))
    BY <1>1, <2>1 DEF Goto
  <2>3. Here(p) = d => n \in Linked(Here(p))
    BY <1>1 DEF Linked
  <2>4. sub[p] \in Subdirs /\ d.sub \in Subdirs
    BY <1>1, Parts DEF Dirs
  <2>5. QED
    BY <1>2, <2>1, <2>2, <2>3, <2>4 DEF Ahead, walkVars, Subdirs
<1>5. CASE Read(p) /\ ~GiveUp(p)
  <2>1. PICK x : /\ stream' = [stream EXCEPT ![p].must = @ \ {x}, ![p].may = @ \ {x}]
                 /\ cur' = [cur EXCEPT ![p].name = x]
                 /\ Goto(p, "parse") /\ UNCHANGED walkVars /\ pc[p] = "read"
    BY <1>5 DEF Read
  <2>2. /\ pc'[p] = "parse" /\ cur'[p].name = x
        /\ stream'[p].must = stream[p].must \ {x}
    BY <1>1, <2>1 DEF Goto, Place, StreamSet
  <2>3. QED
    BY <2>1, <2>2 DEF Ahead, walkVars
<1>6. CASE EndOfDirectory(p)
  <2>1. /\ pc[p] = "read" /\ stream[p].must = {}
        /\ \/ /\ sub[p] = "new" /\ Root(p) \notin Temporary
              /\ sub' = [sub EXCEPT ![p] = "cur"] /\ Goto(p, "open")
              /\ block' = block
           \/ NextBlock(p) /\ (sub[p] # "new" \/ Root(p) \in Temporary)
    BY <1>6 DEF EndOfDirectory
  <2>2. CASE block[p] < b
    <3>1. CASE NextBlock(p)
      BY <1>1, <2>2, <3>1, AheadNext
    <3>2. CASE block' = block
      BY <2>2, <3>2 DEF Ahead
    <3>3. QED
      BY <2>1, <3>1, <3>2
  <2>3. CASE block[p] = b
    <3>1. sub[p] = "new" /\ d.sub = "cur" /\ d.root = Root(p)
      BY <1>1, <2>1, <2>3 DEF Ahead, Root
    <3>2. Root(p) \notin Temporary
      BY <1>1, <3>1, ScenariosAssumption DEF TypeOK
    <3>3. sub' = [sub EXCEPT ![p] = "cur"] /\ Goto(p, "open") /\ block' = block
      BY <2>1, <3>1, <3>2
    <3>4. pc'[p] = "open"
      BY <1>1, <3>3 DEF Goto
    <3>5. QED
      BY <2>3, <3>1, <3>3, <3>4 DEF Ahead
  <2>4. QED
    BY <1>1, <2>2, <2>3 DEF Ahead
<1>7. CASE Parse(p)
  <2>1. /\ pc[p] = "parse" /\ UNCHANGED walkVars /\ stream' = stream
        /\ pc'[p] \in {"read", "unlink", "create"}
    BY <1>1, <1>7 DEF Parse, Goto
  <2>2. Here(p) = d => cur[p].name # n
    <3>1. Here(p) = d /\ cur[p].name = n =>
             handled' = [handled EXCEPT ![p] = @ \cup {m}]
      BY <1>1, <1>7 DEF Parse
    <3>2. QED
      BY <1>1, <3>1, Parts
  <2>3. QED
    BY <1>2, <2>1, <2>2 DEF Ahead, walkVars
<1>8. CASE \/ Create(p) \/ RenameSource(p) \/ WriteCopy(p) \/ UnlinkSource(p)
           \/ Undo(p) \/ Finish(p)
  <2>1. /\ UNCHANGED walkVars
        /\ pc[p] \in {"create", "rename", "write", "unlink", "undo", "finish"}
    BY <1>8 DEF Create, RenameSource, WriteCopy, UnlinkSource, Undo, Finish
  <2>2. \E c : pc' = [pc EXCEPT ![p] = c] /\ c \notin {"open", "done"}
    BY <1>8 DEF Create, RenameSource, WriteCopy, UnlinkSource, Undo, Finish, Goto
  <2>3. pc'[p] \notin {"open", "done"}
    BY <1>1, <2>2
  <2>4. stream'[p] = stream[p] \/ stream' = Streams(entry')
    BY <2>1, StreamOfStep
  <2>5. QED
    BY <1>1, <2>1, <2>3, <2>4, AheadStays DEF walkVars
<1>9. QED
  BY <1>3, <1>4, <1>5, <1>6, <1>7, <1>8 DEF Step

\* A process is done only where its list of maildirs ends.
LEMMA DoneAtEnd ==
    ASSUME WInv, NEW p \in Procs, Step(p), pc'[p] = "done"
    PROVE  block'[p] > Len(sc'.blocks[p])
<1>1. /\ sc' = sc /\ pc \in [Procs -> PCs] /\ block \in [Procs -> Nat]
      /\ sc.blocks[p] \in Seq(Roots)
  BY ActingStep, Parts, ScenarioType DEF WInv
<1>2. NextBlock(p)
  <2>1. \/ NextBlock(p)
        \/ \E c : pc' = [pc EXCEPT ![p] = c] /\ c # "done"
    <3>1. CASE Open(p) \/ Read(p) \/ EndOfDirectory(p) \/ Finish(p)
      BY <3>1 DEF Open, Read, EndOfDirectory, Finish, GiveUp, Goto
    <3>2. CASE Parse(p)
      BY <3>2 DEF Parse, Goto
    <3>3. CASE Create(p) \/ RenameSource(p) \/ WriteCopy(p) \/ UnlinkSource(p) \/ Undo(p)
      BY <3>3 DEF Create, RenameSource, WriteCopy, UnlinkSource, Undo, Goto
    <3>4. QED
      BY <3>1, <3>2, <3>3 DEF Step
  <2>2. QED
    BY <1>1, <2>1
<1>3. QED
  BY <1>1, <1>2 DEF NextBlock, Goto

\* A message that p has not come to stays ahead of it, whatever else happens.
LEMMA LookingKeeps ==
    ASSUME WInv, Worked, Looking, (\E p \in Procs : Step(p)) \/ MarkSeen
    PROVE  Looking'
<1>1. /\ TypeOK /\ block \in [Procs -> Nat] /\ sc' = sc
      /\ \A p \in Procs : pc[p] = "done" => block[p] > Len(sc.blocks[p])
  BY ActingStep, MarkFacts, Parts DEF WInv, Looking
<1>2. ASSUME NEW p \in Procs, pc'[p] = "done"
      PROVE  block'[p] > Len(sc'.blocks[p])
  <2>1. CASE Step(p)
    BY <1>2, <2>1, DoneAtEnd
  <2>2. ASSUME NEW q \in Procs \ {p}, Step(q)
        PROVE  block'[p] > Len(sc'.blocks[p])
    BY <1>1, <1>2, <2>2, FrameHolds DEF Frame
  <2>3. CASE MarkSeen
    BY <1>1, <1>2, <2>3, MarkFacts
  <2>4. QED
    BY <2>1, <2>2, <2>3
<1>3. ASSUME NEW p \in Procs, NEW m \in Msgs, Alone(p, m)', m \notin handled'[p]
      PROVE  Waiting(p, m)'
  <2>1. Alone(p, m) /\ m \notin handled[p] /\ broken \subseteq broken'
    BY <1>3, HistoryGrows DEF Alone
  <2>2. PICK d \in Dirs, n \in Names : WaitsAt(p, m, d, n)
    BY <2>1 DEF Looking, Waiting
  <2>3. /\ entry[d][n] = m /\ d.root = sc.at[m].root /\ file[m].msg = m
        /\ m # NoFile
        /\ d = sc.at[m] \/ (d.sub = "cur" /\ d.root \notin Temporary)
        /\ \A b \in 1 .. Len(sc.blocks[p]) :
              sc.blocks[p][b] = d.root /\ <<p, b>> \notin broken => Ahead(p, b, d, n)
    BY <2>2, Constants DEF WaitsAt, Worked
  <2>4. ASSUME NEW q \in Procs, Step(q)
        PROVE  WaitsAt(p, m, d, n)'
    <3>1. ~Busy(q, m)
      BY <2>1 DEF Alone, Worked
    <3>2. entry'[d][n] = m
      <4>1. Of(m, d, n)
        BY <2>3 DEF Of
      <4>2. QED
        BY <2>3, <2>4, <3>1, <4>1, OthersStay DEF Same
    <3>3. ASSUME NEW b \in 1 .. Len(sc.blocks[p]), sc.blocks[p][b] = d.root,
                 <<p, b>> \notin broken'
          PROVE  Ahead(p, b, d, n)'
      <4>1. Ahead(p, b, d, n)
        BY <2>1, <2>3, <3>3
      <4>2. CASE q = p
        <5>1. d = sc.at[m] \/ d.root \notin Temporary
          BY <2>3
        <5>2. QED
          BY <1>3, <2>3, <2>4, <3>2, <3>3, <4>1, <4>2, <5>1, AheadStep
      <4>3. CASE q # p
        <5>1. /\ pc'[p] = pc[p] /\ cur'[p].name = cur[p].name
              /\ block'[p] = block[p] /\ sub'[p] = sub[p]
          BY <1>1, <2>4, <4>3, FrameHolds DEF Frame
        <5>2. stream'[p] = stream[p] \/ stream' = Streams(entry')
          BY <2>4, <4>3, StreamOfStep
        <5>3. QED
          BY <1>1, <2>3, <3>2, <3>3, <4>1, <5>1, <5>2, AheadStays
      <4>4. QED
        BY <4>2, <4>3
    <3>4. QED
      BY <1>1, <2>3, <3>2, <3>3 DEF WaitsAt
  <2>5. CASE MarkSeen
    <3>1. PICK x \in Dirs, xx \in Dirs, y \in Names, yy \in Names :
                /\ xx.root = x.root /\ xx.sub = "cur" /\ (x = xx \/ x.sub = "new")
                /\ x.root \notin Temporary
                /\ entry[x][y] # NoFile /\ entry[xx][yy] = NoFile
                /\ \A v \in Dirs, w \in Names :
                      entry'[v][w] = IF v = xx /\ w = yy THEN entry[x][y]
                                     ELSE IF v = x /\ w = y THEN NoFile
                                     ELSE entry[v][w]
                /\ stream' = Streams(entry')
                /\ x = xx /\ file[entry[x][y]].msg = m => "reader" \in touched'[m]
                /\ UNCHANGED <<pc, block, sub, cur, broken>>
      BY <2>5, MarkFacts
    <3>2. CASE x = d /\ y = n
      <4>1. d # xx
        BY <1>3, <2>3, <3>1, <3>2, WalkAssumption DEF Alone
      <4>2. d.sub = "new" /\ xx.sub = "cur" /\ xx.root = d.root
        BY <3>1, <3>2, <4>1
      <4>3. entry'[xx][yy] = m
        BY <2>3, <3>1, <3>2
      <4>4. ASSUME NEW b \in 1 .. Len(sc.blocks[p]), sc.blocks[p][b] = xx.root,
                   <<p, b>> \notin broken'
            PROVE  Ahead(p, b, xx, yy)'
        <5>1. Ahead(p, b, d, n)
          BY <2>3, <3>1, <4>2, <4>4
        <5>2. QED
          BY <3>1, <4>2, <5>1 DEF Ahead
      <4>5. WaitsAt(p, m, xx, yy)'
        BY <1>1, <2>3, <3>1, <3>2, <4>2, <4>3, <4>4 DEF WaitsAt
      <4>6. QED
        BY <4>5 DEF Waiting
    <3>3. CASE ~(x = d /\ y = n)
      <4>1. entry'[d][n] = m
        BY <2>3, <3>1, <3>3
      <4>2. ASSUME NEW b \in 1 .. Len(sc.blocks[p]), sc.blocks[p][b] = d.root,
                   <<p, b>> \notin broken'
            PROVE  Ahead(p, b, d, n)'
        <5>1. Ahead(p, b, d, n)
          BY <2>3, <3>1, <4>2
        <5>2. QED
          BY <1>1, <2>3, <3>1, <4>1, <4>2, <5>1, AheadStays
      <4>3. WaitsAt(p, m, d, n)'
        BY <1>1, <2>3, <4>1, <4>2 DEF WaitsAt
      <4>4. QED
        BY <4>3 DEF Waiting
    <3>4. QED
      BY <3>2, <3>3
  <2>6. QED
    BY <2>4, <2>5 DEF Waiting
<1>4. QED
  BY <1>2, <1>3 DEF Looking

-----------------------------------------------------------------------------
\* A name comes to be read only when it is added to the directory.
LEMMA StreamNames ==
    ASSUME TypeOK, NEW p \in Procs, pc[p] \notin {"open", "done"},
           stream' = Streams(entry'), NEW x, x \in stream'[p].must \cup stream'[p].may
    PROVE  \/ x \in stream[p].must \cup stream[p].may
           \/ entry[Here(p)][x] = NoFile /\ entry'[Here(p)][x] # NoFile
  BY DEF Streams

\* What Untroubled says, where the process stays in its directory.
LEMMA UntroubledNext ==
    ASSUME NEW p \in Procs, sc' = sc, block'[p] = block[p], sub'[p] = sub[p],
           ~error'[p], pc'[p] # "undo",
           pc'[p] \notin {"open", "done"} =>
              \A x \in stream'[p].must \cup stream'[p].may : entry'[Here(p)][x] # NoFile,
           pc'[p] = "parse" \/ Past(p)' =>
              /\ entry'[Here(p)][cur'[p].name] # NoFile
              /\ cur'[p].name \notin stream'[p].must \cup stream'[p].may,
           Pending(p)' \/ pc'[p] = "finish" => entry'[Target(p)][cur'[p].dname] # NoFile
    PROVE  Untroubled(p)'
<1>1. Here(p)' = Here(p) /\ Target(p)' = Target(p)
  BY DEF Here, Root, Target, Rule
<1>2. QED
  BY <1>1 DEF Untroubled

\* A process that works on no message changes nothing.
LEMMA IdleStep ==
    ASSUME WInv, NEW q \in Procs, Step(q), \A m \in Msgs : ~Busy(q, m)
    PROVE  /\ entry' = entry
           /\ \A p \in Procs \ {q} : stream'[p] = stream[p] /\ error'[p] = error[p]
<1>1. TypeOK /\ Numbered /\ Parsed /\ Owned /\ error \in [Procs -> BOOLEAN]
  BY Parts DEF WInv
<1>2. ~Past(q)
  <2>1. NameOf(q) \in Ids /\ NameOf(q) <= made
    BY <1>1, ProcessTypes DEF Numbered
  <2>2. Past(q) => cur[q].parsed.msg \in Msgs
    BY <1>1, <2>1 DEF Parsed, Numbered
  <2>3. QED
    BY <2>2 DEF Busy
<1>3. ~Pending(q)
  <2>1. Pending(q) => file[cur[q].dfile].msg \in Msgs
    BY <1>1 DEF Owned, Numbered
  <2>2. QED
    BY <2>1 DEF Busy
<1>4. Open(q) \/ Read(q) \/ EndOfDirectory(q) \/ Parse(q) \/ Finish(q)
  BY <1>2, <1>3 DEF Step, Create, RenameSource, WriteCopy, UnlinkSource, Undo, Past,
     Pending
<1>5. entry' = entry
  BY <1>4 DEF Open, Read, EndOfDirectory, Parse, Finish, fsVars
<1>6. ASSUME NEW p \in Procs \ {q}
      PROVE  stream'[p] = stream[p] /\ error'[p] = error[p]
  <2>1. error' = error \/ error' = [error EXCEPT ![q] = TRUE]
    BY <1>4 DEF Open, Read, EndOfDirectory, Parse, Finish, GiveUp, Fail
  <2>2. error'[p] = error[p]
    BY <1>1, <2>1
  <2>3. stream'[p] = stream[p]
    <3>1. CASE Open(q) \/ Read(q)
      <4>1. stream \in [Procs -> StreamSet]
        BY <1>1, Parts
      <4>2. \A n : stream' = [stream EXCEPT ![q].must = @ \ {n}, ![q].may = @ \ {n}] =>
                      stream'[p] = stream[p]
        BY <4>1
      <4>3. \A s : stream' = [stream EXCEPT ![q] = s] => stream'[p] = stream[p]
        BY <4>1
      <4>4. QED
        BY <3>1, <4>2, <4>3 DEF Open, Read
    <3>2. CASE EndOfDirectory(q) \/ Parse(q) \/ Finish(q)
      BY <3>2 DEF EndOfDirectory, Parse, Finish
    <3>3. QED
      BY <1>4, <3>1, <3>2
  <2>4. QED
    BY <2>2, <2>3
<1>7. QED
  BY <1>5, <1>6

\* The steps of a process that nothing troubles.
LEMMA UntroubledStep ==
    ASSUME WInv, Worked, NEW p \in Procs, Step(p), faults = 0, faults' = 0, Untroubled(p)
    PROVE  Untroubled(p)'
<1>1. /\ TypeOK /\ sc' = sc /\ pc \in [Procs -> PCs] /\ ~Fault /\ ~GiveUp(p)
      /\ stream \in [Procs -> StreamSet] /\ cur \in [Procs -> Place]
      /\ ~error[p]
  BY ActingStep, Parts DEF WInv, Fault, GiveUp, Untroubled
<1>2. CASE Open(p)
  <2>1. /\ stream' = [stream EXCEPT ![p] = [must |-> Linked(Here(p)), may |-> {}]]
        /\ Goto(p, "read") /\ UNCHANGED <<walkVars, error, entry>>
    BY <1>1, <1>2 DEF Open, fsVars
  <2>2. pc'[p] = "read" /\ stream'[p] = [must |-> Linked(Here(p)), may |-> {}]
    BY <1>1, <2>1 DEF Goto
  <2>3. \A x \in stream'[p].must \cup stream'[p].may : entry'[Here(p)][x] # NoFile
    BY <2>1, <2>2 DEF Linked
  <2>4. ~Past(p)' /\ ~Pending(p)'
    BY <2>2 DEF Past, Pending
  <2>5. QED
    BY <1>1, <2>1, <2>2, <2>3, <2>4, UntroubledNext DEF walkVars
<1>3. CASE Read(p)
  <2>1. PICK n \in stream[p].must \cup stream[p].may :
              /\ stream' = [stream EXCEPT ![p].must = @ \ {n}, ![p].may = @ \ {n}]
              /\ cur' = [cur EXCEPT ![p].name = n]
              /\ Goto(p, "parse") /\ UNCHANGED <<walkVars, error, entry>>
              /\ pc[p] = "read"
    BY <1>1, <1>3 DEF Read, fsVars
  <2>2. /\ pc'[p] = "parse" /\ cur'[p].name = n
        /\ stream'[p].must = stream[p].must \ {n}
        /\ stream'[p].may = stream[p].may \ {n}
    BY <1>1, <2>1 DEF Goto, Place, StreamSet
  <2>3. \A x \in stream[p].must \cup stream[p].may : entry[Here(p)][x] # NoFile
    BY <2>1 DEF Untroubled
  <2>4. ~Past(p)' /\ ~Pending(p)'
    BY <2>2 DEF Past, Pending
  <2>5. QED
    BY <1>1, <2>1, <2>2, <2>3, <2>4, UntroubledNext DEF walkVars
<1>4. CASE EndOfDirectory(p)
  <2>1. error' = error /\ (Goto(p, "open") \/ Goto(p, "done"))
    BY <1>4 DEF EndOfDirectory, NextBlock, Goto
  <2>2. pc'[p] \in {"open", "done"}
    BY <1>1, <2>1 DEF Goto
  <2>3. QED
    BY <1>1, <2>1, <2>2 DEF Untroubled, Past, Pending
<1>5. CASE Parse(p)
  <2>1. /\ entry[Here(p)][cur[p].name] # NoFile
        /\ cur[p].name \notin stream[p].must \cup stream[p].may
        /\ \A x \in stream[p].must \cup stream[p].may : entry[Here(p)][x] # NoFile
    BY <1>5 DEF Parse, Untroubled
  <2>2. /\ UNCHANGED <<walkVars, error, entry, stream>>
        /\ Goto(p, "read") \/ Goto(p, IF Rule(p).act = "discard" THEN "unlink"
                                      ELSE "create")
    BY <1>5, <2>1 DEF Parse, fsVars
  <2>3. pc'[p] \in {"read", "unlink", "create"}
    BY <1>1, <2>2 DEF Goto
  <2>4. Past(p)' => cur'[p].name = cur[p].name /\ ~Pending(p)'
    BY <1>5, ParseEffect
  <2>5. ~Past(p)' => ~Pending(p)'
    BY <2>3 DEF Past, Pending
  <2>6. QED
    BY <1>1, <2>1, <2>2, <2>3, <2>4, <2>5, UntroubledNext DEF walkVars
<1>6. CASE Create(p)
  <2>1. /\ made' # made /\ error' = error /\ stream' = Streams(entry')
        /\ UNCHANGED walkVars
    <3>1. made \in Nat
      BY <1>1, ProcessTypes
    <3>2. QED
      BY <1>1, <1>6, <3>1 DEF Create, Change
  <2>2. PICK t : t = Target(p)
    OBVIOUS
  <2>3. PICK n \in Names : LET k == made + 1 IN
              /\ k # NoFile /\ t \in Dirs
              /\ \A d \in Dirs, x \in Names :
                    entry'[d][x] = IF d = t /\ x = n THEN k ELSE entry[d][x]
              /\ cur'[p].dname = n
              /\ pc[p] = "create" /\ pc'[p] = IF Renames(p) THEN "rename" ELSE "write"
    BY <1>6, <2>1, <2>2, CreateFacts, Constants
  <2>4. cur'[p].name = cur[p].name
    BY <2>3, ActingStep DEF Past
  <2>5. /\ Here(p) \in Dirs /\ cur[p].name \in Names
        /\ stream[p].must \cup stream[p].may \subseteq Names
    BY <1>1, <2>3, ProcessTypes DEF StreamSet
  <2>6. /\ \A x \in stream[p].must \cup stream[p].may : entry[Here(p)][x] # NoFile
        /\ entry[Here(p)][cur[p].name] # NoFile
        /\ cur[p].name \notin stream[p].must \cup stream[p].may
    BY <2>3 DEF Untroubled, Past
  <2>7. \A x \in stream'[p].must \cup stream'[p].may :
           /\ entry'[Here(p)][x] # NoFile
           /\ x # cur[p].name
    BY <1>1, <2>1, <2>3, <2>5, <2>6, StreamNames
  <2>8. /\ entry'[Here(p)][cur[p].name] # NoFile
        /\ entry'[t][cur'[p].dname] # NoFile
    BY <2>3, <2>5, <2>6
  <2>9. pc'[p] # "undo"
    BY <2>3
  <2>10. QED
    BY <1>1, <2>1, <2>2, <2>4, <2>7, <2>8, <2>9, UntroubledNext DEF walkVars
<1>7. CASE RenameSource(p)
  <2>1. /\ entry[Here(p)][cur[p].name] # NoFile
        /\ cur[p].name \notin stream[p].must \cup stream[p].may
        /\ \A x \in stream[p].must \cup stream[p].may : entry[Here(p)][x] # NoFile
        /\ pc[p] \notin {"open", "done"}
    BY <1>7 DEF RenameSource, Untroubled, Past
  <2>2. error' = error /\ stream' = Streams(entry') /\ UNCHANGED walkVars
    BY <1>7, <2>1 DEF RenameSource, Change
  <2>3. PICK h, a, t, b : /\ h = Here(p) /\ a = cur[p].name
                          /\ t = Target(p) /\ b = cur[p].dname
    OBVIOUS
  <2>4. /\ h \in Dirs /\ a \in Names /\ t \in Dirs /\ b \in Names
        /\ \A d \in Dirs, x \in Names :
              entry'[d][x] = IF d = t /\ x = b THEN entry[h][a]
                             ELSE IF d = h /\ x = a THEN NoFile ELSE entry[d][x]
        /\ pc'[p] = "finish" /\ cur' = cur /\ ~Past(p)'
    BY <1>7, <2>1, <2>3, RenameFacts
  <2>5. stream[p].must \cup stream[p].may \subseteq Names
    BY <1>1 DEF StreamSet
  <2>6. \A x \in stream'[p].must \cup stream'[p].may : entry'[h][x] # NoFile
    BY <1>1, <2>1, <2>2, <2>3, <2>4, <2>5, StreamNames
  <2>7. entry'[t][b] # NoFile
    BY <2>1, <2>3, <2>4
  <2>8. QED
    BY <1>1, <2>2, <2>3, <2>4, <2>6, <2>7, UntroubledNext DEF walkVars
<1>8. CASE WriteCopy(p)
  <2>1. Past(p) /\ Pending(p) /\ UNCHANGED <<walkVars, error>> /\ pc[p] = "write"
    BY <1>8 DEF WriteCopy, Past, Pending
  <2>2. QED
    BY <1>1, <1>8, <2>1, WriteFacts, UntroubledNext DEF Untroubled, walkVars
<1>9. CASE UnlinkSource(p)
  <2>1. /\ entry[Here(p)][cur[p].name] # NoFile
        /\ cur[p].name \notin stream[p].must \cup stream[p].may
        /\ \A x \in stream[p].must \cup stream[p].may : entry[Here(p)][x] # NoFile
        /\ pc[p] \notin {"open", "done"}
    BY <1>9 DEF UnlinkSource, Untroubled, Past
  <2>2. error' = error /\ UNCHANGED walkVars
    BY <1>9, <2>1 DEF UnlinkSource
  <2>3. PICK h, a : h = Here(p) /\ a = cur[p].name
    OBVIOUS
  <2>4. /\ h \in Dirs /\ a \in Names
        /\ \A d \in Dirs, x \in Names :
              entry'[d][x] = IF d = h /\ x = a THEN NoFile ELSE entry[d][x]
        /\ stream' = Streams(entry') /\ cur' = cur /\ pc[p] = "unlink"
        /\ pc'[p] = IF Rule(p).act = "discard" THEN "read" ELSE "finish"
    BY <1>9, <2>1, <2>3, UnlinkFacts
  <2>5. stream[p].must \cup stream[p].may \subseteq Names
    BY <1>1 DEF StreamSet
  <2>6. \A x \in stream'[p].must \cup stream'[p].may : entry'[h][x] # NoFile
    BY <1>1, <2>1, <2>3, <2>4, <2>5, StreamNames
  <2>7. ~Past(p)' /\ ~Pending(p)'
    BY <2>4 DEF Past, Pending
  <2>8. pc'[p] = "finish" => entry'[Target(p)][cur[p].dname] # NoFile
    <3>1. SUFFICES ASSUME Rule(p).act # "discard"
                   PROVE  entry'[Target(p)][cur[p].dname] # NoFile
      BY <2>4
    <3>2. Pending(p)
      BY <2>4, <3>1 DEF Pending
    <3>3. /\ Target(p) \in Dirs /\ cur[p].dname \in Names
          /\ cur[p].dname.id \in Nat /\ NameOf(p) \in Nat
      BY <1>1, <2>4, ProcessTypes, Constants
    <3>4. cur[p].dname # a
      BY <2>3, <3>2, <3>3 DEF WInv, Owned, NameOf
    <3>5. entry[Target(p)][cur[p].dname] # NoFile
      BY <3>2 DEF Untroubled
    <3>6. QED
      BY <2>4, <3>3, <3>4, <3>5
  <2>9. pc'[p] # "undo" /\ pc'[p] # "parse"
    BY <2>4
  <2>10. QED
    BY <1>1, <2>2, <2>3, <2>4, <2>6, <2>7, <2>8, <2>9, UntroubledNext DEF walkVars
<1>10. CASE Undo(p)
  BY <1>10 DEF Undo, Untroubled
<1>11. CASE Finish(p)
  <2>1. /\ UNCHANGED <<walkVars, error, entry, stream>> /\ Goto(p, "read")
        /\ pc[p] = "finish"
    BY <1>11 DEF Finish, Untroubled, fsVars
  <2>2. pc'[p] = "read"
    BY <1>1, <2>1 DEF Goto
  <2>3. ~Past(p)' /\ ~Pending(p)'
    BY <2>2 DEF Past, Pending
  <2>4. QED
    BY <1>1, <2>1, <2>2, <2>3, UntroubledNext DEF Untroubled, walkVars
<1>12. QED
  BY <1>2, <1>3, <1>4, <1>5, <1>6, <1>7, <1>8, <1>9, <1>10, <1>11 DEF Step

LEMMA QuietKeeps ==
    ASSUME WInv, Worked, Quiet, (\E p \in Procs : Step(p)) \/ MarkSeen
    PROVE  Quiet'
<1> SUFFICES ASSUME NEW p \in Procs, Peaceful(p)'
             PROVE  Untroubled(p)'
  BY DEF Quiet
<1>1. faults = 0 /\ faults' = 0 /\ renames = 0 /\ renames' = 0
  BY HistoryGrows DEF Peaceful, Worked
<1>2. \A m \in Msgs : Alone(p, m)
  BY HistoryGrows DEF Peaceful, Alone
<1>3. Untroubled(p)
  BY <1>1, <1>2 DEF Quiet, Peaceful
<1>4. CASE Step(p)
  BY <1>1, <1>3, <1>4, UntroubledStep
<1>5. ASSUME NEW q \in Procs \ {p}, Step(q)
      PROVE  Untroubled(p)'
  <2>1. \A m \in Msgs : ~Busy(q, m)
    BY <1>2 DEF Worked, Alone
  <2>2. entry' = entry /\ stream'[p] = stream[p] /\ error'[p] = error[p]
    BY <1>5, <2>1, IdleStep
  <2>3. /\ sc' = sc /\ pc'[p] = pc[p] /\ cur'[p] = cur[p]
        /\ block'[p] = block[p] /\ sub'[p] = sub[p]
        /\ Past(p)' <=> Past(p)
        /\ Pending(p)' <=> Pending(p)
    BY <1>5, FrameHolds, FrameFacts DEF WInv, Frame
  <2>4. QED
    BY <1>3, <2>2, <2>3, UntroubledNext DEF Untroubled
<1>6. CASE MarkSeen
  BY <1>1, <1>6 DEF MarkSeen
<1>7. QED
  BY <1>4, <1>5, <1>6

-----------------------------------------------------------------------------
\* The initial states: every message waits in its maildir.
LEMMA AloneInit == Init => AInv
<1> SUFFICES ASSUME Init PROVE AInv
  OBVIOUS
<1>1. WInv /\ TypeOK
  BY InitWalk DEF WInv
<1>2. /\ \A d \in Dirs, n \in Names :
            entry[d][n] = IF n.id \in Msgs /\ ~n.seen /\ sc.at[n.id] = d
                          THEN n.id ELSE NoFile
      /\ \A m \in Msgs : file[m].msg = m
      /\ \A m \in Msgs : m # NoFile
  <2>1. \A d \in Dirs, n \in Names :
           entry[d][n] = IF n.id \in Msgs /\ ~n.seen /\ sc.at[n.id] = d
                         THEN n.id ELSE NoFile
    BY DEF Init
  <2>2. \A m \in Msgs : m \in Ids /\ m # NoFile
    BY Constants
  <2>3. \A m \in Msgs : file[m].msg = m
    BY <2>2 DEF Init, NoContent
  <2>4. QED
    BY <2>1, <2>2, <2>3
<1>3. \A p \in Procs : /\ ~Past(p) /\ ~Pending(p) /\ pc[p] \in {"open", "done"}
                       /\ block[p] = 1 /\ sub[p] = "new" /\ ~error[p]
  BY DEF Init, Past, Pending
<1>4. OneName
  <2>1. SUFFICES ASSUME NEW d \in Dirs, NEW dd \in Dirs, NEW n \in Names, NEW nn \in Names,
                        entry[d][n] # NoFile, entry[d][n] = entry[dd][nn]
                 PROVE  d = dd /\ n = nn
    BY DEF OneName
  <2>2. /\ n.id = nn.id /\ ~n.seen /\ ~nn.seen
        /\ sc.at[n.id] = d /\ sc.at[nn.id] = dd
    BY <1>2, <2>1
  <2>3. n.seen = FALSE /\ nn.seen = FALSE
    BY <2>2 DEF Names
  <2>4. n = nn
    BY <2>2, <2>3 DEF Names
  <2>5. QED
    BY <2>2, <2>4
<1>5. Worked
  <2>1. faults = 0 /\ renames = 0 /\ made = NMsgs
    BY DEF Init
  <2>2. acted \in [Procs -> [Msgs -> Nat]]
    BY DEF Init
  <2>3. NMsgs <= made
    BY <2>1, Constants
  <2>4. \A p \in Procs : pc[p] \notin {"create", "rename", "write"}
    BY <1>3
  <2>5. QED
    BY <1>2, <1>3, <2>1, <2>2, <2>3, <2>4 DEF Worked, Busy
<1>6. Settling
  <2>1. ASSUME NEW p \in Procs, NEW m \in Msgs
        PROVE  Settled(p, m)
    <3>1. acted[p][m] = 0
      BY DEF Init
    <3>2. ASSUME NEW d \in Dirs, NEW n \in Names, Of(m, d, n)
          PROVE  entry[d][n] = m /\ (Rule(p).act = "label" => Fresh(p, d, n))
      <4>1. entry[d][n] = n.id /\ n.id \in Msgs
        BY <1>2, <3>2 DEF Of
      <4>2. entry[d][n] = m
        BY <1>2, <3>2, <4>1 DEF Of
      <4>3. Rule(p).act = "label" => Fresh(p, d, n)
        BY <4>1 DEF Fresh
      <4>4. QED
        BY <4>1, <4>2, <4>3
    <3>3. QED
      BY <1>3, <3>1, <3>2 DEF Settled
  <2>2. QED
    BY <2>1 DEF Settling
<1>7. Looking
  <2>1. ASSUME NEW p \in Procs, pc[p] = "done"
        PROVE  block[p] > Len(sc.blocks[p])
    <3>1. sc.blocks[p] = << >> /\ block[p] = 1
      BY <2>1 DEF Init
    <3>2. QED
      BY <3>1
  <2>2. ASSUME NEW p \in Procs, NEW m \in Msgs
        PROVE  Waiting(p, m)
    <3>1. PICK d, n : d = sc.at[m] /\ n = [id |-> m, seen |-> FALSE]
      OBVIOUS
    <3>2. d \in Dirs /\ n \in Names /\ n.id = m /\ ~n.seen
      BY <1>1, <3>1, ScenarioType, Constants DEF Names
    <3>3. entry[d][n] = m
      BY <1>2, <3>1, <3>2
    <3>4. ASSUME NEW b \in 1 .. Len(sc.blocks[p])
          PROVE  Ahead(p, b, d, n)
      <4>1. sc.blocks[p] # << >>
        BY <3>4
      <4>2. pc[p] = "open" /\ block[p] = 1 /\ sub[p] = "new"
        BY <4>1 DEF Init
      <4>3. b = 1 \/ 1 < b
        BY <3>4
      <4>4. QED
        BY <4>2, <4>3 DEF Ahead
    <3>5. WaitsAt(p, m, d, n)
      BY <3>1, <3>3, <3>4 DEF WaitsAt
    <3>6. QED
      BY <3>2, <3>5 DEF Waiting
  <2>3. QED
    BY <2>1, <2>2 DEF Looking
<1>8. Quiet
  BY <1>3 DEF Quiet, Untroubled
<1>9. QED
  BY <1>1, <1>4, <1>5, <1>6, <1>7, <1>8 DEF AInv

LEMMA AloneStep == AInv /\ [Next]_vars => AInv'
<1> SUFFICES ASSUME AInv, [Next]_vars PROVE AInv'
  OBVIOUS
<1>1. WInv'
  BY WalkStep DEF AInv
<1>2. CASE UNCHANGED vars
  <2>1. UNCHANGED <<sc, entry, file, made, pc, block, sub, stream, cur, error, handled,
                    acted, touched, broken, faults, renames>>
    BY <1>2 DEF vars
  <2>2. \A p \in Procs : /\ Past(p)' <=> Past(p)
                         /\ Pending(p)' <=> Pending(p)
                         /\ Rule(p)' = Rule(p) /\ Root(p)' = Root(p)
                         /\ Here(p)' = Here(p) /\ Target(p)' = Target(p)
    BY <2>1 DEF Past, Pending, Rule, Root, Here, Target
  <2>3. OneName'
    BY <2>1 DEF AInv, OneName
  <2>4. Worked'
    <3>1. \A p \in Procs, m \in Msgs : Busy(p, m)' <=> Busy(p, m)
      BY <2>1, <2>2 DEF Busy
    <3>2. QED
      BY <2>1, <2>2, <3>1 DEF AInv, Worked
  <2>5. Settling'
    BY <2>1, <2>2 DEF AInv, Settling, Settles, Alone, Settled, Of, Fresh
  <2>6. Looking'
    BY <2>1 DEF AInv, Looking, Alone, Waiting, WaitsAt, Ahead
  <2>7. Quiet'
    BY <2>1, <2>2 DEF AInv, Quiet, Peaceful, Alone, Untroubled
  <2>8. QED
    BY <1>1, <2>3, <2>4, <2>5, <2>6, <2>7 DEF AInv
<1>3. CASE (\E p \in Procs : Step(p)) \/ MarkSeen
  BY <1>1, <1>3, OneNameKeeps, WorkedKeeps, SettlingKeeps, LookingKeeps, QuietKeeps
  DEF AInv
<1>4. QED
  BY <1>2, <1>3 DEF Next, Terminated

\* A rule that settles acts at most once on each message that nobody else changes,
\* although the files it creates may turn up in the directories it has yet to read,
\* and whatever other processes and the reader do meanwhile.
THEOREM ActedOnce == Spec => []ActsOnce
<1>1. AInv => ActsOnce
  BY DEF AInv, Settling, Settled, ActsOnce
<1>2. QED
  BY <1>1, AloneInit, AloneStep, PTL DEF Spec

\* When a process is done, it has handled every message that nobody else changed and
\* that was in a maildir it walked to its end: renames from new to cur, other
\* entries of the directories coming and going, and whatever the rule did to the
\* other messages do not make readdir() miss it.
THEOREM AllHandled == Spec => []EveryMessageHandled
<1>1. AInv => EveryMessageHandled
  <2>1. SUFFICES ASSUME AInv, NEW p \in Procs, NEW m \in Msgs, pc[p] = "done",
                        Alone(p, m), NEW b \in 1 .. Len(sc.blocks[p]),
                        <<p, b>> \notin broken, sc.blocks[p][b] = sc.at[m].root,
                        m \notin handled[p]
                 PROVE  FALSE
    BY DEF EveryMessageHandled
  <2>2. PICK d \in Dirs, n \in Names : WaitsAt(p, m, d, n)
    BY <2>1 DEF AInv, Looking, Waiting
  <2>3. Ahead(p, b, d, n)
    BY <2>1, <2>2 DEF WaitsAt
  <2>4. /\ block[p] > Len(sc.blocks[p]) /\ block[p] \in Nat
        /\ sc.blocks[p] \in Seq(Roots)
    BY <2>1, Parts, ScenarioType DEF AInv, Looking, WInv
  <2>5. QED
    BY <2>1, <2>3, <2>4 DEF Ahead
<1>2. QED
  BY <1>1, AloneInit, AloneStep, PTL DEF Spec

\* Where no system call fails and nobody else changes a message, no process reports
\* an error: no name it is yet to read, and none it works with, is one it has
\* itself removed.
THEOREM NoOwnError == Spec => []NoErrorOfItsOwn
<1>1. AInv => NoErrorOfItsOwn
  BY DEF AInv, Quiet, Peaceful, Untroubled, NoErrorOfItsOwn
<1>2. QED
  BY <1>1, AloneInit, AloneStep, PTL DEF Spec

=============================================================================
