------------------------------ MODULE WalkProofs ------------------------------
(***************************************************************************)
(* Proof that processes and a mail reader working on the same maildirs     *)
(* lose no message but those Walk says are copied or discarded before they *)
(* are complete: for any number of processes, whatever their rules, and    *)
(* any number of messages, of failing system calls and of renames.         *)
(***************************************************************************)
EXTENDS Walk, TLAPS

\* The points at which a message has been parsed and is to be acted upon, and
\* those at which a process has a file of its own that it may remove again.
Past(p) == pc[p] \in {"create", "rename", "write", "unlink"}
Pending(p) == \/ pc[p] \in {"rename", "write", "undo"}
              \/ pc[p] = "unlink" /\ Rule(p).act # "discard"

\* The unique parts of the names of those files.
Tentative == {cur[p].dfile : p \in {q \in Procs : Pending(q)}}

NameOf(p) == cur[p].name.id

\* Numbers are given out once, to a file and to the name it is created with.  A
\* file is only ever renamed to a higher number, and to one of the same message;
\* the file created with that number is then none that is written to.
Numbered ==
    /\ \A d \in Dirs, n \in Names :
          LET i == entry[d][n]
          IN  i # NoFile => /\ i <= n.id /\ n.id <= made
                            /\ file[i].msg = file[n.id].msg
    /\ \A d \in Dirs, n \in Names :
          entry[d][n] \notin {NoFile, n.id} =>
              /\ ~file[n.id].whole
              /\ \A dd \in Dirs, nn \in Names : nn.id = n.id =>
                    entry[dd][nn] \in {NoFile, n.id, entry[d][n]}
    /\ \A i \in Ids : IF i <= made THEN file[i].msg \in Msgs ELSE ~file[i].whole
    /\ \A p \in Procs : /\ NameOf(p) <= made
                        /\ \A n \in stream[p].must \cup stream[p].may : n.id <= made

\* What a process knows of the message it acts upon.
Parsed ==
    \A p \in Procs : Past(p) =>
        /\ cur[p].parsed.msg = file[NameOf(p)].msg
        /\ pc[p] = "rename" => Renames(p)
        /\ pc[p] \in {"write", "unlink"} => ~Renames(p)
        /\ cur[p].parsed.whole \/ Renames(p) \/ cur[p].parsed.msg \in torn

\* The file of a process is the only one under its number, until the process
\* has renamed the message to it or completed it.
Owned ==
    /\ \A p \in Procs : Pending(p) =>
          /\ cur[p].dfile \in Ids /\ cur[p].dfile <= made
          /\ cur[p].dname.id = cur[p].dfile /\ NameOf(p) < cur[p].dfile
          /\ \A d \in Dirs, n \in Names :
                n.id = cur[p].dfile => entry[d][n] \in {NoFile, cur[p].dfile}
          /\ Past(p) => file[cur[p].dfile].msg = cur[p].parsed.msg
          /\ pc[p] \in {"rename", "write"} => ~file[cur[p].dfile].whole
    /\ \A p, q \in Procs :
          Pending(p) /\ Pending(q) /\ p # q => cur[p].dfile # cur[q].dfile

\* Nobody has parsed a complete message under a name that stands for a file
\* still to be renamed over or written.
Unread ==
    \A p, q \in Procs : Past(q) /\ cur[q].parsed.whole =>
        /\ pc[p] = "rename" => NameOf(q) # cur[p].dfile
        /\ pc[p] = "write" =>
              \A d \in Dirs, n \in Names :
                 entry[d][n] = cur[p].dfile => NameOf(q) # n.id

Excused(m) == m \in dropped \/ m \in torn

\* Message m is complete in some place with a number of at least k that no
\* process but the one whose file is k may remove again.
SafeAt(m, k, d, n) ==
    /\ entry[d][n] # NoFile /\ n.id >= k
    /\ n.id \notin Tentative \ {k}
    /\ file[entry[d][n]].whole /\ file[entry[d][n]].msg = m
Safe(m, k) == \E d \in Dirs, n \in Names : SafeAt(m, k, d, n)

\* A file being written is linked where nobody removes it again either.
ReachableAt(k, d, n) == entry[d][n] = k /\ n.id \notin Tentative \ {k}
Reachable(k) == \E d \in Dirs, n \in Names : ReachableAt(k, d, n)

\* Every message is safe, and before it unlinks the message a process has copied
\* it is safe elsewhere: under a higher number than that of what it unlinks.
Kept ==
    /\ \A m \in Msgs : Excused(m) \/ Safe(m, 0)
    /\ \A p \in Procs :
          /\ pc[p] = "write" =>
                Excused(cur[p].parsed.msg) \/ Reachable(cur[p].dfile)
          /\ pc[p] = "unlink" /\ Rule(p).act # "discard" =>
                Excused(cur[p].parsed.msg)
                \/ Safe(cur[p].parsed.msg, cur[p].dfile)

WInv == TypeOK /\ Numbered /\ Parsed /\ Owned /\ Unread /\ Kept

-----------------------------------------------------------------------------
Layout == [Dirs -> [Names -> Ids \cup {NoFile}]]
StreamSet == [must : SUBSET Names, may : SUBSET Names]
Place == [name : Names, parsed : Contents, dname : Names,
          dfile : Ids \cup {NoFile}]

\* The constants and the directories of a process.
LEMMA Constants ==
    /\ NMsgs \in Nat /\ MaxIds \in Nat /\ 1 <= NMsgs /\ NMsgs < MaxIds
    /\ Msgs \subseteq Ids /\ NoFile \notin Ids /\ Ids \subseteq Nat
    /\ NoName \in Names /\ NoContent \in Contents
  BY WalkAssumption DEF Msgs, Ids, NoFile, NoName, NoContent, Names, Contents

LEMMA ScenarioType ==
    ASSUME TypeOK
    PROVE  /\ sc.blocks \in [Procs -> Seq(Roots)] /\ sc.rule \in [Procs -> Rules]
           /\ sc.at \in [Msgs -> Dirs] /\ sc.faults \in Nat /\ sc.renames \in Nat
  BY ScenariosAssumption DEF TypeOK, Scenario

LEMMA PlaceTypes ==
    ASSUME TypeOK, NEW p \in Procs, pc[p] # "done"
    PROVE  /\ Root(p) \in Roots /\ Here(p) \in Dirs /\ Target(p) \in Dirs
           /\ Rule(p) \in Rules
<1>1. Rule(p) \in Rules /\ sc.blocks[p] \in Seq(Roots)
  BY ScenarioType DEF Rule
<1>2. Root(p) \in Roots
  BY <1>1 DEF TypeOK, Root
<1>3. sub[p] \in Subdirs /\ "cur" \in Subdirs
  BY DEF TypeOK, Subdirs
<1>4. Here(p) \in Dirs
  BY <1>2, <1>3 DEF Here, Dirs
<1>5. Target(p) \in Dirs
  BY <1>1, <1>2, <1>3, <1>4 DEF Target, Dirs, Rules
<1>6. QED
  BY <1>1, <1>2, <1>4, <1>5

\* The system calls that change directories.
LEMMA LinkEffect ==
    ASSUME entry \in Layout, NEW d \in Dirs, NEW n \in Names, NEW i \in Ids
    PROVE  /\ [entry EXCEPT ![d][n] = i] \in Layout
           /\ \A x \in Dirs, y \in Names :
                 [entry EXCEPT ![d][n] = i][x][y] =
                     IF x = d /\ y = n THEN i ELSE entry[x][y]
  BY DEF Layout

LEMMA UnlinkEffect ==
    ASSUME entry \in Layout, NEW d \in Dirs, NEW n \in Names
    PROVE  /\ Unlink(d, n) \in Layout
           /\ \A x \in Dirs, y \in Names :
                 Unlink(d, n)[x][y] =
                     IF x = d /\ y = n THEN NoFile ELSE entry[x][y]
  BY DEF Layout, Unlink

LEMMA RenameEffect ==
    ASSUME entry \in Layout, NEW d \in Dirs, NEW n \in Names,
           NEW dd \in Dirs, NEW nn \in Names
    PROVE  /\ Rename(d, n, dd, nn) \in Layout
           /\ \A x \in Dirs, y \in Names :
                 Rename(d, n, dd, nn)[x][y] =
                     IF x = dd /\ y = nn THEN entry[d][n]
                     ELSE IF x = d /\ y = n THEN NoFile
                     ELSE entry[x][y]
<1> DEFINE e == [entry EXCEPT ![d][n] = NoFile]
<1>1. /\ e \in Layout
      /\ \A x \in Dirs, y \in Names :
            e[x][y] = IF x = d /\ y = n THEN NoFile ELSE entry[x][y]
  BY DEF Layout
<1>2. entry[d][n] \in Ids \cup {NoFile}
  BY DEF Layout
<1>3. Rename(d, n, dd, nn) = [e EXCEPT ![dd][nn] = entry[d][n]]
  BY DEF Rename
<1> HIDE DEF e
<1>4. QED
  BY <1>1, <1>2, <1>3 DEF Layout

\* Directory streams show names that are or were in the directory.
LEMMA StreamsType ==
    ASSUME TypeOK, NEW e
    PROVE  /\ Streams(e) \in [Procs -> [must : SUBSET Names, may : SUBSET Names]]
           /\ \A p \in Procs :
                 \A n \in Streams(e)[p].must \cup Streams(e)[p].may :
                    /\ n \in Names
                    /\ \/ n \in stream[p].must \cup stream[p].may
                       \/ pc[p] # "done" /\ e[Here(p)][n] # NoFile
<1> SUFFICES ASSUME NEW p \in Procs
             PROVE  /\ Streams(e)[p] \in [must : SUBSET Names, may : SUBSET Names]
                    /\ \A n \in Streams(e)[p].must \cup Streams(e)[p].may :
                          /\ n \in Names
                          /\ \/ n \in stream[p].must \cup stream[p].may
                             \/ pc[p] # "done" /\ e[Here(p)][n] # NoFile
  BY DEF Streams
<1> DEFINE d == Here(p)
           gone == {n \in stream[p].must : e[d][n] = NoFile}
           added == {n \in Names : entry[d][n] = NoFile /\ e[d][n] # NoFile}
<1>1. stream[p] \in [must : SUBSET Names, may : SUBSET Names]
  BY DEF TypeOK
<1>2. CASE pc[p] \in {"open", "done"}
  BY <1>1, <1>2 DEF Streams
<1>3. CASE pc[p] \notin {"open", "done"}
  <2>1. Streams(e)[p] = [must |-> stream[p].must \ gone,
                         may |-> stream[p].may \cup gone \cup added]
    BY <1>3 DEF Streams
  <2>2. gone \subseteq stream[p].must /\ added \subseteq Names
    OBVIOUS
  <2>3. \A n \in added : e[d][n] # NoFile
    OBVIOUS
  <2> HIDE DEF gone, added
  <2>4. QED
    BY <1>1, <1>3, <2>1, <2>2, <2>3
<1>4. QED
  BY <1>2, <1>3

-----------------------------------------------------------------------------
\* The initial states.
LEMMA InitTypes == Init => TypeOK
<1> SUFFICES ASSUME Init PROVE TypeOK
  OBVIOUS
<1>1. sc \in Scenarios /\ sc.blocks \in [Procs -> Seq(Roots)]
  BY ScenariosAssumption DEF Init, Scenario
<1>2. entry \in [Dirs -> [Names -> Ids \cup {NoFile}]]
  BY Constants DEF Init
<1>3. file \in [Ids -> Contents]
  BY Constants DEF Init, Contents, NoContent
<1>4. made \in Ids
  <2>1. made = NMsgs
    BY DEF Init
  <2>2. QED
    BY <2>1, Constants DEF Ids
<1>5. pc \in [Procs -> PCs]
  BY DEF Init, PCs
<1>6. \A p \in Procs : pc[p] # "done" => block[p] \in DOMAIN sc.blocks[p]
  <2> SUFFICES ASSUME NEW p \in Procs, pc[p] # "done"
               PROVE  block[p] \in DOMAIN sc.blocks[p]
    OBVIOUS
  <2>1. sc.blocks[p] \in Seq(Roots) /\ sc.blocks[p] # << >> /\ block[p] = 1
    BY <1>1 DEF Init
  <2>2. QED
    BY <2>1
<1>7. block \in [Procs -> Nat] /\ sub \in [Procs -> Subdirs]
  BY DEF Init, Subdirs
<1>8. stream \in [Procs -> [must : SUBSET Names, may : SUBSET Names]]
  BY DEF Init
<1>9. cur \in [Procs -> [name : Names, parsed : Contents, dname : Names,
                         dfile : Ids \cup {NoFile}]]
  BY Constants DEF Init
<1>10. /\ error \in [Procs -> BOOLEAN] /\ handled \in [Procs -> SUBSET Msgs]
       /\ touched \in [Msgs -> SUBSET (Procs \cup {"reader"})]
  BY DEF Init
<1>11. QED
  BY <1>1, <1>2, <1>3, <1>4, <1>5, <1>6, <1>7, <1>8, <1>9, <1>10 DEF TypeOK

LEMMA InitWalk == Init => WInv
<1> SUFFICES ASSUME Init PROVE WInv
  OBVIOUS
<1>1. TypeOK
  BY InitTypes
<1>2. \A p \in Procs : /\ ~Past(p) /\ ~Pending(p) /\ cur[p].name = NoName
                       /\ stream[p].must = {} /\ stream[p].may = {}
  BY DEF Init, Past, Pending
<1>3. /\ made = NMsgs
      /\ \A i \in Ids : IF i \in Msgs THEN file[i].msg = i /\ file[i].whole
                        ELSE ~file[i].whole
  BY Constants DEF Init, NoContent
<1>4. /\ \A d \in Dirs, n \in Names :
            entry[d][n] = IF n.id \in Msgs /\ ~n.seen /\ sc.at[n.id] = d
                          THEN n.id ELSE NoFile
      /\ \A n \in Names : n.id \in Ids
  BY DEF Init, Names
<1>5. Numbered
  <2>1. \A d \in Dirs, n \in Names :
           entry[d][n] # NoFile => /\ entry[d][n] = n.id
                                   /\ n.id <= made
    BY <1>3, <1>4, Constants DEF Msgs
  <2>2. \A i \in Ids : IF i <= made THEN file[i].msg \in Msgs ELSE ~file[i].whole
    BY <1>3, Constants DEF Msgs, Ids
  <2>3. \A p \in Procs : NameOf(p) <= made
    BY <1>2, <1>3, Constants DEF NameOf, NoName
  <2>4. \A d \in Dirs, n \in Names :
           LET i == entry[d][n]
           IN  i # NoFile => /\ i <= n.id /\ n.id <= made
                             /\ file[i].msg = file[n.id].msg
    <3>1. \A n \in Names : n.id \in Nat
      BY <1>4, Constants
    <3>2. QED
      BY <2>1, <3>1
  <2>5. \A d \in Dirs, n \in Names : entry[d][n] \in {NoFile, n.id}
    BY <2>1
  <2>6. \A p \in Procs : \A n \in stream[p].must \cup stream[p].may : n.id <= made
    BY <1>2
  <2>7. QED
    BY <2>2, <2>3, <2>4, <2>5, <2>6 DEF Numbered
<1>6. Parsed /\ Owned /\ Unread
  BY <1>2 DEF Parsed, Owned, Unread
<1>7. Kept
  <2>1. Tentative = {}
    BY <1>2 DEF Tentative
  <2>2. ASSUME NEW m \in Msgs PROVE Safe(m, 0)
    <3> DEFINE n == [id |-> m, seen |-> FALSE]
               d == sc.at[m]
    <3>1. n \in Names /\ d \in Dirs /\ m \in Ids
      BY <1>1, ScenarioType, Constants DEF Names
    <3>2. entry[d][n] = m /\ n.id = m
      BY <1>4, <3>1
    <3>3. file[m].msg = m /\ file[m].whole
      BY <1>3, <3>1
    <3> HIDE DEF n, d
    <3>4. QED
      BY <2>1, <3>1, <3>2, <3>3, Constants DEF Safe, SafeAt
  <2>3. QED
    BY <1>2, <2>2 DEF Kept, Past
<1>8. QED
  BY <1>1, <1>5, <1>6, <1>7 DEF WInv

-----------------------------------------------------------------------------
\* A step of process p leaves the others where they are.
Frame(p) ==
    /\ sc' = sc
    /\ \A q \in Procs \ {p} :
          /\ pc'[q] = pc[q] /\ cur'[q] = cur[q]
          /\ block'[q] = block[q] /\ sub'[q] = sub[q]

LEMMA FrameHolds ==
    ASSUME NEW p \in Procs, TypeOK, Step(p)
    PROVE  Frame(p)
<1>1. /\ pc \in [Procs -> PCs] /\ cur \in [Procs -> Place]
      /\ block \in [Procs -> Nat] /\ sub \in [Procs -> Subdirs]
  BY DEF TypeOK, Place
<1>2. CASE Open(p)
  BY <1>1, <1>2 DEF Open, GiveUp, NextBlock, Goto, walkVars, Frame
<1>3. CASE Read(p)
  BY <1>1, <1>3 DEF Read, GiveUp, NextBlock, Goto, walkVars, Frame
<1>4. CASE EndOfDirectory(p)
  BY <1>1, <1>4 DEF EndOfDirectory, NextBlock, Goto, Frame
<1>5. CASE Parse(p)
  <2>1. \E c : pc' = [pc EXCEPT ![p] = c]
    BY <1>5 DEF Parse, Goto
  <2>2. cur' = cur \/ \E c : cur' = [cur EXCEPT ![p].parsed = c]
    BY <1>5 DEF Parse
  <2>3. UNCHANGED <<sc, block, sub>>
    BY <1>5 DEF Parse, walkVars
  <2>4. QED
    BY <1>1, <2>1, <2>2, <2>3 DEF Frame
<1>6. CASE Create(p)
  BY <1>1, <1>6 DEF Create, Goto, walkVars, Frame
<1>7. CASE RenameSource(p) \/ WriteCopy(p) \/ UnlinkSource(p)
  <2>1. \E c : pc' = [pc EXCEPT ![p] = c]
    BY <1>7 DEF RenameSource, WriteCopy, UnlinkSource, Goto
  <2>2. UNCHANGED <<sc, block, sub, cur>>
    BY <1>7 DEF RenameSource, WriteCopy, UnlinkSource, walkVars
  <2>3. QED
    BY <1>1, <2>1, <2>2 DEF Frame
<1>8. CASE Undo(p) \/ Finish(p)
  BY <1>1, <1>8 DEF Undo, Finish, Goto, walkVars, Frame
<1>9. QED
  BY <1>2, <1>3, <1>4, <1>5, <1>6, <1>7, <1>8 DEF Step

\* The types of a process after its step.
LEMMA TypeFrame ==
    ASSUME TypeOK, NEW p \in Procs, sc' = sc, NEW c \in PCs, Goto(p, c),
           UNCHANGED walkVars, pc[p] # "done" \/ c = "done",
           entry' \in Layout, file' \in [Ids -> Contents], made' \in Ids,
           stream' \in [Procs -> StreamSet],
           cur' \in [Procs -> Place], error' \in [Procs -> BOOLEAN],
           handled' \in [Procs -> SUBSET Msgs],
           touched' \in [Msgs -> SUBSET (Procs \cup {"reader"})]
    PROVE  TypeOK'
<1>1. pc' \in [Procs -> PCs]
  BY DEF TypeOK, Goto
<1>2. \A q \in Procs : pc'[q] # "done" => block'[q] \in DOMAIN sc'.blocks[q]
  BY DEF TypeOK, Goto, walkVars
<1>3. QED
  BY <1>1, <1>2 DEF TypeOK, Layout, Place, StreamSet, walkVars

LEMMA NextBlockType ==
    ASSUME TypeOK, NEW p \in Procs, sc' = sc, pc[p] # "done", NextBlock(p)
    PROVE  /\ pc' \in [Procs -> PCs] /\ block' \in [Procs -> Nat]
           /\ sub' \in [Procs -> Subdirs]
           /\ pc'[p] \in {"open", "done"}
           /\ \A q \in Procs : pc'[q] # "done" => block'[q] \in DOMAIN sc'.blocks[q]
<1>1. sc.blocks[p] \in Seq(Roots) /\ block[p] \in 1 .. Len(sc.blocks[p])
  BY ScenarioType DEF TypeOK
<1>2. /\ block' = [block EXCEPT ![p] = block[p] + 1]
      /\ pc' = [pc EXCEPT ![p] = IF block[p] < Len(sc.blocks[p]) THEN "open"
                                 ELSE "done"]
      /\ sub' = [sub EXCEPT ![p] = "new"]
  BY DEF NextBlock, Goto
<1>3. /\ pc' \in [Procs -> PCs] /\ block' \in [Procs -> Nat]
      /\ sub' \in [Procs -> Subdirs] /\ pc'[p] \in {"open", "done"}
  BY <1>2 DEF TypeOK, PCs, Subdirs
<1>4. pc'[p] # "done" => block'[p] \in DOMAIN sc'.blocks[p]
  BY <1>1, <1>2 DEF TypeOK
<1>5. \A q \in Procs \ {p} : pc'[q] = pc[q] /\ block'[q] = block[q]
  BY <1>2 DEF TypeOK
<1>6. QED
  BY <1>3, <1>4, <1>5 DEF TypeOK

\* Every step keeps the types.
LEMMA Parts ==
    ASSUME TypeOK
    PROVE  /\ entry \in Layout /\ file \in [Ids -> Contents] /\ made \in Ids
           /\ pc \in [Procs -> PCs] /\ sub \in [Procs -> Subdirs]
           /\ stream \in [Procs -> StreamSet]
           /\ cur \in [Procs -> Place] /\ error \in [Procs -> BOOLEAN]
           /\ handled \in [Procs -> SUBSET Msgs] /\ block \in [Procs -> Nat]
           /\ touched \in [Msgs -> SUBSET (Procs \cup {"reader"})]
  BY DEF TypeOK, Layout, Place, StreamSet

\* What is linked under a name.
LEMMA LinkedFile ==
    ASSUME TypeOK, Numbered, NEW d \in Dirs, NEW n \in Names,
           entry[d][n] # NoFile
    PROVE  /\ entry[d][n] \in Ids /\ n.id \in Ids /\ made \in Ids
           /\ entry[d][n] \in Nat /\ n.id \in Nat /\ made \in Nat
           /\ entry[d][n] <= n.id /\ n.id <= made /\ entry[d][n] <= made
           /\ file[entry[d][n]] \in Contents /\ file[entry[d][n]].msg \in Msgs
           /\ file[n.id].msg = file[entry[d][n]].msg
<1>1. entry[d][n] \in Ids /\ n.id \in Ids /\ made \in Ids
  <2>1. entry \in Layout /\ made \in Ids
    BY Parts
  <2>2. QED
    BY <2>1 DEF Layout, Names
<1>2. /\ entry[d][n] <= n.id /\ n.id <= made
      /\ file[n.id].msg = file[entry[d][n]].msg
  BY DEF Numbered
<1>3. entry[d][n] \in Nat /\ n.id \in Nat /\ made \in Nat
  BY <1>1 DEF Ids
<1>4. entry[d][n] <= made
  BY <1>2, <1>3
<1>5. file[entry[d][n]] \in Contents /\ file[entry[d][n]].msg \in Msgs
  BY <1>1, <1>4, Parts DEF Numbered
<1>6. QED
  BY <1>1, <1>2, <1>3, <1>4, <1>5

LEMMA ReadTypes ==
    ASSUME TypeOK, Numbered, NEW p \in Procs, Open(p) \/ Read(p) \/ EndOfDirectory(p)
    PROVE  TypeOK'
<1>1. /\ pc[p] \in {"open", "read"} /\ sc' = sc /\ UNCHANGED fsVars
      /\ UNCHANGED <<handled, touched>>
  BY DEF Open, Read, EndOfDirectory, history
<1>2. cur' \in [Procs -> Place]
  <2>1. CASE cur' = cur
    BY <2>1, Parts
  <2>2. ASSUME NEW n \in Names, cur' = [cur EXCEPT ![p].name = n]
        PROVE  cur' \in [Procs -> Place]
    BY <2>2, Parts DEF Place
  <2>3. stream[p].must \subseteq Names /\ stream[p].may \subseteq Names
    BY DEF TypeOK
  <2>4. QED
    BY <2>1, <2>2, <2>3 DEF Open, Read, EndOfDirectory
<1>3. stream' \in [Procs -> StreamSet]
  <2>1. CASE Open(p)
    <3>1. [must |-> Linked(Here(p)), may |-> {}] \in StreamSet
      BY DEF Linked, StreamSet
    <3>2. QED
      BY <2>1, <3>1, Parts DEF Open
  <2>2. CASE Read(p)
    <3>1. \/ stream' = stream
          \/ \E n : stream' = [stream EXCEPT ![p].must = @ \ {n},
                                             ![p].may = @ \ {n}]
      BY <2>2 DEF Read
    <3>2. stream \in [Procs -> StreamSet]
      BY Parts
    <3>3. ASSUME NEW n, stream' = [stream EXCEPT ![p].must = @ \ {n},
                                                 ![p].may = @ \ {n}]
          PROVE  stream' \in [Procs -> StreamSet]
      <4> DEFINE s == [stream EXCEPT ![p].must = @ \ {n}]
      <4>1. s \in [Procs -> StreamSet]
        BY <3>2 DEF StreamSet
      <4>2. stream' = [s EXCEPT ![p].may = @ \ {n}]
        BY <3>3
      <4> HIDE DEF s
      <4>3. QED
        BY <4>1, <4>2 DEF StreamSet
    <3>4. QED
      BY <3>1, <3>2, <3>3
  <2>3. CASE EndOfDirectory(p)
    BY <2>3, Parts DEF EndOfDirectory
  <2>4. QED
    BY <2>1, <2>2, <2>3
<1>4. error' \in [Procs -> BOOLEAN]
  BY Parts DEF Open, Read, EndOfDirectory, GiveUp, Fail
<1>5. CASE NextBlock(p)
  BY <1>1, <1>2, <1>3, <1>4, <1>5, NextBlockType, Parts
  DEF TypeOK, fsVars, Layout, Place, StreamSet
<1>6. ASSUME NEW c \in PCs, Goto(p, c), c # "done", block' = block,
             sub' \in [Procs -> Subdirs]
      PROVE  TypeOK'
  <2>1. pc' \in [Procs -> PCs]
    BY <1>6, Parts DEF Goto
  <2>2. \A q \in Procs : pc'[q] # "done" => block'[q] \in DOMAIN sc'.blocks[q]
    BY <1>1, <1>6 DEF TypeOK, Goto
  <2>3. QED
    BY <1>1, <1>2, <1>3, <1>4, <1>6, <2>1, <2>2, Parts
    DEF TypeOK, fsVars, Layout, Place, StreamSet
<1>7. CASE Open(p)
  BY <1>5, <1>6, <1>7, Parts DEF Open, GiveUp, walkVars, PCs
<1>8. CASE Read(p)
  BY <1>5, <1>6, <1>8, Parts DEF Read, GiveUp, walkVars, PCs
<1>9. CASE EndOfDirectory(p)
  <2>1. CASE sub' = [sub EXCEPT ![p] = "cur"] /\ Goto(p, "open") /\ UNCHANGED block
    <3>1. sub' \in [Procs -> Subdirs]
      BY <2>1, Parts DEF Subdirs
    <3>2. QED
      BY <1>6, <2>1, <3>1 DEF PCs
  <2>2. QED
    BY <1>5, <1>9, <2>1 DEF EndOfDirectory
<1>10. QED
  BY <1>7, <1>8, <1>9

LEMMA ParseTypes ==
    ASSUME TypeOK, Numbered, NEW p \in Procs, Parse(p)
    PROVE  TypeOK'
<1>1. /\ pc[p] = "parse" /\ sc' = sc /\ UNCHANGED fsVars /\ UNCHANGED stream
      /\ UNCHANGED walkVars
  BY DEF Parse
<1> DEFINE i == entry[Here(p)][cur[p].name]
           c == file[i]
<1>2. i # NoFile => c \in Contents /\ c.msg \in Msgs
  <2>1. Here(p) \in Dirs /\ cur[p].name \in Names
    BY <1>1, PlaceTypes, Parts DEF Place
  <2>2. QED
    BY <2>1, LinkedFile
<1>3. /\ entry' \in Layout /\ file' \in [Ids -> Contents] /\ made' \in Ids
      /\ stream' \in [Procs -> StreamSet] /\ cur \in [Procs -> Place]
      /\ error \in [Procs -> BOOLEAN] /\ handled \in [Procs -> SUBSET Msgs]
      /\ touched \in [Msgs -> SUBSET (Procs \cup {"reader"})]
      /\ {"read", "unlink", "create"} \subseteq PCs
  BY <1>1, Parts DEF fsVars, PCs
<1>4. CASE i = NoFile
  <2>1. /\ Fail(p) /\ Goto(p, "read") /\ UNCHANGED <<cur, handled, touched>>
    BY <1>4 DEF Parse
  <2>2. error' \in [Procs -> BOOLEAN]
    BY <2>1, Parts DEF Fail
  <2>3. QED
    BY <1>1, <1>3, <2>1, <2>2, TypeFrame
<1>5. CASE i # NoFile
  <2>1. /\ cur' = [cur EXCEPT ![p].parsed = c]
        /\ handled' = [handled EXCEPT ![p] = @ \cup {c.msg}]
        /\ error' = error
        /\ touched' = touched
           \/ touched' = [touched EXCEPT ![c.msg] = @ \cup {p}]
        /\ Goto(p, "read") \/ Goto(p, "unlink") \/ Goto(p, "create")
    BY <1>5 DEF Parse
  <2>2. c \in Contents /\ c.msg \in Msgs
    BY <1>2, <1>5
  <2> HIDE DEF c, i
  <2>3. cur' \in [Procs -> Place]
    <3>1. cur \in [Procs -> Place]
      BY Parts
    <3>2. QED
      BY <2>1, <2>2, <3>1 DEF Place
  <2>4. handled' \in [Procs -> SUBSET Msgs]
    BY <2>1, <2>2, Parts
  <2>5. touched' \in [Msgs -> SUBSET (Procs \cup {"reader"})]
    BY <2>1, <2>2, Parts
  <2>6. QED
    BY <1>1, <1>3, <2>1, <2>3, <2>4, <2>5, TypeFrame
<1>6. QED
  BY <1>4, <1>5

\* The parts of a process's state.
LEMMA ProcessTypes ==
    ASSUME TypeOK, NEW p \in Procs
    PROVE  /\ cur[p].name \in Names /\ cur[p].dname \in Names
           /\ cur[p].parsed \in Contents /\ cur[p].dfile \in Ids \cup {NoFile}
           /\ NameOf(p) \in Ids /\ NameOf(p) \in Nat /\ cur[p].dfile \in Nat
           /\ cur[p].dname.id \in Ids /\ made \in Nat /\ made \in Ids
           /\ pc[p] # "done" => Here(p) \in Dirs /\ Target(p) \in Dirs
<1>1. cur[p] \in Place /\ made \in Ids
  BY Parts
<1>2. /\ cur[p].name \in Names /\ cur[p].dname \in Names
      /\ cur[p].parsed \in Contents /\ cur[p].dfile \in Ids \cup {NoFile}
  BY <1>1 DEF Place
<1>3. NameOf(p) \in Ids /\ cur[p].dname.id \in Ids
  BY <1>2 DEF Names, NameOf
<1>4. QED
  BY <1>1, <1>2, <1>3, PlaceTypes DEF Ids, NoFile

LEMMA ChangeType ==
    ASSUME TypeOK, NEW e \in Layout, Change(e)
    PROVE  entry' \in Layout /\ stream' \in [Procs -> StreamSet]
  BY StreamsType DEF Change, StreamSet

\* What the creation of a file changes.
LEMMA CreateEffect ==
    ASSUME TypeOK, NEW p \in Procs, Create(p), made' # made
    PROVE  \E n \in Names :
              /\ n.id = made + 1 /\ made' = made + 1 /\ made + 1 \in Ids
              /\ Change([entry EXCEPT ![Target(p)][n] = made + 1])
              /\ file' = [file EXCEPT ![made + 1].msg = cur[p].parsed.msg]
              /\ cur' = [cur EXCEPT ![p].dname = n, ![p].dfile = made + 1]
              /\ Goto(p, IF Renames(p) THEN "rename" ELSE "write")
              /\ UNCHANGED error
<1> DEFINE n == [id |-> made + 1,
                 seen |-> MsgFlags(Here(p), Target(p), cur[p].name.seen)]
<1>1. /\ made < MaxIds /\ made' = made + 1
      /\ Change([entry EXCEPT ![Target(p)][n] = made + 1])
      /\ file' = [file EXCEPT ![made + 1].msg = cur[p].parsed.msg]
      /\ cur' = [cur EXCEPT ![p].dname = n, ![p].dfile = made + 1]
      /\ Goto(p, IF Renames(p) THEN "rename" ELSE "write")
      /\ UNCHANGED error
  BY DEF Create, fsVars
<1>2. made + 1 \in Ids
  BY <1>1, Parts, Constants DEF Ids
<1>3. n \in Names /\ n.id = made + 1
  BY <1>2, ProcessTypes DEF Names, MsgFlags
<1> HIDE DEF n
<1>4. QED
  BY <1>1, <1>2, <1>3

LEMMA CreateTypes ==
    ASSUME TypeOK, NEW p \in Procs, Create(p)
    PROVE  TypeOK'
<1>1. /\ pc[p] = "create" /\ sc' = sc /\ UNCHANGED walkVars
      /\ UNCHANGED <<handled, touched>>
  BY DEF Create, history
<1>2. {"read", "rename", "write"} \subseteq PCs
  BY DEF PCs
<1>3. CASE made' # made
  <2>1. PICK n \in Names :
              /\ n.id = made + 1 /\ made' = made + 1 /\ made + 1 \in Ids
              /\ Change([entry EXCEPT ![Target(p)][n] = made + 1])
              /\ file' = [file EXCEPT ![made + 1].msg = cur[p].parsed.msg]
              /\ cur' = [cur EXCEPT ![p].dname = n, ![p].dfile = made + 1]
              /\ Goto(p, IF Renames(p) THEN "rename" ELSE "write")
              /\ UNCHANGED error
    BY <1>3, CreateEffect
  <2>2. [entry EXCEPT ![Target(p)][n] = made + 1] \in Layout
    BY <1>1, <2>1, ProcessTypes, Parts, LinkEffect
  <2>3. entry' \in Layout /\ stream' \in [Procs -> StreamSet]
    BY <2>1, <2>2, ChangeType
  <2>4. file' \in [Ids -> Contents]
    BY <2>1, ProcessTypes, Parts DEF Contents
  <2>5. cur' \in [Procs -> Place]
    <3> DEFINE c == [cur EXCEPT ![p].dname = n]
    <3>1. c \in [Procs -> Place]
      BY Parts DEF Place
    <3>2. cur' = [c EXCEPT ![p].dfile = made + 1]
      BY <2>1
    <3> HIDE DEF c
    <3>3. QED
      BY <2>1, <3>1, <3>2 DEF Place
  <2>6. QED
    BY <1>1, <1>2, <2>1, <2>3, <2>4, <2>5, TypeFrame, Parts
<1>4. CASE made' = made
  <2>1. /\ UNCHANGED <<entry, file, made, stream, cur>>
        /\ error' = [error EXCEPT ![p] = TRUE] /\ Goto(p, "read")
    BY <1>4, Parts, Constants DEF Create, fsVars, Fail
  <2>2. QED
    BY <1>1, <1>2, <2>1, TypeFrame, Parts
<1>5. QED
  BY <1>3, <1>4

\* The steps that rename, write and unlink.
LEMMA ActTypes ==
    ASSUME TypeOK, NEW p \in Procs,
           RenameSource(p) \/ WriteCopy(p) \/ UnlinkSource(p) \/ Undo(p) \/ Finish(p)
    PROVE  TypeOK'
<1>1. /\ pc[p] # "done" /\ sc' = sc /\ UNCHANGED walkVars
      /\ UNCHANGED <<made, cur, handled, touched>>
  BY DEF RenameSource, WriteCopy, UnlinkSource, Undo, Finish, history, fsVars
<1>2. \E c \in PCs : Goto(p, c) /\ (pc[p] # "done" \/ c = "done")
  BY <1>1 DEF RenameSource, WriteCopy, UnlinkSource, Undo, Finish, PCs
<1>3. error' \in [Procs -> BOOLEAN]
  BY Parts DEF RenameSource, WriteCopy, UnlinkSource, Undo, Finish, Fail,
     history
<1>4. entry' \in Layout /\ stream' \in [Procs -> StreamSet]
  <2>1. CASE UNCHANGED <<entry, stream>>
    BY <2>1, Parts
  <2>2. /\ Rename(Here(p), cur[p].name, Target(p), cur[p].dname) \in Layout
        /\ Unlink(Here(p), cur[p].name) \in Layout
        /\ Unlink(Target(p), cur[p].dname) \in Layout
    BY <1>1, ProcessTypes, Parts, RenameEffect, UnlinkEffect
  <2>3. \/ UNCHANGED <<entry, stream>>
        \/ Change(Rename(Here(p), cur[p].name, Target(p), cur[p].dname))
        \/ Change(Unlink(Here(p), cur[p].name))
        \/ Change(Unlink(Target(p), cur[p].dname))
    BY DEF RenameSource, WriteCopy, UnlinkSource, Undo, Finish, fsVars
  <2>4. QED
    BY <2>1, <2>2, <2>3, ChangeType
<1>5. file' \in [Ids -> Contents]
  <2>1. CASE WriteCopy(p)
    <3> DEFINE c == [cur[p].parsed EXCEPT !.label = @ \/ Rule(p).act = "label"]
    <3>1. c \in Contents
      BY ProcessTypes DEF Contents
    <3>2. file' = [file EXCEPT ![cur[p].dfile] = c]
      BY <2>1 DEF WriteCopy
    <3> HIDE DEF c
    <3>3. QED
      BY <3>1, <3>2, Parts
  <2>2. CASE UNCHANGED file
    BY <2>2, Parts
  <2>3. QED
    BY <2>1, <2>2 DEF RenameSource, UnlinkSource, Undo, Finish, fsVars
<1>6. QED
  BY <1>1, <1>2, <1>3, <1>4, <1>5, TypeFrame, Parts

LEMMA MarkTypes ==
    ASSUME TypeOK, MarkSeen
    PROVE  TypeOK'
<1>1. PICK d \in Dirs, n \in Names :
          LET dd == [d EXCEPT !.sub = "cur"]
              nn == [n EXCEPT !.seen = TRUE]
          IN  /\ Change(Rename(d, n, dd, nn))
              /\ touched' = IF d = dd
                            THEN [touched EXCEPT ![file[entry[d][n]].msg] =
                                     @ \cup {"reader"}]
                            ELSE touched
  BY DEF MarkSeen
<1>2. [d EXCEPT !.sub = "cur"] \in Dirs /\ [n EXCEPT !.seen = TRUE] \in Names
  BY DEF Dirs, Subdirs, Names
<1>3. entry' \in Layout /\ stream' \in [Procs -> StreamSet]
  BY <1>1, <1>2, RenameEffect, ChangeType, Parts
<1>4. touched' \in [Msgs -> SUBSET (Procs \cup {"reader"})]
  BY <1>1, Parts
<1>5. QED
  BY <1>3, <1>4 DEF MarkSeen, TypeOK, walkVars, Layout, StreamSet

LEMMA TypeStep == TypeOK /\ Numbered /\ [Next]_vars => TypeOK'
<1> SUFFICES ASSUME TypeOK, Numbered, [Next]_vars PROVE TypeOK'
  OBVIOUS
<1>1. CASE UNCHANGED vars
  BY <1>1 DEF TypeOK, vars
<1>2. QED
  BY <1>1, ReadTypes, ParseTypes, CreateTypes, ActTypes, MarkTypes
  DEF Next, Step, Terminated

-----------------------------------------------------------------------------
\* What a step of process p leaves of another one.
LEMMA FrameFacts ==
    ASSUME NEW p \in Procs, Frame(p), NEW q \in Procs \ {p}
    PROVE  /\ pc'[q] = pc[q] /\ cur'[q] = cur[q]
           /\ Past(q)' <=> Past(q)
           /\ Pending(q)' <=> Pending(q)
           /\ Renames(q)' <=> Renames(q)
           /\ NameOf(q)' = NameOf(q) /\ Rule(q)' = Rule(q)
  BY DEF Frame, Past, Pending, Renames, Rule, NameOf, Root, Target, Here

LEMMA TentativeFacts ==
    \A k : k \in Tentative <=> \E q \in Procs : Pending(q) /\ cur[q].dfile = k
  BY DEF Tentative

LEMMA TentativeNext ==
    \A k : k \in Tentative' <=> \E q \in Procs : Pending(q)' /\ cur'[q].dfile = k
  BY DEF Tentative

\* The names that directory streams show are of numbers given out.
LEMMA StreamIds ==
    ASSUME TypeOK, Numbered, NEW k \in Nat, made <= k, NEW e, stream' = Streams(e),
           \A d \in Dirs, n \in Names : e[d][n] # NoFile => n.id <= k
    PROVE  \A q \in Procs : \A n \in stream'[q].must \cup stream'[q].may : n.id <= k
<1> SUFFICES ASSUME NEW q \in Procs,
                    NEW n \in stream'[q].must \cup stream'[q].may
             PROVE  n.id <= k
  OBVIOUS
<1>1. /\ n \in Names
      /\ \/ n \in stream[q].must \cup stream[q].may
         \/ pc[q] # "done" /\ e[Here(q)][n] # NoFile
  BY StreamsType
<1>2. n.id \in Nat /\ made \in Nat
  BY <1>1, ProcessTypes, Constants DEF Names
<1>3. CASE n \in stream[q].must \cup stream[q].may
  BY <1>2, <1>3 DEF Numbered
<1>4. CASE pc[q] # "done" /\ e[Here(q)][n] # NoFile
  BY <1>1, <1>4, PlaceTypes
<1>5. QED
  BY <1>1, <1>3, <1>4

-----------------------------------------------------------------------------
\* A step that creates, renames and writes nothing, after which the process is
\* not acting upon a message.
Shrinks(p) ==
    /\ Frame(p) /\ file' = file /\ made' = made
    /\ torn \subseteq torn' /\ dropped \subseteq dropped'
    /\ \A d \in Dirs, n \in Names : entry'[d][n] \in {NoFile, entry[d][n]}
    /\ ~Past(p)'
    /\ Pending(p)' => Pending(p) /\ cur'[p] = cur[p]
    /\ NameOf(p)' <= made
    /\ \A q \in Procs : \A n \in stream'[q].must \cup stream'[q].may : n.id <= made

LEMMA ShrinkNumbered ==
    ASSUME WInv, NEW p \in Procs, Shrinks(p)
    PROVE  Numbered'
<1>1. Numbered /\ file' = file /\ made' = made
  BY DEF WInv, Shrinks
<1>2. ASSUME NEW d \in Dirs, NEW n \in Names, entry'[d][n] # NoFile
      PROVE  /\ entry[d][n] # NoFile /\ entry'[d][n] = entry[d][n]
             /\ entry'[d][n] <= n.id /\ n.id <= made
             /\ file[entry'[d][n]].msg = file[n.id].msg
  BY <1>1, <1>2 DEF Numbered, Shrinks
<1>3. ASSUME NEW d \in Dirs, NEW n \in Names, entry'[d][n] \notin {NoFile, n.id}
      PROVE  /\ ~file[n.id].whole
             /\ \A dd \in Dirs, nn \in Names : nn.id = n.id =>
                    entry'[dd][nn] \in {NoFile, n.id, entry'[d][n]}
  <2>1. entry[d][n] \notin {NoFile, n.id} /\ entry'[d][n] = entry[d][n]
    BY <1>2, <1>3
  <2>2. /\ ~file[n.id].whole
        /\ \A dd \in Dirs, nn \in Names : nn.id = n.id =>
              entry[dd][nn] \in {NoFile, n.id, entry[d][n]}
    BY <1>1, <2>1 DEF Numbered
  <2>3. QED
    BY <2>1, <2>2 DEF Shrinks
<1>4. \A q \in Procs : NameOf(q)' <= made
  BY <1>1, FrameFacts DEF Numbered, Shrinks
<1>5. \A i \in Ids : IF i <= made THEN file[i].msg \in Msgs ELSE ~file[i].whole
  BY <1>1 DEF Numbered
<1>6. \A q \in Procs : \A n \in stream'[q].must \cup stream'[q].may : n.id <= made
  BY DEF Shrinks
<1>7. QED
  BY <1>1, <1>2, <1>3, <1>4, <1>5, <1>6 DEF Numbered

LEMMA ShrinkOthers ==
    ASSUME WInv, NEW p \in Procs, Shrinks(p)
    PROVE  Parsed' /\ Owned' /\ Unread'
<1>1. Parsed /\ Owned /\ Unread /\ Frame(p)
  BY DEF WInv, Shrinks
<1>2. /\ file' = file /\ made' = made /\ torn \subseteq torn' /\ ~Past(p)'
      /\ \A d \in Dirs, n \in Names : entry'[d][n] \in {NoFile, entry[d][n]}
      /\ Pending(p)' => Pending(p) /\ cur'[p] = cur[p] /\ NameOf(p)' = NameOf(p)
      /\ pc'[p] \notin {"create", "rename", "write", "unlink"}
  BY DEF Shrinks, NameOf, Past
<1>3. ASSUME NEW q \in Procs, Past(q)'
      PROVE  /\ q # p /\ Past(q) /\ cur'[q] = cur[q] /\ NameOf(q)' = NameOf(q)
             /\ pc'[q] = pc[q] /\ (Renames(q)' <=> Renames(q))
  BY <1>1, <1>2, <1>3, FrameFacts
<1>4. ASSUME NEW q \in Procs, Pending(q)'
      PROVE  /\ Pending(q) /\ cur'[q] = cur[q] /\ NameOf(q)' = NameOf(q)
             /\ q # p => pc'[q] = pc[q] /\ (Past(q)' <=> Past(q))
  BY <1>1, <1>2, <1>4, FrameFacts
<1>5. Parsed'
  <2> SUFFICES ASSUME NEW q \in Procs, Past(q)'
               PROVE  /\ cur'[q].parsed.msg = file'[NameOf(q)'].msg
                      /\ pc'[q] = "rename" => Renames(q)'
                      /\ pc'[q] \in {"write", "unlink"} => ~Renames(q)'
                      /\ \/ cur'[q].parsed.whole \/ Renames(q)'
                         \/ cur'[q].parsed.msg \in torn'
    BY DEF Parsed
  <2>1. QED
    BY <1>1, <1>2, <1>3 DEF Parsed
<1>6. Owned'
  <2>1. ASSUME NEW q \in Procs, Pending(q)'
        PROVE  /\ cur'[q].dfile \in Ids /\ cur'[q].dfile <= made'
               /\ cur'[q].dname.id = cur'[q].dfile /\ NameOf(q)' < cur'[q].dfile
               /\ \A d \in Dirs, n \in Names :
                     n.id = cur'[q].dfile => entry'[d][n] \in {NoFile, cur'[q].dfile}
               /\ Past(q)' => file'[cur'[q].dfile].msg = cur'[q].parsed.msg
               /\ pc'[q] \in {"rename", "write"} => ~file'[cur'[q].dfile].whole
    BY <1>1, <1>2, <1>4, <2>1 DEF Owned
  <2>2. ASSUME NEW q \in Procs, NEW r \in Procs, Pending(q)', Pending(r)', q # r
        PROVE  cur'[q].dfile # cur'[r].dfile
    BY <1>1, <1>4, <2>2 DEF Owned
  <2>3. QED
    BY <2>1, <2>2 DEF Owned
<1>7. Unread'
  <2> SUFFICES ASSUME NEW r \in Procs, NEW q \in Procs, Past(q)', cur'[q].parsed.whole
               PROVE  /\ pc'[r] = "rename" => NameOf(q)' # cur'[r].dfile
                      /\ pc'[r] = "write" =>
                            \A d \in Dirs, n \in Names :
                               entry'[d][n] = cur'[r].dfile => NameOf(q)' # n.id
    BY DEF Unread
  <2>1. pc'[r] \in {"rename", "write"} =>
            /\ pc[r] = pc'[r] /\ cur'[r] = cur[r] /\ Pending(r)
    BY <1>1, <1>2, FrameFacts DEF Pending
  <2>2. pc[r] = "write" => cur[r].dfile # NoFile
    BY <1>1, Constants DEF Owned, Pending
  <2>3. QED
    BY <1>1, <1>2, <1>3, <2>1, <2>2 DEF Unread
<1>8. QED
  BY <1>5, <1>6, <1>7

\* The names directory streams show after a step of a process.
LEMMA StreamStep ==
    ASSUME TypeOK, Numbered, NEW p \in Procs, Step(p), made' = made,
           \A d \in Dirs, n \in Names : entry'[d][n] # NoFile => n.id <= made
    PROVE  \A q \in Procs : \A n \in stream'[q].must \cup stream'[q].may : n.id <= made
<1>1. /\ made \in Nat /\ pc[p] # "done" /\ stream \in [Procs -> StreamSet]
      /\ \A q \in Procs : \A n \in stream[q].must \cup stream[q].may : n.id <= made
  BY Parts, ProcessTypes DEF Numbered, Step, Open, Read, EndOfDirectory, Parse,
     Create, RenameSource, WriteCopy, UnlinkSource, Undo, Finish
<1>2. CASE stream' = stream
  BY <1>1, <1>2
<1>3. ASSUME NEW e, Change(e)
      PROVE  \A q \in Procs : \A n \in stream'[q].must \cup stream'[q].may : n.id <= made
  <2>1. entry' = e /\ stream' = Streams(e)
    BY <1>3 DEF Change
  <2>2. \A d \in Dirs, n \in Names : e[d][n] # NoFile => n.id <= made
    BY <2>1
  <2>3. QED
    BY <1>1, <2>1, <2>2, StreamIds
<1>4. CASE Open(p) /\ stream' # stream
  <2>1. stream' = [stream EXCEPT ![p] = [must |-> Linked(Here(p)), may |-> {}]]
    BY <1>4 DEF Open
  <2>2. \A n \in Linked(Here(p)) : n.id <= made
    BY <1>1, ProcessTypes DEF Linked, Numbered
  <2>3. QED
    BY <1>1, <2>1, <2>2 DEF StreamSet
<1>5. CASE Read(p) /\ stream' # stream
  <2>1. PICK n : stream' = [stream EXCEPT ![p].must = @ \ {n},
                                          ![p].may = @ \ {n}]
    BY <1>5 DEF Read
  <2> DEFINE s == [stream EXCEPT ![p].must = @ \ {n}]
  <2>2. /\ s \in [Procs -> StreamSet]
        /\ \A q \in Procs : s[q].must \subseteq stream[q].must
                            /\ s[q].may = stream[q].may
    BY <1>1 DEF StreamSet
  <2>3. stream' = [s EXCEPT ![p].may = @ \ {n}]
    BY <2>1
  <2> HIDE DEF s
  <2>4. \A q \in Procs : stream'[q].must = s[q].must
                         /\ stream'[q].may \subseteq s[q].may
    BY <2>2, <2>3 DEF StreamSet
  <2>5. QED
    BY <1>1, <2>2, <2>4
<1>6. \/ stream' = stream
      \/ \E e : Change(e)
      \/ Open(p)
      \/ Read(p)
  BY DEF Step, EndOfDirectory, Parse, Create, RenameSource, WriteCopy,
     UnlinkSource, Undo, Finish
<1>7. QED
  BY <1>2, <1>3, <1>4, <1>5, <1>6

\* The steps that find something out, and those that remove something.
LEMMA QuietShrinks ==
    ASSUME WInv, NEW p \in Procs, Step(p), ~Past(p)', entry' = entry
    PROVE  Shrinks(p)
<1>1. TypeOK /\ Numbered /\ Frame(p)
  BY FrameHolds DEF WInv
<1>2. pc \in [Procs -> PCs] /\ cur \in [Procs -> Place]
  BY <1>1, Parts
<1>3. file' = file /\ made' = made
  <2>1. ~WriteCopy(p)
    BY <1>2 DEF WriteCopy, Goto, Past
  <2>2. CASE Create(p)
    <3>1. ~Goto(p, IF Renames(p) THEN "rename" ELSE "write")
      BY <1>2 DEF Goto, Past
    <3>2. QED
      BY <2>2, <3>1 DEF Create, fsVars
  <2>3. QED
    BY <2>1, <2>2 DEF Step, Open, Read, EndOfDirectory, Parse, RenameSource,
       UnlinkSource, Undo, Finish, fsVars
<1>4. torn \subseteq torn' /\ dropped \subseteq dropped'
  <2>1. CASE Parse(p)
    BY <2>1 DEF Parse
  <2>2. CASE UnlinkSource(p)
    BY <2>2 DEF UnlinkSource
  <2>3. QED
    BY <2>1, <2>2 DEF Step, Open, Read, EndOfDirectory, Create, RenameSource,
       WriteCopy, Undo, Finish, history
<1>5. \A d \in Dirs, n \in Names : entry'[d][n] # NoFile => n.id <= made
  BY <1>1 DEF Numbered
<1>6. \A q \in Procs : \A n \in stream'[q].must \cup stream'[q].may : n.id <= made
  BY <1>1, <1>3, <1>5, StreamStep
<1>7. NameOf(p)' <= made
  <2>1. NameOf(p) <= made
    BY <1>1 DEF Numbered
  <2>2. CASE cur' = cur
    BY <2>1, <2>2 DEF NameOf
  <2>3. CASE Read(p) /\ cur' # cur
    <3>1. PICK n \in stream[p].must \cup stream[p].may :
              cur' = [cur EXCEPT ![p].name = n]
      BY <2>3 DEF Read
    <3>2. cur'[p].name = n
      BY <1>2, <3>1 DEF Place
    <3>3. QED
      BY <1>1, <3>2 DEF NameOf, Numbered
  <2>4. CASE Parse(p) /\ cur' # cur
    <3>1. \E c : cur' = [cur EXCEPT ![p].parsed = c]
      BY <2>4 DEF Parse
    <3>2. cur'[p].name = cur[p].name
      BY <1>2, <3>1 DEF Place
    <3>3. QED
      BY <2>1, <3>2 DEF NameOf
  <2>5. CASE Create(p) /\ cur' # cur
    <3>1. made' # made
      BY <2>5, <1>1, ProcessTypes DEF Create
    <3>2. QED
      BY <1>3, <3>1
  <2>6. QED
    BY <2>2, <2>3, <2>4, <2>5 DEF Step, Open, EndOfDirectory, RenameSource,
       WriteCopy, UnlinkSource, Undo, Finish
<1>8. Pending(p)' => Pending(p) /\ cur'[p] = cur[p]
  <2> SUFFICES ASSUME Pending(p)' PROVE Pending(p) /\ cur'[p] = cur[p]
    OBVIOUS
  <2>1. pc'[p] = "undo"
    BY DEF Past, Pending
  <2>2. RenameSource(p) \/ UnlinkSource(p)
    BY <1>1, <1>2, <2>1, Parts DEF Step, Open, Read, EndOfDirectory, Parse, Create,
       WriteCopy, Undo, Finish, GiveUp, NextBlock, Goto
  <2>3. cur' = cur
    BY <2>2 DEF RenameSource, UnlinkSource
  <2>4. Pending(p)
    BY <1>2, <2>1, <2>2 DEF RenameSource, UnlinkSource, Pending, Goto
  <2>5. QED
    BY <2>3, <2>4
<1>9. QED
  BY <1>1, <1>3, <1>4, <1>6, <1>7, <1>8 DEF Shrinks

LEMMA RemovalShrinks ==
    ASSUME WInv, NEW p \in Procs, UnlinkSource(p) \/ Undo(p)
    PROVE  Shrinks(p)
<1>1. TypeOK /\ Numbered /\ Frame(p)
  BY FrameHolds DEF WInv, Step
<1>2. /\ pc \in [Procs -> PCs] /\ entry \in Layout
      /\ Here(p) \in Dirs /\ Target(p) \in Dirs
      /\ cur[p].name \in Names /\ cur[p].dname \in Names
  BY <1>1, Parts, ProcessTypes DEF UnlinkSource, Undo
<1>3. file' = file /\ made' = made /\ cur' = cur /\ torn' = torn
  BY DEF UnlinkSource, Undo, history, fsVars
<1>4. dropped \subseteq dropped'
  BY DEF UnlinkSource, Undo, history
<1>5. \A d \in Dirs, n \in Names : entry'[d][n] \in {NoFile, entry[d][n]}
  <2>1. \/ entry' = entry
        \/ entry' = Unlink(Here(p), cur[p].name)
        \/ entry' = Unlink(Target(p), cur[p].dname)
    BY DEF UnlinkSource, Undo, Change
  <2>2. QED
    BY <1>2, <2>1, UnlinkEffect
<1>6. \A d \in Dirs, n \in Names : entry'[d][n] # NoFile => n.id <= made
  BY <1>1, <1>5 DEF Numbered
<1>7. \A q \in Procs : \A n \in stream'[q].must \cup stream'[q].may : n.id <= made
  BY <1>1, <1>3, <1>6, StreamStep DEF Step
<1>8. NameOf(p)' <= made
  BY <1>1, <1>3 DEF NameOf, Numbered
<1>9. ~Past(p)'
  BY <1>2 DEF UnlinkSource, Undo, Goto, Past
<1>10. Pending(p)' => Pending(p)
  BY <1>1, <1>2 DEF UnlinkSource, Undo, Goto, Pending
<1>11. QED
  BY <1>1, <1>3, <1>4, <1>5, <1>7, <1>8, <1>9, <1>10 DEF Shrinks

-----------------------------------------------------------------------------
\* The numbers that a process other than p relies on.
Relied(p, k) == k = 0 \/ \E q \in Procs \ {p} : Pending(q) /\ cur[q].dfile = k

\* Messages are kept by a step of process p that loses nothing the others rely
\* on and establishes what it relies on itself.
LEMMA KeptStep ==
    ASSUME WInv, NEW p \in Procs, Frame(p),
           torn \subseteq torn', dropped \subseteq dropped',
           \A m \in Msgs : \A k : Relied(p, k) /\ Safe(m, k) => Safe(m, k)' \/ Excused(m)',
           \A q \in Procs \ {p} : pc[q] = "write" /\ Reachable(cur[q].dfile) =>
              (Reachable(cur[q].dfile) \/ Excused(cur[q].parsed.msg))',
           pc'[p] = "write" =>
              (Excused(cur[p].parsed.msg) \/ Reachable(cur[p].dfile))',
           pc'[p] = "unlink" /\ Rule(p)'.act # "discard" =>
              (Excused(cur[p].parsed.msg) \/ Safe(cur[p].parsed.msg, cur[p].dfile))'
    PROVE  Kept'
<1>1. Kept /\ Parsed /\ Numbered /\ TypeOK
  BY DEF WInv
<1>2. \A m : Excused(m) => Excused(m)'
  BY DEF Excused
<1>3. \A m \in Msgs : Excused(m)' \/ Safe(m, 0)'
  BY <1>1, <1>2 DEF Kept, Relied
<1>4. ASSUME NEW q \in Procs, pc'[q] = "write"
      PROVE  (Excused(cur[q].parsed.msg) \/ Reachable(cur[q].dfile))'
  <2>1. CASE q = p
    BY <1>4, <2>1
  <2>2. CASE q # p
    <3>1. pc[q] = "write" /\ cur'[q] = cur[q]
      BY <1>4, <2>2 DEF Frame
    <3>2. Excused(cur[q].parsed.msg) \/ Reachable(cur[q].dfile)
      BY <1>1, <3>1 DEF Kept
    <3>3. CASE Excused(cur[q].parsed.msg)
      BY <3>1, <3>3 DEF Excused
    <3>4. CASE Reachable(cur[q].dfile)
      BY <2>2, <3>1, <3>4
    <3>5. QED
      BY <3>2, <3>3, <3>4
  <2>3. QED
    BY <2>1, <2>2
<1>5. ASSUME NEW q \in Procs, pc'[q] = "unlink", Rule(q)'.act # "discard"
      PROVE  (Excused(cur[q].parsed.msg) \/ Safe(cur[q].parsed.msg, cur[q].dfile))'
  <2>1. CASE q = p
    BY <1>5, <2>1
  <2>2. CASE q # p
    <3>1. /\ pc[q] = "unlink" /\ cur'[q] = cur[q] /\ Rule(q).act # "discard"
          /\ Pending(q) /\ Past(q)
      BY <1>5, <2>2 DEF Frame, Rule, Pending, Past
    <3>2. cur[q].parsed.msg \in Msgs
      BY <1>1, <3>1, ProcessTypes DEF Parsed, Numbered
    <3>3. PICK m, k : m = cur[q].parsed.msg /\ k = cur[q].dfile
      OBVIOUS
    <3>4. Relied(p, k)
      BY <2>2, <3>1, <3>3 DEF Relied
    <3>5. m \in Msgs /\ (Excused(m) \/ Safe(m, k))
      BY <1>1, <3>1, <3>2, <3>3 DEF Kept
    <3>6. (Excused(m) \/ Safe(m, k))'
      BY <1>2, <3>4, <3>5
    <3>7. m = cur'[q].parsed.msg /\ k = cur'[q].dfile
      BY <3>1, <3>3
    <3>8. QED
      BY <3>6, <3>7
  <2>3. QED
    BY <2>1, <2>2
<1>6. QED
  BY <1>3, <1>4, <1>5 DEF Kept

\* What is still there is as safe as it was.
LEMMA ShrinkSafe ==
    ASSUME WInv, NEW p \in Procs, Shrinks(p), NEW d \in Dirs, NEW n \in Names,
           entry'[d][n] # NoFile
    PROVE  /\ Tentative' \subseteq Tentative
           /\ \A m, k : SafeAt(m, k, d, n) => SafeAt(m, k, d, n)'
           /\ \A k : ReachableAt(k, d, n) => ReachableAt(k, d, n)'
<1>1. Tentative' \subseteq Tentative
  BY TentativeFacts, TentativeNext, FrameFacts DEF Shrinks
<1>2. entry'[d][n] = entry[d][n] /\ file' = file
  BY DEF Shrinks
<1>3. QED
  BY <1>1, <1>2 DEF SafeAt, ReachableAt

LEMMA KeptQuiet ==
    ASSUME WInv, NEW p \in Procs, Shrinks(p), entry' = entry
    PROVE  Kept'
<1>1. \A m, k : Safe(m, k) => Safe(m, k)'
  BY ShrinkSafe DEF Safe, SafeAt
<1>2. ASSUME NEW q \in Procs \ {p}, pc[q] = "write", Reachable(cur[q].dfile)
      PROVE  Reachable(cur[q].dfile)'
  <2>1. PICK d \in Dirs, n \in Names : ReachableAt(cur[q].dfile, d, n)
    BY <1>2 DEF Reachable
  <2>2. cur[q].dfile # NoFile /\ cur'[q] = cur[q]
    BY <1>2, Constants DEF WInv, Owned, Pending, Shrinks, Frame
  <2>3. Tentative' \subseteq Tentative
    BY <2>1, <2>2, ShrinkSafe DEF ReachableAt
  <2>4. QED
    BY <2>1, <2>2, <2>3 DEF ReachableAt, Reachable
<1>3. ~Past(p)' /\ Frame(p) /\ torn \subseteq torn' /\ dropped \subseteq dropped'
  BY DEF Shrinks
<1>4. QED
  BY <1>1, <1>2, <1>3, KeptStep DEF Past

\* The message of the name a process is about to unlink: what it holds complete
\* is safe under its new name; what is being written was incomplete when it was
\* parsed.
LEMMA UnlinkKept ==
    ASSUME WInv, NEW p \in Procs, UnlinkSource(p), entry' # entry
    PROVE  /\ \A m \in Msgs, k \in Nat :
                 SafeAt(m, k, Here(p), cur[p].name) => Safe(m, k)' \/ Excused(m)'
           /\ \A q \in Procs \ {p} : \A k :
                 /\ pc[q] = "write" /\ cur[q].dfile = k
                 /\ ReachableAt(k, Here(p), cur[p].name)
                 => Excused(cur[q].parsed.msg)'
<1> DEFINE h == Here(p)
           a == cur[p].name
           K == cur[p].dfile
           discard == Rule(p).act = "discard"
<1>1. /\ TypeOK /\ Numbered /\ Parsed /\ Owned /\ Unread /\ Kept
      /\ Shrinks(p) /\ h \in Dirs /\ a \in Names /\ Past(p)
      /\ a.id = NameOf(p) /\ K \in Nat /\ a.id \in Nat
  BY ProcessTypes, RemovalShrinks DEF WInv, UnlinkSource, Past, NameOf
<1>2. /\ entry[h][a] # NoFile /\ pc[p] = "unlink"
      /\ entry' = Unlink(h, a) /\ torn' = torn /\ file' = file
      /\ dropped' = IF discard /\ cur[p].parsed.whole
                    THEN dropped \cup {file[entry[h][a]].msg} ELSE dropped
  BY DEF UnlinkSource, Change
<1>3. cur[p].parsed.msg = file[entry[h][a]].msg
  BY <1>1, <1>2, LinkedFile DEF Parsed
<1>4. cur[p].parsed.whole \/ cur[p].parsed.msg \in torn
  BY <1>1, <1>2 DEF Parsed
<1>5. ~discard => K \notin Tentative'
  <2> SUFFICES ASSUME ~discard, NEW q \in Procs, Pending(q)', cur'[q].dfile = K
               PROVE  FALSE
    BY TentativeNext
  <2>1. Pending(p) /\ ~Pending(p)'
    BY <1>1, <1>2, Parts DEF UnlinkSource, Goto, Pending
  <2>2. q # p /\ Pending(q) /\ cur[q].dfile = K
    BY <1>1, <2>1, FrameFacts DEF Shrinks
  <2>3. QED
    BY <1>1, <2>1, <2>2 DEF Owned
<1>6. \A d \in Dirs, n \in Names : ~(d = h /\ n = a) => entry'[d][n] = entry[d][n]
  BY <1>1, <1>2, UnlinkEffect, Parts
<1> HIDE DEF h, a, K
<1>7. ASSUME NEW m \in Msgs, NEW k \in Nat, SafeAt(m, k, h, a)
      PROVE  Safe(m, k)' \/ Excused(m)'
  <2>1. /\ m = cur[p].parsed.msg /\ a.id >= k
        /\ file[entry[h][a]].msg = m
    BY <1>3, <1>7 DEF SafeAt
  <2>2. CASE discard
    BY <1>2, <1>4, <2>1, <2>2 DEF Excused
  <2>3. CASE ~discard /\ Excused(m)
    BY <1>2, <2>3 DEF Excused
  <2>4. CASE ~discard /\ ~Excused(m)
    <3>1. Safe(m, K)
      BY <1>1, <1>2, <2>1, <2>4 DEF Kept, K
    <3>2. PICK d \in Dirs, n \in Names : SafeAt(m, K, d, n)
      BY <3>1 DEF Safe
    <3>3. a.id < K
      BY <1>1, <1>2, <2>4 DEF Owned, Pending, K
    <3>4. n.id \in Nat /\ n.id >= K /\ entry[d][n] # NoFile
      BY <1>1, <3>2, LinkedFile DEF SafeAt
    <3>5. n # a /\ n.id >= k
      BY <1>1, <2>1, <3>3, <3>4
    <3>6. entry'[d][n] = entry[d][n]
      BY <1>6, <3>5
    <3>7. n.id \notin Tentative'
      <4>1. Tentative' \subseteq Tentative
        BY <1>1, <3>4, <3>6, ShrinkSafe
      <4>2. QED
        BY <1>5, <2>4, <3>2, <4>1 DEF SafeAt
    <3>8. SafeAt(m, k, d, n)'
      BY <1>2, <3>2, <3>5, <3>6, <3>7 DEF SafeAt
    <3>9. QED
      BY <3>8 DEF Safe
  <2>5. QED
    BY <2>2, <2>3, <2>4
<1>8. ASSUME NEW q \in Procs \ {p}, NEW k, pc[q] = "write", cur[q].dfile = k,
             ReachableAt(k, h, a)
      PROVE  Excused(cur[q].parsed.msg)'
  <2>1. entry[h][a] = k
    BY <1>8 DEF ReachableAt
  <2>2. ~cur[p].parsed.whole
    BY <1>1, <1>8, <2>1 DEF Unread
  <2>3. cur[q].parsed.msg = file[k].msg
    BY <1>1, <1>8 DEF Owned, Pending, Past
  <2>4. cur[q].parsed.msg \in torn
    BY <1>3, <1>4, <2>1, <2>2, <2>3
  <2>5. cur'[q] = cur[q]
    BY <1>1, <1>8 DEF Shrinks, Frame
  <2>6. QED
    BY <1>2, <2>4, <2>5 DEF Excused
<1>9. QED
  BY <1>7, <1>8 DEF h, a

LEMMA KeptRemoval ==
    ASSUME WInv, NEW p \in Procs, UnlinkSource(p) \/ Undo(p)
    PROVE  Kept'
<1>1. Shrinks(p)
  BY RemovalShrinks
<1>2. CASE entry' = entry
  BY <1>1, <1>2, KeptQuiet
<1>3. CASE entry' # entry
  <2>1. /\ TypeOK /\ Owned /\ ~Past(p)' /\ Frame(p)
        /\ torn \subseteq torn' /\ dropped \subseteq dropped'
    BY <1>1 DEF WInv, Shrinks
  <2>2. /\ Here(p) \in Dirs /\ Target(p) \in Dirs
        /\ cur[p].name \in Names /\ cur[p].dname \in Names
    BY <2>1, ProcessTypes DEF UnlinkSource, Undo
  <2>3. \A m, k : \A d \in Dirs, n \in Names :
           SafeAt(m, k, d, n) /\ entry'[d][n] # NoFile => Safe(m, k)'
    BY <1>1, ShrinkSafe DEF Safe
  <2>4. \A k : \A d \in Dirs, n \in Names :
           ReachableAt(k, d, n) /\ entry'[d][n] # NoFile => Reachable(k)'
    BY <1>1, ShrinkSafe DEF Reachable
  <2>5. \A k : Relied(p, k) => k \in Nat
    BY <2>1, ProcessTypes DEF Relied
  <2>6. CASE UnlinkSource(p)
    <3>1. \A d \in Dirs, n \in Names :
             ~(d = Here(p) /\ n = cur[p].name) => entry'[d][n] = entry[d][n]
      BY <1>3, <2>1, <2>2, <2>6, UnlinkEffect, Parts DEF UnlinkSource, Change
    <3>2. ASSUME NEW m \in Msgs, NEW k, Relied(p, k), Safe(m, k)
          PROVE  Safe(m, k)' \/ Excused(m)'
      <4>1. PICK d \in Dirs, n \in Names : SafeAt(m, k, d, n)
        BY <3>2 DEF Safe
      <4>2. CASE d = Here(p) /\ n = cur[p].name
        BY <1>3, <2>5, <2>6, <3>2, <4>1, <4>2, UnlinkKept
      <4>3. CASE ~(d = Here(p) /\ n = cur[p].name)
        BY <2>3, <3>1, <4>1, <4>3 DEF SafeAt
      <4>4. QED
        BY <4>2, <4>3
    <3>3. ASSUME NEW q \in Procs \ {p}, pc[q] = "write", Reachable(cur[q].dfile)
          PROVE  (Reachable(cur[q].dfile) \/ Excused(cur[q].parsed.msg))'
      <4>1. PICK d \in Dirs, n \in Names : ReachableAt(cur[q].dfile, d, n)
        BY <3>3 DEF Reachable
      <4>2. cur'[q] = cur[q] /\ cur[q].dfile # NoFile
        BY <2>1, <3>3, Constants DEF Frame, Owned, Pending
      <4>3. PICK k : k = cur[q].dfile
        OBVIOUS
      <4>4. CASE d = Here(p) /\ n = cur[p].name
        BY <1>3, <2>6, <3>3, <4>1, <4>4, UnlinkKept
      <4>5. CASE ~(d = Here(p) /\ n = cur[p].name)
        <5>1. Reachable(k)'
          BY <2>4, <3>1, <4>1, <4>2, <4>3, <4>5 DEF ReachableAt
        <5>2. QED
          BY <4>2, <4>3, <5>1
      <4>6. QED
        BY <4>4, <4>5
    <3>4. QED
      BY <2>1, <3>2, <3>3, KeptStep DEF Past
  <2>7. CASE Undo(p)
    <3>1. \A d \in Dirs, n \in Names :
             ~(d = Target(p) /\ n = cur[p].dname) => entry'[d][n] = entry[d][n]
      BY <2>1, <2>2, <2>7, UnlinkEffect, Parts DEF Undo, Change
    <3>2. /\ cur[p].dname.id = cur[p].dfile /\ cur[p].dfile \in Tentative
          /\ cur[p].dfile # 0
          /\ \A q \in Procs \ {p} : Pending(q) => cur[q].dfile # cur[p].dfile
      BY <2>1, <2>7, Constants, TentativeFacts DEF Owned, Pending, Undo, NoFile
    <3>3. \A k : Relied(p, k) => k # cur[p].dfile
      BY <3>2 DEF Relied
    <3>4. ASSUME NEW m \in Msgs, NEW k, Relied(p, k), Safe(m, k)
          PROVE  Safe(m, k)'
      <4>1. PICK d \in Dirs, n \in Names : SafeAt(m, k, d, n)
        BY <3>4 DEF Safe
      <4>2. n # cur[p].dname
        BY <3>2, <3>3, <3>4, <4>1 DEF SafeAt
      <4>3. QED
        BY <2>3, <3>1, <4>1, <4>2 DEF SafeAt
    <3>5. ASSUME NEW q \in Procs \ {p}, pc[q] = "write", Reachable(cur[q].dfile)
          PROVE  Reachable(cur[q].dfile)'
      <4>1. PICK d \in Dirs, n \in Names : ReachableAt(cur[q].dfile, d, n)
        BY <3>5 DEF Reachable
      <4>2. cur'[q] = cur[q] /\ cur[q].dfile # NoFile /\ Relied(p, cur[q].dfile)
        BY <2>1, <3>5, Constants DEF Frame, Owned, Pending, Relied
      <4>3. n # cur[p].dname
        BY <3>2, <3>3, <4>1, <4>2 DEF ReachableAt
      <4>4. PICK k : k = cur[q].dfile
        OBVIOUS
      <4>5. Reachable(k)'
        BY <2>4, <3>1, <4>1, <4>2, <4>3, <4>4 DEF ReachableAt
      <4>6. QED
        BY <4>2, <4>4, <4>5
    <3>6. QED
      BY <2>1, <3>4, <3>5, KeptStep DEF Past
  <2>8. QED
    BY <2>6, <2>7
<1>4. QED
  BY <1>2, <1>3

-----------------------------------------------------------------------------
\* A message is parsed and is to be acted upon.
LEMMA ParseEffect ==
    ASSUME WInv, NEW p \in Procs, Parse(p), Past(p)'
    PROVE  LET i == entry[Here(p)][cur[p].name]
           IN  /\ i # NoFile /\ file[i].msg = file[NameOf(p)].msg
               /\ Here(p) \in Dirs /\ cur[p].name \in Names
               /\ cur'[p].parsed = file[i] /\ cur'[p].name = cur[p].name
               /\ pc'[p] = IF Rule(p).act = "discard" THEN "unlink" ELSE "create"
               /\ torn' = IF file[i].whole \/ Renames(p) THEN torn
                          ELSE torn \cup {file[i].msg}
               /\ dropped' = dropped
               /\ UNCHANGED <<entry, file, made, stream>>
               /\ Rule(p)' = Rule(p) /\ (Renames(p)' <=> Renames(p))
               /\ ~Pending(p) /\ ~Pending(p)'
<1> DEFINE i == entry[Here(p)][cur[p].name]
           c == file[i]
<1>1. /\ pc[p] = "parse" /\ dropped' = dropped /\ UNCHANGED walkVars /\ sc' = sc
      /\ UNCHANGED <<entry, file, made, stream>>
  BY DEF Parse, fsVars
<1>2. TypeOK /\ Numbered /\ pc \in [Procs -> PCs] /\ cur \in [Procs -> Place]
  BY Parts DEF WInv
<1>3. i # NoFile
  BY <1>2 DEF Parse, Goto, Past
<1>4. /\ cur' = [cur EXCEPT ![p].parsed = c]
      /\ Goto(p, IF Rule(p).act = "discard" THEN "unlink" ELSE "create")
      /\ torn' = IF c.whole \/ Renames(p) THEN torn ELSE torn \cup {c.msg}
  BY <1>2, <1>3 DEF Parse, Goto, Past
<1>5. /\ Here(p) \in Dirs /\ cur[p].name \in Names
  BY <1>1, <1>2, ProcessTypes
<1>6. c.msg = file[NameOf(p)].msg
  BY <1>2, <1>3, <1>5, LinkedFile DEF NameOf
<1> HIDE DEF i, c
<1>7. cur'[p].parsed = c /\ cur'[p].name = cur[p].name
  BY <1>2, <1>4 DEF Place
<1>8. pc'[p] = IF Rule(p).act = "discard" THEN "unlink" ELSE "create"
  BY <1>2, <1>4 DEF Goto
<1>9. Rule(p)' = Rule(p) /\ (Renames(p)' <=> Renames(p))
  BY <1>1 DEF Rule, Renames, Root, Target, Here, walkVars
<1>10. ~Pending(p) /\ ~Pending(p)'
  BY <1>1, <1>8, <1>9 DEF Pending
<1>11. QED
  BY <1>1, <1>3, <1>4, <1>5, <1>6, <1>7, <1>8, <1>9, <1>10 DEF i, c

LEMMA ParseKeeps ==
    ASSUME WInv, NEW p \in Procs, Parse(p), Past(p)'
    PROVE  Numbered' /\ Parsed' /\ Owned' /\ Unread' /\ Kept'
<1> DEFINE h == Here(p)
           a == cur[p].name
           i == entry[h][a]
<1>1. /\ TypeOK /\ Numbered /\ Parsed /\ Owned /\ Unread /\ Kept /\ Frame(p)
  BY FrameHolds DEF WInv, Step
<1>2. /\ i # NoFile /\ file[i].msg = file[NameOf(p)].msg
      /\ h \in Dirs /\ a \in Names /\ NameOf(p) = a.id
      /\ cur'[p].parsed = file[i] /\ NameOf(p)' = NameOf(p)
      /\ pc'[p] = IF Rule(p).act = "discard" THEN "unlink" ELSE "create"
      /\ torn' = IF file[i].whole \/ Renames(p) THEN torn ELSE torn \cup {file[i].msg}
      /\ dropped' = dropped
      /\ UNCHANGED <<entry, file, made, stream>>
      /\ Rule(p)' = Rule(p) /\ (Renames(p)' <=> Renames(p))
      /\ ~Pending(p) /\ ~Pending(p)'
  BY ParseEffect DEF NameOf
<1> HIDE DEF h, a, i
<1>3. \A q \in Procs \ {p} :
         /\ pc'[q] = pc[q] /\ cur'[q] = cur[q]
         /\ Past(q)' <=> Past(q)
         /\ Pending(q)' <=> Pending(q)
         /\ Renames(q)' <=> Renames(q)
         /\ NameOf(q)' = NameOf(q) /\ Rule(q)' = Rule(q)
  BY <1>1, FrameFacts
<1>4. Numbered'
  <2>1. \A q \in Procs : NameOf(q)' = NameOf(q)
    BY <1>2, <1>3
  <2>2. QED
    BY <1>1, <1>2, <2>1 DEF Numbered
<1>5. Parsed'
  <2> SUFFICES ASSUME NEW q \in Procs, Past(q)'
               PROVE  /\ cur'[q].parsed.msg = file'[NameOf(q)'].msg
                      /\ pc'[q] = "rename" => Renames(q)'
                      /\ pc'[q] \in {"write", "unlink"} => ~Renames(q)'
                      /\ \/ cur'[q].parsed.whole \/ Renames(q)'
                         \/ cur'[q].parsed.msg \in torn'
    BY DEF Parsed
  <2>1. CASE q = p
    <3>1. pc'[p] = "unlink" => ~Renames(p)
      BY <1>2 DEF Renames
    <3>2. QED
      BY <1>2, <2>1, <3>1
  <2>2. CASE q # p
    BY <1>1, <1>2, <1>3, <2>2 DEF Parsed
  <2>3. QED
    BY <2>1, <2>2
<1>6. Owned'
  <2>1. \A q \in Procs : Pending(q)' => q # p /\ Pending(q)
    BY <1>2, <1>3
  <2>2. QED
    BY <1>1, <1>2, <1>3, <2>1 DEF Owned
<1>7. Unread'
  <2> SUFFICES ASSUME NEW r \in Procs, NEW q \in Procs, Past(q)', cur'[q].parsed.whole
               PROVE  /\ pc'[r] = "rename" => NameOf(q)' # cur'[r].dfile
                      /\ pc'[r] = "write" =>
                            \A d \in Dirs, n \in Names :
                               entry'[d][n] = cur'[r].dfile => NameOf(q)' # n.id
    BY DEF Unread
  <2>1. CASE r = p
    BY <1>2, <2>1
  <2>2. CASE r # p /\ q # p
    BY <1>1, <1>2, <1>3, <2>2 DEF Unread
  <2>3. CASE r # p /\ q = p
    <3>1. pc'[r] = pc[r] /\ cur'[r] = cur[r] /\ file[i].whole
      BY <1>2, <1>3, <2>3
    <3>2. pc[r] \in {"rename", "write"} =>
             /\ ~file[cur[r].dfile].whole /\ cur[r].dfile # NoFile
             /\ a.id = cur[r].dfile => i \in {NoFile, cur[r].dfile}
      BY <1>1, <1>2, Constants DEF Owned, Pending, i
    <3>3. pc[r] = "rename" => a.id # cur[r].dfile
      BY <1>2, <3>1, <3>2
    <3>4. ASSUME pc[r] = "write", NEW d \in Dirs, NEW n \in Names,
                 entry[d][n] = cur[r].dfile, n.id = a.id
          PROVE  FALSE
      <4>1. CASE n.id = cur[r].dfile
        BY <1>2, <3>1, <3>2, <3>4, <4>1
      <4>2. CASE n.id # cur[r].dfile
        <5>1. ~file[n.id].whole /\ i \in {NoFile, n.id, cur[r].dfile}
          BY <1>1, <1>2, <3>2, <3>4, <4>2 DEF Numbered, i
        <5>2. QED
          BY <1>2, <3>1, <3>2, <3>4, <5>1
      <4>3. QED
        BY <4>1, <4>2
    <3>5. QED
      BY <1>2, <2>3, <3>1, <3>3, <3>4
  <2>4. QED
    BY <2>1, <2>2, <2>3
<1>8. Kept'
  <2>1. \A k : k \in Tentative' <=> k \in Tentative
    BY <1>2, <1>3, TentativeFacts, TentativeNext
  <2>2. \A m, k : Safe(m, k) => Safe(m, k)'
    BY <1>2, <2>1 DEF Safe, SafeAt
  <2>3. \A k : Reachable(k) => Reachable(k)'
    BY <1>2, <2>1 DEF Reachable, ReachableAt
  <2>4. ASSUME NEW q \in Procs \ {p}, pc[q] = "write", Reachable(cur[q].dfile)
        PROVE  Reachable(cur[q].dfile)'
    <3>1. PICK k : k = cur[q].dfile
      OBVIOUS
    <3>2. k = cur'[q].dfile /\ Reachable(k)'
      BY <1>3, <2>3, <2>4, <3>1
    <3>3. QED
      BY <3>2
  <2>5. torn \subseteq torn' /\ dropped \subseteq dropped'
    BY <1>2
  <2>6. pc'[p] = "unlink" => Rule(p)'.act = "discard"
    BY <1>2
  <2>7. QED
    BY <1>1, <1>2, <2>2, <2>4, <2>5, <2>6, KeptStep
<1>9. QED
  BY <1>4, <1>5, <1>6, <1>7, <1>8

-----------------------------------------------------------------------------
\* A file is created, under a number not used so far.
LEMMA CreateFacts ==
    ASSUME WInv, NEW p \in Procs, Create(p), made' # made
    PROVE  \E n \in Names : LET k == made + 1 IN
              /\ k \in Ids /\ k \in Nat /\ made \in Nat /\ made' = k /\ n.id = k
              /\ Target(p) \in Dirs
              /\ \A d \in Dirs, x \in Names :
                    /\ entry'[d][x] = IF d = Target(p) /\ x = n THEN k
                                      ELSE entry[d][x]
                    /\ entry[d][x] # NoFile =>
                          entry[d][x] \in Ids /\ entry[d][x] <= made /\ x.id <= made
              /\ \A i \in Ids : i # k => file'[i] = file[i]
              /\ file'[k].msg = cur[p].parsed.msg /\ ~file'[k].whole
              /\ cur'[p].dname = n /\ cur'[p].dfile = k
              /\ cur'[p].parsed = cur[p].parsed /\ NameOf(p)' = NameOf(p)
              /\ pc[p] = "create" /\ pc'[p] = IF Renames(p) THEN "rename" ELSE "write"
              /\ torn' = torn /\ dropped' = dropped
              /\ Renames(p)' <=> Renames(p)
              /\ \A q \in Procs : \A x \in stream'[q].must \cup stream'[q].may :
                    x.id <= k
<1>1. TypeOK /\ Numbered /\ pc[p] = "create" /\ pc \in [Procs -> PCs]
  BY Parts DEF WInv, Create
<1>2. PICK n \in Names :
              /\ n.id = made + 1 /\ made' = made + 1 /\ made + 1 \in Ids
              /\ Change([entry EXCEPT ![Target(p)][n] = made + 1])
              /\ file' = [file EXCEPT ![made + 1].msg = cur[p].parsed.msg]
              /\ cur' = [cur EXCEPT ![p].dname = n, ![p].dfile = made + 1]
              /\ Goto(p, IF Renames(p) THEN "rename" ELSE "write")
              /\ UNCHANGED error
  BY <1>1, CreateEffect
<1> DEFINE k == made + 1
           e == [entry EXCEPT ![Target(p)][n] = k]
<1>3. /\ Target(p) \in Dirs /\ made \in Nat /\ k \in Ids /\ k \in Nat
      /\ e \in Layout
      /\ \A d \in Dirs, x \in Names :
            e[d][x] = IF d = Target(p) /\ x = n THEN k ELSE entry[d][x]
  <2>1. Target(p) \in Dirs /\ made \in Nat /\ k \in Ids
    BY <1>1, <1>2, ProcessTypes
  <2>2. k \in Nat /\ entry \in Layout
    BY <1>1, <2>1, Parts
  <2> HIDE DEF k
  <2>3. /\ e \in Layout
        /\ \A d \in Dirs, x \in Names :
              e[d][x] = IF d = Target(p) /\ x = n THEN k ELSE entry[d][x]
    BY <2>1, <2>2, LinkEffect
  <2>4. QED
    BY <2>1, <2>2, <2>3
<1>4. entry' = e /\ stream' = Streams(e)
  BY <1>2 DEF Change
<1> HIDE DEF e
<1>5. \A d \in Dirs, x \in Names : entry[d][x] # NoFile =>
         entry[d][x] \in Ids /\ entry[d][x] <= made /\ x.id <= made
  BY <1>1, LinkedFile
<1>6. /\ \A i \in Ids : i # k => file'[i] = file[i]
      /\ file'[k].msg = cur[p].parsed.msg /\ file'[k].whole = file[k].whole
  BY <1>1, <1>2, <1>3, Parts DEF Contents
<1>7. ~file[k].whole
  BY <1>1, <1>3 DEF Numbered
<1>8. /\ cur'[p].dname = n /\ cur'[p].dfile = k
      /\ cur'[p].parsed = cur[p].parsed /\ cur'[p].name = cur[p].name
  <2> DEFINE c == [cur EXCEPT ![p].dname = n]
  <2>1. /\ c \in [Procs -> Place] /\ c[p].dname = n
        /\ c[p].parsed = cur[p].parsed /\ c[p].name = cur[p].name
    BY <1>1, Parts DEF Place
  <2>2. cur' = [c EXCEPT ![p].dfile = k]
    BY <1>2
  <2> HIDE DEF c, k
  <2>3. QED
    BY <2>1, <2>2 DEF Place
<1>9. UNCHANGED walkVars /\ sc' = sc /\ torn' = torn /\ dropped' = dropped
  BY DEF Create, history
<1>10. Renames(p)' <=> Renames(p)
  BY <1>9 DEF Rule, Renames, Root, Target, Here, walkVars
<1>11. pc'[p] = IF Renames(p) THEN "rename" ELSE "write"
  BY <1>1, <1>2 DEF Goto
<1>12. \A d \in Dirs, x \in Names : e[d][x] # NoFile => x.id <= k
  <2>1. \A x \in Names : x.id \in Nat
    BY Constants DEF Names
  <2>2. QED
    BY <1>2, <1>3, <1>5, <2>1
<1>13. \A q \in Procs : \A x \in stream'[q].must \cup stream'[q].may : x.id <= k
  BY <1>1, <1>3, <1>4, <1>12, StreamIds
<1>14. QED
  BY <1>1, <1>2, <1>3, <1>4, <1>5, <1>6, <1>7, <1>8, <1>9, <1>10, <1>11, <1>13
  DEF NameOf

LEMMA CreateKeeps ==
    ASSUME WInv, NEW p \in Procs, Create(p), made' # made
    PROVE  Numbered' /\ Parsed' /\ Owned' /\ Unread' /\ Kept'
<1>1. /\ TypeOK /\ Numbered /\ Parsed /\ Owned /\ Unread /\ Kept /\ Frame(p)
  BY FrameHolds DEF WInv, Step
<1> DEFINE k == made + 1
           t == Target(p)
<1>2. PICK n \in Names :
         /\ k \in Ids /\ k \in Nat /\ made \in Nat /\ made' = k /\ n.id = k
         /\ t \in Dirs
         /\ \A d \in Dirs, x \in Names :
               /\ entry'[d][x] = IF d = t /\ x = n THEN k ELSE entry[d][x]
               /\ entry[d][x] # NoFile =>
                     entry[d][x] \in Ids /\ entry[d][x] <= made /\ x.id <= made
         /\ \A i \in Ids : i # k => file'[i] = file[i]
         /\ file'[k].msg = cur[p].parsed.msg /\ ~file'[k].whole
         /\ cur'[p].dname = n /\ cur'[p].dfile = k
         /\ cur'[p].parsed = cur[p].parsed /\ NameOf(p)' = NameOf(p)
         /\ pc[p] = "create" /\ pc'[p] = IF Renames(p) THEN "rename" ELSE "write"
         /\ torn' = torn /\ dropped' = dropped
         /\ Renames(p)' <=> Renames(p)
         /\ \A q \in Procs : \A x \in stream'[q].must \cup stream'[q].may :
               x.id <= k
  BY CreateFacts
<1>3. k = made + 1
  OBVIOUS
<1> HIDE DEF k, t
<1>4. \A q \in Procs \ {p} :
         /\ pc'[q] = pc[q] /\ cur'[q] = cur[q]
         /\ Past(q)' <=> Past(q)
         /\ Pending(q)' <=> Pending(q)
         /\ Renames(q)' <=> Renames(q)
         /\ NameOf(q)' = NameOf(q)
  BY <1>1, FrameFacts
<1>5. /\ \A x \in Names : x.id \in Ids /\ x.id \in Nat
      /\ \A i \in Ids : i \in Nat
  BY Constants DEF Names
<1>6. ASSUME NEW d \in Dirs, NEW x \in Names, entry[d][x] # NoFile
      PROVE  /\ x.id # k /\ entry[d][x] # k /\ entry'[d][x] = entry[d][x]
             /\ entry[d][x] \in Ids /\ x.id \in Ids
             /\ file'[x.id] = file[x.id] /\ file'[entry[d][x]] = file[entry[d][x]]
  BY <1>2, <1>3, <1>5, <1>6
<1>7. \A d \in Dirs, x \in Names : x.id = k => entry'[d][x] \in {NoFile, k}
  BY <1>2, <1>6
<1>8. \A q \in Procs : /\ NameOf(q) \in Ids /\ NameOf(q) \in Nat /\ NameOf(q) <= made
                       /\ NameOf(q) # k /\ NameOf(q) < k
                       /\ NameOf(q)' = NameOf(q)
                       /\ file'[NameOf(q)] = file[NameOf(q)]
                       /\ cur'[q].parsed = cur[q].parsed
                       /\ Past(q)' => Past(q)
  <2>1. \A q \in Procs : NameOf(q) \in Ids /\ NameOf(q) \in Nat /\ NameOf(q) <= made
    BY <1>1, ProcessTypes DEF Numbered
  <2>2. \A q \in Procs : NameOf(q) # k /\ NameOf(q) < k
    BY <1>2, <1>3, <2>1
  <2>3. \A q \in Procs : NameOf(q)' = NameOf(q) /\ cur'[q].parsed = cur[q].parsed
                         /\ (Past(q)' => Past(q))
    BY <1>2, <1>4 DEF Past
  <2>4. QED
    BY <1>2, <2>1, <2>2, <2>3
<1>9. \A q \in Procs : Pending(q) =>
         /\ cur[q].dfile \in Ids /\ cur[q].dfile \in Nat /\ cur[q].dfile <= made
         /\ cur[q].dfile # k /\ q # p
         /\ file'[cur[q].dfile] = file[cur[q].dfile]
  <2> SUFFICES ASSUME NEW q \in Procs, Pending(q)
               PROVE  /\ cur[q].dfile \in Ids /\ cur[q].dfile \in Nat
                      /\ cur[q].dfile <= made
                      /\ cur[q].dfile # k /\ q # p
                      /\ file'[cur[q].dfile] = file[cur[q].dfile]
    OBVIOUS
  <2>1. cur[q].dfile \in Ids /\ cur[q].dfile \in Nat /\ cur[q].dfile <= made
    BY <1>1, <1>5 DEF Owned
  <2>2. cur[q].dfile # k
    BY <1>2, <1>3, <2>1
  <2>3. q # p
    BY <1>2 DEF Pending
  <2>4. QED
    BY <1>2, <2>1, <2>2, <2>3
<1>10. cur[p].parsed.msg \in Msgs
  BY <1>1, <1>2, <1>8 DEF Parsed, Past, Numbered
<1>11. Numbered'
  <2>1. ASSUME NEW d \in Dirs, NEW x \in Names, entry'[d][x] # NoFile
        PROVE  /\ entry'[d][x] <= x.id /\ x.id <= made'
               /\ file'[entry'[d][x]].msg = file'[x.id].msg
    <3>1. CASE d = t /\ x = n
      BY <1>2, <3>1
    <3>2. CASE ~(d = t /\ x = n)
      <4>1. entry[d][x] # NoFile
        BY <1>2, <2>1, <3>2
      <4>2. /\ entry[d][x] <= x.id /\ x.id <= made
            /\ file[entry[d][x]].msg = file[x.id].msg
        BY <1>1, <4>1 DEF Numbered
      <4>3. x.id <= k
        BY <1>2, <1>3, <1>5, <4>2
      <4>4. QED
        BY <1>2, <1>6, <4>1, <4>2, <4>3
    <3>3. QED
      BY <3>1, <3>2
  <2>2. ASSUME NEW d \in Dirs, NEW x \in Names, entry'[d][x] \notin {NoFile, x.id}
        PROVE  /\ ~file'[x.id].whole
               /\ \A dd \in Dirs, nn \in Names : nn.id = x.id =>
                     entry'[dd][nn] \in {NoFile, x.id, entry'[d][x]}
    <3>1. entry[d][x] \notin {NoFile, x.id} /\ entry'[d][x] = entry[d][x]
      BY <1>2, <2>2
    <3>2. /\ ~file[x.id].whole
          /\ \A dd \in Dirs, nn \in Names : nn.id = x.id =>
                entry[dd][nn] \in {NoFile, x.id, entry[d][x]}
      BY <1>1, <3>1 DEF Numbered
    <3>3. x.id # k /\ file'[x.id] = file[x.id]
      BY <1>6, <3>1
    <3>4. \A dd \in Dirs, nn \in Names : nn.id = x.id => entry'[dd][nn] = entry[dd][nn]
      BY <1>2, <3>3
    <3>5. QED
      BY <3>1, <3>2, <3>3, <3>4
  <2>3. ASSUME NEW i \in Ids
        PROVE  IF i <= made' THEN file'[i].msg \in Msgs ELSE ~file'[i].whole
    <3>1. CASE i = k
      BY <1>2, <1>10, <3>1
    <3>2. CASE i # k
      <4>1. i <= made' <=> i <= made
        BY <1>2, <1>3, <1>5, <3>2
      <4>2. QED
        BY <1>1, <1>2, <3>2, <4>1 DEF Numbered
    <3>3. QED
      BY <3>1, <3>2
  <2>4. \A q \in Procs : NameOf(q)' <= made'
    BY <1>2, <1>3, <1>8
  <2>5. \A q \in Procs : \A x \in stream'[q].must \cup stream'[q].may : x.id <= made'
    BY <1>2
  <2>6. QED
    BY <2>1, <2>2, <2>3, <2>4, <2>5 DEF Numbered
<1>12. Parsed'
  <2> SUFFICES ASSUME NEW q \in Procs, Past(q)'
               PROVE  /\ cur'[q].parsed.msg = file'[NameOf(q)'].msg
                      /\ pc'[q] = "rename" => Renames(q)'
                      /\ pc'[q] \in {"write", "unlink"} => ~Renames(q)'
                      /\ \/ cur'[q].parsed.whole \/ Renames(q)'
                         \/ cur'[q].parsed.msg \in torn'
    BY DEF Parsed
  <2>1. CASE q = p
    BY <1>1, <1>2, <1>8, <2>1 DEF Parsed
  <2>2. CASE q # p
    BY <1>1, <1>2, <1>4, <1>8, <2>2 DEF Parsed
  <2>3. QED
    BY <2>1, <2>2
<1>13. Owned'
  <2>1. ASSUME NEW q \in Procs, Pending(q)'
        PROVE  /\ cur'[q].dfile \in Ids /\ cur'[q].dfile <= made'
               /\ cur'[q].dname.id = cur'[q].dfile /\ NameOf(q)' < cur'[q].dfile
               /\ \A d \in Dirs, x \in Names :
                     x.id = cur'[q].dfile => entry'[d][x] \in {NoFile, cur'[q].dfile}
               /\ Past(q)' => file'[cur'[q].dfile].msg = cur'[q].parsed.msg
               /\ pc'[q] \in {"rename", "write"} => ~file'[cur'[q].dfile].whole
    <3>1. CASE q = p
      BY <1>2, <1>7, <1>8, <3>1
    <3>2. CASE q # p
      <4>1. Pending(q) /\ cur'[q] = cur[q] /\ pc'[q] = pc[q]
        BY <1>4, <2>1, <3>2
      <4>2. cur[q].dfile <= made'
        BY <1>2, <1>3, <1>9, <4>1
      <4>3. \A d \in Dirs, x \in Names :
                x.id = cur[q].dfile => entry'[d][x] \in {NoFile, cur[q].dfile}
        BY <1>1, <1>2, <1>9, <4>1 DEF Owned
      <4>4. QED
        BY <1>1, <1>4, <1>9, <3>2, <4>1, <4>2, <4>3 DEF Owned
    <3>3. QED
      BY <3>1, <3>2
  <2>2. ASSUME NEW q \in Procs, NEW r \in Procs, Pending(q)', Pending(r)', q # r
        PROVE  cur'[q].dfile # cur'[r].dfile
    BY <1>1, <1>2, <1>4, <1>9, <2>2 DEF Owned
  <2>3. QED
    BY <2>1, <2>2 DEF Owned
<1>14. Unread'
  <2> SUFFICES ASSUME NEW r \in Procs, NEW q \in Procs, Past(q)', cur'[q].parsed.whole
               PROVE  /\ pc'[r] = "rename" => NameOf(q)' # cur'[r].dfile
                      /\ pc'[r] = "write" =>
                            \A d \in Dirs, x \in Names :
                               entry'[d][x] = cur'[r].dfile => NameOf(q)' # x.id
    BY DEF Unread
  <2>1. CASE r = p
    <3>1. \A d \in Dirs, x \in Names : entry'[d][x] = k => x.id = k
      BY <1>2, <1>6, Constants
    <3>2. QED
      BY <1>2, <1>8, <2>1, <3>1
  <2>2. CASE r # p
    <3>1. pc'[r] = pc[r] /\ cur'[r] = cur[r] /\ (pc[r] = "write" => Pending(r))
      BY <1>4, <2>2 DEF Pending
    <3>2. \A d \in Dirs, x \in Names :
             pc[r] = "write" /\ entry'[d][x] = cur[r].dfile => entry[d][x] = cur[r].dfile
      BY <1>2, <1>9, <3>1
    <3>3. QED
      BY <1>1, <1>8, <3>1, <3>2 DEF Unread
  <2>3. QED
    BY <2>1, <2>2
<1>15. Kept'
  <2>1. \A i : i \in Tentative' => i \in Tentative \/ i = k
    BY <1>2, <1>4, TentativeFacts, TentativeNext
  <2>2. ASSUME NEW m, NEW j, NEW d \in Dirs, NEW x \in Names, SafeAt(m, j, d, x)
        PROVE  SafeAt(m, j, d, x)'
    BY <1>6, <2>1, <2>2 DEF SafeAt
  <2>3. \A m, j : Safe(m, j) => Safe(m, j)'
    BY <2>2 DEF Safe
  <2>4. ASSUME NEW q \in Procs \ {p}, pc[q] = "write", Reachable(cur[q].dfile)
        PROVE  Reachable(cur[q].dfile)'
    <3>1. PICK j : j = cur[q].dfile
      OBVIOUS
    <3>2. j # NoFile /\ j = cur'[q].dfile
      BY <1>4, <1>9, <2>4, <3>1, Constants DEF Pending
    <3>3. PICK d \in Dirs, x \in Names : ReachableAt(j, d, x)
      BY <2>4, <3>1 DEF Reachable
    <3>4. ReachableAt(j, d, x)'
      BY <1>6, <2>1, <3>2, <3>3 DEF ReachableAt
    <3>5. QED
      BY <3>2, <3>4 DEF Reachable
  <2>5. (Reachable(cur[p].dfile))'
    <3>1. entry'[t][n] = cur'[p].dfile /\ n.id = cur'[p].dfile
      BY <1>2
    <3>2. QED
      BY <1>2, <3>1 DEF Reachable, ReachableAt
  <2>6. torn \subseteq torn' /\ dropped \subseteq dropped' /\ pc'[p] # "unlink"
    BY <1>2
  <2>7. QED
    BY <1>1, <2>3, <2>4, <2>5, <2>6, KeptStep
<1>16. QED
  BY <1>11, <1>12, <1>13, <1>14, <1>15

-----------------------------------------------------------------------------
\* The file under the name of the message is renamed over the one created.
LEMMA RenameFacts ==
    ASSUME WInv, NEW p \in Procs, RenameSource(p), entry[Here(p)][cur[p].name] # NoFile
    PROVE  LET h == Here(p)
               a == cur[p].name
               t == Target(p)
               b == cur[p].dname
               i == entry[h][a]
           IN  /\ h \in Dirs /\ a \in Names /\ t \in Dirs /\ b \in Names /\ a # b
               /\ b.id = cur[p].dfile /\ a.id < b.id /\ b.id <= made
               /\ a.id \in Nat /\ b.id \in Nat /\ i \in Nat /\ made \in Nat
               /\ i <= a.id /\ i <= b.id
               /\ file[i].msg = file[b.id].msg /\ ~file[b.id].whole
               /\ \A d \in Dirs, x \in Names :
                     /\ entry'[d][x] = IF d = t /\ x = b THEN i
                                       ELSE IF d = h /\ x = a THEN NoFile
                                       ELSE entry[d][x]
                     /\ x.id = b.id => entry[d][x] \in {NoFile, b.id}
               /\ pc[p] = "rename" /\ pc'[p] = "finish"
               /\ Pending(p) /\ ~Pending(p)' /\ ~Past(p)'
               /\ file' = file /\ made' = made /\ cur' = cur
               /\ torn' = torn /\ dropped' = dropped
<1> DEFINE h == Here(p)
           a == cur[p].name
           t == Target(p)
           b == cur[p].dname
           i == entry[h][a]
<1>1. /\ TypeOK /\ Numbered /\ Parsed /\ Owned /\ pc[p] = "rename"
      /\ entry \in Layout /\ pc \in [Procs -> PCs]
  BY Parts DEF WInv, RenameSource
<1>2. /\ h \in Dirs /\ a \in Names /\ t \in Dirs /\ b \in Names
      /\ NameOf(p) = a.id
  BY <1>1, ProcessTypes DEF NameOf
<1>3. /\ Change(Rename(h, a, t, b)) /\ Goto(p, "finish")
      /\ file' = file /\ made' = made /\ cur' = cur
      /\ torn' = torn /\ dropped' = dropped
  BY DEF RenameSource
<1>4. Pending(p) /\ Past(p)
  BY <1>1 DEF Pending, Past
<1>5. /\ b.id = cur[p].dfile /\ a.id < b.id /\ b.id <= made
      /\ file[b.id].msg = cur[p].parsed.msg /\ ~file[b.id].whole
      /\ \A d \in Dirs, x \in Names : x.id = b.id => entry[d][x] \in {NoFile, b.id}
  BY <1>1, <1>2, <1>4 DEF Owned
<1>6. /\ a.id \in Nat /\ b.id \in Nat /\ i \in Nat /\ made \in Nat /\ i <= a.id
      /\ file[i].msg = file[a.id].msg
  <2>1. b.id \in Nat
    BY <1>2, Constants DEF Names
  <2>2. QED
    BY <1>1, <1>2, <2>1, LinkedFile
<1>7. file[i].msg = file[b.id].msg
  BY <1>1, <1>2, <1>4, <1>5, <1>6 DEF Parsed
<1>8. i <= b.id /\ a # b
  BY <1>5, <1>6
<1>9. pc'[p] = "finish" /\ ~Pending(p)' /\ ~Past(p)'
  BY <1>1, <1>3 DEF Goto, Pending, Past
<1>10. \A d \in Dirs, x \in Names :
          entry'[d][x] = IF d = t /\ x = b THEN i
                         ELSE IF d = h /\ x = a THEN NoFile ELSE entry[d][x]
  BY <1>1, <1>2, <1>3, RenameEffect DEF Change
<1> HIDE DEF h, a, t, b, i
<1>11. QED
  BY <1>1, <1>2, <1>3, <1>4, <1>5, <1>6, <1>7, <1>8, <1>9, <1>10 DEF h, a, t, b, i

LEMMA RenameKeeps ==
    ASSUME WInv, NEW p \in Procs, RenameSource(p), entry[Here(p)][cur[p].name] # NoFile
    PROVE  Numbered' /\ Parsed' /\ Owned' /\ Unread' /\ Kept'
<1>0. PICK h, a, t, b, i : /\ h = Here(p) /\ a = cur[p].name
                           /\ t = Target(p) /\ b = cur[p].dname /\ i = entry[h][a]
  OBVIOUS
<1>1. /\ TypeOK /\ Numbered /\ Parsed /\ Owned /\ Unread /\ Kept /\ Frame(p)
  BY FrameHolds DEF WInv, Step
<1>2. /\ h \in Dirs /\ a \in Names /\ t \in Dirs /\ b \in Names /\ a # b
      /\ b.id = cur[p].dfile /\ a.id < b.id /\ b.id <= made
      /\ a.id \in Nat /\ b.id \in Nat /\ i \in Nat /\ made \in Nat
      /\ i <= a.id /\ i <= b.id
      /\ file[i].msg = file[b.id].msg /\ ~file[b.id].whole
      /\ \A d \in Dirs, x \in Names :
            /\ entry'[d][x] = IF d = t /\ x = b THEN i
                              ELSE IF d = h /\ x = a THEN NoFile
                              ELSE entry[d][x]
            /\ x.id = b.id => entry[d][x] \in {NoFile, b.id}
      /\ pc[p] = "rename" /\ pc'[p] = "finish"
      /\ Pending(p) /\ ~Pending(p)' /\ ~Past(p)'
      /\ file' = file /\ made' = made /\ cur' = cur
      /\ torn' = torn /\ dropped' = dropped
  BY <1>0, RenameFacts
<1>3. i # NoFile /\ entry[h][a] = i
  BY <1>0
<1>4. \A q \in Procs \ {p} :
         /\ pc'[q] = pc[q] /\ cur'[q] = cur[q]
         /\ Past(q)' <=> Past(q)
         /\ Pending(q)' <=> Pending(q)
         /\ Renames(q)' <=> Renames(q)
  BY <1>1, FrameFacts
<1>5. \A q \in Procs : NameOf(q)' = NameOf(q)
  BY <1>2 DEF NameOf
<1>6. \A q \in Procs : Pending(q)' => q # p /\ Pending(q) /\ cur[q].dfile # b.id
  BY <1>1, <1>2, <1>4 DEF Owned
<1>7. Numbered'
  <2>1. ASSUME NEW d \in Dirs, NEW x \in Names, entry'[d][x] # NoFile
        PROVE  /\ entry'[d][x] <= x.id /\ x.id <= made
               /\ file[entry'[d][x]].msg = file[x.id].msg
    BY <1>1, <1>2, <2>1 DEF Numbered
  <2>2. ASSUME NEW d \in Dirs, NEW x \in Names, entry'[d][x] \notin {NoFile, x.id}
        PROVE  /\ ~file[x.id].whole
               /\ \A dd \in Dirs, nn \in Names : nn.id = x.id =>
                     entry'[dd][nn] \in {NoFile, x.id, entry'[d][x]}
    <3>1. CASE d = t /\ x = b
      BY <1>2, <3>1
    <3>2. CASE ~(d = t /\ x = b)
      <4>1. entry'[d][x] = entry[d][x] /\ entry[d][x] \notin {NoFile, x.id}
        BY <1>2, <2>2, <3>2
      <4>2. x.id # b.id
        BY <1>2, <4>1
      <4>3. /\ ~file[x.id].whole
            /\ \A dd \in Dirs, nn \in Names : nn.id = x.id =>
                  entry[dd][nn] \in {NoFile, x.id, entry[d][x]}
        BY <1>1, <4>1 DEF Numbered
      <4>4. QED
        BY <1>2, <4>1, <4>2, <4>3
    <3>3. QED
      BY <3>1, <3>2
  <2>3. \A q \in Procs : \A x \in stream'[q].must \cup stream'[q].may : x.id <= made
    BY <1>1, <1>2, <2>1, StreamStep DEF Step
  <2>4. /\ \A j \in Ids : IF j <= made THEN file[j].msg \in Msgs ELSE ~file[j].whole
        /\ \A q \in Procs : NameOf(q) <= made
    BY <1>1 DEF Numbered
  <2>5. QED
    BY <1>2, <1>5, <2>1, <2>2, <2>3, <2>4 DEF Numbered
<1>8. Parsed'
  BY <1>1, <1>2, <1>4, <1>5 DEF Parsed
<1>9. Owned'
  <2>1. ASSUME NEW q \in Procs, Pending(q)'
        PROVE  /\ cur'[q].dfile \in Ids /\ cur'[q].dfile <= made'
               /\ cur'[q].dname.id = cur'[q].dfile /\ NameOf(q)' < cur'[q].dfile
               /\ \A d \in Dirs, x \in Names :
                     x.id = cur'[q].dfile => entry'[d][x] \in {NoFile, cur'[q].dfile}
               /\ Past(q)' => file'[cur'[q].dfile].msg = cur'[q].parsed.msg
               /\ pc'[q] \in {"rename", "write"} => ~file'[cur'[q].dfile].whole
    <3>1. q # p /\ Pending(q) /\ cur[q].dfile # b.id
      BY <1>6, <2>1
    <3>2. \A d \in Dirs, x \in Names :
              x.id = cur[q].dfile => entry'[d][x] \in {NoFile, cur[q].dfile}
      BY <1>1, <1>2, <3>1 DEF Owned
    <3>3. QED
      BY <1>1, <1>2, <1>4, <1>5, <3>1, <3>2 DEF Owned
  <2>2. ASSUME NEW q \in Procs, NEW r \in Procs, Pending(q)', Pending(r)', q # r
        PROVE  cur'[q].dfile # cur'[r].dfile
    BY <1>1, <1>2, <1>6, <2>2 DEF Owned
  <2>3. QED
    BY <2>1, <2>2 DEF Owned
<1>10. Unread'
  <2> SUFFICES ASSUME NEW r \in Procs, NEW q \in Procs, Past(q)', cur'[q].parsed.whole
               PROVE  /\ pc'[r] = "rename" => NameOf(q)' # cur'[r].dfile
                      /\ pc'[r] = "write" =>
                            \A d \in Dirs, x \in Names :
                               entry'[d][x] = cur'[r].dfile => NameOf(q)' # x.id
    BY DEF Unread
  <2>1. CASE r = p
    BY <1>2, <2>1
  <2>2. CASE r # p
    <3>1. q # p /\ Past(q) /\ cur[q].parsed.whole /\ pc'[r] = pc[r]
      BY <1>2, <1>4, <2>2
    <3>2. ASSUME pc[r] = "write", NEW d \in Dirs, NEW x \in Names,
                 entry'[d][x] = cur[r].dfile
          PROVE  NameOf(q) # x.id
      <4>1. cur[r].dfile # NoFile
        BY <1>1, <3>2, Constants DEF Owned, Pending
      <4>2. CASE d = t /\ x = b
        BY <1>1, <1>2, <3>1, <4>2 DEF Unread
      <4>3. CASE ~(d = t /\ x = b)
        <5>1. entry[d][x] = cur[r].dfile
          BY <1>2, <3>2, <4>1, <4>3
        <5>2. QED
          BY <1>1, <3>1, <3>2, <5>1 DEF Unread
      <4>4. QED
        BY <4>2, <4>3
    <3>3. QED
      BY <1>1, <1>2, <1>5, <3>1, <3>2 DEF Unread
  <2>3. QED
    BY <2>1, <2>2
<1>11. Kept'
  <2>1. /\ \A j : j \in Tentative' => j \in Tentative
        /\ b.id \notin Tentative' /\ b.id \in Tentative
    BY <1>2, <1>6, TentativeFacts, TentativeNext
  <2>2. \A k : Relied(p, k) => k # b.id
    <3>1. b.id # 0
      BY <1>1, <1>2, Constants DEF Owned, NoFile
    <3>2. QED
      BY <1>1, <1>2, <3>1 DEF Relied, Owned
  <2>3. \A k : Relied(p, k) => k \in Nat
    BY <1>1, ProcessTypes DEF Relied
  <2>4. ASSUME NEW m \in Msgs, NEW k, Relied(p, k), Safe(m, k)
        PROVE  Safe(m, k)'
    <3>1. PICK d \in Dirs, x \in Names : SafeAt(m, k, d, x)
      BY <2>4 DEF Safe
    <3>2. CASE d = h /\ x = a
      <4>1. /\ a.id >= k /\ file[i].whole /\ file[i].msg = m
        BY <1>3, <3>1, <3>2 DEF SafeAt
      <4>2. b.id >= k
        BY <1>2, <2>3, <2>4, <4>1
      <4>3. entry'[t][b] = i
        BY <1>2
      <4>4. SafeAt(m, k, t, b)'
        BY <1>2, <1>3, <2>1, <4>1, <4>2, <4>3 DEF SafeAt
      <4>5. QED
        BY <1>2, <4>4 DEF Safe
    <3>3. CASE ~(d = h /\ x = a)
      <4>1. x # b
        BY <2>1, <2>2, <2>4, <3>1 DEF SafeAt
      <4>2. entry'[d][x] = entry[d][x]
        BY <1>2, <3>3, <4>1
      <4>3. SafeAt(m, k, d, x)'
        BY <1>2, <2>1, <3>1, <4>2 DEF SafeAt
      <4>4. QED
        BY <4>3 DEF Safe
    <3>4. QED
      BY <3>2, <3>3
  <2>5. ASSUME NEW q \in Procs \ {p}, pc[q] = "write", Reachable(cur[q].dfile)
        PROVE  Reachable(cur[q].dfile)'
    <3>1. PICK k : k = cur[q].dfile
      OBVIOUS
    <3>2. Relied(p, k) /\ k # b.id
      BY <2>2, <2>5, <3>1 DEF Relied, Pending
    <3>3. PICK d \in Dirs, x \in Names : ReachableAt(k, d, x)
      BY <2>5, <3>1 DEF Reachable
    <3>4. CASE d = h /\ x = a
      <4>1. entry'[t][b] = k
        BY <1>2, <1>3, <3>3, <3>4 DEF ReachableAt
      <4>2. ReachableAt(k, t, b)'
        BY <2>1, <4>1 DEF ReachableAt
      <4>3. QED
        BY <1>2, <3>1, <4>2 DEF Reachable
    <3>5. CASE ~(d = h /\ x = a)
      <4>1. x # b
        BY <2>1, <3>2, <3>3 DEF ReachableAt
      <4>2. entry'[d][x] = entry[d][x]
        BY <1>2, <3>5, <4>1
      <4>3. ReachableAt(k, d, x)'
        BY <2>1, <3>3, <4>2 DEF ReachableAt
      <4>4. QED
        BY <1>2, <3>1, <4>3 DEF Reachable
    <3>6. QED
      BY <3>4, <3>5
  <2>6. torn \subseteq torn' /\ dropped \subseteq dropped'
    BY <1>2
  <2>7. QED
    BY <1>1, <1>2, <2>4, <2>5, <2>6, KeptStep
<1>12. QED
  BY <1>7, <1>8, <1>9, <1>10, <1>11

-----------------------------------------------------------------------------
\* The message is written to the file created.
LEMMA WriteKeeps ==
    ASSUME WInv, NEW p \in Procs, WriteCopy(p)
    PROVE  Numbered' /\ Parsed' /\ Owned' /\ Unread' /\ Kept'
<1>1. /\ TypeOK /\ Numbered /\ Parsed /\ Owned /\ Unread /\ Kept /\ Frame(p)
  BY FrameHolds DEF WInv, Step
<1>2. PICK k : k = cur[p].dfile
  OBVIOUS
<1>3. /\ pc[p] = "write" /\ Past(p) /\ Pending(p)
      /\ entry' = entry /\ made' = made /\ cur' = cur /\ stream' = stream
      /\ torn' = torn /\ dropped' = dropped /\ UNCHANGED walkVars /\ sc' = sc
  BY DEF WriteCopy, Past, Pending, history
<1>4. /\ k \in Ids /\ k <= made /\ ~file[k].whole /\ ~Renames(p)
      /\ \A d \in Dirs, x \in Names : x.id = k => entry[d][x] \in {NoFile, k}
      /\ file[k].msg = cur[p].parsed.msg
  BY <1>1, <1>2, <1>3 DEF Owned, Parsed
<1>5. pc'[p] = "unlink"
  BY <1>1, Parts DEF WriteCopy, Goto
<1>6. /\ file'[k].msg = cur[p].parsed.msg /\ file'[k].whole = cur[p].parsed.whole
      /\ \A i \in Ids : i # k => file'[i] = file[i]
  <2> DEFINE c == [cur[p].parsed EXCEPT !.label = @ \/ Rule(p).act = "label"]
  <2>1. c.msg = cur[p].parsed.msg /\ c.whole = cur[p].parsed.whole
    BY <1>1, ProcessTypes DEF Contents
  <2>2. file' = [file EXCEPT ![k] = c] /\ file \in [Ids -> Contents]
    BY <1>1, <1>2, Parts DEF WriteCopy
  <2> HIDE DEF c
  <2>3. QED
    BY <1>4, <2>1, <2>2
<1>7. \A i \in Ids : file'[i].msg = file[i].msg
  BY <1>4, <1>6
<1>8. /\ \A q \in Procs \ {p} :
            /\ pc'[q] = pc[q]
            /\ Past(q)' <=> Past(q)
            /\ Pending(q)' <=> Pending(q)
      /\ \A q \in Procs : NameOf(q)' = NameOf(q) /\ (Renames(q)' <=> Renames(q))
      /\ Past(p)' /\ (Pending(p)' => Pending(p))
  <2>1. Renames(p)' <=> Renames(p)
    BY <1>3 DEF Rule, Renames, Root, Target, Here, walkVars
  <2>2. Past(p)'
    BY <1>5 DEF Past
  <2>3. QED
    BY <1>1, <1>3, <2>1, <2>2, FrameFacts DEF NameOf
<1>9. \A d \in Dirs, x \in Names :
         entry[d][x] # NoFile => entry[d][x] \in Ids /\ x.id \in Ids
  BY <1>1, LinkedFile
<1>10. \A q \in Procs \ {p} : Pending(q) => cur[q].dfile \in Ids /\ cur[q].dfile # k
  BY <1>1, <1>2, <1>3 DEF Owned
<1>11. Numbered'
  <2>1. \A d \in Dirs, x \in Names :
           entry[d][x] # NoFile =>
              /\ entry[d][x] <= x.id /\ x.id <= made
              /\ file'[entry[d][x]].msg = file'[x.id].msg
    BY <1>1, <1>7, <1>9 DEF Numbered
  <2>2. ASSUME NEW d \in Dirs, NEW x \in Names, entry[d][x] \notin {NoFile, x.id}
        PROVE  /\ ~file'[x.id].whole
               /\ \A dd \in Dirs, nn \in Names : nn.id = x.id =>
                     entry[dd][nn] \in {NoFile, x.id, entry[d][x]}
    <3>1. x.id # k
      BY <1>4, <2>2
    <3>2. QED
      BY <1>1, <1>6, <1>9, <2>2, <3>1 DEF Numbered
  <2>3. \A i \in Ids : IF i <= made THEN file'[i].msg \in Msgs ELSE ~file'[i].whole
    BY <1>1, <1>4, <1>6, <1>7 DEF Numbered
  <2>4. \A q \in Procs : /\ NameOf(q) <= made
                         /\ \A n \in stream[q].must \cup stream[q].may : n.id <= made
    BY <1>1 DEF Numbered
  <2>5. QED
    BY <1>3, <1>8, <2>1, <2>2, <2>3, <2>4 DEF Numbered
<1>12. Parsed'
  <2> SUFFICES ASSUME NEW q \in Procs, Past(q)'
               PROVE  /\ cur'[q].parsed.msg = file'[NameOf(q)'].msg
                      /\ pc'[q] = "rename" => Renames(q)'
                      /\ pc'[q] \in {"write", "unlink"} => ~Renames(q)'
                      /\ \/ cur'[q].parsed.whole \/ Renames(q)'
                         \/ cur'[q].parsed.msg \in torn'
    BY DEF Parsed
  <2>1. Past(q) /\ NameOf(q) \in Ids
    BY <1>1, <1>3, <1>8, ProcessTypes
  <2>2. /\ cur[q].parsed.msg = file[NameOf(q)].msg
        /\ cur[q].parsed.whole \/ Renames(q) \/ cur[q].parsed.msg \in torn
    BY <1>1, <2>1 DEF Parsed
  <2>3. /\ pc'[q] = "rename" => Renames(q)
        /\ pc'[q] \in {"write", "unlink"} => ~Renames(q)
    BY <1>1, <1>4, <1>5, <1>8, <2>1 DEF Parsed
  <2>4. QED
    BY <1>3, <1>7, <1>8, <2>1, <2>2, <2>3
<1>13. Owned'
  <2>1. ASSUME NEW q \in Procs, Pending(q)'
        PROVE  /\ cur[q].dfile \in Ids /\ cur[q].dfile <= made
               /\ cur[q].dname.id = cur[q].dfile /\ NameOf(q) < cur[q].dfile
               /\ \A d \in Dirs, x \in Names :
                     x.id = cur[q].dfile => entry[d][x] \in {NoFile, cur[q].dfile}
               /\ Past(q)' => file'[cur[q].dfile].msg = cur[q].parsed.msg
               /\ pc'[q] \in {"rename", "write"} => ~file'[cur[q].dfile].whole
    <3>1. Pending(q)
      BY <1>8, <2>1
    <3>2. CASE q = p
      BY <1>1, <1>2, <1>5, <1>6, <3>1, <3>2 DEF Owned
    <3>3. CASE q # p
      <4>1. file'[cur[q].dfile] = file[cur[q].dfile]
        BY <1>6, <1>10, <3>1, <3>3
      <4>2. QED
        BY <1>1, <1>8, <3>1, <3>3, <4>1 DEF Owned
    <3>4. QED
      BY <3>2, <3>3
  <2>2. ASSUME NEW q \in Procs, NEW r \in Procs, Pending(q)', Pending(r)', q # r
        PROVE  cur[q].dfile # cur[r].dfile
    BY <1>1, <1>8, <2>2 DEF Owned
  <2>3. QED
    BY <1>3, <1>8, <2>1, <2>2 DEF Owned
<1>14. Unread'
  <2>1. \A r \in Procs : pc'[r] \in {"rename", "write"} => pc'[r] = pc[r]
    BY <1>5, <1>8
  <2>2. \A q \in Procs : Past(q)' => Past(q)
    BY <1>3, <1>8
  <2>3. QED
    BY <1>1, <1>3, <1>8, <2>1, <2>2 DEF Unread
<1>15. Kept'
  <2>1. \A j : j \in Tentative' => j \in Tentative
    BY <1>3, <1>8, TentativeFacts, TentativeNext
  <2>2. ASSUME NEW m, NEW j, NEW d \in Dirs, NEW x \in Names, SafeAt(m, j, d, x)
        PROVE  SafeAt(m, j, d, x)'
    <3>1. entry[d][x] # k /\ entry[d][x] \in Ids
      BY <1>4, <1>9, <2>2 DEF SafeAt
    <3>2. file'[entry[d][x]] = file[entry[d][x]]
      BY <1>6, <3>1
    <3>3. QED
      BY <1>3, <2>1, <2>2, <3>2 DEF SafeAt
  <2>3. \A m, j : Safe(m, j) => Safe(m, j)'
    BY <2>2 DEF Safe
  <2>4. ASSUME NEW q \in Procs \ {p}, pc[q] = "write", Reachable(cur[q].dfile)
        PROVE  Reachable(cur[q].dfile)'
    BY <1>3, <2>1, <2>4 DEF Reachable, ReachableAt
  <2>5. Excused(cur[p].parsed.msg) \/ Reachable(k)
    BY <1>1, <1>2, <1>3 DEF Kept
  <2>6. (Excused(cur[p].parsed.msg) \/ Safe(cur[p].parsed.msg, cur[p].dfile))'
    <3>1. PICK m : m = cur[p].parsed.msg
      OBVIOUS
    <3>2. CASE Excused(m)
      BY <1>3, <3>1, <3>2 DEF Excused
    <3>3. CASE ~cur[p].parsed.whole
      BY <1>1, <1>3, <1>4, <3>1, <3>3 DEF Parsed, Excused
    <3>4. CASE Reachable(k) /\ cur[p].parsed.whole
      <4>1. PICK d \in Dirs, x \in Names : ReachableAt(k, d, x)
        BY <3>4 DEF Reachable
      <4>2. entry[d][x] = k /\ k # NoFile /\ x.id \notin Tentative \ {k}
        BY <1>4, <4>1, Constants DEF ReachableAt
      <4>3. x.id \in Nat /\ k \in Nat /\ k <= x.id
        BY <1>1, <4>2, LinkedFile
      <4>4. SafeAt(m, k, d, x)'
        BY <1>3, <1>6, <2>1, <3>1, <3>4, <4>2, <4>3 DEF SafeAt
      <4>5. Safe(m, k)' /\ m = cur'[p].parsed.msg /\ k = cur'[p].dfile
        BY <1>2, <1>3, <3>1, <4>4 DEF Safe
      <4>6. QED
        BY <4>5
    <3>5. QED
      BY <2>5, <3>1, <3>2, <3>3, <3>4
  <2>7. torn \subseteq torn' /\ dropped \subseteq dropped'
    BY <1>3
  <2>8. QED
    BY <1>1, <1>5, <2>3, <2>4, <2>6, <2>7, KeptStep
<1>16. QED
  BY <1>11, <1>12, <1>13, <1>14, <1>15

-----------------------------------------------------------------------------
\* The mail reader moves a file to another name of the same number.
LEMMA MarkMoves ==
    ASSUME TypeOK, MarkSeen
    PROVE  /\ \A d \in Dirs, n \in Names : entry'[d][n] # NoFile =>
                 \E x \in Dirs, y \in Names :
                    y.id = n.id /\ entry[x][y] = entry'[d][n]
           /\ \A d \in Dirs, n \in Names : entry[d][n] # NoFile =>
                 \E x \in Dirs, y \in Names :
                    y.id = n.id /\ entry'[x][y] = entry[d][n]
           /\ stream' = Streams(entry')
<1>1. PICK d \in Dirs, n \in Names :
          LET dd == [d EXCEPT !.sub = "cur"]
              nn == [n EXCEPT !.seen = TRUE]
          IN  /\ entry[d][n] # NoFile /\ entry[dd][nn] = NoFile
              /\ Change(Rename(d, n, dd, nn))
  BY DEF MarkSeen
<1>2. PICK dd, nn : dd = [d EXCEPT !.sub = "cur"] /\ nn = [n EXCEPT !.seen = TRUE]
  OBVIOUS
<1>3. dd \in Dirs /\ nn \in Names /\ nn.id = n.id
  BY <1>2 DEF Dirs, Subdirs, Names
<1>4. /\ entry[d][n] # NoFile /\ entry[dd][nn] = NoFile
      /\ entry' = Rename(d, n, dd, nn) /\ stream' = Streams(entry')
  BY <1>1, <1>2 DEF Change
<1>5. \A x \in Dirs, y \in Names :
         entry'[x][y] = IF x = dd /\ y = nn THEN entry[d][n]
                        ELSE IF x = d /\ y = n THEN NoFile ELSE entry[x][y]
  BY <1>3, <1>4, RenameEffect, Parts
<1>6. QED
  BY <1>3, <1>4, <1>5

LEMMA MarkKeeps ==
    ASSUME WInv, MarkSeen
    PROVE  Numbered' /\ Parsed' /\ Owned' /\ Unread' /\ Kept'
<1>1. /\ TypeOK /\ Numbered /\ Parsed /\ Owned /\ Unread /\ Kept
  BY DEF WInv
<1>2. /\ sc' = sc /\ file' = file /\ made' = made /\ pc' = pc /\ UNCHANGED walkVars
      /\ cur' = cur /\ torn' = torn /\ dropped' = dropped
  BY DEF MarkSeen
<1>3. /\ \A d \in Dirs, n \in Names : entry'[d][n] # NoFile =>
            \E x \in Dirs, y \in Names : y.id = n.id /\ entry[x][y] = entry'[d][n]
      /\ \A d \in Dirs, n \in Names : entry[d][n] # NoFile =>
            \E x \in Dirs, y \in Names : y.id = n.id /\ entry'[x][y] = entry[d][n]
      /\ stream' = Streams(entry')
  BY <1>1, MarkMoves
<1>4. \A q \in Procs : /\ Past(q)' <=> Past(q)
                       /\ Pending(q)' <=> Pending(q)
                       /\ Renames(q)' <=> Renames(q)
                       /\ NameOf(q)' = NameOf(q) /\ Rule(q)' = Rule(q)
  BY <1>2 DEF Past, Pending, Renames, Rule, NameOf, Root, Target, Here, walkVars
<1>5. \A k : k \in Tentative' <=> k \in Tentative
  BY <1>2, <1>4, TentativeFacts, TentativeNext
<1>6. Numbered'
  <2>1. \A d \in Dirs, n \in Names : entry'[d][n] # NoFile =>
           /\ entry'[d][n] <= n.id /\ n.id <= made
           /\ file[entry'[d][n]].msg = file[n.id].msg
    <3> SUFFICES ASSUME NEW d \in Dirs, NEW n \in Names, entry'[d][n] # NoFile
                 PROVE  /\ entry'[d][n] <= n.id /\ n.id <= made
                        /\ file[entry'[d][n]].msg = file[n.id].msg
      OBVIOUS
    <3>1. PICK x \in Dirs, y \in Names : y.id = n.id /\ entry[x][y] = entry'[d][n]
      BY <1>3
    <3>2. QED
      BY <1>1, <3>1 DEF Numbered
  <2>2. ASSUME NEW d \in Dirs, NEW n \in Names, entry'[d][n] \notin {NoFile, n.id},
               NEW dd \in Dirs, NEW nn \in Names, nn.id = n.id
        PROVE  /\ ~file[n.id].whole
               /\ entry'[dd][nn] \in {NoFile, n.id, entry'[d][n]}
    <3>1. PICK x \in Dirs, y \in Names : y.id = n.id /\ entry[x][y] = entry'[d][n]
      BY <1>3, <2>2
    <3>2. /\ ~file[y.id].whole
          /\ \A xx \in Dirs, yy \in Names : yy.id = y.id =>
                entry[xx][yy] \in {NoFile, y.id, entry[x][y]}
      BY <1>1, <2>2, <3>1 DEF Numbered
    <3>3. CASE entry'[dd][nn] # NoFile
      <4>1. PICK xx \in Dirs, yy \in Names :
                yy.id = nn.id /\ entry[xx][yy] = entry'[dd][nn]
        BY <1>3, <3>3
      <4>2. QED
        BY <2>2, <3>1, <3>2, <4>1
    <3>4. QED
      BY <3>1, <3>2, <3>3
  <2>3. \A q \in Procs : \A n \in stream'[q].must \cup stream'[q].may : n.id <= made
    <3>1. made \in Ids
      BY <1>1, Parts
    <3>2. made \in Nat /\ made <= made
      BY <3>1, Constants
    <3>3. QED
      BY <1>1, <1>3, <2>1, <3>2, StreamIds
  <2>4. /\ \A i \in Ids : IF i <= made THEN file[i].msg \in Msgs ELSE ~file[i].whole
        /\ \A q \in Procs : NameOf(q) <= made
    BY <1>1 DEF Numbered
  <2>5. QED
    BY <1>2, <1>4, <2>1, <2>2, <2>3, <2>4 DEF Numbered
<1>7. Parsed'
  BY <1>1, <1>2, <1>4 DEF Parsed
<1>8. Owned'
  <2>1. ASSUME NEW q \in Procs, Pending(q), NEW d \in Dirs, NEW n \in Names,
               n.id = cur[q].dfile
        PROVE  entry'[d][n] \in {NoFile, cur[q].dfile}
    <3>1. CASE entry'[d][n] # NoFile
      <4>1. PICK x \in Dirs, y \in Names : y.id = n.id /\ entry[x][y] = entry'[d][n]
        BY <1>3, <3>1
      <4>2. QED
        BY <1>1, <2>1, <4>1 DEF Owned
    <3>2. QED
      BY <3>1
  <2>2. QED
    BY <1>1, <1>2, <1>4, <2>1 DEF Owned
<1>9. Unread'
  <2>1. ASSUME NEW r \in Procs, NEW q \in Procs, Past(q), cur[q].parsed.whole,
               pc[r] = "write", NEW d \in Dirs, NEW n \in Names,
               entry'[d][n] = cur[r].dfile
        PROVE  NameOf(q) # n.id
    <3>1. cur[r].dfile # NoFile
      BY <1>1, <2>1, Constants DEF Owned, Pending
    <3>2. PICK x \in Dirs, y \in Names : y.id = n.id /\ entry[x][y] = entry'[d][n]
      BY <1>3, <2>1, <3>1
    <3>3. QED
      BY <1>1, <2>1, <3>2 DEF Unread
  <2>2. QED
    BY <1>1, <1>2, <1>4, <2>1 DEF Unread
<1>10. Kept'
  <2>1. ASSUME NEW m, NEW k, Safe(m, k)
        PROVE  Safe(m, k)'
    <3>1. PICK d \in Dirs, n \in Names : SafeAt(m, k, d, n)
      BY <2>1 DEF Safe
    <3>2. PICK x \in Dirs, y \in Names : y.id = n.id /\ entry'[x][y] = entry[d][n]
      BY <1>3, <3>1 DEF SafeAt
    <3>3. SafeAt(m, k, x, y)'
      BY <1>2, <1>5, <3>1, <3>2 DEF SafeAt
    <3>4. QED
      BY <3>3 DEF Safe
  <2>2. ASSUME NEW k, k # NoFile, Reachable(k)
        PROVE  Reachable(k)'
    <3>1. PICK d \in Dirs, n \in Names : ReachableAt(k, d, n)
      BY <2>2 DEF Reachable
    <3>2. PICK x \in Dirs, y \in Names : y.id = n.id /\ entry'[x][y] = entry[d][n]
      BY <1>3, <2>2, <3>1 DEF ReachableAt
    <3>3. ReachableAt(k, x, y)'
      BY <1>5, <3>1, <3>2 DEF ReachableAt
    <3>4. QED
      BY <3>3 DEF Reachable
  <2>3. \A m : Excused(m) => Excused(m)'
    BY <1>2 DEF Excused
  <2>4. \A m \in Msgs : Excused(m)' \/ Safe(m, 0)'
    BY <1>1, <2>1, <2>3 DEF Kept
  <2>5. ASSUME NEW q \in Procs, pc[q] = "write"
        PROVE  (Excused(cur[q].parsed.msg) \/ Reachable(cur[q].dfile))'
    <3>1. PICK m, k : m = cur[q].parsed.msg /\ k = cur[q].dfile
      OBVIOUS
    <3>2. k # NoFile /\ (Excused(m) \/ Reachable(k))
      BY <1>1, <2>5, <3>1, Constants DEF Owned, Pending, Kept
    <3>3. (Excused(m) \/ Reachable(k))' /\ m = cur'[q].parsed.msg /\ k = cur'[q].dfile
      BY <1>2, <2>2, <2>3, <3>1, <3>2
    <3>4. QED
      BY <3>3
  <2>6. ASSUME NEW q \in Procs, pc[q] = "unlink", Rule(q).act # "discard"
        PROVE  (Excused(cur[q].parsed.msg) \/ Safe(cur[q].parsed.msg, cur[q].dfile))'
    <3>1. PICK m, k : m = cur[q].parsed.msg /\ k = cur[q].dfile
      OBVIOUS
    <3>2. Excused(m) \/ Safe(m, k)
      BY <1>1, <2>6, <3>1 DEF Kept
    <3>3. (Excused(m) \/ Safe(m, k))' /\ m = cur'[q].parsed.msg /\ k = cur'[q].dfile
      BY <1>2, <2>1, <2>3, <3>1, <3>2
    <3>4. QED
      BY <3>3
  <2>7. QED
    BY <1>2, <1>4, <2>4, <2>5, <2>6 DEF Kept
<1>11. QED
  BY <1>6, <1>7, <1>8, <1>9, <1>10

-----------------------------------------------------------------------------
\* Every step keeps the invariant: one case per kind of step.
LEMMA ProcessStep ==
    ASSUME WInv, NEW p \in Procs, Step(p)
    PROVE  Numbered' /\ Parsed' /\ Owned' /\ Unread' /\ Kept'
<1>1. TypeOK /\ pc \in [Procs -> PCs]
  BY Parts DEF WInv
<1>2. ASSUME ~Past(p)', entry' = entry
      PROVE  Numbered' /\ Parsed' /\ Owned' /\ Unread' /\ Kept'
  BY <1>2, QuietShrinks, ShrinkNumbered, ShrinkOthers, KeptQuiet
<1>3. CASE Open(p) \/ Read(p) \/ EndOfDirectory(p) \/ Finish(p)
  <2>1. entry' = entry
    BY <1>3 DEF Open, Read, EndOfDirectory, Finish, fsVars
  <2>2. ~Past(p)'
    BY <1>1, <1>3, Parts
    DEF Open, Read, EndOfDirectory, Finish, GiveUp, NextBlock, Goto, Past
  <2>3. QED
    BY <1>2, <2>1, <2>2
<1>4. CASE Parse(p)
  <2>1. entry' = entry
    BY <1>4 DEF Parse, fsVars
  <2>2. QED
    BY <1>2, <1>4, <2>1, ParseKeeps
<1>5. CASE Create(p)
  <2>1. made' = made => entry' = entry /\ ~Past(p)'
    BY <1>1, <1>5, ProcessTypes DEF Create, fsVars, Goto, Past
  <2>2. QED
    BY <1>2, <1>5, <2>1, CreateKeeps
<1>6. CASE RenameSource(p)
  <2>1. entry[Here(p)][cur[p].name] = NoFile => entry' = entry /\ ~Past(p)'
    BY <1>1, <1>6 DEF RenameSource, Goto, Past
  <2>2. QED
    BY <1>2, <1>6, <2>1, RenameKeeps
<1>7. CASE WriteCopy(p)
  BY <1>7, WriteKeeps
<1>8. CASE UnlinkSource(p) \/ Undo(p)
  BY <1>8, RemovalShrinks, ShrinkNumbered, ShrinkOthers, KeptRemoval
<1>9. QED
  BY <1>3, <1>4, <1>5, <1>6, <1>7, <1>8 DEF Step

LEMMA WalkStep == WInv /\ [Next]_vars => WInv'
<1> SUFFICES ASSUME WInv, [Next]_vars PROVE WInv'
  OBVIOUS
<1>1. TypeOK'
  BY TypeStep DEF WInv
<1>2. CASE UNCHANGED vars
  <2>1. /\ UNCHANGED <<sc, entry, file, made, pc, block, sub, stream, cur, torn,
                       dropped>>
    BY <1>2 DEF vars
  <2>2. \A q \in Procs : /\ Past(q)' <=> Past(q)
                         /\ Pending(q)' <=> Pending(q)
                         /\ Renames(q)' <=> Renames(q)
                         /\ NameOf(q)' = NameOf(q) /\ Rule(q)' = Rule(q)
    BY <2>1 DEF Past, Pending, Renames, Rule, NameOf, Root, Target, Here
  <2>3. Tentative' = Tentative
    BY <2>1, <2>2 DEF Tentative
  <2>4. Numbered' /\ Parsed' /\ Owned' /\ Unread'
    BY <2>1, <2>2 DEF WInv, Numbered, Parsed, Owned, Unread
  <2>5. Kept'
    BY <2>1, <2>2, <2>3 DEF WInv, Kept, Excused, Safe, SafeAt, Reachable, ReachableAt
  <2>6. QED
    BY <1>1, <2>4, <2>5 DEF WInv
<1>3. CASE Next
  BY <1>1, <1>2, <1>3, ProcessStep, MarkKeeps DEF Next, Terminated, WInv
<1>4. QED
  BY <1>2, <1>3

\* The variables keep their types: in particular no process runs past the end of
\* its list of maildirs.
THEOREM WalkTypeCorrect == Spec => []TypeOK
<1>1. Init => WInv
  BY InitWalk
<1>2. WInv /\ [Next]_vars => WInv'
  BY WalkStep
<1>3. WInv => TypeOK
  BY DEF WInv
<1>4. QED
  BY <1>1, <1>2, <1>3, PTL DEF Spec

\* However many processes walk the same maildirs, whatever their rules do, and
\* while a mail reader renames, every message stays in some maildir, complete,
\* unless it was discarded, or a process came upon a file of it that another was
\* still writing and copied or discarded that.
THEOREM NoMessageLost == Spec => []NoneLost
<1>1. Init => WInv
  BY InitWalk
<1>2. WInv /\ [Next]_vars => WInv'
  BY WalkStep
<1>3. WInv => NoneLost
  <2> SUFFICES ASSUME WInv, NEW m \in Msgs, Safe(m, 0) PROVE Exists(m)
    BY DEF WInv, Kept, Excused, NoneLost
  <2>1. PICK d \in Dirs, n \in Names : SafeAt(m, 0, d, n)
    BY DEF Safe
  <2>2. QED
    BY <2>1 DEF SafeAt, Exists, Linked
<1>4. QED
  BY <1>1, <1>2, <1>3, PTL DEF Spec

=============================================================================
