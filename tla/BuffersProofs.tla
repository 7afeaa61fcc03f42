---------------------------- MODULE BuffersProofs ----------------------------
(***************************************************************************)
(* Proofs that live blocks of an arena are disjoint, and that strings,     *)
(* buffers and vectors keep what was put in them and files are read to     *)
(* their end: for all sizes, of blocks, frames, the header, elements,      *)
(* initial capacities and files, with and without poison, and any number   *)
(* of objects and scopes.                                                  *)
(***************************************************************************)
EXTENDS Buffers, SequenceTheorems, TLAPS

(***************************************************************************)
(* The arena.                                                              *)
(***************************************************************************)

USE DEF MaxAlign

(***************************************************************************)
(* What has been disjoint stays so only because of three more facts: an    *)
(* inner scope begins where the outer ones had come, a block is below the  *)
(* use that each later scope found, and the next address after a block is  *)
(* aligned, which is how arena_realloc_fast() tells that it is the last.   *)
(***************************************************************************)

\* Block b was pushed when a frame of that size was used up to len or before.
Below(b, len, size) ==
    /\ End(b) <= len
    /\ AlignAddress(End(b)) <= len \/ len = size

ScopesNest ==
    /\ \A k \in DOMAIN scopes : scopes[k].len <= frames[scopes[k].frame].len
    /\ \A k, l \in DOMAIN scopes : k < l =>
          \/ scopes[k].frame < scopes[l].frame
          \/ scopes[k].frame = scopes[l].frame /\ scopes[k].len <= scopes[l].len

BlocksInUse ==
    \A i \in DOMAIN blocks :
        Below(blocks[i], frames[blocks[i].frame].len, frames[blocks[i].frame].size)

BlocksOutlive ==
    \A i \in DOMAIN blocks, k \in DOMAIN scopes : blocks[i].scope < k =>
        \/ blocks[i].frame < scopes[k].frame
        \/ /\ blocks[i].frame = scopes[k].frame
           /\ Below(blocks[i], scopes[k].len, frames[scopes[k].frame].size)

BlocksApart ==
    \A i, j \in DOMAIN blocks : i # j /\ blocks[i].frame = blocks[j].frame =>
        \/ AlignAddress(End(blocks[i])) <= blocks[j].off
        \/ AlignAddress(End(blocks[j])) <= blocks[i].off

IInv ==
    ArenaTypeOK /\ ScopesNest /\ BlocksInUse /\ BlocksOutlive /\ BlocksApart

-----------------------------------------------------------------------------
\* An aligned address is not below the one it is for, and alignment keeps the
\* order of addresses (align_address).
LEMMA AlignAddressFacts ==
    ASSUME NEW m \in Nat, NEW n \in Nat
    PROVE  /\ AlignAddress(n) \in Nat /\ n <= AlignAddress(n)
           /\ m <= n => AlignAddress(m) <= AlignAddress(n)
BY ArenaAssumption DEF AlignAddress

\* The use of a frame is within the frame, and what was pushed is below it
\* (arena_push_impl).
LEMMA UsedFacts ==
    ASSUME NEW end \in Nat, NEW size \in Nat, end <= size
    PROVE  /\ Used(end, size) \in Nat
           /\ end <= Used(end, size) /\ Used(end, size) <= size
           /\ AlignAddress(end) <= Used(end, size) \/ Used(end, size) = size
BY AlignAddressFacts DEF Used, Smaller

\* What the type invariant says of the elements of frames, scopes and blocks.
LEMMA TypeFacts ==
    ASSUME ArenaTypeOK
    PROVE  /\ Top \in Nat /\ DOMAIN frames = 1 .. Top
           /\ \A f \in 1 .. Top : /\ frames[f] \in [size : Nat, len : Nat]
                                  /\ frames[f].size \in Nat /\ frames[f].len \in Nat
                                  /\ Header <= frames[f].len
                                  /\ frames[f].len <= frames[f].size
           /\ Len(scopes) \in Nat /\ DOMAIN scopes = 1 .. Len(scopes)
           /\ \A k \in 1 .. Len(scopes) : /\ scopes[k] \in [frame : Nat, len : Nat]
                                          /\ scopes[k].frame \in 1 .. Top
                                          /\ scopes[k].len \in Nat
                                          /\ Header <= scopes[k].len
           /\ \A i \in DOMAIN blocks :
                 /\ blocks[i].frame \in 1 .. Top /\ blocks[i].off \in Nat
                 /\ blocks[i].size \in Nat \ {0} /\ blocks[i].scope \in 1 .. Len(scopes)
                 /\ Header <= blocks[i].off /\ End(blocks[i]) \in Nat
           /\ ~freed \/ scopes # << >> => Top >= 1
<1>1. frames \in Seq([size : Nat, len : Nat]) /\ scopes \in Seq([frame : Nat, len : Nat])
    BY DEF ArenaTypeOK
<1>2. /\ Top \in Nat /\ DOMAIN frames = 1 .. Top
      /\ Len(scopes) \in Nat /\ DOMAIN scopes = 1 .. Len(scopes)
    BY <1>1, LenProperties DEF Top
<1>3. /\ \A f \in 1 .. Top : frames[f] \in [size : Nat, len : Nat]
      /\ \A k \in 1 .. Len(scopes) : scopes[k] \in [frame : Nat, len : Nat]
    BY <1>1, ElementOfSeq DEF Top
<1>4. \A i \in DOMAIN blocks :
         /\ blocks[i].frame \in 1 .. Top /\ blocks[i].off \in Nat
         /\ blocks[i].size \in Nat \ {0} /\ blocks[i].scope \in 1 .. Len(scopes)
         /\ Header <= blocks[i].off
    BY <1>2 DEF ArenaTypeOK
<1>5. \A i \in DOMAIN blocks : End(blocks[i]) \in Nat
    BY <1>4 DEF End
<1>6. ~freed \/ scopes # << >> => Top >= 1
    BY <1>1, EmptySeq DEF ArenaTypeOK, Top
<1> QED
    BY <1>2, <1>3, <1>4, <1>5, <1>6 DEF ArenaTypeOK

\* The arena begins with one frame and nothing in it (arena_alloc).
LEMMA InitKeeps == ArenaInit => IInv
<1> SUFFICES ASSUME ArenaInit PROVE IInv
    OBVIOUS
<1>1. PICK n \in FrameSizes : Header <= n /\ frames = <<Frame(n, Used(Header, n))>>
    BY DEF ArenaInit
<1>2. n \in Nat /\ Header \in Nat
    BY ArenaAssumption
<1>3. Used(Header, n) \in Nat /\ Header <= Used(Header, n) /\ Used(Header, n) <= n
    BY <1>1, <1>2, UsedFacts
<1>4. /\ frames \in Seq([size : Nat, len : Nat]) /\ DOMAIN frames = {1}
      /\ frames[1].len = Used(Header, n) /\ frames[1].size = n /\ frames # << >>
  <2> DEFINE fr == [size |-> n, len |-> Used(Header, n)]
  <2>1. fr \in [size : Nat, len : Nat] /\ fr.len = Used(Header, n) /\ fr.size = n
      BY <1>2, <1>3
  <2>2. frames = <<fr>>
      BY <1>1 DEF Frame
  <2> HIDE DEF fr
  <2>3. <<fr>> = Append(<< >>, fr) /\ << >> \in Seq([size : Nat, len : Nat])
      BY EmptySeq
  <2>4. <<fr>> \in Seq([size : Nat, len : Nat])
      BY <2>1, <2>3, AppendProperties
  <2> QED
      BY <2>1, <2>2, <2>4
<1>5. scopes \in Seq([frame : Nat, len : Nat]) /\ DOMAIN scopes = {} /\ DOMAIN blocks = {}
    BY EmptySeq DEF ArenaInit
<1>6. ArenaTypeOK
    BY <1>3, <1>4, <1>5 DEF ArenaInit, ArenaTypeOK
<1> QED
    BY <1>5, <1>6 DEF IInv, ScopesNest, BlocksInUse, BlocksOutlive, BlocksApart

\* A scope begins with all live blocks below it (arena_scope_enter_impl).
LEMMA EnterKeeps ==
    ASSUME IInv, Enter
    PROVE  IInv'
<1>1. Top \in 1 .. Top /\ frames[Top] \in [size : Nat, len : Nat]
    BY TypeFacts DEF IInv, Enter
<1>2. PICK s \in [frame : Nat, len : Nat] :
         s.frame = Top /\ s.len = frames[Top].len /\ scopes' = Append(scopes, s)
  <2> DEFINE e == [frame |-> Top, len |-> frames[Top].len]
  <2>1. e \in [frame : Nat, len : Nat] /\ e.frame = Top /\ e.len = frames[Top].len
      BY <1>1
  <2>2. scopes' = Append(scopes, e)
      BY DEF Enter
  <2> QED
      BY <2>1, <2>2
<1>3. /\ scopes' \in Seq([frame : Nat, len : Nat])
      /\ DOMAIN scopes' = DOMAIN scopes \cup {Len(scopes) + 1}
      /\ scopes'[Len(scopes) + 1] = s
      /\ \A k \in DOMAIN scopes : scopes'[k] = scopes[k]
      /\ DOMAIN scopes = 1 .. Len(scopes) /\ Len(scopes) \in Nat
      /\ UNCHANGED <<frames, blocks, freed>>
  <2>1. scopes \in Seq([frame : Nat, len : Nat])
      BY DEF IInv, ArenaTypeOK
  <2>2. /\ Append(scopes, s) \in Seq([frame : Nat, len : Nat])
        /\ Len(Append(scopes, s)) = Len(scopes) + 1
        /\ \A k \in 1 .. Len(scopes) : Append(scopes, s)[k] = scopes[k]
        /\ Append(scopes, s)[Len(scopes) + 1] = s
      BY <2>1, AppendProperties
  <2>3. /\ DOMAIN scopes = 1 .. Len(scopes) /\ Len(scopes) \in Nat
        /\ DOMAIN Append(scopes, s) = 1 .. Len(Append(scopes, s))
      BY <2>1, <2>2, LenProperties
  <2> QED
      BY <1>2, <2>2, <2>3 DEF Enter
<1>4. ArenaTypeOK'
    BY <1>1, <1>2, <1>3, TypeFacts DEF IInv, ArenaTypeOK, Enter
<1>5. ScopesNest'
  <2>1. \A k \in DOMAIN scopes :
           scopes[k].frame \in 1 .. Top /\ scopes[k].len \in Nat
      BY TypeFacts DEF IInv
  <2>2. s.len \in Nat
      OBVIOUS
  <2>3. ASSUME NEW k \in DOMAIN scopes'
        PROVE  scopes'[k].len <= frames[scopes'[k].frame].len
      BY <1>1, <1>2, <1>3, <2>2 DEF IInv, ScopesNest
  <2>4. ASSUME NEW k \in DOMAIN scopes', NEW l \in DOMAIN scopes', k < l
        PROVE  \/ scopes'[k].frame < scopes'[l].frame
               \/ /\ scopes'[k].frame = scopes'[l].frame
                  /\ scopes'[k].len <= scopes'[l].len
    <3>1. k \in DOMAIN scopes /\ (l \in DOMAIN scopes \/ l = Len(scopes) + 1)
        BY <1>3, <2>4
    <3>2. CASE l \in DOMAIN scopes
        BY <1>3, <2>4, <3>1, <3>2 DEF IInv, ScopesNest
    <3>3. CASE l = Len(scopes) + 1
        BY <1>1, <1>2, <1>3, <2>1, <2>2, <3>1, <3>3 DEF IInv, ScopesNest
    <3> QED
        BY <3>1, <3>2, <3>3
  <2> QED
      BY <1>3, <2>3, <2>4 DEF ScopesNest
<1>6. BlocksInUse' /\ BlocksApart'
    BY <1>3 DEF IInv, BlocksInUse, BlocksApart, Below
<1>7. BlocksOutlive'
  <2> SUFFICES ASSUME NEW i \in DOMAIN blocks, NEW k \in DOMAIN scopes',
                      blocks[i].scope < k
               PROVE  \/ blocks[i].frame < scopes'[k].frame
                      \/ /\ blocks[i].frame = scopes'[k].frame
                         /\ Below(blocks[i], scopes'[k].len, frames[scopes'[k].frame].size)
      BY <1>3 DEF BlocksOutlive, Below
  <2>1. CASE k \in DOMAIN scopes
      BY <2>1, <1>3 DEF IInv, BlocksOutlive
  <2>2. CASE k = Len(scopes) + 1
    <3>1. blocks[i].frame \in 1 .. Top
        BY TypeFacts DEF IInv
    <3> QED
        BY <2>2, <3>1, <1>1, <1>2, <1>3 DEF IInv, BlocksInUse
  <2> QED
      BY <2>1, <2>2, <1>3
<1> QED
    BY <1>4, <1>5, <1>6, <1>7 DEF IInv

\* A block that is pushed where the last frame was used up to, or from where its
\* last block begins, is apart from the others (arena_push_impl).
LEMMA PushKeeps ==
    ASSUME IInv, scopes # << >>,
           NEW id \in Ids, NEW off \in Nat, NEW size \in Nat \ {0},
           Header <= off, off + size <= frames[Top].size,
           frames[Top].len <= Used(off + size, frames[Top].size),
           \A j \in DOMAIN blocks \ {id} :
               blocks[j].frame = Top => AlignAddress(End(blocks[j])) <= off,
           frames' = [frames EXCEPT ![Top].len = Used(off + size, frames[Top].size)],
           SetBlock(id, Block(Top, off, size, Len(scopes))),
           UNCHANGED <<scopes, freed>>
    PROVE  IInv'
<1> DEFINE used == Used(off + size, frames[Top].size)
           b == Block(Top, off, size, Len(scopes))
<1>1. ArenaTypeOK /\ Top \in 1 .. Top /\ Len(scopes) \in 1 .. Len(scopes)
  <2>1. scopes \in Seq([frame : Nat, len : Nat]) /\ ArenaTypeOK
      BY DEF IInv, ArenaTypeOK
  <2> QED
      BY <2>1, TypeFacts, EmptySeq
<1>2. /\ used \in Nat /\ off + size <= used /\ used <= frames[Top].size
      /\ AlignAddress(off + size) <= used \/ used = frames[Top].size
  <2>1. off + size \in Nat /\ frames[Top].size \in Nat
      BY <1>1, TypeFacts
  <2> QED
      BY <2>1, UsedFacts
<1>3. /\ b.frame = Top /\ b.off = off /\ b.size = size /\ b.scope = Len(scopes)
      /\ End(b) = off + size
      /\ b \in [frame : 1 .. Top, off : Nat, size : Nat \ {0}, scope : 1 .. Len(scopes)]
    BY <1>1 DEF Block, End
<1>4. /\ DOMAIN blocks' = DOMAIN blocks \cup {id} /\ blocks'[id] = b
      /\ \A j \in DOMAIN blocks \ {id} : blocks'[j] = blocks[j]
    BY DEF SetBlock
<1>5. /\ frames' \in Seq([size : Nat, len : Nat]) /\ Top' = Top /\ frames' # << >>
      /\ DOMAIN frames' = 1 .. Top /\ frames'[Top].len = used
      /\ \A f \in 1 .. Top : frames'[f].size = frames[f].size
      /\ \A f \in 1 .. Top : f # Top => frames'[f] = frames[f]
      /\ \A f \in 1 .. Top : frames[f].len <= frames'[f].len
  <2> DEFINE e == [frames[Top] EXCEPT !.len = used]
  <2>1. e \in [size : Nat, len : Nat] /\ e.len = used /\ e.size = frames[Top].size
      BY <1>1, <1>2, TypeFacts
  <2>2. frames' = [frames EXCEPT ![Top] = e] /\ frames \in Seq([size : Nat, len : Nat])
      BY <1>1 DEF ArenaTypeOK
  <2> HIDE DEF e
  <2>3. /\ [frames EXCEPT ![Top] = e] \in Seq([size : Nat, len : Nat])
        /\ Len([frames EXCEPT ![Top] = e]) = Len(frames)
        /\ \A j \in 1 .. Len(frames) :
              [frames EXCEPT ![Top] = e][j] = IF j = Top THEN e ELSE frames[j]
      BY <1>1, <2>1, <2>2, ExceptSeq DEF Top
  <2>4. DOMAIN [frames EXCEPT ![Top] = e] = 1 .. Top /\ Top' = Top
      BY <2>2, <2>3, LenProperties DEF Top
  <2>5. frames' # << >>
      BY <1>1, <2>2, <2>3, EmptySeq DEF Top
  <2> QED
      BY <1>1, <2>1, <2>2, <2>3, <2>4, <2>5, TypeFacts DEF Top
<1> HIDE DEF used, b
<1>6. ArenaTypeOK'
  <2>1. \A f \in DOMAIN frames' : /\ Header <= frames'[f].len
                                  /\ frames'[f].len <= frames'[f].size
      BY <1>1, <1>2, <1>5, TypeFacts, ArenaAssumption
  <2>2. \A k \in DOMAIN scopes : scopes[k].frame \in DOMAIN frames' /\ Header <= scopes[k].len
      BY <1>1, <1>5, TypeFacts
  <2>3. DOMAIN blocks' \subseteq Ids
      BY <1>1, <1>4 DEF ArenaTypeOK
  <2>4. DOMAIN frames' = DOMAIN frames /\ DOMAIN scopes = 1 .. Len(scopes)
      BY <1>1, <1>5, TypeFacts
  <2>5. \A i \in DOMAIN blocks' :
           /\ blocks'[i] \in [frame : DOMAIN frames', off : Nat,
                              size : Nat \ {0}, scope : DOMAIN scopes]
           /\ Header <= blocks'[i].off
    <3> SUFFICES ASSUME NEW i \in DOMAIN blocks'
                 PROVE  /\ blocks'[i] \in [frame : DOMAIN frames', off : Nat,
                                           size : Nat \ {0}, scope : DOMAIN scopes]
                        /\ Header <= blocks'[i].off
        OBVIOUS
    <3>1. CASE i = id
        BY <1>3, <1>4, <1>5, <2>4, <3>1
    <3>2. CASE i # id
        BY <1>1, <1>4, <2>4, <3>2 DEF ArenaTypeOK
    <3> QED
        BY <3>1, <3>2
  <2> QED
      BY <1>1, <1>5, <2>1, <2>2, <2>3, <2>5 DEF ArenaTypeOK
<1>7. ScopesNest'
  <2>1. \A k \in DOMAIN scopes : scopes[k].len <= frames'[scopes[k].frame].len
    <3> SUFFICES ASSUME NEW k \in DOMAIN scopes
                 PROVE  scopes[k].len <= frames'[scopes[k].frame].len
        OBVIOUS
    <3>1. scopes[k].frame \in 1 .. Top /\ scopes[k].len \in Nat
        BY <1>1, TypeFacts
    <3>2. scopes[k].len <= frames[scopes[k].frame].len
        BY DEF IInv, ScopesNest
    <3>3. frames[scopes[k].frame].len \in Nat /\ frames'[scopes[k].frame].len \in Nat
        BY <1>1, <1>2, <1>5, <3>1, TypeFacts
    <3> QED
        BY <1>5, <3>1, <3>2, <3>3
  <2> QED
      BY <2>1 DEF IInv, ScopesNest
<1>8. BlocksInUse'
  <2> SUFFICES ASSUME NEW i \in DOMAIN blocks'
               PROVE  Below(blocks'[i], frames'[blocks'[i].frame].len,
                            frames'[blocks'[i].frame].size)
      BY DEF BlocksInUse, Below, End
  <2>1. CASE i = id
      BY <1>1, <1>2, <1>3, <1>4, <1>5, <2>1 DEF Below
  <2>2. CASE i # id
    <3>1. /\ i \in DOMAIN blocks /\ blocks'[i] = blocks[i] /\ blocks[i].frame \in 1 .. Top
          /\ End(blocks[i]) \in Nat
        BY <1>1, <1>4, <2>2, TypeFacts
    <3>2. Below(blocks[i], frames[blocks[i].frame].len, frames[blocks[i].frame].size)
        BY <3>1 DEF IInv, BlocksInUse
    <3>3. CASE blocks[i].frame # Top
        BY <1>5, <3>1, <3>2, <3>3
    <3>4. CASE blocks[i].frame = Top
      <4>1. End(blocks[i]) <= off /\ AlignAddress(End(blocks[i])) <= off
          BY <2>2, <3>1, <3>4, AlignAddressFacts
      <4>2. AlignAddress(End(blocks[i])) \in Nat
          BY <3>1, AlignAddressFacts
      <4> QED
          BY <1>2, <1>5, <3>1, <3>4, <4>1, <4>2 DEF Below
    <3> QED
        BY <3>3, <3>4
  <2> QED
      BY <2>1, <2>2
<1>9. BlocksOutlive'
  <2> SUFFICES ASSUME NEW i \in DOMAIN blocks', NEW k \in DOMAIN scopes,
                      blocks'[i].scope < k
               PROVE  \/ blocks'[i].frame < scopes[k].frame
                      \/ /\ blocks'[i].frame = scopes[k].frame
                         /\ Below(blocks'[i], scopes[k].len, frames'[scopes[k].frame].size)
      BY DEF BlocksOutlive, Below, End
  <2>1. k \in 1 .. Len(scopes) /\ scopes[k].frame \in 1 .. Top
      BY <1>1, TypeFacts
  <2>2. i # id
      BY <1>1, <1>3, <1>4, <2>1
  <2>3. i \in DOMAIN blocks /\ blocks'[i] = blocks[i]
      BY <1>4, <2>2
  <2> QED
      BY <1>5, <2>1, <2>3 DEF IInv, BlocksOutlive
<1>10. BlocksApart'
  <2> SUFFICES ASSUME NEW i \in DOMAIN blocks', NEW j \in DOMAIN blocks', i # j,
                      blocks'[i].frame = blocks'[j].frame
               PROVE  \/ AlignAddress(End(blocks'[i])) <= blocks'[j].off
                      \/ AlignAddress(End(blocks'[j])) <= blocks'[i].off
      BY DEF BlocksApart, End, AlignAddress
  <2>1. CASE i = id
      BY <1>3, <1>4, <2>1
  <2>2. CASE j = id
      BY <1>3, <1>4, <2>2
  <2>3. CASE i # id /\ j # id
      BY <1>4, <2>3 DEF IInv, BlocksApart
  <2> QED
      BY <2>1, <2>2, <2>3
<1> QED
    BY <1>6, <1>7, <1>8, <1>9, <1>10 DEF IInv

\* A block in a frame of its own (arena_malloc, arena_frame_alloc).
LEMMA NewFrameKeeps ==
    ASSUME IInv, scopes # << >>,
           NEW id \in Ids, NEW off \in Nat, NEW size \in Nat \ {0}, NEW n \in Nat,
           Header <= off, off + size <= n,
           frames' = Append(frames, Frame(n, Used(off + size, n))),
           SetBlock(id, Block(Top + 1, off, size, Len(scopes))),
           UNCHANGED <<scopes, freed>>
    PROVE  IInv'
<1> DEFINE used == Used(off + size, n)
           b == Block(Top + 1, off, size, Len(scopes))
           e == Frame(n, used)
<1>1. ArenaTypeOK /\ Top \in Nat /\ Len(scopes) \in 1 .. Len(scopes)
  <2>1. scopes \in Seq([frame : Nat, len : Nat]) /\ ArenaTypeOK
      BY DEF IInv, ArenaTypeOK
  <2> QED
      BY <2>1, TypeFacts, EmptySeq
<1>2. /\ used \in Nat /\ off + size <= used /\ used <= n
      /\ AlignAddress(off + size) <= used \/ used = n
  <2>1. off + size \in Nat
      OBVIOUS
  <2> QED
      BY <2>1, UsedFacts
<1>3. /\ b.frame = Top + 1 /\ b.off = off /\ b.size = size /\ b.scope = Len(scopes)
      /\ End(b) = off + size
      /\ b \in [frame : 1 .. Top + 1, off : Nat, size : Nat \ {0}, scope : 1 .. Len(scopes)]
    BY <1>1 DEF Block, End
<1>4. /\ DOMAIN blocks' = DOMAIN blocks \cup {id} /\ blocks'[id] = b
      /\ \A j \in DOMAIN blocks \ {id} : blocks'[j] = blocks[j]
    BY DEF SetBlock
<1>5. /\ frames' \in Seq([size : Nat, len : Nat]) /\ frames' # << >>
      /\ DOMAIN frames' = 1 .. Top + 1
      /\ frames'[Top + 1].len = used /\ frames'[Top + 1].size = n
      /\ \A f \in 1 .. Top : frames'[f] = frames[f]
  <2>1. e \in [size : Nat, len : Nat] /\ e.len = used /\ e.size = n
      BY <1>2 DEF Frame
  <2>2. frames \in Seq([size : Nat, len : Nat]) /\ frames' = Append(frames, e)
      BY <1>1 DEF ArenaTypeOK
  <2> HIDE DEF e
  <2>3. /\ Append(frames, e) \in Seq([size : Nat, len : Nat]) /\ Append(frames, e) # << >>
        /\ Len(Append(frames, e)) = Top + 1
        /\ \A f \in 1 .. Top : Append(frames, e)[f] = frames[f]
        /\ Append(frames, e)[Top + 1] = e
      BY <2>1, <2>2, AppendProperties DEF Top
  <2>4. DOMAIN Append(frames, e) = 1 .. Top + 1
      BY <2>3, LenProperties
  <2> QED
      BY <2>1, <2>2, <2>3, <2>4
<1> HIDE DEF used, b, e
<1>6. \A j \in DOMAIN blocks : blocks[j].frame \in 1 .. Top /\ blocks[j].frame # Top + 1
    BY <1>1, TypeFacts
<1>7. ArenaTypeOK'
  <2>1. \A f \in DOMAIN frames' : /\ Header <= frames'[f].len
                                  /\ frames'[f].len <= frames'[f].size
    <3> SUFFICES ASSUME NEW f \in 1 .. Top + 1
                 PROVE  Header <= frames'[f].len /\ frames'[f].len <= frames'[f].size
        BY <1>5
    <3>1. CASE f = Top + 1
        BY <1>2, <1>5, <3>1, ArenaAssumption
    <3>2. CASE f \in 1 .. Top
        BY <1>1, <1>5, <3>2, TypeFacts
    <3>3. Top \in Nat
        BY <1>1
    <3>4. f = Top + 1 \/ f \in 1 .. Top
        BY <3>3
    <3> QED
        BY <3>1, <3>2, <3>4
  <2>2. \A k \in DOMAIN scopes : scopes[k].frame \in DOMAIN frames' /\ Header <= scopes[k].len
      BY <1>1, <1>5, TypeFacts
  <2>3. DOMAIN blocks' \subseteq Ids
      BY <1>1, <1>4 DEF ArenaTypeOK
  <2>4. DOMAIN frames \subseteq DOMAIN frames' /\ DOMAIN scopes = 1 .. Len(scopes)
      BY <1>1, <1>5, TypeFacts
  <2>5. \A i \in DOMAIN blocks' :
           /\ blocks'[i] \in [frame : DOMAIN frames', off : Nat,
                              size : Nat \ {0}, scope : DOMAIN scopes]
           /\ Header <= blocks'[i].off
    <3> SUFFICES ASSUME NEW i \in DOMAIN blocks'
                 PROVE  /\ blocks'[i] \in [frame : DOMAIN frames', off : Nat,
                                           size : Nat \ {0}, scope : DOMAIN scopes]
                        /\ Header <= blocks'[i].off
        OBVIOUS
    <3>1. CASE i = id
        BY <1>3, <1>4, <1>5, <2>4, <3>1
    <3>2. CASE i # id
        BY <1>1, <1>4, <2>4, <3>2 DEF ArenaTypeOK
    <3> QED
        BY <3>1, <3>2
  <2> QED
      BY <1>1, <1>5, <2>1, <2>2, <2>3, <2>5 DEF ArenaTypeOK
<1>8. ScopesNest'
    BY <1>1, <1>5, TypeFacts DEF IInv, ScopesNest
<1>9. BlocksInUse'
  <2> SUFFICES ASSUME NEW i \in DOMAIN blocks'
               PROVE  Below(blocks'[i], frames'[blocks'[i].frame].len,
                            frames'[blocks'[i].frame].size)
      BY DEF BlocksInUse, Below, End
  <2>1. CASE i = id
      BY <1>2, <1>3, <1>4, <1>5, <2>1 DEF Below
  <2>2. CASE i # id
      BY <1>4, <1>5, <1>6, <2>2 DEF IInv, BlocksInUse
  <2> QED
      BY <2>1, <2>2
<1>10. BlocksOutlive'
  <2> SUFFICES ASSUME NEW i \in DOMAIN blocks', NEW k \in DOMAIN scopes,
                      blocks'[i].scope < k
               PROVE  \/ blocks'[i].frame < scopes[k].frame
                      \/ /\ blocks'[i].frame = scopes[k].frame
                         /\ Below(blocks'[i], scopes[k].len, frames'[scopes[k].frame].size)
      BY DEF BlocksOutlive, Below, End
  <2>1. k \in 1 .. Len(scopes) /\ scopes[k].frame \in 1 .. Top
      BY <1>1, TypeFacts
  <2>2. i # id
      BY <1>1, <1>3, <1>4, <2>1
  <2>3. i \in DOMAIN blocks /\ blocks'[i] = blocks[i]
      BY <1>4, <2>2
  <2> QED
      BY <1>5, <2>1, <2>3 DEF IInv, BlocksOutlive
<1>11. BlocksApart'
  <2> SUFFICES ASSUME NEW i \in DOMAIN blocks', NEW j \in DOMAIN blocks', i # j,
                      blocks'[i].frame = blocks'[j].frame
               PROVE  \/ AlignAddress(End(blocks'[i])) <= blocks'[j].off
                      \/ AlignAddress(End(blocks'[j])) <= blocks'[i].off
      BY DEF BlocksApart, End, AlignAddress
  <2>1. i # id /\ j # id
      BY <1>3, <1>4, <1>6
  <2> QED
      BY <1>4, <2>1 DEF IInv, BlocksApart
<1> QED
    BY <1>7, <1>8, <1>9, <1>10, <1>11 DEF IInv

\* An allocation pushes after what is used or in a frame of its own (arena_malloc).
LEMMA AllocateKeeps ==
    ASSUME IInv, NEW id \in Ids, NEW size \in Nat \ {0}, Allocate(id, size)
    PROVE  IInv'
<1>1. /\ scopes # << >> /\ UNCHANGED <<scopes, freed>>
      /\ Header \in Nat /\ FrameSizes \subseteq Nat
    BY ArenaAssumption DEF Allocate
<1>2. Top \in 1 .. Top /\ ArenaTypeOK
    BY <1>1, TypeFacts DEF IInv
<1>3. CASE /\ frames[Top].len + size <= frames[Top].size
           /\ frames' = [frames EXCEPT ![Top].len = Used(@ + size, frames[Top].size)]
           /\ SetBlock(id, Block(Top, frames[Top].len, size, Len(scopes)))
  <2> DEFINE off == frames[Top].len
  <2>1. /\ off \in Nat /\ Header <= off /\ off + size \in Nat /\ frames[Top].size \in Nat
        /\ off <= frames[Top].size
      BY <1>2, TypeFacts
  <2>2. off <= Used(off + size, frames[Top].size)
    <3>1. /\ off + size <= Used(off + size, frames[Top].size)
          /\ Used(off + size, frames[Top].size) \in Nat
        BY <1>3, <2>1, UsedFacts
    <3> QED
        BY <2>1, <3>1
  <2>3. ASSUME NEW j \in DOMAIN blocks \ {id}, blocks[j].frame = Top
        PROVE  AlignAddress(End(blocks[j])) <= off
      BY <1>3, <2>1, <2>3 DEF IInv, BlocksInUse, Below
  <2>4. frames' = [frames EXCEPT ![Top].len = Used(off + size, frames[Top].size)]
      BY <1>3
  <2> QED
      BY <1>1, <1>3, <2>1, <2>2, <2>3, <2>4, PushKeeps
<1>4. CASE \E n \in FrameSizes :
              LET off == Used(Header, n)
              IN  /\ n >= size + Header + Poison
                  /\ off + size <= n
                  /\ frames' = Append(frames, Frame(n, Used(off + size, n)))
                  /\ SetBlock(id, Block(Top + 1, off, size, Len(scopes)))
  <2> PICK n \in FrameSizes :
              LET off == Used(Header, n)
              IN  /\ n >= size + Header + Poison
                  /\ off + size <= n
                  /\ frames' = Append(frames, Frame(n, Used(off + size, n)))
                  /\ SetBlock(id, Block(Top + 1, off, size, Len(scopes)))
      BY <1>4
  <2> DEFINE off == Used(Header, n)
  <2>1. n \in Nat /\ Header <= n
      BY <1>1, ArenaAssumption
  <2>2. off \in Nat /\ Header <= off
      BY <1>1, <2>1, UsedFacts
  <2> HIDE DEF off
  <2>3. /\ off + size <= n
        /\ frames' = Append(frames, Frame(n, Used(off + size, n)))
        /\ SetBlock(id, Block(Top + 1, off, size, Len(scopes)))
      BY DEF off
  <2> QED
      BY <1>1, <2>1, <2>2, <2>3, NewFrameKeeps
<1> QED
    BY <1>3, <1>4 DEF Allocate

\* A block that is the last one grows where it is, since the others are before
\* it; any other one is allocated anew (arena_realloc, arena_realloc_fast).
LEMMA ReallocKeeps ==
    ASSUME IInv, NEW id \in DOMAIN blocks, NEW old \in Nat, NEW new \in Nat \ {0},
           Realloc(id, old, new)
    PROVE  IInv'
<1> DEFINE b == blocks[id]
<1>1. ArenaTypeOK /\ id \in Ids
    BY DEF IInv, ArenaTypeOK
<1>2. /\ b.frame \in 1 .. Top /\ b.off \in Nat /\ b.size \in Nat \ {0} /\ Header <= b.off
      /\ b.scope = Len(scopes) /\ b.scope \in 1 .. Len(scopes) /\ old <= b.size
      /\ End(b) = b.off + b.size
    BY <1>1, TypeFacts DEF Realloc, End
<1>3. scopes # << >>
  <2>1. scopes \in Seq([frame : Nat, len : Nat])
      BY <1>1 DEF ArenaTypeOK
  <2> QED
      BY <1>2, <2>1, EmptySeq
<1> HIDE DEF b
<1>4. CASE new <= old /\ UNCHANGED arenaVars
    BY <1>4 DEF arenaVars, IInv, ArenaTypeOK, ScopesNest, BlocksInUse, BlocksOutlive,
                BlocksApart, Below
<1>5. CASE /\ new > old
           /\ b.frame = Top
           /\ AlignAddress(b.off + old) = frames[Top].len
           /\ b.off + new <= frames[Top].size
           /\ frames' = [frames EXCEPT ![Top].len = Used(b.off + new, frames[Top].size)]
           /\ SetBlock(id, Block(Top, b.off, new, b.scope))
           /\ UNCHANGED <<scopes, freed>>
  <2>1. /\ b.off + old \in Nat /\ b.off + new \in Nat /\ b.off + old <= b.off + new
        /\ b.off + old <= End(b) /\ End(b) \in Nat
      BY <1>2, <1>5
  <2>2. /\ frames[Top].len \in Nat /\ frames[Top].size \in Nat
        /\ frames[Top].len <= frames[Top].size
      BY <1>1, <1>2, <1>5, TypeFacts
  <2>3. frames[Top].len <= Used(b.off + new, frames[Top].size)
    <3>1. /\ Used(b.off + new, frames[Top].size) \in Nat
          /\ \/ AlignAddress(b.off + new) <= Used(b.off + new, frames[Top].size)
             \/ Used(b.off + new, frames[Top].size) = frames[Top].size
        BY <1>5, <2>1, <2>2, UsedFacts
    <3>2. AlignAddress(b.off + old) <= AlignAddress(b.off + new)
        BY <2>1, AlignAddressFacts
    <3>3. AlignAddress(b.off + new) \in Nat
        BY <2>1, AlignAddressFacts
    <3> QED
        BY <1>5, <2>2, <3>1, <3>2, <3>3
  <2>4. ASSUME NEW j \in DOMAIN blocks \ {id}, blocks[j].frame = Top
        PROVE  AlignAddress(End(blocks[j])) <= b.off
    <3>1. /\ blocks[j].off \in Nat /\ blocks[j].size \in Nat \ {0}
          /\ End(blocks[j]) = blocks[j].off + blocks[j].size
        BY <1>1, TypeFacts DEF End
    <3>2. End(blocks[j]) <= frames[Top].len
        BY <2>4 DEF IInv, BlocksInUse, Below
    <3>3. AlignAddress(b.off + old) <= AlignAddress(End(b)) /\ AlignAddress(End(b)) \in Nat
        BY <2>1, AlignAddressFacts
    <3>4. \/ AlignAddress(End(b)) <= blocks[j].off
          \/ AlignAddress(End(blocks[j])) <= b.off
        BY <1>5, <2>4 DEF IInv, BlocksApart, b
    <3> QED
        BY <1>5, <2>2, <3>1, <3>2, <3>3, <3>4
  <2> QED
      BY <1>1, <1>2, <1>3, <1>5, <2>3, <2>4, PushKeeps
<1>6. CASE new > old /\ Allocate(id, new)
    BY <1>1, <1>6, AllocateKeeps
<1> QED
    BY <1>4, <1>5, <1>6 DEF Realloc, b

\* What is left when a scope is left was there when it was entered
\* (arena_scope_leave).
LEMMA LeaveKeeps ==
    ASSUME IInv, Leave
    PROVE  IInv'
<1> DEFINE n == Len(scopes)
           s == scopes[n]
<1>1. ArenaTypeOK /\ n \in 1 .. n /\ Top \in Nat
  <2>1. scopes \in Seq([frame : Nat, len : Nat]) /\ ArenaTypeOK /\ scopes # << >>
      BY DEF IInv, ArenaTypeOK, Leave
  <2> QED
      BY <2>1, TypeFacts, EmptySeq
<1>2. /\ s.frame \in 1 .. Top /\ s.len \in Nat /\ Header <= s.len
      /\ s.len <= frames[s.frame].len
    BY <1>1, TypeFacts DEF IInv, ScopesNest
<1>3. /\ scopes' \in Seq([frame : Nat, len : Nat]) /\ DOMAIN scopes' = 1 .. n - 1
      /\ \A k \in 1 .. n - 1 : scopes'[k] = scopes[k]
      /\ n = 1 => scopes' = << >>
  <2>1. scopes' = SubSeq(scopes, 1, n - 1)
      BY DEF Leave
  <2>2. \A k \in 1 .. n - 1 : scopes[k] \in [frame : Nat, len : Nat]
      BY <1>1, TypeFacts
  <2>3. n - 1 \in Nat /\ 1 \in Int /\ n - 1 \in Int
      BY <1>1
  <2> HIDE DEF n
  <2>4. /\ SubSeq(scopes, 1, n - 1) \in Seq([frame : Nat, len : Nat])
        /\ Len(SubSeq(scopes, 1, n - 1)) = IF 1 <= n - 1 THEN n - 1 - 1 + 1 ELSE 0
        /\ \A k \in 1 .. n - 1 - 1 + 1 : SubSeq(scopes, 1, n - 1)[k] = scopes[1 + k - 1]
      BY <2>2, <2>3, SubSeqProperties
  <2>5. Len(SubSeq(scopes, 1, n - 1)) = n - 1 /\ n - 1 - 1 + 1 = n - 1
      BY <2>3, <2>4
  <2>6. \A k \in 1 .. n - 1 : SubSeq(scopes, 1, n - 1)[k] = scopes[k]
      BY <2>3, <2>4, <2>5
  <2>7. DOMAIN SubSeq(scopes, 1, n - 1) = 1 .. n - 1
      BY <2>4, <2>5, LenProperties
  <2>8. n = 1 => SubSeq(scopes, 1, n - 1) = << >>
      BY <2>4, <2>5, EmptySeq
  <2> QED
      BY <2>1, <2>4, <2>6, <2>7, <2>8
<1>4. /\ DOMAIN blocks' = {j \in DOMAIN blocks : blocks[j].scope < n}
      /\ \A j \in DOMAIN blocks' : blocks'[j] = blocks[j]
    BY DEF Leave
<1> HIDE DEF n, s
<1>5. CASE freed /\ n = 1
  <2>1. frames' = << >> /\ freed' /\ scopes' = << >>
      BY <1>3, <1>5 DEF Leave, n
  <2>2. DOMAIN blocks' = {}
      BY <1>1, <1>4, <1>5, TypeFacts DEF n
  <2>3. << >> \in Seq([size : Nat, len : Nat]) /\ DOMAIN frames' = {} /\ DOMAIN scopes' = {}
      BY <2>1, EmptySeq
  <2> QED
      BY <1>3, <2>1, <2>2, <2>3
      DEF IInv, ArenaTypeOK, ScopesNest, BlocksInUse, BlocksOutlive, BlocksApart
<1>6. CASE ~(freed /\ n = 1)
  <2>1. /\ frames' \in Seq([size : Nat, len : Nat]) /\ frames' # << >>
        /\ DOMAIN frames' = 1 .. s.frame
        /\ \A f \in 1 .. s.frame : frames'[f].size = frames[f].size
        /\ \A f \in 1 .. s.frame : f # s.frame => frames'[f] = frames[f]
        /\ frames'[s.frame].len = s.len
    <3> DEFINE t == SubSeq(frames, 1, s.frame)
               e == [frames[s.frame] EXCEPT !.len = s.len]
    <3>1. s.frame \in Nat /\ 1 <= s.frame /\ 1 \in Int /\ s.frame \in Int
        BY <1>2
    <3>2. \A f \in 1 .. s.frame : frames[f] \in [size : Nat, len : Nat]
        BY <1>1, <1>2, TypeFacts
    <3>3. /\ t \in Seq([size : Nat, len : Nat]) /\ Len(t) = s.frame
          /\ \A f \in 1 .. s.frame : t[f] = frames[f]
      <4>1. /\ t \in Seq([size : Nat, len : Nat])
            /\ Len(t) = IF 1 <= s.frame THEN s.frame - 1 + 1 ELSE 0
            /\ \A f \in 1 .. s.frame - 1 + 1 : t[f] = frames[1 + f - 1]
          BY <3>1, <3>2, SubSeqProperties
      <4>2. s.frame - 1 + 1 = s.frame /\ \A f \in 1 .. s.frame : 1 + f - 1 = f
          BY <3>1
      <4> HIDE DEF t
      <4> QED
          BY <3>1, <4>1, <4>2
    <3>4. e \in [size : Nat, len : Nat] /\ e.len = s.len /\ e.size = frames[s.frame].size
        BY <1>2, <3>1, <3>2
    <3>5. frames' = [t EXCEPT ![s.frame] = e]
      <4>1. frames' = [t EXCEPT ![s.frame].len = IF s.len <= frames[s.frame].len
                                                 THEN s.len ELSE 0]
          BY <1>6 DEF Leave, n, s
      <4>2. t[s.frame] = frames[s.frame]
          BY <3>1, <3>3
      <4> HIDE DEF t
      <4> QED
          BY <1>2, <4>1, <4>2
    <3> HIDE DEF t, e
    <3>6. /\ [t EXCEPT ![s.frame] = e] \in Seq([size : Nat, len : Nat])
          /\ Len([t EXCEPT ![s.frame] = e]) = s.frame
          /\ \A j \in 1 .. s.frame : [t EXCEPT ![s.frame] = e][j] =
                                         IF j = s.frame THEN e ELSE t[j]
        BY <3>1, <3>3, <3>4, ExceptSeq
    <3>7. DOMAIN [t EXCEPT ![s.frame] = e] = 1 .. s.frame
        BY <3>6, LenProperties
    <3>8. [t EXCEPT ![s.frame] = e] # << >>
        BY <3>1, <3>6, EmptySeq
    <3> QED
        BY <3>1, <3>3, <3>4, <3>5, <3>6, <3>7, <3>8
  <2>2. \A k \in 1 .. n - 1 :
           /\ scopes[k].frame \in 1 .. s.frame /\ scopes[k].len \in Nat
           /\ scopes[k].frame = s.frame => scopes[k].len <= s.len
    <3> SUFFICES ASSUME NEW k \in 1 .. n - 1
                 PROVE  /\ scopes[k].frame \in 1 .. s.frame /\ scopes[k].len \in Nat
                        /\ scopes[k].frame = s.frame => scopes[k].len <= s.len
        OBVIOUS
    <3>1. k \in 1 .. n /\ k < n /\ DOMAIN scopes = 1 .. n
        BY <1>1, TypeFacts DEF n
    <3>2. scopes[k].frame \in 1 .. Top /\ scopes[k].len \in Nat
        BY <1>1, <3>1, TypeFacts DEF n
    <3>3. \/ scopes[k].frame < s.frame
          \/ scopes[k].frame = s.frame /\ scopes[k].len <= s.len
        BY <1>1, <3>1 DEF IInv, ScopesNest, s
    <3> QED
        BY <1>2, <3>2, <3>3
  <2>3. \A i \in DOMAIN blocks' :
           /\ i \in DOMAIN blocks /\ blocks'[i] = blocks[i]
           /\ blocks[i].scope \in 1 .. n - 1 /\ blocks[i].frame \in 1 .. s.frame
           /\ blocks[i].frame = s.frame => Below(blocks[i], s.len, frames[s.frame].size)
    <3> SUFFICES ASSUME NEW i \in DOMAIN blocks'
                 PROVE  /\ i \in DOMAIN blocks /\ blocks'[i] = blocks[i]
                        /\ blocks[i].scope \in 1 .. n - 1 /\ blocks[i].frame \in 1 .. s.frame
                        /\ blocks[i].frame = s.frame =>
                              Below(blocks[i], s.len, frames[s.frame].size)
        OBVIOUS
    <3>1. i \in DOMAIN blocks /\ blocks'[i] = blocks[i] /\ blocks[i].scope < n
        BY <1>4
    <3>2. blocks[i].scope \in 1 .. n /\ blocks[i].frame \in 1 .. Top
        BY <1>1, <3>1, TypeFacts DEF n
    <3>3. n \in DOMAIN scopes
        BY <1>1, TypeFacts DEF n
    <3>4. \/ blocks[i].frame < s.frame
          \/ blocks[i].frame = s.frame /\ Below(blocks[i], s.len, frames[s.frame].size)
        BY <3>1, <3>3 DEF IInv, BlocksOutlive, s
    <3> QED
        BY <1>1, <1>2, <3>1, <3>2, <3>4
  <2>4. ArenaTypeOK'
    <3>1. \A f \in DOMAIN frames' : /\ Header <= frames'[f].len
                                    /\ frames'[f].len <= frames'[f].size
      <4> SUFFICES ASSUME NEW f \in 1 .. s.frame
                   PROVE  Header <= frames'[f].len /\ frames'[f].len <= frames'[f].size
          BY <2>1
      <4>1. f \in 1 .. Top /\ s.frame \in 1 .. Top
          BY <1>1, <1>2
      <4>2. /\ Header <= frames[f].len /\ frames[f].len <= frames[f].size
            /\ frames[f].len \in Nat /\ frames[f].size \in Nat
          BY <1>1, <4>1, TypeFacts
      <4>3. CASE f = s.frame
          BY <1>2, <2>1, <4>2, <4>3, ArenaAssumption, SMTT(30)
      <4>4. CASE f # s.frame
          BY <2>1, <4>2, <4>4
      <4> QED
          BY <4>3, <4>4
    <3>2. \A k \in DOMAIN scopes' : /\ scopes'[k].frame \in DOMAIN frames'
                                    /\ Header <= scopes'[k].len
      <4>1. \A k \in 1 .. n - 1 : Header <= scopes[k].len
          BY <1>1, TypeFacts DEF n
      <4> QED
          BY <1>3, <2>1, <2>2, <4>1
    <3>3. DOMAIN blocks' \subseteq Ids
        BY <1>1, <1>4 DEF ArenaTypeOK
    <3>4. \A i \in DOMAIN blocks' :
             /\ blocks'[i] \in [frame : DOMAIN frames', off : Nat,
                                size : Nat \ {0}, scope : DOMAIN scopes']
             /\ Header <= blocks'[i].off
        BY <1>1, <1>3, <2>1, <2>3 DEF ArenaTypeOK
    <3>5. freed' \in BOOLEAN
        BY <1>1 DEF Leave, ArenaTypeOK
    <3> QED
        BY <1>3, <2>1, <3>1, <3>2, <3>3, <3>4, <3>5 DEF ArenaTypeOK
  <2>5. ScopesNest'
    <3>1. ASSUME NEW k \in DOMAIN scopes'
          PROVE  scopes'[k].len <= frames'[scopes'[k].frame].len
      <4>1. k \in DOMAIN scopes /\ k \in 1 .. n - 1
          BY <1>1, <1>3, TypeFacts DEF n
      <4>2. scopes[k].len <= frames[scopes[k].frame].len
          BY <4>1 DEF IInv, ScopesNest
      <4> QED
          BY <1>3, <2>1, <2>2, <4>1, <4>2
    <3>2. ASSUME NEW k \in DOMAIN scopes', NEW l \in DOMAIN scopes', k < l
          PROVE  \/ scopes'[k].frame < scopes'[l].frame
                 \/ /\ scopes'[k].frame = scopes'[l].frame
                    /\ scopes'[k].len <= scopes'[l].len
      <4>1. k \in 1 .. n - 1 /\ l \in 1 .. n - 1
          BY <1>3
      <4>2. k \in DOMAIN scopes /\ l \in DOMAIN scopes
          BY <1>1, <4>1, TypeFacts DEF n
      <4> QED
          BY <1>3, <3>2, <4>1, <4>2 DEF IInv, ScopesNest
    <3> QED
        BY <3>1, <3>2 DEF ScopesNest
  <2>6. BlocksInUse'
    <3> SUFFICES ASSUME NEW i \in DOMAIN blocks'
                 PROVE  Below(blocks'[i], frames'[blocks'[i].frame].len,
                              frames'[blocks'[i].frame].size)
        BY DEF BlocksInUse, Below, End
    <3>1. Below(blocks[i], frames[blocks[i].frame].len, frames[blocks[i].frame].size)
        BY <2>3 DEF IInv, BlocksInUse
    <3> QED
        BY <2>1, <2>3, <3>1, SMTT(30)
  <2>7. BlocksOutlive'
    <3> SUFFICES ASSUME NEW i \in DOMAIN blocks', NEW k \in DOMAIN scopes',
                        blocks'[i].scope < k
                 PROVE  \/ blocks'[i].frame < scopes'[k].frame
                        \/ /\ blocks'[i].frame = scopes'[k].frame
                           /\ Below(blocks'[i], scopes'[k].len,
                                    frames'[scopes'[k].frame].size)
        BY DEF BlocksOutlive, Below, End
    <3>1. k \in DOMAIN scopes /\ k \in 1 .. n - 1
        BY <1>1, <1>3, TypeFacts DEF n
    <3>2. /\ blocks'[i] = blocks[i] /\ i \in DOMAIN blocks
          /\ scopes'[k] = scopes[k] /\ scopes[k].frame \in 1 .. s.frame
        BY <1>3, <2>2, <2>3, <3>1
    <3>3. \/ blocks[i].frame < scopes[k].frame
          \/ /\ blocks[i].frame = scopes[k].frame
             /\ Below(blocks[i], scopes[k].len, frames[scopes[k].frame].size)
        BY <3>1, <3>2 DEF IInv, BlocksOutlive
    <3> QED
        BY <2>1, <3>2, <3>3
  <2>8. BlocksApart'
    <3> SUFFICES ASSUME NEW i \in DOMAIN blocks', NEW j \in DOMAIN blocks', i # j,
                        blocks'[i].frame = blocks'[j].frame
                 PROVE  \/ AlignAddress(End(blocks'[i])) <= blocks'[j].off
                        \/ AlignAddress(End(blocks'[j])) <= blocks'[i].off
        BY DEF BlocksApart, End, AlignAddress
    <3> QED
        BY <2>3 DEF IInv, BlocksApart
  <2> QED
      BY <2>4, <2>5, <2>6, <2>7, <2>8 DEF IInv
<1> QED
    BY <1>5, <1>6

\* The memory of an arena that is freed stays until its scopes are left
\* (arena_free).
LEMMA FreeKeeps ==
    ASSUME IInv, Free
    PROVE  IInv'
<1>1. CASE scopes = << >>
  <2>1. /\ frames' = << >> /\ scopes' = << >> /\ blocks' = blocks /\ freed' = TRUE
        /\ << >> \in Seq([size : Nat, len : Nat]) /\ scopes \in Seq([frame : Nat, len : Nat])
      BY <1>1, EmptySeq DEF Free, IInv, ArenaTypeOK
  <2>2. DOMAIN scopes = {} /\ DOMAIN frames' = {}
      BY <1>1, <2>1
  <2>3. DOMAIN blocks = {}
      BY <2>2 DEF IInv, ArenaTypeOK
  <2> QED
      BY <2>1, <2>2, <2>3
      DEF IInv, ArenaTypeOK, ScopesNest, BlocksInUse, BlocksOutlive, BlocksApart
<1>2. CASE scopes # << >>
    BY <1>2 DEF Free, IInv, ArenaTypeOK, ScopesNest, BlocksInUse, BlocksOutlive,
                BlocksApart, Below
<1> QED
    BY <1>1, <1>2

\* Blocks that are apart by whole aligned addresses share no byte.
LEMMA IInvDisjoint == IInv => BlocksAreDisjoint
<1> SUFFICES ASSUME IInv PROVE BlocksAreDisjoint
    OBVIOUS
<1>1. \A i \in DOMAIN blocks : End(blocks[i]) \in Nat /\ blocks[i].off \in Nat
    BY TypeFacts DEF IInv
<1>2. \A i \in DOMAIN blocks : /\ End(blocks[i]) <= AlignAddress(End(blocks[i]))
                               /\ AlignAddress(End(blocks[i])) \in Nat
    BY <1>1, AlignAddressFacts
<1> QED
    BY <1>1, <1>2 DEF IInv, BlocksInUse, BlocksApart, Below, BlocksAreDisjoint

\* Every operation of the allocator keeps the invariant.
LEMMA NextKeeps == IInv /\ [ArenaNext]_arenaVars => IInv'
<1> SUFFICES ASSUME IInv, [ArenaNext]_arenaVars PROVE IInv'
    OBVIOUS
<1>1. CASE Enter
    BY <1>1, EnterKeeps
<1>2. ASSUME NEW id \in Ids, NEW size \in Sizes, Malloc(id, size)
      PROVE  IInv'
    BY <1>2, AllocateKeeps, ArenaAssumption DEF Malloc
<1>3. ASSUME NEW id \in DOMAIN blocks, NEW size \in Sizes,
             NEW old \in 0 .. blocks[id].size, Realloc(id, old, size)
      PROVE  IInv'
  <2>1. blocks[id].size \in Nat
      BY TypeFacts DEF IInv
  <2>2. old \in Nat /\ size \in Nat \ {0}
      BY <2>1, ArenaAssumption
  <2> QED
      BY <1>3, <2>2, ReallocKeeps
<1>4. CASE Leave
    BY <1>4, LeaveKeeps
<1>5. CASE Free
    BY <1>5, FreeKeeps
<1>6. CASE UNCHANGED arenaVars
    BY <1>6 DEF arenaVars, IInv, ArenaTypeOK, ScopesNest, BlocksInUse, BlocksOutlive,
                BlocksApart, Below
<1> QED
    BY <1>1, <1>2, <1>3, <1>4, <1>5, <1>6 DEF ArenaNext

-----------------------------------------------------------------------------
\* The allocator keeps within its frames, whatever is allocated and freed.
THEOREM ArenaTypeCorrect == ArenaSpec => []ArenaTypeOK
<1>1. IInv => ArenaTypeOK
    BY DEF IInv
<1> QED
    BY <1>1, InitKeeps, NextKeeps, PTL DEF ArenaSpec

\* No byte is given to two live blocks of an arena, for any sizes, poison and
\* nesting of scopes.
THEOREM ArenaDisjoint == ArenaSpec => []BlocksAreDisjoint
BY InitKeeps, NextKeeps, IInvDisjoint, PTL DEF ArenaSpec

(***************************************************************************)
(* Strings, buffers and vectors.                                           *)
(***************************************************************************)

Kinds == {"string", "buffer", "header", "vector", "read"}
ObjectType == [kind : Kinds, len : Nat, left : Nat \cup {NULL}, grow : BOOLEAN]

\* There is an object for every block.
BuffersTypeOK ==
    /\ DOMAIN objects = DOMAIN blocks
    /\ \A id \in DOMAIN objects : objects[id] \in ObjectType

\* A file being read either fits the buffer exactly, and then all of it has room,
\* or there is room for more than has been read.
Fills(o, size) ==
    o.kind = "buffer" /\ o.left # NULL =>
        /\ size >= 8
        /\ IF o.grow THEN o.len < size ELSE o.len + o.left <= size

Filling == \A id \in DOMAIN objects : Fills(objects[id], blocks[id].size)

BuffersInv == IInv /\ BuffersTypeOK /\ ContentIsKept /\ Filling /\ FileIsRead

-----------------------------------------------------------------------------
\* More elements take more bytes, and the first n bytes are those of n elements.
LEMMA BytesFacts ==
    ASSUME NEW kind, NEW m \in Nat, NEW n \in Nat
    PROVE  /\ Bytes(kind, n) \in Nat
           /\ m <= n => Bytes(kind, m) <= Bytes(kind, n)
           /\ kind # "vector" => Bytes(kind, n) = n
           /\ kind = "vector" => VectorSize <= Bytes(kind, n)
<1>1. VectorSize \in Nat /\ Stride \in Nat
  BY BuffersAssumption
<1>2. m * Stride \in Nat /\ n * Stride \in Nat
  BY <1>1
<1>3. m <= n => m * Stride <= n * Stride
  BY <1>1
<1>4. QED
  BY <1>1, <1>2, <1>3 DEF Bytes

\* A block for c elements and more has room for n.
LEMMA CapacityFacts ==
    ASSUME NEW capacity, NEW n \in Nat, NEW c \in Capacity(capacity, n)
    PROVE  c \in Nat /\ c >= n
BY DEF Capacity

\* Bytes that belong to elements from..to of an object in block b, by their
\* offset in it.
LEMMA CellsFacts ==
    ASSUME NEW b, NEW kind, NEW a, NEW from, NEW to
    PROVE  a \in Cells(b, kind, from, to) <=>
              \E c \in Bytes(kind, from - 1) .. Bytes(kind, to) - 1 :
                 a = <<b.frame, b.off + c>>
BY DEF Cells

\* The element a byte is of does not depend on where the block is.
LEMMA ElementFacts ==
    ASSUME NEW b, b.off \in Nat, NEW kind, NEW c \in Nat
    PROVE  Element(b, kind, <<b.frame, b.off + c>>) =
              IF kind = "vector" THEN (c - VectorSize) \div Stride + 1 ELSE c + 1
<1>1. VectorSize \in Nat /\ Stride \in Nat \ {0}
  BY BuffersAssumption
<1>2. /\ b.off + c - b.off - VectorSize = c - VectorSize
      /\ b.off + c - b.off + 1 = c + 1
  BY <1>1
<1>3. QED
  BY <1>2 DEF Element

\* What an allocation returns.
LEMMA AllocateEffect ==
    ASSUME IInv, NEW id, NEW size \in Nat, Allocate(id, size)
    PROVE  /\ DOMAIN blocks' = DOMAIN blocks \cup {id}
           /\ \A i \in DOMAIN blocks \ {id} : blocks'[i] = blocks[i]
           /\ blocks'[id].size = size
<1>1. ASSUME NEW f, NEW off, SetBlock(id, Block(f, off, size, Len(scopes)))
      PROVE  /\ DOMAIN blocks' = DOMAIN blocks \cup {id}
             /\ \A i \in DOMAIN blocks \ {id} : blocks'[i] = blocks[i]
             /\ blocks'[id].size = size
  BY <1>1 DEF SetBlock, Block
<1>2. \/ SetBlock(id, Block(Top, frames[Top].len, size, Len(scopes)))
      \/ \E n \in FrameSizes :
            SetBlock(id, Block(Top + 1, Used(Header, n), size, Len(scopes)))
  BY DEF Allocate
<1>3. QED
  BY <1>1, <1>2

LEMMA ReallocEffect ==
    ASSUME IInv, NEW id, NEW old \in Nat, NEW new \in Nat, new > old,
           Realloc(id, old, new)
    PROVE  /\ id \in DOMAIN blocks /\ DOMAIN blocks' = DOMAIN blocks
           /\ \A i \in DOMAIN blocks \ {id} : blocks'[i] = blocks[i]
           /\ blocks'[id].size = new
<1>1. id \in DOMAIN blocks
  BY DEF Realloc
<1>2. CASE Allocate(id, new)
  BY <1>1, <1>2, AllocateEffect
<1>3. CASE SetBlock(id, Block(Top, blocks[id].off, new, blocks[id].scope))
  BY <1>1, <1>3 DEF SetBlock, Block
<1>4. QED
  BY <1>2, <1>3 DEF Realloc

-----------------------------------------------------------------------------
\* The bytes of the elements of an object are in its block.
LEMMA CellsInside ==
    ASSUME NEW b, b.off \in Nat, b.size \in Nat, NEW kind, NEW from \in Nat \ {0},
           NEW to \in Nat, Bytes(kind, to) <= b.size
    PROVE  \A a \in Cells(b, kind, from, to) :
              \E c \in Nat : /\ c < b.size /\ a = <<b.frame, b.off + c>>
                             /\ Bytes(kind, from - 1) <= c /\ c < Bytes(kind, to)
<1> SUFFICES ASSUME NEW a \in Cells(b, kind, from, to)
             PROVE  \E c \in Nat : /\ c < b.size /\ a = <<b.frame, b.off + c>>
                                   /\ Bytes(kind, from - 1) <= c
                                   /\ c < Bytes(kind, to)
  OBVIOUS
<1>1. Bytes(kind, from - 1) \in Nat /\ Bytes(kind, to) \in Nat
  BY BytesFacts
<1>2. PICK c \in Bytes(kind, from - 1) .. Bytes(kind, to) - 1 :
         a = <<b.frame, b.off + c>>
  BY CellsFacts
<1>3. QED
  BY <1>1, <1>2

\* No byte is of two objects, wherever in their blocks it is.
LEMMA CellsApart ==
    ASSUME NEW b, b.off \in Nat, b.size \in Nat, NEW bb, bb.off \in Nat, bb.size \in Nat,
           b.frame = bb.frame => End(b) <= bb.off \/ End(bb) <= b.off,
           NEW kind, NEW from \in Nat \ {0}, NEW to \in Nat, Bytes(kind, to) <= b.size,
           NEW kk, NEW ff \in Nat \ {0}, NEW tt \in Nat, Bytes(kk, tt) <= bb.size
    PROVE  Cells(b, kind, from, to) \cap Cells(bb, kk, ff, tt) = {}
<1> SUFFICES ASSUME NEW a, a \in Cells(b, kind, from, to), a \in Cells(bb, kk, ff, tt)
             PROVE  FALSE
  OBVIOUS
<1>1. PICK c \in Nat : c < b.size /\ a = <<b.frame, b.off + c>>
  <2>1. \A x \in Cells(b, kind, from, to) :
           \E c \in Nat : c < b.size /\ x = <<b.frame, b.off + c>>
    <3>1. \A x \in Cells(b, kind, from, to) :
             \E c \in Nat : /\ c < b.size /\ x = <<b.frame, b.off + c>>
                            /\ Bytes(kind, from - 1) <= c /\ c < Bytes(kind, to)
      BY CellsInside
    <3>2. QED
      BY <3>1
  <2>2. QED
    BY <2>1
<1>2. PICK cc \in Nat : cc < bb.size /\ a = <<bb.frame, bb.off + cc>>
  BY CellsInside
<1>3. b.frame = bb.frame /\ b.off + c = bb.off + cc
  BY <1>1, <1>2
<1>4. QED
  BY <1>1, <1>2, <1>3 DEF End

\* What the invariant of the arena says of blocks.
BlocksFit ==
    \A i \in DOMAIN blocks :
        /\ i \in Ids /\ blocks[i].off \in Nat /\ blocks[i].size \in Nat \ {0}
        /\ \A j \in DOMAIN blocks : i # j /\ blocks[i].frame = blocks[j].frame =>
              End(blocks[i]) <= blocks[j].off \/ End(blocks[j]) <= blocks[i].off

LEMMA Fit == /\ IInv => BlocksFit
             /\ IInv' => BlocksFit'
<1>1. IInv => ArenaTypeOK /\ BlocksAreDisjoint
  BY IInvDisjoint DEF IInv
<1>2. IInv => BlocksFit
  BY <1>1, TypeFacts DEF BlocksAreDisjoint, ArenaTypeOK, BlocksFit
<1>3. QED
  BY <1>2, PTL

\* An object's elements have what they should.
Content(b, o, id, mem) ==
    /\ Bytes(o.kind, o.len) <= b.size
    /\ \A a \in Cells(b, o.kind, 1, o.len) :
          a \in DOMAIN mem /\ mem[a] = <<id, Element(b, o.kind, a)>>

-----------------------------------------------------------------------------
\* What Become leaves of the elements an object had, wherever its block is now:
\* the bytes are copied, those of other objects stay.
LEMMA BecomeKeeps ==
    ASSUME BuffersInv, IInv', NEW id \in Ids, NEW o \in ObjectType, NEW len \in Nat,
           len <= o.len, Become(id, o, len),
           DOMAIN blocks' = DOMAIN blocks \cup {id},
           \A i \in DOMAIN blocks \ {id} : blocks'[i] = blocks[i],
           Bytes(o.kind, o.len) <= blocks'[id].size,
           \/ len = 0
           \/ /\ id \in DOMAIN blocks /\ len = objects[id].len
              /\ o.kind = "vector" <=> objects[id].kind = "vector",
           Fills(o, blocks'[id].size), o.kind = "read" => o.left = 0
    PROVE  BuffersInv'
<1> DEFINE b == blocks'[id]
           was == blocks[id]
           moved == id \in DOMAIN blocks /\ <<was.frame, was.off>> # <<b.frame, b.off>>
           old == Cells(was, o.kind, 1, len)
           new == Cells(b, o.kind, 1, len)
           gone == IF moved THEN old ELSE {}
           copied == IF moved THEN new ELSE {}
           written == Cells(b, o.kind, len + 1, o.len)
<1>1. /\ objects' = [i \in DOMAIN objects \cup {id} |-> IF i = id THEN o ELSE objects[i]]
      /\ memory' = [a \in (DOMAIN memory \ gone) \cup copied \cup written |->
                      IF a \in written THEN <<id, Element(b, o.kind, a)>>
                      ELSE IF a \in copied
                        THEN memory[<<was.frame, a[2] - b.off + was.off>>]
                      ELSE memory[a]]
  BY DEF Become
<1>2. /\ IInv /\ BlocksFit /\ BlocksFit' /\ BuffersTypeOK /\ ContentIsKept
      /\ Filling /\ FileIsRead
  BY Fit DEF BuffersInv
<1>3. /\ DOMAIN objects' = DOMAIN blocks' /\ objects'[id] = o
      /\ \A i \in DOMAIN blocks \ {id} : objects'[i] = objects[i]
  BY <1>1, <1>2 DEF BuffersTypeOK
<1>4. /\ o.len \in Nat /\ b.off \in Nat /\ b.size \in Nat
      /\ id \in DOMAIN blocks => was.off \in Nat /\ was.size \in Nat
      /\ \A i \in DOMAIN blocks \ {id} :
            /\ blocks[i].off \in Nat /\ blocks[i].size \in Nat
            /\ objects[i].len \in Nat
  BY <1>2 DEF ObjectType, BlocksFit, BuffersTypeOK
<1>5. /\ Bytes(o.kind, len) \in Nat /\ Bytes(o.kind, o.len) \in Nat
      /\ Bytes(o.kind, len) <= Bytes(o.kind, o.len) /\ Bytes(o.kind, len) <= b.size
  BY <1>4, BytesFacts
<1> DEFINE E(c) == IF o.kind = "vector" THEN (c - VectorSize) \div Stride + 1 ELSE c + 1
           Had(c) == Bytes(o.kind, 0) <= c /\ c < Bytes(o.kind, len)
<1>6. /\ len = 0 => old = {} /\ new = {}
      /\ len # 0 => id \in DOMAIN blocks /\ Bytes(o.kind, len) <= was.size
  <2>1. CASE len = 0
    BY <1>5, <2>1 DEF Cells
  <2>2. CASE len # 0
    <3>1. /\ id \in DOMAIN objects /\ len = objects[id].len
          /\ o.kind = "vector" <=> objects[id].kind = "vector"
      BY <1>2, <2>2 DEF BuffersTypeOK
    <3>2. Bytes(objects[id].kind, len) = Bytes(o.kind, len)
      BY <3>1 DEF Bytes
    <3>3. QED
      BY <1>2, <2>2, <3>1, <3>2 DEF ContentIsKept
  <2>3. QED
    BY <2>1, <2>2
<1>7. ASSUME NEW c \in Nat, Had(c)
      PROVE  /\ id \in DOMAIN blocks /\ <<was.frame, was.off + c>> \in DOMAIN memory
             /\ memory[<<was.frame, was.off + c>>] = <<id, E(c)>>
  <2>1. len # 0
    BY <1>5, <1>7
  <2>2. /\ id \in DOMAIN objects /\ len = objects[id].len
        /\ o.kind = "vector" <=> objects[id].kind = "vector"
    BY <1>2, <2>1 DEF BuffersTypeOK
  <2>3. \A n : Bytes(objects[id].kind, n) = Bytes(o.kind, n)
    BY <2>2 DEF Bytes
  <2>4. <<was.frame, was.off + c>> \in Cells(was, objects[id].kind, 1, len)
    BY <1>5, <1>7, <2>3, CellsFacts
  <2>5. Element(was, objects[id].kind, <<was.frame, was.off + c>>) = E(c)
    <3>1. was.off \in Nat
      BY <1>2, <1>4, <2>2 DEF BuffersTypeOK
    <3> HIDE DEF was
    <3>2. Element(was, objects[id].kind, <<was.frame, was.off + c>>) =
             IF objects[id].kind = "vector" THEN (c - VectorSize) \div Stride + 1
             ELSE c + 1
      BY <3>1, ElementFacts
    <3>3. QED
      BY <2>2, <3>2
  <2>6. QED
    BY <1>2, <2>2, <2>4, <2>5 DEF ContentIsKept, BuffersTypeOK
<1>8. ASSUME NEW j \in DOMAIN blocks \ {id}
      PROVE  Content(blocks'[j], objects'[j], j, memory')
  <2> DEFINE bj == blocks[j]
             oj == objects[j]
             cells == Cells(bj, oj.kind, 1, oj.len)
  <2>1. /\ bj.off \in Nat /\ bj.size \in Nat /\ oj.len \in Nat
        /\ blocks'[j] = bj /\ objects'[j] = oj
        /\ Bytes(oj.kind, oj.len) <= bj.size
    BY <1>2, <1>3, <1>4 DEF BuffersTypeOK, ContentIsKept
  <2>2. bj.frame = b.frame => End(bj) <= b.off \/ End(b) <= bj.off
    BY <1>2 DEF BlocksFit
  <2>3. id \in DOMAIN blocks /\ bj.frame = was.frame =>
            End(bj) <= was.off \/ End(was) <= bj.off
    BY <1>2 DEF BlocksFit
  <2>4. cells \cap written = {}
    BY <1>4, <2>1, <2>2, CellsApart
  <2>5. cells \cap new = {}
    BY <1>4, <1>5, <2>1, <2>2, CellsApart
  <2>6. cells \cap old = {}
    BY <1>4, <1>6, <2>1, <2>3, CellsApart
  <2>7. ASSUME NEW a \in cells
        PROVE  a \in DOMAIN memory' /\ memory'[a] = memory[a] /\ a \in DOMAIN memory
    <3>1. a \in DOMAIN memory
      BY <1>2, <2>7 DEF ContentIsKept, BuffersTypeOK
    <3>2. a \notin gone /\ a \notin copied /\ a \notin written
      BY <2>4, <2>5, <2>6, <2>7
    <3> HIDE DEF gone, copied, written, cells
    <3>3. QED
      BY <1>1, <3>1, <3>2
  <2>8. QED
    BY <1>2, <2>1, <2>7 DEF Content, ContentIsKept, BuffersTypeOK
<1>9. Content(b, o, id, memory')
  <2> SUFFICES ASSUME NEW a \in Cells(b, o.kind, 1, o.len)
               PROVE  a \in DOMAIN memory' /\ memory'[a] = <<id, Element(b, o.kind, a)>>
    BY DEF Content
  <2>1. PICK c \in Nat : /\ c < b.size /\ a = <<b.frame, b.off + c>>
                         /\ Bytes(o.kind, 0) <= c /\ c < Bytes(o.kind, o.len)
    <3>1. \A x \in Cells(b, o.kind, 1, o.len) :
             \E c \in Nat : /\ c < b.size /\ x = <<b.frame, b.off + c>>
                            /\ Bytes(o.kind, 1 - 1) <= c /\ c < Bytes(o.kind, o.len)
      <4>1. 1 \in Nat \ {0} /\ Bytes(o.kind, o.len) <= b.size
        OBVIOUS
      <4> HIDE DEF b
      <4>2. QED
        BY <1>4, <4>1, CellsInside
    <3>2. QED
      BY <3>1
  <2>2. Element(b, o.kind, a) = E(c)
    BY <1>4, <2>1, ElementFacts
  <2>3. a[1] = b.frame /\ a[2] = b.off + c
    BY <2>1
  <2>4. CASE Bytes(o.kind, len) <= c
    <3>1. a \in written
      BY <1>4, <1>5, <2>1, <2>4, CellsFacts
    <3> HIDE DEF written, gone, copied
    <3>2. QED
      BY <1>1, <3>1
  <2>5. CASE c < Bytes(o.kind, len)
    <3>1. Had(c) /\ a \in new /\ a \notin written
      <4>1. Had(c) /\ a \in new
        BY <1>5, <2>1, <2>5, CellsFacts
      <4>2. ASSUME a \in written PROVE FALSE
        <5>1. PICK e \in Bytes(o.kind, len + 1 - 1) .. Bytes(o.kind, o.len) - 1 :
                 a = <<b.frame, b.off + e>>
          BY <4>2, CellsFacts
        <5>2. e \in Int /\ Bytes(o.kind, len) <= e /\ e = c
          BY <1>4, <1>5, <2>3, <5>1
        <5>3. QED
          BY <1>5, <2>5, <5>2
      <4>3. QED
        BY <4>1, <4>2
    <3>2. CASE moved
      <4>1. a \in copied
        BY <3>1, <3>2
      <4>2. a[2] - b.off + was.off = was.off + c
        BY <1>4, <1>7, <2>3, <3>1
      <4> HIDE DEF written, gone, copied, Had, E
      <4>3. QED
        BY <1>1, <1>7, <2>2, <3>1, <4>1, <4>2
    <3>3. CASE ~moved
      <4>1. gone = {} /\ copied = {} /\ a = <<was.frame, was.off + c>>
        BY <1>7, <2>1, <3>1, <3>3
      <4> HIDE DEF written, gone, copied, Had, E
      <4>2. QED
        BY <1>1, <1>7, <2>2, <3>1, <4>1
    <3>4. QED
      BY <3>2, <3>3
  <2>6. QED
    BY <1>5, <2>1, <2>4, <2>5
<1>10. ContentIsKept'
  BY <1>3, <1>8, <1>9 DEF ContentIsKept, Content
<1>11. BuffersTypeOK' /\ Filling' /\ FileIsRead'
  BY <1>2, <1>3 DEF BuffersTypeOK, Filling, FileIsRead
<1>12. QED
  BY <1>10, <1>11 DEF BuffersInv

-----------------------------------------------------------------------------
\* An object in a block that has just been allocated, and one that stays where it
\* is or that arena_realloc() has given more room.
LEMMA FreshKeeps ==
    ASSUME BuffersInv, NEW id \in Ids, NEW size \in Nat \ {0}, Malloc(id, size),
           NEW o \in ObjectType, Become(id, o, 0), Bytes(o.kind, o.len) <= size,
           Fills(o, size), o.kind # "read"
    PROVE  BuffersInv'
<1>1. IInv /\ Allocate(id, size) /\ id \notin DOMAIN blocks
  BY DEF BuffersInv, Malloc
<1>2. IInv'
  BY <1>1, AllocateKeeps
<1>3. /\ DOMAIN blocks' = DOMAIN blocks \cup {id} /\ blocks'[id].size = size
      /\ \A i \in DOMAIN blocks \ {id} : blocks'[i] = blocks[i]
  BY <1>1, AllocateEffect
<1>4. 0 <= o.len
  BY DEF ObjectType
<1>5. QED
  BY <1>2, <1>3, <1>4, BecomeKeeps

LEMMA StaysKeeps ==
    ASSUME BuffersInv, NEW id \in DOMAIN blocks, UNCHANGED arenaVars,
           NEW o \in ObjectType, Become(id, o, objects[id].len),
           o.kind = "vector" <=> objects[id].kind = "vector",
           objects[id].len <= o.len, Bytes(o.kind, o.len) <= blocks[id].size,
           Fills(o, blocks[id].size), o.kind = "read" => o.left = 0
    PROVE  BuffersInv'
<1>1. IInv'
  BY NextKeeps DEF BuffersInv
<1>2. id \in Ids /\ blocks' = blocks /\ objects[id].len \in Nat
  BY Fit DEF BlocksFit, arenaVars, BuffersInv, BuffersTypeOK, ObjectType
<1>3. DOMAIN blocks' = DOMAIN blocks \cup {id}
  BY <1>2
<1>4. QED
  BY <1>1, <1>2, <1>3, BecomeKeeps

LEMMA GrowsKeeps ==
    ASSUME BuffersInv, NEW id \in DOMAIN blocks, NEW old \in Nat, NEW new \in Nat,
           new > old, Realloc(id, old, new),
           NEW o \in ObjectType, NEW len \in Nat, Become(id, o, len),
           len <= o.len, Bytes(o.kind, o.len) <= new,
           \/ len = 0
           \/ len = objects[id].len /\ (o.kind = "vector" <=> objects[id].kind = "vector"),
           Fills(o, new), o.kind = "read" => o.left = 0
    PROVE  BuffersInv'
<1>1. IInv /\ id \in Ids /\ new \in Nat \ {0}
  BY Fit DEF BlocksFit, BuffersInv
<1>2. IInv'
  BY <1>1, ReallocKeeps
<1>3. /\ DOMAIN blocks' = DOMAIN blocks /\ blocks'[id].size = new
      /\ \A i \in DOMAIN blocks \ {id} : blocks'[i] = blocks[i]
  BY <1>1, ReallocEffect
<1>4. DOMAIN blocks' = DOMAIN blocks \cup {id}
  BY <1>3
<1>5. QED
  BY <1>1, <1>2, <1>3, <1>4, BecomeKeeps

-----------------------------------------------------------------------------
LEMMA ObjectFacts ==
    ASSUME NEW kind \in Kinds, NEW len \in Nat
    PROVE  /\ Object(kind, len) \in ObjectType
           /\ Object(kind, len).kind = kind /\ Object(kind, len).len = len
           /\ Object(kind, len).left = NULL /\ Object(kind, len).grow
BY DEF Object, ObjectType

\* Strings, buffers, vectors and files at their beginning.
LEMMA NewKeeps ==
    ASSUME BuffersInv, NEW id \in Ids,
           \/ \E size \in Strings : NewString(id, size)
           \/ NewBuffer(id)
           \/ NewVector(id)
           \/ \E size \in Files : NewRead(id, size)
    PROVE  BuffersInv'
<1>1. ASSUME NEW size \in Strings, NewString(id, size) PROVE BuffersInv'
  <2>1. size \in Nat \ {0} /\ "string" \in Kinds
    BY BuffersAssumption DEF Kinds
  <2>2. Bytes("string", size) <= size
    BY <2>1, BytesFacts
  <2> DEFINE o == Object("string", size)
  <2>3. o \in ObjectType /\ o.kind = "string" /\ o.len = size
    BY <2>1, ObjectFacts
  <2>4. Malloc(id, size) /\ Become(id, o, 0)
    BY <1>1 DEF NewString
  <2> HIDE DEF o
  <2>5. Fills(o, size)
    BY <2>3 DEF Fills
  <2>6. QED
    BY <2>1, <2>2, <2>3, <2>4, <2>5, FreshKeeps
<1>2. CASE NewBuffer(id)
  <2>1. PICK c \in Capacity(0, 1) : Malloc(id, c)
    BY <1>2 DEF NewBuffer
  <2>2. c \in Nat \ {0} /\ "buffer" \in Kinds /\ Bytes("buffer", 0) <= c
    BY CapacityFacts, BytesFacts DEF Kinds
  <2> DEFINE o == Object("buffer", 0)
  <2>3. o \in ObjectType /\ o.kind = "buffer" /\ o.len = 0 /\ o.left = NULL
    BY <2>2, ObjectFacts
  <2>4. Become(id, o, 0)
    BY <1>2 DEF NewBuffer
  <2> HIDE DEF o
  <2>5. Fills(o, c)
    BY <2>3 DEF Fills
  <2>6. QED
    BY <2>1, <2>2, <2>3, <2>4, <2>5, FreshKeeps
<1>3. CASE NewVector(id)
  <2>1. VectorSize \in Nat \ {0} /\ "header" \in Kinds /\ Bytes("header", 0) <= VectorSize
    BY BuffersAssumption, BytesFacts DEF Kinds
  <2> DEFINE o == Object("header", 0)
  <2>2. o \in ObjectType /\ o.kind = "header" /\ o.len = 0
    BY <2>1, ObjectFacts
  <2>3. Malloc(id, VectorSize) /\ Become(id, o, 0)
    BY <1>3 DEF NewVector
  <2> HIDE DEF o
  <2>4. Fills(o, VectorSize)
    BY <2>2 DEF Fills
  <2>5. QED
    BY <2>1, <2>2, <2>3, <2>4, FreshKeeps
<1>4. ASSUME NEW size \in Files, NewRead(id, size) PROVE BuffersInv'
  <2>1. /\ size \in Nat /\ ReadSize \in Nat \ {0} /\ ReadSize >= 8
        /\ "buffer" \in Kinds /\ Bytes("buffer", 0) <= ReadSize
    BY BuffersAssumption, BytesFacts DEF Kinds
  <2> DEFINE o == [Object("buffer", 0) EXCEPT !.left = size, !.grow = size # ReadSize]
  <2>2. /\ o \in ObjectType /\ o.kind = "buffer" /\ o.len = 0
        /\ o.left = size /\ o.grow = (size # ReadSize)
    BY <2>1 DEF Object, ObjectType
  <2>3. Malloc(id, ReadSize) /\ Become(id, o, 0)
    BY <1>4 DEF NewRead
  <2> HIDE DEF o
  <2>4. Fills(o, ReadSize)
    <3>1. CASE size = ReadSize
      <4>1. ~o.grow
        BY <2>2, <3>1
      <4>2. QED
        BY <2>1, <2>2, <3>1, <4>1 DEF Fills
    <3>2. CASE size # ReadSize
      <4>1. o.grow
        BY <2>2, <3>2
      <4>2. QED
        BY <2>1, <2>2, <4>1 DEF Fills
    <3>3. QED
      BY <3>1, <3>2
  <2>5. QED
    BY <2>1, <2>2, <2>3, <2>4, FreshKeeps
<1>5. QED
  BY <1>1, <1>2, <1>3, <1>4

\* The elements of a vector that has just been begun.
LEMMA ReserveKeeps ==
    ASSUME BuffersInv, NEW id \in DOMAIN blocks, NEW n \in Nat \ {0}, Reserve(id, n)
    PROVE  BuffersInv'
<1>1. PICK c \in Capacity(0, n) : Realloc(id, VectorSize, Bytes("vector", c))
  BY DEF Reserve
<1>2. c \in Nat \ {0} /\ VectorSize \in Nat /\ Stride \in Nat \ {0}
  BY CapacityFacts, BuffersAssumption
<1>3. c * Stride \in Nat /\ c * Stride > 0
  BY <1>2
<1>4. /\ Bytes("vector", c) \in Nat /\ Bytes("vector", c) > VectorSize
      /\ Bytes("vector", 0) <= Bytes("vector", c)
  BY <1>2, <1>3 DEF Bytes
<1> DEFINE o == Object("vector", 0)
<1>5. o \in ObjectType /\ o.kind = "vector" /\ o.len = 0
  BY ObjectFacts DEF Kinds
<1>6. Become(id, o, 0)
  BY DEF Reserve
<1> HIDE DEF o
<1>7. Fills(o, Bytes("vector", c)) /\ o.kind # "read" /\ 0 <= o.len
  BY <1>5 DEF Fills
<1>8. QED
  BY <1>1, <1>2, <1>4, <1>5, <1>6, <1>7, GrowsKeeps

\* One more element, in a buffer or vector.
LEMMA PutKeeps ==
    ASSUME BuffersInv, NEW id \in DOMAIN blocks, Put(id)
    PROVE  BuffersInv'
<1> DEFINE o == objects[id]
           b == blocks[id]
           capacity == IF o.kind = "vector" THEN (b.size - VectorSize) \div Stride
                       ELSE b.size
           old == IF o.kind = "vector" THEN Bytes(o.kind, o.len) ELSE b.size
           n == [o EXCEPT !.len = @ + 1]
<1>1. /\ id \in DOMAIN objects /\ o \in ObjectType /\ b.size \in Nat
      /\ Bytes(o.kind, o.len) <= b.size
  BY Fit DEF BuffersInv, BuffersTypeOK, BlocksFit, ContentIsKept
<1>2. /\ n \in ObjectType /\ n.kind = o.kind /\ n.len = o.len + 1
      /\ n.left = NULL /\ n.kind # "read" /\ o.len \in Nat /\ o.len <= n.len
  BY <1>1 DEF Put, ObjectType
<1>3. Become(id, n, o.len)
  BY DEF Put
<1>4. \A size : Fills(n, size)
  BY <1>2 DEF Fills
<1>5. /\ Bytes(o.kind, o.len) \in Nat /\ Bytes(o.kind, n.len) \in Nat
  BY <1>2, BytesFacts
<1>6. CASE Bytes(o.kind, o.len + 1) <= b.size /\ UNCHANGED arenaVars
  <2>1. Bytes(n.kind, n.len) <= b.size
    BY <1>2, <1>6
  <2> HIDE DEF n
  <2>2. QED
    BY <1>1, <1>2, <1>3, <1>4, <1>6, <2>1, StaysKeeps
<1>7. CASE /\ Bytes(o.kind, o.len + 1) > b.size
           /\ \E c \in Capacity(capacity, o.len + 1) : Realloc(id, old, Bytes(o.kind, c))
  <2>1. PICK c \in Capacity(capacity, o.len + 1) : Realloc(id, old, Bytes(o.kind, c))
    BY <1>7
  <2>2. c \in Nat /\ o.len + 1 <= c
    BY <1>2, CapacityFacts
  <2>3. Bytes(o.kind, c) \in Nat /\ Bytes(o.kind, n.len) <= Bytes(o.kind, c)
    BY <1>2, <2>2, BytesFacts
  <2>4. old \in Nat /\ old <= b.size /\ b.size < Bytes(o.kind, n.len)
    BY <1>1, <1>2, <1>5, <1>7
  <2>5. old < Bytes(o.kind, c)
    BY <1>1, <1>5, <2>3, <2>4
  <2> HIDE DEF n, old, capacity
  <2>6. QED
    BY <1>2, <1>3, <1>4, <2>1, <2>3, <2>4, <2>5, GrowsKeeps
<1>8. QED
  BY <1>1, <1>5, <1>2, <1>6, <1>7 DEF Put

\* A read() into the room there is, and the reservation after it.
LEMMA ReadSomeKeeps ==
    ASSUME BuffersInv, NEW id \in DOMAIN blocks, NEW n \in Nat, ReadSome(id, n)
    PROVE  BuffersInv'
<1> DEFINE o == objects[id]
           b == blocks[id]
           need == o.len + n + b.size \div 8
           read == [o EXCEPT !.kind = "read", !.grow = TRUE]
           more == [o EXCEPT !.len = @ + n, !.left = @ - n]
<1>1. /\ id \in DOMAIN objects /\ o \in ObjectType /\ b.size \in Nat
      /\ Bytes(o.kind, o.len) <= b.size /\ Fills(o, b.size)
  BY Fit DEF BuffersInv, BuffersTypeOK, BlocksFit, ContentIsKept, Filling
<1>2. /\ o.kind = "buffer" /\ o.len \in Nat /\ o.left \in Nat /\ o.left # NULL
      /\ o.grow \in BOOLEAN /\ n <= b.size - o.len /\ n <= o.left
      /\ n = 0 => o.left = 0 \/ b.size = o.len
  BY <1>1 DEF ReadSome, ObjectType
<1>3. /\ b.size >= 8
      /\ o.grow => o.len < b.size
      /\ ~o.grow => o.len + o.left <= b.size
  BY <1>1, <1>2 DEF Fills
<1>4. CASE n = 0
  <2>1. o.left = 0
    BY <1>1, <1>2, <1>3, <1>4
  <2>2. /\ read \in ObjectType /\ read.kind = "read" /\ read.len = o.len
        /\ read.left = 0
    BY <1>1, <1>2, <2>1 DEF ObjectType, Kinds
  <2>3. Bytes(read.kind, read.len) <= b.size
    <3>1. Bytes(read.kind, o.len) = Bytes(o.kind, o.len)
      BY <1>2, <2>2 DEF Bytes
    <3>2. QED
      BY <1>1, <2>2, <3>1
  <2>4. Become(id, read, o.len) /\ UNCHANGED arenaVars
    BY <1>4 DEF ReadSome
  <2>5. Fills(read, b.size) /\ o.len <= read.len
    BY <1>2, <2>2 DEF Fills
  <2> HIDE DEF read
  <2>6. QED
    BY <1>2, <2>1, <2>2, <2>3, <2>4, <2>5, StaysKeeps
<1>5. CASE n # 0
  <2>1. o.left - n \in Nat /\ NULL \notin Nat /\ b.size \div 8 \in Nat \ {0}
    BY <1>1, <1>2, <1>3, BuffersAssumption
  <2>2. /\ more \in ObjectType /\ more.kind = "buffer" /\ more.len = o.len + n
        /\ more.left = o.left - n /\ more.left # NULL /\ more.grow = o.grow
    <3> DEFINE len == o.len + n
               left == o.left - n
               e == [o EXCEPT !.len = len, !.left = left]
    <3>1. len \in Nat /\ left \in Nat /\ left # NULL
      BY <1>2, <2>1
    <3> HIDE DEF o, len, left
    <3>2. e \in ObjectType
      BY <1>1, <3>1 DEF ObjectType
    <3>3. e.kind = o.kind /\ e.len = len /\ e.left = left
      BY <1>1, <3>1 DEF ObjectType
    <3>4. e.grow = o.grow
      BY <1>1, <3>1 DEF ObjectType
    <3>5. more = e
      BY DEF len, left
    <3> HIDE DEF e, more
    <3>6. QED
      BY <1>2, <3>1, <3>2, <3>3, <3>4, <3>5 DEF len, left
  <2>3. Become(id, more, o.len) /\ o.len <= more.len /\ more.len \in Nat
    BY <1>2, <1>5, <2>2 DEF ReadSome
  <2>4. Bytes(more.kind, more.len) = o.len + n
    BY <2>2, <2>3, BytesFacts
  <2>5. need \in Nat /\ need > o.len + n
    BY <1>2, <2>1
  <2>6. CASE o.grow /\ need > b.size
    <3>1. PICK c \in Capacity(b.size, need) : Realloc(id, b.size, c)
      BY <1>5, <2>6 DEF ReadSome
    <3>2. c \in Nat /\ c >= need
      <4> HIDE DEF need
      <4>1. QED
        BY <2>5, CapacityFacts
    <3>3. c > b.size /\ Bytes(more.kind, more.len) <= c /\ c >= 8 /\ more.len < c
      BY <1>1, <1>2, <1>3, <2>2, <2>4, <2>5, <2>6, <3>2
    <3>4. Fills(more, c)
      BY <2>2, <2>6, <3>3 DEF Fills
    <3> HIDE DEF more
    <3>5. QED
      BY <1>1, <1>2, <2>2, <2>3, <3>1, <3>2, <3>3, <3>4, GrowsKeeps
  <2>7. CASE ~(o.grow /\ need > b.size)
    <3>1. UNCHANGED arenaVars
      BY <2>7 DEF ReadSome
    <3>2. Fills(more, b.size)
      <4>1. CASE o.grow
        <5>1. need <= b.size
          BY <1>1, <2>5, <2>7, <4>1
        <5>2. more.len < b.size
          BY <1>1, <1>2, <2>2, <2>5, <5>1
        <5>3. QED
          BY <1>3, <2>2, <4>1, <5>2 DEF Fills
      <4>2. CASE ~o.grow
        <5>1. more.len + more.left <= b.size
          BY <1>1, <1>2, <1>3, <2>2, <4>2
        <5>2. QED
          BY <1>3, <2>2, <4>2, <5>1 DEF Fills
      <4>3. QED
        BY <4>1, <4>2
    <3>3. Bytes(more.kind, more.len) <= b.size
      BY <1>1, <1>2, <2>4
    <3> HIDE DEF more
    <3>4. QED
      BY <1>2, <2>2, <2>3, <3>1, <3>2, <3>3, StaysKeeps
  <2>8. QED
    BY <2>6, <2>7
<1>6. QED
  BY <1>4, <1>5

\* The NUL that makes a string of a buffer.
LEMMA ReleaseKeeps ==
    ASSUME BuffersInv, NEW id \in DOMAIN blocks, Release(id)
    PROVE  BuffersInv'
<1> DEFINE o == objects[id]
           b == blocks[id]
           string == [o EXCEPT !.kind = "string", !.len = @ + 1]
<1>1. /\ id \in DOMAIN objects /\ o \in ObjectType /\ b.size \in Nat
      /\ Bytes(o.kind, o.len) <= b.size
  BY Fit DEF BuffersInv, BuffersTypeOK, BlocksFit, ContentIsKept
<1>2. o.kind \in {"buffer", "read"} /\ o.len \in Nat
  BY <1>1 DEF Release, ObjectType
<1>3. o.len <= b.size
  BY <1>1, <1>2, BytesFacts
<1>4. /\ string \in ObjectType /\ string.kind = "string"
      /\ string.len = o.len + 1 /\ o.len <= string.len
  <2>1. "string" \in Kinds
    BY DEF Kinds
  <2>2. string \in ObjectType
    <3> DEFINE len == o.len + 1
               e == [o EXCEPT !.kind = "string", !.len = len]
    <3>1. len \in Nat
      BY <1>2
    <3>2. string = e
      OBVIOUS
    <3> HIDE DEF o, len, string
    <3>3. e \in ObjectType
      BY <1>1, <2>1, <3>1 DEF ObjectType
    <3>4. QED
      BY <3>2, <3>3
  <2>3. string.kind = "string" /\ string.len = o.len + 1
    BY <1>1, <1>2 DEF ObjectType
  <2>4. QED
    BY <1>2, <2>2, <2>3
<1>5. Become(id, string, o.len) /\ \A size : Fills(string, size)
  BY <1>4 DEF Release, Fills
<1>6. Bytes(string.kind, string.len) = o.len + 1
  BY <1>2, <1>4, BytesFacts
<1>7. CASE o.len = b.size
  <2>1. PICK c \in Capacity(b.size, o.len + 1) : Realloc(id, b.size, c)
    BY <1>7 DEF Release
  <2>2. c \in Nat /\ c >= o.len + 1
    BY <1>2, CapacityFacts
  <2>3. c > b.size /\ Bytes(string.kind, string.len) <= c
    BY <1>1, <1>2, <1>6, <1>7, <2>2
  <2> HIDE DEF string
  <2>4. QED
    BY <1>1, <1>2, <1>4, <1>5, <2>1, <2>2, <2>3, GrowsKeeps
<1>8. CASE o.len # b.size
  <2>1. UNCHANGED arenaVars
    BY <1>8 DEF Release
  <2>2. Bytes(string.kind, string.len) <= b.size
    BY <1>1, <1>2, <1>3, <1>6, <1>8
  <2> HIDE DEF string
  <2>3. QED
    BY <1>2, <1>4, <1>5, <2>1, <2>2, StaysKeeps
<1>9. QED
  BY <1>7, <1>8

\* Elements that are taken away: those before them and other objects stay.
LEMMA ShortenKeeps ==
    ASSUME BuffersInv, NEW id \in DOMAIN blocks, NEW len \in Nat, Shorten(id, len)
    PROVE  BuffersInv'
<1> DEFINE o == objects[id]
           b == blocks[id]
           past == Cells(b, o.kind, len + 1, o.len)
           less == [o EXCEPT !.len = len]
<1>1. /\ BlocksFit /\ BuffersTypeOK /\ ContentIsKept /\ Filling /\ FileIsRead
      /\ IInv'
  <2>1. IInv /\ UNCHANGED arenaVars
    BY DEF BuffersInv, Shorten
  <2>2. QED
    BY <2>1, Fit, NextKeeps DEF BuffersInv
<1>2. /\ o \in ObjectType /\ o.len \in Nat /\ len < o.len /\ o.left = NULL
      /\ o.kind \in {"buffer", "vector"} /\ b.off \in Nat /\ b.size \in Nat
      /\ Bytes(o.kind, o.len) <= b.size /\ DOMAIN objects = DOMAIN blocks
  BY <1>1 DEF Shorten, BuffersTypeOK, ObjectType, BlocksFit, ContentIsKept
<1>3. /\ blocks' = blocks /\ DOMAIN objects' = DOMAIN objects
      /\ \A i \in DOMAIN objects \ {id} : objects'[i] = objects[i]
      /\ objects'[id] = less
      /\ memory' = [a \in DOMAIN memory \ past |-> memory[a]]
  BY <1>2 DEF Shorten, arenaVars
<1>4. /\ less \in ObjectType /\ less.kind = o.kind /\ less.len = len
      /\ less.left = NULL
  BY <1>2 DEF ObjectType
<1>5. /\ Bytes(o.kind, len) \in Nat /\ Bytes(o.kind, o.len) \in Nat
      /\ Bytes(o.kind, len) <= Bytes(o.kind, o.len)
  BY <1>2, BytesFacts
<1>6. ASSUME NEW j \in DOMAIN blocks \ {id}
      PROVE  Content(blocks'[j], objects'[j], j, memory')
  <2> DEFINE bj == blocks[j]
             oj == objects[j]
             cells == Cells(bj, oj.kind, 1, oj.len)
  <2>1. /\ bj.off \in Nat /\ bj.size \in Nat /\ oj.len \in Nat
        /\ Bytes(oj.kind, oj.len) <= bj.size
        /\ bj.frame = b.frame => End(bj) <= b.off \/ End(b) <= bj.off
    BY <1>1, <1>2 DEF BlocksFit, BuffersTypeOK, ObjectType, ContentIsKept
  <2>2. cells \cap past = {}
    BY <1>2, <2>1, CellsApart
  <2>3. \A a \in cells :
           a \in DOMAIN memory /\ memory[a] = <<j, Element(bj, oj.kind, a)>>
    BY <1>1, <1>2 DEF ContentIsKept
  <2> HIDE DEF past, cells
  <2>4. \A a \in cells : a \in DOMAIN memory' /\ memory'[a] = memory[a]
    BY <1>3, <2>2, <2>3
  <2>5. QED
    BY <1>2, <1>3, <2>1, <2>3, <2>4 DEF Content, cells
<1>7. Content(b, less, id, memory')
  <2> SUFFICES ASSUME NEW a \in Cells(b, o.kind, 1, len)
               PROVE  a \in DOMAIN memory' /\ memory'[a] = <<id, Element(b, o.kind, a)>>
    BY <1>2, <1>4, <1>5 DEF Content
  <2>1. PICK c \in Bytes(o.kind, 1 - 1) .. Bytes(o.kind, len) - 1 :
           a = <<b.frame, b.off + c>>
    BY CellsFacts
  <2>2. Bytes(o.kind, 1 - 1) \in Nat /\ c \in Nat /\ c < Bytes(o.kind, len)
    <3>1. Bytes(o.kind, 1 - 1) \in Nat
      BY BytesFacts
    <3>2. QED
      BY <1>5, <2>1, <3>1
  <2>3. a \in Cells(b, o.kind, 1, o.len)
    <3>1. c \in Bytes(o.kind, 1 - 1) .. Bytes(o.kind, o.len) - 1
      BY <1>5, <2>1, <2>2
    <3>2. QED
      BY <2>1, <3>1, CellsFacts
  <2>4. a \notin past
    <3>1. SUFFICES ASSUME a \in past PROVE FALSE
      OBVIOUS
    <3>2. PICK e \in Bytes(o.kind, len + 1 - 1) .. Bytes(o.kind, o.len) - 1 :
             a = <<b.frame, b.off + e>>
      BY <3>1, CellsFacts
    <3>3. e \in Int /\ Bytes(o.kind, len) <= e /\ e = c
      BY <1>2, <1>5, <2>1, <2>2, <3>2
    <3>4. QED
      BY <1>5, <2>2, <3>3
  <2>5. a \in DOMAIN memory /\ memory[a] = <<id, Element(b, o.kind, a)>>
    BY <1>1, <1>2, <2>3 DEF ContentIsKept
  <2> HIDE DEF past
  <2>6. QED
    BY <1>3, <2>4, <2>5
<1>8. ContentIsKept'
  BY <1>2, <1>3, <1>6, <1>7 DEF ContentIsKept, Content
<1>9. BuffersTypeOK' /\ Filling' /\ FileIsRead'
  <2>1. \A size : Fills(less, size)
    BY <1>4 DEF Fills
  <2>2. less.kind # "read"
    BY <1>2, <1>4
  <2> HIDE DEF less
  <2>3. QED
    BY <1>1, <1>2, <1>3, <1>4, <2>1, <2>2 DEF BuffersTypeOK, Filling, FileIsRead
<1>10. QED
  BY <1>1, <1>8, <1>9 DEF BuffersInv

\* The objects of outer scopes.
LEMMA LeaveScopeKeeps ==
    ASSUME BuffersInv, LeaveScope
    PROVE  BuffersInv'
<1>1. IInv /\ BuffersTypeOK /\ ContentIsKept /\ Filling /\ FileIsRead /\ Leave
  BY DEF BuffersInv, LeaveScope
<1>2. IInv'
  BY <1>1, LeaveKeeps
<1>3. /\ DOMAIN blocks' \subseteq DOMAIN blocks
      /\ \A i \in DOMAIN blocks' : blocks'[i] = blocks[i]
  BY <1>1 DEF Leave
<1>4. /\ DOMAIN objects' = DOMAIN blocks'
      /\ \A i \in DOMAIN blocks' : objects'[i] = objects[i]
  BY DEF LeaveScope
<1>5. ASSUME NEW i \in DOMAIN blocks', NEW a \in Cells(blocks[i], objects[i].kind, 1,
                                                       objects[i].len)
      PROVE  /\ a \in DOMAIN memory'
             /\ memory'[a] = <<i, Element(blocks[i], objects[i].kind, a)>>
  <2> DEFINE live == UNION {Cells(blocks[o], objects[o].kind, 1, objects[o].len) :
                               o \in DOMAIN blocks'}
  <2>1. memory' = [x \in live |-> memory[x]]
    BY DEF LeaveScope
  <2>2. a \in live
    OBVIOUS
  <2>3. memory[a] = <<i, Element(blocks[i], objects[i].kind, a)>>
    BY <1>1, <1>3 DEF ContentIsKept, BuffersTypeOK
  <2> HIDE DEF live
  <2>4. QED
    BY <2>1, <2>2, <2>3
<1>6. ContentIsKept'
  BY <1>1, <1>3, <1>4, <1>5 DEF ContentIsKept, BuffersTypeOK
<1>7. BuffersTypeOK' /\ Filling' /\ FileIsRead'
  BY <1>1, <1>3, <1>4 DEF BuffersTypeOK, Filling, FileIsRead
<1>8. QED
  BY <1>2, <1>6, <1>7 DEF BuffersInv

\* Nothing of blocks and what is in them changes.
LEMMA SameKeeps ==
    ASSUME BuffersInv, IInv', UNCHANGED <<blocks, memory, objects>>
    PROVE  BuffersInv'
BY DEF BuffersInv, BuffersTypeOK, ContentIsKept, Filling, FileIsRead

-----------------------------------------------------------------------------
LEMMA BuffersStart == Init => BuffersInv
<1> SUFFICES ASSUME Init PROVE BuffersInv
  OBVIOUS
<1>1. IInv
  BY InitKeeps DEF Init
<1>2. DOMAIN blocks = {} /\ DOMAIN objects = {}
  BY DEF Init, ArenaInit
<1>3. QED
  BY <1>1, <1>2 DEF BuffersInv, BuffersTypeOK, ContentIsKept, Filling, FileIsRead

\* One step per operation.
LEMMA BuffersStep == BuffersInv /\ [Next]_vars => BuffersInv'
<1> SUFFICES ASSUME BuffersInv, [Next]_vars PROVE BuffersInv'
  OBVIOUS
<1>1. BlocksFit /\ BuffersTypeOK /\ IInv
  BY Fit DEF BuffersInv
<1>2. ASSUME NEW id \in DOMAIN blocks, NEW n \in {1, Initial + 1}, Reserve(id, n)
      PROVE  BuffersInv'
  <2>1. n \in Nat \ {0}
    BY BuffersAssumption
  <2>2. QED
    BY <1>2, <2>1, ReserveKeeps
<1>3. CASE Enter /\ UNCHANGED <<memory, objects>>
  <2>1. IInv' /\ blocks' = blocks
    BY <1>1, <1>3, EnterKeeps DEF Enter
  <2>2. QED
    BY <1>3, <2>1, SameKeeps
<1>4. ASSUME NEW id \in Ids,
             \/ \E size \in Strings : NewString(id, size)
             \/ NewBuffer(id)
             \/ NewVector(id)
             \/ \E size \in Files : NewRead(id, size)
      PROVE  BuffersInv'
  BY <1>4, NewKeeps
<1>5. ASSUME NEW id \in DOMAIN blocks, Put(id)
      PROVE  BuffersInv'
  BY <1>5, PutKeeps
<1>6. ASSUME NEW id \in DOMAIN blocks, NEW n \in 0 .. ReadSize, ReadSome(id, n)
      PROVE  BuffersInv'
  <2>1. n \in Nat
    BY BuffersAssumption
  <2>2. QED
    BY <1>6, <2>1, ReadSomeKeeps
<1>7. ASSUME NEW id \in DOMAIN blocks, NEW len \in {0, objects[id].len - 1} \cap Nat,
             Shorten(id, len)
      PROVE  BuffersInv'
  BY <1>7, ShortenKeeps
<1>8. ASSUME NEW id \in DOMAIN blocks, Release(id)
      PROVE  BuffersInv'
  BY <1>8, ReleaseKeeps
<1>9. CASE LeaveScope
  BY <1>9, LeaveScopeKeeps
<1>10. CASE Free /\ UNCHANGED <<memory, objects>>
  <2>1. IInv' /\ blocks' = blocks
    BY <1>1, <1>10, FreeKeeps DEF Free
  <2>2. QED
    BY <1>10, <2>1, SameKeeps
<1>11. CASE UNCHANGED vars
  <2>1. UNCHANGED <<arenaVars, memory, objects>>
    BY <1>11 DEF vars
  <2>2. IInv' /\ UNCHANGED <<blocks, memory, objects>>
    BY <1>1, <2>1, NextKeeps DEF arenaVars
  <2>3. QED
    BY <2>2, SameKeeps
<1>12. CASE Use
  BY <1>3, <1>4, <1>5, <1>6, <1>7, <1>8, <1>9, <1>10, <1>12 DEF Use
<1>13. QED
  BY <1>2, <1>11, <1>12 DEF Next

\* The invariant: every object has a block with room for its elements, they are
\* there, and a buffer that a file is read into has room for more of it
\* (buffer_read_fd_impl, buffer_reserve, vector_reserve1).
THEOREM BuffersInvariant == Spec => []BuffersInv
BY BuffersStart, BuffersStep, PTL DEF Spec

\* What is put in a string, buffer or vector stays in it until its scope is left,
\* for all sizes and however they grow and move (arena_realloc, arena_scope_leave).
THEOREM ContentStays == Spec => []ContentIsKept
<1>1. BuffersInv => ContentIsKept
  BY DEF BuffersInv
<1>2. QED
  BY <1>1, BuffersInvariant, PTL

\* All of a file is read, for every size of file and buffer and whatever a read()
\* returns (buffer_read_fd_impl).
THEOREM FilesAreRead == Spec => []FileIsRead
<1>1. BuffersInv => FileIsRead
  BY DEF BuffersInv
<1>2. QED
  BY <1>1, BuffersInvariant, PTL

\* Nothing that buffers and vectors ask of the arena makes two blocks overlap
\* (arena_realloc_fast): the allocator's own theorem is about the sizes in Sizes,
\* this one about those its callers compute.
THEOREM BuffersDisjoint == Spec => []BlocksAreDisjoint
<1>1. BuffersInv => BlocksAreDisjoint
  BY IInvDisjoint DEF BuffersInv
<1>2. QED
  BY <1>1, BuffersInvariant, PTL
=============================================================================
