------------------------------- MODULE Arena -------------------------------
(***************************************************************************)
(* The arena allocator (src/libks/arena.c): frames of memory in a stack,   *)
(* the last one filled from its beginning, and nested scopes, each of      *)
(* which frees all that was allocated in it when it is left.  A block is   *)
(* what a call of the allocator returned; an address is a frame and an     *)
(* offset in it.                                                           *)
(***************************************************************************)
EXTENDS Integers, Sequences

CONSTANTS
    Ids,        \* names of live blocks
    Sizes,      \* sizes asked for
    FrameSizes, \* sizes of frames: the initial one, doubled and doubled again
    Header,     \* size of the header at the beginning of a frame
    Poison,     \* bytes left between blocks for the checkers of memory
    MaxScopes   \* bound on nested scopes

\* maxalign, the size of a pointer
MaxAlign == 8

\* Nobody allocates nothing: strings have a NUL, buffers and vectors capacity.
ASSUME ArenaAssumption ==
    /\ Sizes \subseteq Nat \ {0}
    /\ FrameSizes \subseteq Nat
    /\ Header \in Nat
    /\ Poison \in {0, MaxAlign}
    /\ MaxScopes \in Nat

VARIABLES
    frames,   \* the stack of frames: their size and how much is used
    scopes,   \* the stack of scopes: the last frame and its use when entered
    blocks,   \* the live blocks: frame, offset, size and scope of each
    freed     \* arena_free() was called

arenaVars == <<frames, scopes, blocks, freed>>

Smaller(m, n) == IF m <= n THEN m ELSE n

\* align_address()
AlignAddress(n) == ((n + MaxAlign - 1) \div MaxAlign) * MaxAlign + Poison

\* arena_push_impl(): the use of a frame after what ends at end was pushed.
Used(end, size) == Smaller(AlignAddress(end), size)

Frame(size, len) == [size |-> size, len |-> len]
Block(frame, off, size, scope) ==
    [frame |-> frame, off |-> off, size |-> size, scope |-> scope]
End(b) == b.off + b.size
Top == Len(frames)

\* Block id becomes b.
SetBlock(id, b) ==
    blocks' = [i \in DOMAIN blocks \cup {id} |-> IF i = id THEN b ELSE blocks[i]]

-----------------------------------------------------------------------------
\* arena_scope_enter_impl()
Enter ==
    /\ ~freed /\ Len(scopes) < MaxScopes
    /\ scopes' = Append(scopes, [frame |-> Top, len |-> frames[Top].len])
    /\ UNCHANGED <<frames, blocks, freed>>

\* arena_malloc(), in the innermost scope: any other one is a trap, and so is
\* an arena that was freed.  A block that does not fit in the last frame gets a
\* new one, its size doubled until it is large enough.
Allocate(id, size) ==
    /\ ~freed /\ scopes # << >>
    /\ \/ /\ frames[Top].len + size <= frames[Top].size
          /\ frames' = [frames EXCEPT ![Top].len = Used(@ + size, frames[Top].size)]
          /\ SetBlock(id, Block(Top, frames[Top].len, size, Len(scopes)))
       \/ /\ frames[Top].len + size > frames[Top].size
          /\ \E n \in FrameSizes :
                /\ n >= size + Header + Poison
                /\ \A m \in FrameSizes : m >= size + Header + Poison => n <= m
                /\ LET off == Used(Header, n)
                   IN  /\ off + size <= n
                       /\ frames' = Append(frames, Frame(n, Used(off + size, n)))
                       /\ SetBlock(id, Block(Top + 1, off, size, Len(scopes)))
    /\ UNCHANGED <<scopes, freed>>

Malloc(id, size) == id \notin DOMAIN blocks /\ Allocate(id, size)

\* Variant: a block that is not the last one grows in place too.
ReallocAnywhere(id, old, new) ==
    LET b == blocks[id]
        fast == b.frame = Top /\ b.off + new <= frames[Top].size
    IN  /\ id \in DOMAIN blocks /\ b.scope = Len(scopes) /\ ~freed /\ old <= b.size
        /\ \/ new <= old /\ UNCHANGED arenaVars
           \/ /\ new > old /\ fast
              /\ frames' = [frames EXCEPT ![Top].len = Used(b.off + new, frames[Top].size)]
              /\ SetBlock(id, Block(Top, b.off, new, b.scope))
              /\ UNCHANGED <<scopes, freed>>
           \/ new > old /\ ~fast /\ Allocate(id, new)

\* arena_realloc() of a block its caller takes to have old bytes: nothing is done
\* to shrink it.  The last block of the last frame grows in place if it can
\* (arena_realloc_fast), any other one moves.  The fast path does not check
\* the scope; no caller grows what belongs to an outer one.
Realloc(id, old, new) ==
    LET b == blocks[id]
        fast == /\ b.frame = Top
                /\ AlignAddress(b.off + old) = frames[Top].len
                /\ b.off + new <= frames[Top].size
    IN  /\ id \in DOMAIN blocks /\ b.scope = Len(scopes) /\ ~freed /\ old <= b.size
        /\ \/ new <= old /\ UNCHANGED arenaVars
           \/ /\ new > old /\ fast
              /\ frames' = [frames EXCEPT ![Top].len = Used(b.off + new, frames[Top].size)]
              /\ SetBlock(id, Block(Top, b.off, new, b.scope))
              /\ UNCHANGED <<scopes, freed>>
           \/ new > old /\ ~fast /\ Allocate(id, new)

\* Variant: off by one.
LeaveEmpty ==
    /\ scopes # << >>
    /\ LET n == Len(scopes)
           s == scopes[n]
           used == frames[s.frame].len
       IN  /\ scopes' = SubSeq(scopes, 1, n - 1)
           /\ blocks' = [i \in {j \in DOMAIN blocks : blocks[j].scope < n} |-> blocks[i]]
           /\ frames' = IF freed /\ n = 1 THEN << >>
                        ELSE [SubSeq(frames, 1, s.frame) EXCEPT ![s.frame].len =
                                 IF s.len < used THEN s.len ELSE 0]
    /\ UNCHANGED freed

\* arena_scope_leave(), of the innermost scope: scopes are automatic variables.
\* All frames newer than the scope are freed, all of them if the arena was.
Leave ==
    /\ scopes # << >>
    /\ LET n == Len(scopes)
           s == scopes[n]
           used == frames[s.frame].len
       IN  /\ scopes' = SubSeq(scopes, 1, n - 1)
           /\ blocks' = [i \in {j \in DOMAIN blocks : blocks[j].scope < n} |-> blocks[i]]
           /\ frames' = IF freed /\ n = 1 THEN << >>
                        ELSE [SubSeq(frames, 1, s.frame) EXCEPT ![s.frame].len =
                                 IF s.len <= used THEN s.len ELSE 0]
    /\ UNCHANGED freed

\* arena_free(): the memory lives on until the last scope is left.
Free ==
    /\ ~freed
    /\ freed' = TRUE
    /\ frames' = IF scopes = << >> THEN << >> ELSE frames
    /\ UNCHANGED <<scopes, blocks>>

\* arena_alloc()
ArenaInit ==
    /\ \E n \in FrameSizes :
          /\ Header <= n
          /\ \A m \in FrameSizes : n <= m
          /\ frames = <<Frame(n, Used(Header, n))>>
    /\ scopes = << >>
    /\ blocks = [i \in {} |-> Block(0, 0, 0, 0)]
    /\ freed = FALSE

ArenaNext ==
    \/ Enter
    \/ \E id \in Ids, size \in Sizes : Malloc(id, size)
    \/ \E id \in DOMAIN blocks, size \in Sizes :
          \E old \in 0 .. blocks[id].size : Realloc(id, old, size)
    \/ Leave
    \/ Free

ArenaSpec == ArenaInit /\ [][ArenaNext]_arenaVars

-----------------------------------------------------------------------------
\* The type invariant: frames are not used beyond their size and not below their
\* header, scopes and blocks are in frames that are there.
ArenaTypeOK ==
    /\ freed \in BOOLEAN
    /\ frames \in Seq([size : Nat, len : Nat])
    /\ \A f \in DOMAIN frames :
          Header <= frames[f].len /\ frames[f].len <= frames[f].size
    /\ scopes \in Seq([frame : Nat, len : Nat])
    /\ \A k \in DOMAIN scopes :
          scopes[k].frame \in DOMAIN frames /\ Header <= scopes[k].len
    /\ DOMAIN blocks \subseteq Ids
    /\ \A i \in DOMAIN blocks :
          /\ blocks[i] \in [frame : DOMAIN frames, off : Nat,
                            size : Nat \ {0}, scope : DOMAIN scopes]
          /\ Header <= blocks[i].off
    /\ frames = << >> => freed /\ scopes = << >>

\* No byte belongs to two live blocks, and all of them are in the part of their
\* frame that is in use, whatever was allocated, grown and freed in whatever
\* order: in particular nothing that a scope outlives is freed or given to
\* another when an inner scope is left (arena_realloc_fast, arena_scope_leave).
BlocksAreDisjoint ==
    /\ \A i \in DOMAIN blocks : End(blocks[i]) <= frames[blocks[i].frame].len
    /\ \A i, j \in DOMAIN blocks :
          i # j /\ blocks[i].frame = blocks[j].frame =>
              End(blocks[i]) <= blocks[j].off \/ End(blocks[j]) <= blocks[i].off
=============================================================================
