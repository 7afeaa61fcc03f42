------------------------------ MODULE Buffers ------------------------------
(***************************************************************************)
(* What the program keeps in an arena: strings, buffers (src/libks         *)
(* /buffer.c, arena-buffer.c) and vectors (vector.c, arena-vector.c) that  *)
(* grow, and files that are read into buffers.  The bytes of the memory    *)
(* tell whose they are: element i of object id is <<id, i>>.               *)
(***************************************************************************)
EXTENDS Arena, FiniteSets

CONSTANTS
    NULL,        \* no object; of a file, that there is none
    Strings,     \* sizes of strings
    Initial,     \* elements of the first allocation of a buffer or vector
    ReadSize,    \* size of the buffer that a file is read into
    Files,       \* sizes of files
    VectorSize,  \* size of the header of a vector
    Stride,      \* size of an element of a vector
    MaxLen       \* bound on the elements put in an object

ASSUME BuffersAssumption ==
    /\ Initial \in Nat \ {0} /\ VectorSize \in Nat \ {0} /\ Stride \in Nat \ {0}
    /\ Files \subseteq Nat /\ MaxLen \in Nat
    /\ ReadSize \in Nat /\ ReadSize >= 8   \* see ReadSome
    /\ Strings \subseteq Nat \ {0} /\ NULL \notin Nat

VARIABLES
    memory,   \* the bytes of the live objects: address to element
    objects   \* what is in a block: kind and number of elements, and for a
              \* file the bytes left to read and whether the buffer may grow

vars == <<arenaVars, memory, objects>>

Object(kind, len) == [kind |-> kind, len |-> len, left |-> NULL, grow |-> TRUE]

\* The bytes that n elements take, those of elements from to to in block b, and
\* the element that an address in b belongs to.
Bytes(kind, n) == IF kind = "vector" THEN VectorSize + n * Stride ELSE n
Cells(b, kind, from, to) ==
    {<<b.frame, b.off + c>> : c \in Bytes(kind, from - 1) .. Bytes(kind, to) - 1}
Element(b, kind, a) ==
    IF kind = "vector" THEN (a[2] - b.off - VectorSize) \div Stride + 1
    ELSE a[2] - b.off + 1

First(capacity) == IF capacity = 0 THEN Initial ELSE capacity

\* Variant: off by one.
CapacityShort(capacity, n) ==
    {c \in n - 1 .. First(capacity) + 2 * n :
        /\ \E k \in 0 .. n : c = First(capacity) * 2 ^ k
        /\ c = First(capacity) \/ c < 2 * (n - 1)}

\* buffer_reserve() and vector_reserve1(): the capacity is doubled until there
\* is room for n elements, which is so for one number.
Capacity(capacity, n) ==
    {c \in n .. First(capacity) + 2 * n :
        /\ \E k \in 0 .. n : c = First(capacity) * 2 ^ k
        /\ c = First(capacity) \/ c < 2 * n}

\* Object id becomes o: what its block had is copied if it moved, its elements
\* past len are written.
Become(id, o, len) ==
    LET b == blocks'[id]
        was == blocks[id]
        moved == /\ id \in DOMAIN blocks
                 /\ <<was.frame, was.off>> # <<b.frame, b.off>>
        gone == IF moved THEN Cells(was, o.kind, 1, len) ELSE {}
        copied == IF moved THEN Cells(b, o.kind, 1, len) ELSE {}
        written == Cells(b, o.kind, len + 1, o.len)
    IN  /\ objects' = [i \in DOMAIN objects \cup {id} |->
                          IF i = id THEN o ELSE objects[i]]
        /\ memory' = [a \in (DOMAIN memory \ gone) \cup copied \cup written |->
                        IF a \in written THEN <<id, Element(b, o.kind, a)>>
                        ELSE IF a \in copied
                          THEN memory[<<was.frame, a[2] - b.off + was.off>>]
                        ELSE memory[a]]

-----------------------------------------------------------------------------
\* arena_malloc(), arena_strndup(), arena_sprintf(): written as a whole.
NewString(id, size) ==
    /\ Malloc(id, size)
    /\ Become(id, Object("string", size), 0)

\* arena_buffer_alloc(): its struct is one more block, not shown.
NewBuffer(id) ==
    /\ \E c \in Capacity(0, 1) : Malloc(id, c)
    /\ Become(id, Object("buffer", 0), 0)

\* arena_vector_init(), in two calls: the header, and then the elements asked
\* for.  Nothing else is done in between.
NewVector(id) ==
    /\ Malloc(id, VectorSize)
    /\ Become(id, Object("header", 0), 0)

Reserve(id, n) ==
    /\ objects[id].kind = "header"
    /\ \E c \in Capacity(0, n) : Realloc(id, VectorSize, Bytes("vector", c))
    /\ Become(id, Object("vector", 0), 0)

\* Variant: a file that does not fit makes it not grow either.
NewReadOnce(id, size) ==
    /\ Malloc(id, ReadSize)
    /\ Become(id, [Object("buffer", 0) EXCEPT !.left = size,
                                              !.grow = size < ReadSize], 0)

\* arena_buffer_read_fd(): a file that fits exactly makes the buffer not grow.
NewRead(id, size) ==
    /\ Malloc(id, ReadSize)
    /\ Become(id, [Object("buffer", 0) EXCEPT !.left = size,
                                              !.grow = size # ReadSize], 0)

\* buffer_puts() of one character, vector_alloc() of one element.
Put(id) ==
    LET o == objects[id]
        b == blocks[id]
        full == Bytes(o.kind, o.len + 1) > b.size
        capacity == IF o.kind = "vector" THEN (b.size - VectorSize) \div Stride
                    ELSE b.size
        old == IF o.kind = "vector" THEN Bytes(o.kind, o.len) ELSE b.size
    IN  /\ ~freed
        /\ o.kind \in {"buffer", "vector"} /\ o.left = NULL /\ o.len < MaxLen
        /\ b.scope = Len(scopes)
        /\ \/ /\ full
              /\ \E c \in Capacity(capacity, o.len + 1) :
                    Realloc(id, old, Bytes(o.kind, c))
           \/ ~full /\ UNCHANGED arenaVars
        /\ Become(id, [o EXCEPT !.len = @ + 1], o.len)

\* One read() of the loop of buffer_read_fd_impl(), which returns what it likes
\* up to the room there is, and the reservation after it of an eighth of the
\* size, which is why ReadSize is at least 8.  No room or no bytes is the end.
ReadSome(id, n) ==
    LET o == objects[id]
        b == blocks[id]
        need == o.len + n + b.size \div 8
    IN  /\ ~freed
        /\ o.kind = "buffer" /\ o.left # NULL /\ b.scope = Len(scopes)
        /\ n <= b.size - o.len /\ n <= o.left
        /\ n = 0 => o.left = 0 \/ b.size = o.len
        /\ \/ /\ n > 0 /\ o.grow /\ need > b.size
              /\ \E c \in Capacity(b.size, need) : Realloc(id, b.size, c)
           \/ ~(n > 0 /\ o.grow /\ need > b.size) /\ UNCHANGED arenaVars
        /\ Become(id, IF n = 0 THEN [o EXCEPT !.kind = "read", !.grow = TRUE]
                      ELSE [o EXCEPT !.len = @ + n, !.left = @ - n],
                  o.len)

\* buffer_pop(), vector_pop(), buffer_reset(), vector_clear(): to len elements.
Shorten(id, len) ==
    LET o == objects[id]
        past == Cells(blocks[id], o.kind, len + 1, o.len)
    IN  /\ o.kind \in {"buffer", "vector"} /\ o.left = NULL /\ len < o.len
        /\ objects' = [objects EXCEPT ![id].len = len]
        /\ memory' = [a \in DOMAIN memory \ past |-> memory[a]]
        /\ UNCHANGED arenaVars

\* buffer_str(): a NUL, and the buffer gives its memory away.
Release(id) ==
    LET o == objects[id]
        b == blocks[id]
        full == o.len = b.size
    IN  /\ ~freed
        /\ o.kind \in {"buffer", "read"} /\ (o.kind = "buffer" => o.left = NULL)
        /\ b.scope = Len(scopes)
        /\ \/ full /\ \E c \in Capacity(b.size, o.len + 1) : Realloc(id, b.size, c)
           \/ ~full /\ UNCHANGED arenaVars
        /\ Become(id, [o EXCEPT !.kind = "string", !.len = @ + 1], o.len)

\* The objects of a scope go with it.
LeaveScope ==
    /\ Leave
    /\ objects' = [o \in DOMAIN blocks' |-> objects[o]]
    /\ LET live == UNION {Cells(blocks[o], objects[o].kind, 1, objects[o].len) :
                              o \in DOMAIN blocks'}
       IN  memory' = [a \in live |-> memory[a]]

Init ==
    /\ ArenaInit
    /\ memory = [a \in {} |-> <<0, 0>>]
    /\ objects = [o \in {} |-> Object("string", 0)]

Use ==
    \/ Enter /\ UNCHANGED <<memory, objects>>
    \/ \E id \in Ids :
          \/ \E size \in Strings : NewString(id, size)
          \/ NewBuffer(id)
          \/ NewVector(id)
          \/ \E size \in Files : NewRead(id, size)
    \/ \E id \in DOMAIN blocks :
          \/ Put(id)
          \/ \E n \in 0 .. ReadSize : ReadSome(id, n)
          \/ \E len \in {0, objects[id].len - 1} \cap Nat : Shorten(id, len)
          \/ Release(id)
    \/ LeaveScope
    \/ Free /\ UNCHANGED <<memory, objects>>

Next ==
    \/ \E id \in DOMAIN blocks, n \in {1, Initial + 1} : Reserve(id, n)
    \/ (\A id \in DOMAIN objects : objects[id].kind # "header") /\ Use

Spec == Init /\ [][Next]_vars

-----------------------------------------------------------------------------
\* Everything put in a string, buffer or vector of a scope that is not left yet
\* is there, unchanged, wherever it moved and whatever the other objects of the
\* arena did (arena_realloc, buffer_reserve, vector_reserve1).
ContentIsKept ==
    \A id \in DOMAIN objects :
        LET b == blocks[id]
            o == objects[id]
        IN  /\ Bytes(o.kind, o.len) <= b.size
            /\ \A a \in Cells(b, o.kind, 1, o.len) :
                  a \in DOMAIN memory /\ memory[a] = <<id, Element(b, o.kind, a)>>

\* A file that does not change is read as a whole, however few bytes a read
\* returns and whatever the size of the file is to that of the buffer
\* (buffer_read_fd_impl).
FileIsRead ==
    \A id \in DOMAIN objects :
        objects[id].kind = "read" => objects[id].left = 0
=============================================================================
