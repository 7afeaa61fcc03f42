------------------------------ MODULE Headers ------------------------------
(***************************************************************************)
(* The headers of one message in memory (src/message.c): a vector, sorted  *)
(* by name so that it can be searched, sorted by position to be written.   *)
(* A step is a call that evaluation, interpolation or execution makes.     *)
(***************************************************************************)
EXTENDS Integers, Sequences, SequencesExt

CONSTANTS
    Keys,       \* names of headers, numbered in the order of strcasecmp(3)
    Encoding,   \* Content-Transfer-Encoding
    ContentType, \* Content-Type
    XLabel,     \* X-Label
    Messages,   \* the names of the headers of messages, in the order read
    MaxSets     \* bound on the label and add-header actions of a list

ASSUME HeadersAssumption ==
    /\ Keys \subseteq Int
    /\ {Encoding, ContentType, XLabel} \subseteq Keys
    /\ Messages \subseteq Seq(Keys)
    /\ MaxSets \in Nat

VARIABLES
    orig,      \* the message as read: the names of its headers
    headers,   \* me_headers
    decoded,   \* me_buf_dec: "none", the body as it is, or decoded
    phase,     \* what calls: "eval", "interpolate" or "exec"
    file,      \* the headers of the last file written: a set of at most one
    sets,      \* number of actions interpolated
    asked      \* history: asked[k] has what became of header k, see Ask

vars == <<orig, headers, decoded, phase, file, sets, asked>>

\* A value is the sequence of words it is made of: header i of the message has
\* the value <<i>>, action k adds the word -k.  values is the cache of
\* message_get_header(), empty when there is none.
Header(id, key, val) == [id |-> id, key |-> key, val |-> val, values |-> << >>]

\* VECTOR_SORT() by cmpheaderkey() or cmpheaderid(): the least of those left is
\* next, and qsort(3) leaves open which one when there are several.  orders[n] has
\* the positions of the first n.
Sorted(hs, field) ==
    LET least(S) == {i \in S : \A j \in S : hs[i][field] <= hs[j][field]}
        orders[n \in 0 .. Len(hs)] ==
            IF n = 0 THEN {<< >>}
            ELSE UNION {{Append(p, i) : i \in least(DOMAIN hs \ ToSet(p))} :
                           p \in orders[n - 1]}
    IN  {[i \in DOMAIN hs |-> hs[p[i]]] : p \in orders[Len(hs)]}

\* searchheader(): a binary search of the positions from r[1] to r[2], then the
\* neighbours with the same name.  The positions found.
SearchHeader(hs, key) ==
    LET n == Len(hs)
        probe[r \in (1 .. n + 1) \X (0 .. n)] ==
            LET lo == r[1]
                hi == r[2]
                mi == lo + (hi - lo) \div 2
            IN  IF lo > hi THEN {}
                ELSE IF key = hs[mi].key THEN {mi}
                ELSE IF key > hs[mi].key THEN probe[<<mi + 1, hi>>]
                ELSE IF mi > 1 THEN probe[<<lo, mi - 1>>]
                ELSE {}
        run(i, j) == \A m \in i .. j : hs[m].key = key
    IN  IF n = 0 THEN {}
        ELSE {j \in 1 .. n : \E i \in probe[<<1, n>>] : run(i, j) /\ run(j, i)}

First(found) == CHOOSE i \in found : \A j \in found : i <= j

\* message_get_header(): the values, and the headers with the values cached.
Values(hs, key) ==
    LET found == SearchHeader(hs, key)
        i == First(found)
    IN  CASE found = {} -> << >>
          [] found # {} /\ hs[i].values # << >> -> hs[i].values
          [] OTHER -> [j \in 1 .. Cardinality(found) |-> hs[i + j - 1].val]

Cached(hs, key) ==
    LET found == SearchHeader(hs, key)
    IN  IF found = {} THEN hs
        ELSE [hs EXCEPT ![First(found)].values = Values(hs, key)]

\* Variant: a header is appended without sorting.
SetHeaderUnsorted(hs, key, val) ==
    LET found == SearchHeader(hs, key)
        i == First(found)
    IN  IF found = {} THEN {Append(hs, Header(Len(hs) + 1, key, val))}
        ELSE {SubSeq(hs, 1, i - 1)
              \o <<[hs[i] EXCEPT !.val = val, !.values = << >>]>>
              \o SubSeq(hs, i + Cardinality(found), Len(hs))}

\* message_set_header(): the vectors it may result in.
SetHeader(hs, key, val) ==
    LET found == SearchHeader(hs, key)
        i == First(found)
    IN  IF found = {}
          THEN Sorted(Append(hs, Header(Len(hs) + 1, key, val)), "key")
          ELSE {SubSeq(hs, 1, i - 1)
                \o <<[hs[i] EXCEPT !.val = val, !.values = << >>]>>
                \o SubSeq(hs, i + Cardinality(found), Len(hs))}

-----------------------------------------------------------------------------
\* message_parse_headers()
Init ==
    /\ orig \in Messages
    /\ headers \in Sorted([i \in DOMAIN orig |-> Header(i, orig[i], <<i>>)],
                          "key")
    /\ decoded = "none"
    /\ phase = "eval"
    /\ file = {}
    /\ sets = 0
    /\ asked = [k \in Keys |-> {i \in DOMAIN orig : orig[i] = k}]

\* A pattern on a header, expr_eval_header().
Lookup(key) ==
    /\ phase = "eval"
    /\ headers' = Cached(headers, key)
    /\ UNCHANGED <<orig, decoded, phase, file, sets, asked>>

\* message_get_body(), called by a pattern on the body and by exec stdin body.
\* The body is decoded once.  Encodings are those of the message as read;
\* multipart/alternative is not among the content types.
GetBody ==
    /\ phase \in {"eval", "exec"}
    /\ decoded = "none"
    /\ LET hs == Cached(headers, ContentType)
           enc == Values(hs, Encoding)
       IN  /\ headers' = Cached(hs, Encoding)
           /\ decoded' = IF enc # << >> /\ enc[1][1] > 0 THEN "decoded"
                         ELSE "raw"
    /\ UNCHANGED <<orig, phase, file, sets, asked>>

\* The rules matched: matches_interpolate(), then matches_exec().
NextPhase ==
    /\ \/ phase = "eval" /\ phase' = "interpolate"
       \/ phase = "interpolate" /\ phase' = "exec"
    /\ UNCHANGED <<orig, headers, decoded, file, sets, asked>>

\* match_interpolate() of add-header.
AddHeader(key) ==
    /\ phase = "interpolate" /\ sets < MaxSets
    /\ headers' \in SetHeader(headers, key, <<-(sets + 1)>>)
    /\ asked' = [asked EXCEPT ![key] = {-(sets + 1)}]
    /\ sets' = sets + 1
    /\ UNCHANGED <<orig, decoded, phase, file>>

\* match_interpolate() of label: what X-Label has, all of its occurrences, and
\* the new label.
AddLabel ==
    /\ phase = "interpolate" /\ sets < MaxSets
    /\ headers' \in SetHeader(Cached(headers, XLabel), XLabel,
                        FlattenSeq(Values(headers, XLabel)) \o <<-(sets + 1)>>)
    /\ asked' = [asked EXCEPT ![XLabel] = @ \cup {-(sets + 1)}]
    /\ sets' = sets + 1
    /\ UNCHANGED <<orig, decoded, phase, file>>

\* Variant: the order of the message is not restored.
WriteByKey ==
    /\ phase = "exec"
    /\ file' = {[i \in DOMAIN headers |-> <<headers[i].key, headers[i].val>>]}
    /\ UNCHANGED <<orig, headers, decoded, phase, sets, asked>>

\* The headers in message_write(), of a label, an add-header or a move to
\* another file system.
Write ==
    /\ phase = "exec"
    /\ headers' \in Sorted(headers, "id")
    /\ file' = {[i \in DOMAIN headers' |-> <<headers'[i].key, headers'[i].val>>]}
    /\ UNCHANGED <<orig, decoded, phase, sets, asked>>

Done == phase = "exec" /\ UNCHANGED vars

Next ==
    \/ \E key \in Keys : Lookup(key)
    \/ GetBody
    \/ NextPhase
    \/ \E key \in Keys : AddHeader(key)
    \/ AddLabel
    \/ Write
    \/ Done

Spec == Init /\ [][Next]_vars

-----------------------------------------------------------------------------
\* Until the message is written, looking up a header finds it, all of its
\* occurrences, with the values they have now, in whatever order: the vector
\* stays sorted and no cached value outlives a change (searchheader,
\* message_get_header).
LookupIsCurrent ==
    file = {} =>
        \A k \in Keys :
            LET got == Values(headers, k)
                have == {i \in DOMAIN headers : headers[i].key = k}
            IN  /\ Len(got) = Cardinality(have)
                /\ ToSet(got) = {headers[i].val : i \in have}

Untouched(key) == \A w \in asked[key] : w > 0

\* What is written has the headers no action touched as they were, each once
\* and in the order they had ("Preserve ordering of headers."), and every other
\* one once, with the words that were asked for, the old labels among them.
WriteKeepsHeaders ==
    \A f \in file :
        LET kept == {i \in DOMAIN f : Untouched(f[i][1])}
        IN  /\ \A k \in Keys :
                  LET is == {i \in DOMAIN f : f[i][1] = k}
                  IN  IF Untouched(k)
                        THEN {f[i][2] : i \in is} =
                                {<<o>> : o \in {o \in DOMAIN orig : orig[o] = k}}
                        ELSE /\ Cardinality(is) = 1
                             /\ \A i \in is : /\ Len(f[i][2]) = Cardinality(asked[k])
                                              /\ ToSet(f[i][2]) = asked[k]
            /\ \A i, j \in kept : i < j => f[i][2][1] < f[j][2][1]

\* "Optionally seeking past the headers to where the body begins.  In this case,
\* the body is decoded as well" (message_get_fd): the body that a pattern or a
\* command gets is decoded if the message has an encoding, whatever was done
\* with the message before.
BodyIsDecoded ==
    decoded # "none" /\ Untouched(Encoding) =>
        (decoded = "decoded") = (\E i \in DOMAIN orig : orig[i] = Encoding)
=============================================================================
