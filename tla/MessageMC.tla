------------------------------ MODULE MessageMC ------------------------------
(***************************************************************************)
(* Instances of Message for TLC.                                           *)
(***************************************************************************)
EXTENDS Message

Junk == Line("text", "not base64")
MCNotBase64 == {Junk}
A == Line("text", "a")
B == Line("text", "b")

Part(type, enc, lines) ==
    [head |-> << >>, type |-> type, form |-> "none", enc |-> enc,
     blank |-> TRUE, lines |-> lines, parts |-> << >>, closed |-> FALSE,
     tail |-> << >>]

Multi(type, form, parts, closed) ==
    [Part(type, "none", <<B>>) EXCEPT !.form = form, !.parts = parts,
                                      !.closed = closed]

\* Bodies with empty lines before and in them, with lines that look like headers
\* and delimiters.
Plain == Part("text/plain", "base64", <<A>>)
Html == Part("text/html", "quoted-printable", <<Empty, A, Empty, B>>)
Bad == Part("text/plain", "base64", <<A, Junk>>)
Other == Part("none", "none", <<HeaderLine("Subject", "a"), Line("delim", 99), Junk>>)
Nothing == Part("none", "none", << >>)
Leaves == {Plain, Html, Bad, Other, Nothing}

Mixed(parts) == Multi("multipart/mixed", "quoted", parts, TRUE)
Alternative(parts) == Multi("multipart/alternative", "quoted", parts, TRUE)
Either(parts) == {Mixed(parts), Alternative(parts)}

Flat ==
    UNION {Either(<< >>)}
    \cup UNION {Either(<<p>>) : p \in Leaves}
    \cup UNION {Either(<<p, q>>) : p, q \in Leaves}
Forms ==
    {Multi(type, form, <<Html, Plain>>, TRUE) :
        type \in Multipart, form \in {"later", "bare", "empty", "open"}}
    \cup {Multi(type, "quoted", ps, FALSE) :
        type \in Multipart, ps \in {<< >>, <<Html, Plain>>}}

\* Multiparts as parts, in the first and in the last place.
Inner == Forms \cup Either(<< >>) \cup Either(<<Html, Plain>>) \cup Either(<<Bad>>)
Nested ==
    UNION {Either(<<p, q>>) : p \in Inner, q \in {Html, Plain}}
    \cup UNION {Either(<<q, p>>) : p \in Inner, q \in {Html, Plain}}

\* A part nested n deep, and one after it.
Deep[n \in 0 .. 6] == IF n = 0 THEN Plain ELSE Mixed(<<Deep[n - 1], Html>>)
DeepAlternative[n \in 0 .. 6] ==
    IF n = 0 THEN Html ELSE Alternative(<<DeepAlternative[n - 1]>>)

\* An mbox separator, headers continued on the next line, no body, no newline at
\* the end, a NUL.
Odd ==
    {[Part("none", enc, ls) EXCEPT !.head = h, !.blank = b, !.tail = t] :
        enc \in {"none", "base64"},
        ls \in {<< >>, <<A>>, <<Empty, B, Nul, A>>},
        h \in {<< >>, <<Line("from", "a")>>,
               <<Line("from", "a"), HeaderLine("Subject", "a"),
                 Line("cont", "b"), Line("cont", "c")>>},
        b \in BOOLEAN, t \in {<< >>, <<Cut>>}}

MCTrees ==
    Leaves \cup Flat \cup Forms \cup Nested \cup Odd
    \cup {Deep[n] : n \in 1 .. 6} \cup {DeepAlternative[n] : n \in 1 .. 6}
    \cup {[t EXCEPT !.tail = <<Cut>>] : t \in Either(<<Plain>>)}
=============================================================================
