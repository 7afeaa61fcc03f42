------------------------------ MODULE Message ------------------------------
(***************************************************************************)
(* The structure of a message (src/message.c): how the text of a file is   *)
(* read as headers, body and attachments, what the calls of evaluation and *)
(* execution get of it, and what is written when it is rewritten.  A text  *)
(* is a sequence of lines, a line a tuple that begins with its kind.  The  *)
(* table of headers is in Headers, the decoders are in Decode.             *)
(***************************************************************************)
EXTENDS Integers, Sequences, SequencesExt

CONSTANTS
    NULL,      \* the null pointer: an error
    NONE,      \* no boundary: not a multipart
    MaxDepth,  \* the nesting that parseattachments() accepts
    NotBase64, \* lines that are not base64
    Trees,     \* messages as their senders mean them, see Tree
    MaxRewrites \* bound on the times a message is rewritten

Empty == <<"empty">>
Cut == <<"cut">>   \* stands after a last line without a newline
Nul == <<"nul">>   \* a line that begins with a NUL
Line(kind, word) == <<kind, word>>         \* "text", "cont", "delim", "close"
HeaderLine(key, val) == <<"header", key, val>>
Kind(line) == line[1]

\* The value of Content-Type: the type, how the boundary is given, the boundary.
ContentType(type, form, boundary) == <<type, form, boundary>>
Multipart == {"multipart/mixed", "multipart/alternative"}

\* What a sender means: a tree of parts.  head and lines are lines, form is how
\* the boundary is given, parts are trees, closed tells whether the closing
\* delimiter is there, blank whether an empty line follows the headers.
ASSUME MessageAssumption ==
    /\ MaxDepth \in Nat /\ MaxRewrites \in Nat
    /\ \A t \in Trees : DOMAIN t = {"head", "type", "form", "enc", "blank",
                                    "lines", "parts", "closed", "tail"}

VARIABLES
    tree,      \* the message as meant
    msgs,      \* the message in memory and, once parsed, its attachments
    parsed,    \* me_attachments: "no" or "yes"
    decoded,   \* me_buf_dec of every one of msgs, NULL when there is none
    answer,    \* history: the last call and what it returned
    rewrites   \* number of times the message was rewritten

vars == <<tree, msgs, parsed, decoded, answer, rewrites>>

-----------------------------------------------------------------------------
\* The text is a C string: it ends at its first NUL.
CString(text) ==
    LET nul == SelectInSeq(text, LAMBDA l : l = Nul)
    IN  IF nul = 0 THEN text ELSE SubSeq(text, 1, nul - 1)

Terminated(text, i) == ~(i < Len(text) /\ text[i + 1] = Cut)

\* skipseparator(): where the text begins, after an mbox separator.
Start(text) ==
    IF text # << >> /\ Kind(text[1]) = "from" /\ Terminated(text, 1)
      THEN 2 ELSE 1

\* Variant: a header is one line.
LastLineFirst(text, i) == i

\* findheader(): the end of the header at line i and of the lines that continue
\* it.
LastLine(text, i) ==
    CHOOSE j \in i .. Len(text) :
        /\ \A k \in i + 1 .. j : Kind(text[k]) = "cont"
        /\ j < Len(text) => Kind(text[j + 1]) # "cont"

IsHeader(text, i) == i <= Len(text) /\ Kind(text[i]) = "header"

\* Where the headers end, from line start on.
HeadersEnd(text, start) ==
    LET end[i \in start .. Len(text) + 1] ==
            IF IsHeader(text, i) /\ Terminated(text, LastLine(text, i))
              THEN end[LastLine(text, i) + 1] ELSE i
    IN  end[start]

SkipEmpty(lines) ==
    LET first == SelectInSeq(lines, LAMBDA l : l # Empty)
    IN  IF first = 0 THEN << >> ELSE SubSeq(lines, first, Len(lines))

\* message_parse() and message_parse_headers().  Of a header that is not
\* terminated only the name is left: its colon has been overwritten.
Parse(raw) ==
    LET text == CString(raw)
        start == Start(text)
        end == HeadersEnd(text, start)
    IN  [headers |-> SubSeq(text, start, end - 1),
         body |-> IF IsHeader(text, end)
                    THEN <<Line("text", text[end][2]), Cut>>
                    ELSE SkipEmpty(SubSeq(text, end, Len(text)))]

\* Variant: nothing ends the headers.
TextJoined(m) == m.headers \o m.body

\* message_write()
Text(m) == m.headers \o <<Empty>> \o m.body

\* message_get_header1(), of a header that occurs once at most.
Header(m, key) ==
    LET i == SelectInSeq(m.headers, LAMBDA l : l[1] = "header" /\ l[2] = key)
    IN  IF i = 0 THEN NULL ELSE m.headers[i][3]

\* message_is_content_type()
IsContentType(m, type) ==
    LET val == Header(m, "Content-Type")
    IN  val # NULL /\ val[1] = type

\* parseboundary(): of a multipart, the boundary if it is the first parameter
\* and quoted, an error if it is empty or its quote is left open.
Boundary(m) ==
    LET val == Header(m, "Content-Type")
    IN  CASE val = NULL -> NONE
          [] val # NULL /\ (val[1] \notin Multipart \/ val[2] \in {"later", "bare"})
                -> NONE
          [] val # NULL /\ val[1] \in Multipart /\ val[2] \in {"empty", "open"}
                -> NULL
          [] OTHER -> val[3]

\* findboundary(): the delimiters of the boundary, up to the closing one.
Delimiters(body, boundary) ==
    LET lines(kind) ==
            {i \in DOMAIN body : body[i] = <<kind, boundary>> /\ Terminated(body, i)}
    IN  {i \in lines("delim") \cup lines("close") :
            \A j \in lines("close") : i <= j}

\* The texts between the delimiters, NULL if there is no closing one.
Sections(body, boundary) ==
    LET ds == SetToSortSeq(Delimiters(body, boundary), <)
    IN  IF ds = << >> \/ (ds # << >> /\ Kind(body[Last(ds)]) # "close") THEN NULL
        ELSE [i \in 1 .. Len(ds) - 1 |-> SubSeq(body, ds[i] + 1, ds[i + 1] - 1)]
\* Variant: the depth is not checked.
RECURSIVE AttachmentsAnyDepth(_, _)
AttachmentsAnyDepth(m, depth) ==
    LET boundary == Boundary(m)
        sections == Sections(m.body, boundary)
        inner(s) == AttachmentsAnyDepth(Parse(s), depth + 1)
    IN  CASE boundary = NONE -> << >>
          [] boundary = NULL -> NULL
          [] OTHER ->
                IF sections = NULL THEN NULL
                ELSE IF \E s \in ToSet(sections) : inner(s) = NULL THEN NULL
                ELSE FlattenSeq([i \in DOMAIN sections |->
                        <<Parse(sections[i])>> \o inner(sections[i])])

\* parseattachments(): the attachments of m and, after each of them, its own.
\* One that is malformed, or nested too deep, is an error of the message.
RECURSIVE Attachments(_, _)
Attachments(m, depth) ==
    LET boundary == Boundary(m)
        sections == Sections(m.body, boundary)
        inner(s) == Attachments(Parse(s), depth + 1)
    IN  CASE depth > MaxDepth -> NULL
          [] depth <= MaxDepth /\ boundary = NONE -> << >>
          [] depth <= MaxDepth /\ boundary = NULL -> NULL
          [] OTHER ->
                IF sections = NULL THEN NULL
                ELSE IF \E s \in ToSet(sections) : inner(s) = NULL THEN NULL
                ELSE FlattenSeq([i \in DOMAIN sections |->
                        <<Parse(sections[i])>> \o inner(sections[i])])

\* message_decode_body(): what the lines of a body are decoded by, and the lines.
DecodeBody(m) ==
    LET enc == Header(m, "Content-Transfer-Encoding")
    IN  CASE enc = "base64" ->
                IF \E l \in ToSet(m.body) : l \in NotBase64 THEN NULL
                ELSE <<"base64", m.body>>
          [] enc = "quoted-printable" -> <<"quoted-printable", m.body>>
          [] OTHER -> <<"none", m.body>>

\* Variant: the first representation is taken.
BodyFirst(m) ==
    LET parts == Attachments(m, 0)
        first == SelectInSeq(parts, LAMBDA p : IsContentType(p, "text/plain")
                                            \/ IsContentType(p, "text/html"))
    IN  CASE ~IsContentType(m, "multipart/alternative") -> DecodeBody(m)
          [] OTHER -> IF parts = NULL THEN NULL
                      ELSE IF first = 0 THEN <<"none", m.body>>
                      ELSE DecodeBody(parts[first])

\* message_get_body(): of alternatives, text is favored over HTML.
Body(m) ==
    LET parts == Attachments(m, 0)
        first(type) == SelectInSeq(parts, LAMBDA p : IsContentType(p, type))
    IN  CASE ~IsContentType(m, "multipart/alternative") -> DecodeBody(m)
          [] IsContentType(m, "multipart/alternative") /\ parts = NULL -> NULL
          [] OTHER ->
                CASE first("text/plain") # 0 -> DecodeBody(parts[first("text/plain")])
                  [] first("text/plain") = 0 /\ first("text/html") # 0 ->
                        DecodeBody(parts[first("text/html")])
                  [] OTHER -> <<"none", m.body>>

-----------------------------------------------------------------------------
\* The text that means t, whose boundary is its depth.
RECURSIVE Render(_, _)
Render(t, depth) ==
    LET part(i) == <<Line("delim", depth)>> \o Render(t.parts[i], depth + 1)
    IN  t.head
        \o (IF t.type = "none" THEN << >>
            ELSE <<HeaderLine("Content-Type", ContentType(t.type, t.form, depth))>>)
        \o (IF t.enc = "none" THEN << >>
            ELSE <<HeaderLine("Content-Transfer-Encoding", t.enc)>>)
        \o (IF t.blank THEN <<Empty>> ELSE << >>)
        \o t.lines
        \o FlattenSeq([i \in DOMAIN t.parts |-> part(i)])
        \o (IF t.closed THEN <<Line("close", depth)>> ELSE << >>)
        \o t.tail

NoAnswer == [call |-> "none", of |-> 1, is |-> NULL]
Failed == answer.call # "none" /\ answer.is = NULL

Load(raw) ==
    /\ msgs' = <<Parse(raw)>>
    /\ parsed' = "no"
    /\ decoded' = <<NULL>>
    /\ answer' = NoAnswer

Init ==
    /\ tree \in Trees
    /\ msgs = <<Parse(Render(tree, 0))>>
    /\ parsed = "no"
    /\ decoded = <<NULL>>
    /\ answer = NoAnswer
    /\ rewrites = 0

\* message_get_attachments(), of an attachment condition or block.  Evaluation
\* ends at the first error.
GetAttachments ==
    /\ ~Failed
    /\ LET all == IF parsed = "yes" THEN Tail(msgs) ELSE Attachments(msgs[1], 0)
       IN  /\ answer' = [call |-> "attachments", of |-> 1, is |-> all]
           /\ IF parsed = "no" /\ all # NULL
                THEN /\ msgs' = msgs \o all
                     /\ decoded' = decoded \o [i \in DOMAIN all |-> NULL]
                ELSE UNCHANGED <<msgs, decoded>>
    /\ parsed' = "yes"
    /\ UNCHANGED <<tree, rewrites>>

\* message_get_body(), of a pattern on the body and of exec stdin body, for the
\* message or for an attachment.  To see the alternatives the message parses
\* its attachments.
GetBody(i) ==
    /\ ~Failed
    /\ LET m == msgs[i]
           body == IF decoded[i] # NULL THEN decoded[i] ELSE Body(m)
           alternatives == IsContentType(m, "multipart/alternative")
           all == IF i = 1 /\ alternatives /\ parsed = "no"
                    THEN Attachments(m, 0) ELSE << >>
           new == IF all = NULL THEN << >> ELSE all
       IN  /\ answer' = [call |-> "body", of |-> i, is |-> body]
           /\ decoded' = [decoded EXCEPT ![i] = body]
                         \o [j \in DOMAIN new |-> NULL]
           /\ msgs' = msgs \o new
           /\ parsed' = IF i = 1 /\ alternatives THEN "yes" ELSE parsed
    /\ UNCHANGED <<tree, rewrites>>

\* message_get_fd() without body: what a command reads of an attachment.
GetText(i) ==
    /\ ~Failed /\ i > 1
    /\ answer' = [call |-> "text", of |-> i, is |-> Text(msgs[i])]
    /\ UNCHANGED <<tree, msgs, parsed, decoded, rewrites>>

\* A label, an add-header or a move to another file system writes the message to
\* a new file, and the next mdsort reads that.
Rewrite ==
    /\ ~Failed /\ rewrites < MaxRewrites
    /\ Load(Text(msgs[1]))
    /\ rewrites' = rewrites + 1
    /\ UNCHANGED tree

Done == (Failed \/ rewrites = MaxRewrites) /\ UNCHANGED vars

Next ==
    \/ GetAttachments
    \/ \E i \in DOMAIN msgs : GetBody(i) \/ GetText(i)
    \/ Rewrite
    \/ Done

Spec == Init /\ [][Next]_vars

-----------------------------------------------------------------------------
IsMultipart(t) == t.type \in Multipart /\ t.form \notin {"later", "bare"}

\* The parts of t in the order they are written, each followed by its own, with
\* their depth.
RECURSIVE PartsOf(_, _)
PartsOf(t, depth) ==
    IF ~IsMultipart(t) THEN << >>
    ELSE FlattenSeq([i \in DOMAIN t.parts |->
            <<[tree |-> t.parts[i], depth |-> depth + 1]>>
            \o PartsOf(t.parts[i], depth + 1)])

Malformed(t) ==
    IsMultipart(t) /\ (~t.closed \/ t.tail # << >> \/ t.form \in {"empty", "open"})

\* t can be read: it and all of its parts are well formed, and no part is nested
\* deeper than MaxDepth.
Readable(t, depth) ==
    /\ ~Malformed(t)
    /\ \A p \in ToSet(PartsOf(t, depth)) :
          ~Malformed(p.tree) /\ p.depth - depth <= MaxDepth

\* What a part is to be read as.  Empty lines before a body mean nothing, what
\* follows a NUL is not seen.
Meant(t, depth) ==
    LET all == Render(t, depth)
        lines == CString(SelectSeq(all, LAMBDA l : Kind(l) # "from"))
        first == SelectInSeq(lines, LAMBDA l : Kind(l) \notin {"header", "cont"})
    IN  IF first = 0 THEN [headers |-> lines, body |-> << >>]
        ELSE [headers |-> SubSeq(lines, 1, first - 1),
              body |-> SkipEmpty(SubSeq(lines, first, Len(lines)))]

\* The text of a header that is not terminated is lost.
Truncated(t) == ~t.blank /\ t.lines = << >> /\ t.tail = <<Cut>>

\* The message is read as it was meant, also after it was rewritten: the same
\* headers with their continuation lines in the same order, and the same body.
\* Rewriting loses nothing but an mbox separator, empty lines before the body
\* and what follows a NUL (message_parse_headers, message_write).
MessageIsMeant == ~Truncated(tree) => msgs[1] = Meant(tree, 0)

\* The attachments are the parts of the message, nested ones included, each in
\* its place and with its own headers and body, also after it was rewritten;
\* and they are an error exactly if one of them is malformed or nested too deep
\* (parseattachments).
AttachmentsAreMeant ==
    LET parts == PartsOf(tree, 0)
    IN  answer.call = "attachments" =>
            answer.is = IF Readable(tree, 0)
                          THEN [i \in DOMAIN parts |->
                                    Meant(parts[i].tree, parts[i].depth)]
                          ELSE NULL

\* What the body of a part is to be: of alternatives the first text, else the
\* first HTML, else itself; decoded as its own headers tell.
BodyMeant(t, depth) ==
    LET parts == PartsOf(t, depth)
        of(type) == SelectInSeq(parts, LAMBDA p : p.tree.type = type)
        dec(p, d) == LET body == Meant(p, d).body
                     IN  IF p.enc = "base64" /\ ToSet(body) \cap NotBase64 # {}
                           THEN NULL ELSE <<p.enc, body>>
    IN  CASE t.type # "multipart/alternative" -> dec(t, depth)
          [] OTHER -> IF ~Readable(t, depth) THEN NULL
                      ELSE LET i == IF of("text/plain") # 0 THEN of("text/plain")
                                    ELSE of("text/html")
                           IN  IF i = 0 THEN <<"none", Meant(t, depth).body>>
                               ELSE dec(parts[i].tree, parts[i].depth)

\* A pattern or a command gets the body that is meant, of the message and of
\* every attachment, whatever was asked before (message_get_body).
BodyIsMeant ==
    answer.call = "body" /\ ~Truncated(tree) =>
        LET i == answer.of
            part == PartsOf(tree, 0)[i - 1]
        IN  answer.is = IF i = 1 THEN BodyMeant(tree, 0)
                        ELSE BodyMeant(part.tree, part.depth)

\* A command that gets an attachment on its standard input reads a message that
\* is that attachment (message_get_fd, message_write).
TextIsMeant ==
    answer.call = "text" =>
        LET part == PartsOf(tree, 0)[answer.of - 1]
        IN  Parse(answer.is) = Meant(part.tree, part.depth)
=============================================================================
