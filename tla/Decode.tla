------------------------------- MODULE Decode -------------------------------
(***************************************************************************)
(* The decoders of src/decode.c and the unfolding of header values of      *)
(* src/message.c, run on texts that a sender puts together item by item.   *)
(* A text is the sequence of the codes of its characters.                  *)
(***************************************************************************)
EXTENDS Integers, Sequences, SequencesExt

CONSTANTS
    NULL,       \* the null pointer: no result
    Base64Items, \* pieces of base64 texts
    QuotedItems, \* pieces of quoted-printable texts
    HeaderItems, \* pieces of header values
    MaxItems    \* bound on the pieces of a text

\* An item has the text it adds, what that means, and its kind: "plain",
\* "blank" (between encoded words it means nothing), "word" (an encoded word),
\* "bad" (a malformed one) or "open" (one cut off, the last item of a text).
ASSUME DecodeAssumption ==
    /\ \A item \in Base64Items \cup QuotedItems \cup HeaderItems :
          /\ item.text \in Seq(1 .. 255)
          /\ item.means \in Seq(0 .. 255)
          /\ item.kind \in {"plain", "blank", "word", "bad", "open"}
    /\ MaxItems \in Nat

VARIABLES
    use,       \* what the text is: "base64", "quoted" or "header"
    items      \* the items of the text

vars == <<use, items>>

Tab == 9
Newline == 10
Blank == 32
Equals == 61
Question == 63
Underscore == 95
Isspace(c) == c \in 9 .. 13 \cup {Blank}

\* A C string ends at its first NUL.
CString(text) ==
    LET nul == SelectInSeq(text, LAMBDA c : c = 0)
    IN  IF nul = 0 THEN text ELSE SubSeq(text, 1, nul - 1)

\* strstr(3): the first position from i on where pattern is, if it is anywhere.
Strstr(text, i, pattern) ==
    LET at(j) == SubSeq(text, j, j + Len(pattern) - 1) = pattern
    IN  {j \in i .. Len(text) - Len(pattern) + 1 :
            at(j) /\ \A k \in i .. j - 1 : ~at(k)}

\* Variant: white space is not skipped.
SkipNothing(text, i) == i

\* The first position from i on that is not white space.
SkipSpaces(text, i) ==
    CHOOSE j \in i .. Len(text) + 1 :
        /\ \A k \in i .. j - 1 : Isspace(text[k])
        /\ j <= Len(text) => ~Isspace(text[j])

-----------------------------------------------------------------------------
\* Variant: the digits of base64url are digits too.
SextetUrl(c) ==
    CASE c \in 65 .. 90 -> c - 65
      [] c \in 97 .. 122 -> c - 71
      [] c \in 48 .. 57 -> c + 4
      [] c \in {43, 45} -> 62
      [] c = 47 -> 63
      [] OTHER -> 64

\* The value of a digit of base64, 64 for any other character.
Sextet(c) ==
    CASE c \in 65 .. 90 -> c - 65
      [] c \in 97 .. 122 -> c - 71
      [] c \in 48 .. 57 -> c + 4
      [] c = 43 -> 62
      [] c = 47 -> 63
      [] OTHER -> 64

\* The characters of a text that are not white space.
Significant(text) ==
    LET first[i \in 0 .. Len(text)] ==
            IF i = 0 THEN << >>
            ELSE IF Isspace(text[i]) THEN first[i - 1]
            ELSE Append(first[i - 1], text[i])
    IN  first[Len(text)]

\* The number of characters before the padding.
Unpadded(sig) ==
    CHOOSE n \in 0 .. Len(sig) :
        /\ \A i \in 1 .. n : sig[i] # Equals
        /\ n < Len(sig) => sig[n + 1] = Equals

\* A digit adds its bits to the last byte and begins the next one.
AddDigit(bytes, i, d) ==
    LET add(bits) == [bytes EXCEPT ![Len(bytes)] = @ + bits]
    IN  IF i % 4 = 1 THEN Append(bytes, d * 4)
        ELSE IF i % 4 = 2 THEN Append(add(d \div 16), (d % 16) * 16)
        ELSE IF i % 4 = 3 THEN Append(add(d \div 4), (d % 4) * 64)
        ELSE add(d)

\* b64_pton().  White space is skipped anywhere.  What follows the digits is
\* the padding and nothing else, and the bits past the last byte are zero.  The
\* target has room for as many bytes as the text has characters: its bound is
\* never met.
B64Pton(text) ==
    LET sig == Significant(text)
        n == Unpadded(sig)
        target[i \in 0 .. n] ==
            IF i = 0 THEN << >> ELSE AddDigit(target[i - 1], i, Sextet(sig[i]))
        padding == SubSeq(sig, n + 1, Len(sig))
    IN  IF /\ \A i \in 1 .. n : Sextet(sig[i]) < 64
           /\ \/ n % 4 = 0 /\ padding = << >>
              \/ n % 4 = 2 /\ padding = <<Equals, Equals>>
              \/ n % 4 = 3 /\ padding = <<Equals>>
           /\ padding # << >> => target[n][Len(target[n])] = 0
          THEN SubSeq(target[n], 1, (3 * n) \div 4)
          ELSE NULL

\* base64_decode()
Base64Decode(text) ==
    LET bytes == B64Pton(text)
    IN  IF bytes = NULL THEN NULL ELSE CString(bytes)

\* Variant: digits in lower case are digits too.
HexAnyCase(c) ==
    CASE c \in 65 .. 70 -> c - 55
      [] c \in 97 .. 102 -> c - 87
      [] c \in 48 .. 57 -> c - 48
      [] OTHER -> 16

\* htoa(): digits in lower case are none.
Hex(c) ==
    CASE c \in 65 .. 70 -> c - 55
      [] c \in 48 .. 57 -> c - 48
      [] OTHER -> 16

\* quoted_printable_decode_buffer() from a position on, with what has been
\* written: what is not an escape is copied.
QuotedStep(text, dospace, s) ==
    LET i == s.pos
        n == Len(text)
        copied(k, c) == [pos |-> i + k, out |-> Append(s.out, c)]
    IN  IF i > n THEN s
        ELSE IF dospace /\ text[i] = Underscore THEN copied(1, Blank)
        ELSE IF i < n /\ text[i] = Equals /\ text[i + 1] = Newline
          THEN [pos |-> i + 2, out |-> s.out]
        ELSE IF i + 1 < n /\ text[i] = Equals /\ Hex(text[i + 1]) < 16
                          /\ Hex(text[i + 2]) < 16
          THEN copied(3, 16 * Hex(text[i + 1]) + Hex(text[i + 2]))
        ELSE copied(1, text[i])

QuotedPrintable(text, dospace) ==
    LET n == Len(text)
        loop[k \in 0 .. n] ==
            IF k = 0 THEN [pos |-> 1, out |-> << >>]
            ELSE QuotedStep(text, dospace, loop[k - 1])
    IN  loop[n].out

\* quoted_printable_decode()
QuotedPrintableDecode(text) == CString(QuotedPrintable(text, FALSE))

\* The encoded word at position i of a header, none if it is malformed: what it
\* decodes to and the position after it.
EncodedWord(text, i) ==
    LET charsets == {q \in Strstr(text, i + 2, <<Question>>) :
                        /\ q + 1 < Len(text)
                        /\ text[q + 2] = Question
                        /\ text[q + 1] \in {66, 81, 98, 113}}
        decode(enc, word) ==
            IF enc \in {66, 98} THEN Base64Decode(word)
            ELSE QuotedPrintable(word, TRUE)
        all == UNION {{[dec |-> decode(text[q + 1], SubSeq(text, q + 3, end - 1)),
                        next |-> end + 2] :
                          end \in Strstr(text, q + 3, <<Question, Equals>>)} :
                      q \in charsets}
    IN  {w \in all : w.dec # NULL}

\* rfc2047_decode(): white space between encoded words is dropped, and one
\* malformed word leaves all of the header as it is.
Rfc2047Decode(text) ==
    LET n == Len(text)
        begins(i) == i < n /\ text[i] = Equals /\ text[i + 1] = Question
        next(i) == IF begins(SkipSpaces(text, i)) THEN SkipSpaces(text, i) ELSE i
        \* a set of one, or of none
        from[i \in 1 .. n + 1] ==
            CASE i > n -> {<< >>}
              [] begins(i) -> UNION {{w.dec \o rest : rest \in from[next(w.next)]} :
                                         w \in EncodedWord(text, i)}
              [] OTHER -> {<<text[i]>> \o rest : rest \in from[i + 1]}
    IN  CString(CHOOSE t \in from[1] \cup {text} : from[1] # {} => t \in from[1])

\* unfoldheader(): the lines of a value joined, without the tabs they begin with.
UnfoldHeader(text) ==
    LET dropped(i) ==
            \/ text[i] = Newline
            \/ \E j \in 1 .. i : /\ \A k \in j .. i : text[k] = Tab
                                 /\ j > 1 => text[j - 1] = Newline
        kept == SelectSeq([i \in DOMAIN text |-> i], LAMBDA i : ~dropped(i))
    IN  IF Newline \notin ToSet(text) THEN text
        ELSE [i \in DOMAIN kept |-> text[kept[i]]]

\* decodeheader()
DecodeHeader(text) == Rfc2047Decode(UnfoldHeader(text))

-----------------------------------------------------------------------------
Text == FlattenSeq([i \in DOMAIN items |-> items[i].text])

Meaning == FlattenSeq([i \in DOMAIN items |-> items[i].means])

Init == use \in {"base64", "quoted", "header"} /\ items = << >>

\* The sender adds an item.  Nothing follows one that is cut off, and no item
\* completes what the one before it began.
Add(item) ==
    /\ Len(items) < MaxItems
    /\ item \in CASE use = "base64" -> Base64Items
                  [] use = "quoted" -> QuotedItems
                  [] use = "header" -> HeaderItems
    /\ items # << >> /\ use # "base64" =>
          /\ Last(items).kind # "open"
          /\ item.text[1] \in {Newline, Question} =>
                Last(items).kind # "plain" \/ Last(Last(items).text) # Equals
    /\ items' = Append(items, item)
    /\ UNCHANGED use

Next == \E item \in Base64Items \cup QuotedItems \cup HeaderItems : Add(item)

Spec == Init /\ [][Next]_vars

-----------------------------------------------------------------------------
\* RFC 4648: three bytes and four digits are the same 24 bits.  Past the end all
\* bits are zero.
At(s, i) == IF i \in DOMAIN s THEN s[i] ELSE 0

BytesOf(digits, n) ==
    LET bits(g) == 262144 * At(digits, 4 * g + 1) + 4096 * At(digits, 4 * g + 2)
                   + 64 * At(digits, 4 * g + 3) + At(digits, 4 * g + 4)
        weight == <<65536, 256, 1>>
    IN  [i \in 1 .. n |-> (bits((i - 1) \div 3) \div weight[((i - 1) % 3) + 1]) % 256]

DigitsOf(bytes, n) ==
    LET bits(g) == 65536 * At(bytes, 3 * g + 1) + 256 * At(bytes, 3 * g + 2)
                   + At(bytes, 3 * g + 3)
        weight == <<262144, 4096, 64, 1>>
    IN  [i \in 1 .. n |-> (bits((i - 1) \div 4) \div weight[((i - 1) % 4) + 1]) % 64]

\* A to Z, a to z, 0 to 9, + and /.
Alphabet(v) ==
    IF v < 26 THEN v + 65
    ELSE IF v < 52 THEN v + 71
    ELSE IF v < 62 THEN v - 4
    ELSE IF v = 62 THEN 43
    ELSE 47

\* As many digits as the bytes have bits, and the padding.
Base64Of(bytes) ==
    LET digits == DigitsOf(bytes, (8 * Len(bytes) + 5) \div 6)
    IN  [i \in DOMAIN digits |-> Alphabet(digits[i])]
        \o [i \in 1 .. ((-Len(bytes)) % 3) |-> Equals]

\* A text is accepted if and only if, white space aside, it is the encoding of
\* some bytes, and these are the result.
DecodedExactly(text) ==
    LET sig == Significant(text)
        n == Unpadded(sig)
        bytes == BytesOf([i \in 1 .. n |-> Sextet(sig[i])], (6 * n) \div 8)
    IN  B64Pton(text) = IF Base64Of(bytes) = sig THEN bytes ELSE NULL

\* base64 is decoded exactly (b64_pton; no "subliminal channel" in the padding).
Base64IsExact == use = "base64" => DecodedExactly(Text)

\* A quoted-printable text is read as what was written, escapes and soft line
\* breaks decoded and everything else as it is, up to the first NUL
\* (quoted_printable_decode).
QuotedIsMeant ==
    use = "quoted" => QuotedPrintableDecode(Text) = CString(Meaning)

\* A header is read as what was written, however its encoded words are mixed
\* with plain text and folded: white space between two encoded words means
\* nothing, and if a word is malformed the header is left as it is
\* (decodeheader; CHANGELOG.md:22, CHANGELOG.md:41).
HeaderIsMeant ==
    LET kinds(k) == {i \in DOMAIN items : items[i].kind = k}
        dropped(i) ==
            /\ items[i].kind = "blank"
            /\ \E j, k \in kinds("word") :
                  j < i /\ i < k /\ j + 1 .. k - 1 \subseteq kinds("blank")
        meant == IF kinds("bad") \cup kinds("open") # {}
                   THEN UnfoldHeader(Text)
                   ELSE FlattenSeq([i \in DOMAIN items |->
                            IF dropped(i) THEN << >> ELSE items[i].means])
    IN  use = "header" => DecodeHeader(Text) = meant
=============================================================================
