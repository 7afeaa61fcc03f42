------------------------------ MODULE DecodeMC ------------------------------
(***************************************************************************)
(* Instances of Decode for TLC: the pieces of texts.                       *)
(***************************************************************************)
EXTENDS Decode

Item(kind, text, means) == [kind |-> kind, text |-> text, means |-> means]
Same(text) == Item("plain", text, text)

\* A Q g / + - = blank, the quad AQID, and the end QQ== of a text.
MCBase64Items ==
    {Same(<<c>>) : c \in {65, 81, 103, 47, 45, 61, 32}}
    \cup {Same(<<65, 81, 73, 68>>), Same(<<81, 81, 61, 61>>)}

\* a _ newline, = =4 =4G copied, =41 =5F =00 escapes, = newline.
MCQuotedItems ==
    {Same(t) : t \in {<<97>>, <<95>>, <<10>>, <<61>>, <<61, 52>>,
                      <<61, 52, 71>>}}
    \cup {Item("plain", <<61, 52, 49>>, <<65>>),
          Item("plain", <<61, 53, 70>>, <<95>>),
          Item("plain", <<61, 48, 48>>, <<0>>),
          Item("plain", <<61, 10>>, << >>)}

\* x = ? in plain text, white space, folds, encoded words, malformed ones:
\* =?u?q?a_=3F?= means "a ?", =?u?B?YT8=?= means "a?", =?u?B?Q?= is not base64,
\* =?u?X?a?= has no such encoding, =?u?Q?a and =? are cut off.
MCHeaderItems ==
    {Same(<<120>>), Same(<<61>>), Same(<<63>>),
     Item("blank", <<32>>, <<32>>),
     Item("blank", <<10, 32>>, <<32>>),
     Item("blank", <<10, 9>>, << >>),
     Item("word", <<61, 63, 117, 63, 113, 63, 97, 95, 61, 51, 70, 63, 61>>,
          <<97, 32, 63>>),
     Item("word", <<61, 63, 117, 63, 66, 63, 89, 84, 56, 61, 63, 61>>,
          <<97, 63>>),
     Item("bad", <<61, 63, 117, 63, 66, 63, 81, 63, 61>>, << >>),
     Item("bad", <<61, 63, 117, 63, 88, 63, 97, 63, 61>>, << >>),
     Item("open", <<61, 63, 117, 63, 81, 63, 97>>, << >>),
     Item("open", <<61, 63>>, << >>)}
=============================================================================
