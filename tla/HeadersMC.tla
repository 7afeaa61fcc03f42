------------------------------ MODULE HeadersMC ------------------------------
(***************************************************************************)
(* Instances of Headers for TLC.                                           *)
(***************************************************************************)
EXTENDS Headers

\* Content-Transfer-Encoding, Content-Type, Subject, X-Label.
MCKeys == 1 .. 4

\* All messages of up to three headers, those of four different headers, and
\* longer ones with occurrences of one header apart from each other.
MCMessages ==
    UNION {[1 .. n -> MCKeys] : n \in 0 .. 3}
    \cup {m \in [1 .. 4 -> MCKeys] : ToSet(m) = MCKeys}
    \cup {<<4, 4, 4, 3>>, <<4, 3, 4, 1, 4>>, <<2, 4, 1, 4>>,
          <<4, 3, 4, 1, 2, 3>>, <<3, 1, 3, 2, 4>>}
=============================================================================
