----------------------------- MODULE MatchList -----------------------------
(***************************************************************************)
(* The match list of one message (src/match.c): how the matches that       *)
(* evaluation appends are merged, removed and interpolated.  Operators     *)
(* over sequences; Evaluate and the instances of Mda use them.             *)
(***************************************************************************)
EXTENDS Integers, Sequences, SequencesExt

CONSTANT SrcDir   \* directory of the message, [root, sub]

\* A string of the configuration: a literal, or a back-reference \mi.si to the
\* si-th subexpression of pattern mi (\si is \0.si).
Lit(s) == [name |-> s]
Ref(mi, si) == [mi |-> mi, si |-> si]
IsRef(t) == "mi" \in DOMAIN t
Empty == Lit("")

\* struct match.  md, sub and path are the destination of the types flagged
\* EXPR_FLAG_PATH, caps the substrings a pattern matched (the whole is caps[1]),
\* text the labels, arguments or value of label, exec and add-header, and msg
\* the message it is of: 0, or the number of an attachment.
NoPath == [root |-> Empty, sub |-> ""]
Match(type) == [type |-> type, md |-> Empty, sub |-> "", path |-> NoPath,
                caps |-> << >>, text |-> << >>, msg |-> 0]

\* expr_alloc(): the flags of an expression.
Actions == {"move", "flag", "flags", "discard", "break", "label", "pass",
            "reject", "exec", "add-header"}
PathTypes == {"move", "flag", "flags", "label", "add-header"}
Patterns == {"header"}

\* matches_find(): the first match of a type, 0 if there is none.
Find(ml, type) == SelectInSeq(ml, LAMBDA mh : mh.type = type)

\* matches_remove_by_type(), and the number of actions it returns.
RemoveByType(ml, type) == SelectSeq(ml, LAMBDA mh : mh.type # type)
CountActions(ml) == Len(SelectSeq(ml, LAMBDA mh : mh.type \in Actions))

\* Variant: a move that replaces a flag does not take over its subdir.
MergeTailWithoutSubdir(ml, mh) ==
    LET dup == Find(ml, IF mh.type = "move" THEN "flag" ELSE "move")
    IN  IF mh.type \notin {"move", "flag"} \/ dup = 0 THEN Append(ml, mh)
        ELSE Append(RemoveAt(ml, dup), mh)

\* matches_merge() and the insertion at the tail: a move or flag replaces one
\* of its own type when that is last; failing that, it takes over the subdir
\* or maildir of the first match of the other type.
MergeTail(ml, mh) ==
    LET other == IF mh.type = "move" THEN "flag" ELSE "move"
        dup == Find(ml, other)
    IN  CASE mh.type \notin {"move", "flag"} -> Append(ml, mh)
          [] ml # << >> /\ Last(ml).type = mh.type -> Append(Front(ml), mh)
          [] dup = 0 -> Append(ml, mh)
          [] mh.type = "move" ->
                Append(RemoveAt(ml, dup), [mh EXCEPT !.sub = ml[dup].sub])
          [] OTHER ->
                Append(RemoveAt(ml, dup), [mh EXCEPT !.md = ml[dup].md])

\* matches_append(): the parts of the destination that are still missing are
\* those of the message's own path.
Destined(mh) ==
    LET md == IF mh.md = Empty THEN Lit(SrcDir.root) ELSE mh.md
        sub == IF mh.sub = "" THEN SrcDir.sub ELSE mh.sub
    IN  IF mh.type \in PathTypes
          THEN [mh EXCEPT !.md = md, !.sub = sub,
                          !.path = [root |-> md, sub |-> sub]]
          ELSE mh

MatchesAppend(ml, mh) ==
    LET l == MergeTail(ml, mh) IN [l EXCEPT ![Len(l)] = Destined(@)]

\* Variant: the patterns of all rules, not only of the rule of match k.
BackrefAcrossRules(ml, k, mi, si) ==
    LET pats == SelectSeq(SubSeq(ml, 1, k - 1),
                          LAMBDA mh : mh.type \in Patterns)
    IN  IF mi >= Len(pats) THEN {}
        ELSE {pats[mi + 1].caps[i] : i \in {si + 1} \cap DOMAIN pats[mi + 1].caps}

\* match_backref(): back from match k to the sentinel of its rule, then forward
\* to pattern number mi.  The set of results: empty or a singleton.
Backref(ml, k, mi, si) ==
    LET sentinel == SelectLastInSubSeq(ml, 1, k - 1,
                        LAMBDA mh : mh.type = "match")
        rule == SubSeq(ml, sentinel + 1, k - 1)
        pats == SelectSeq(rule, LAMBDA mh : mh.type \in Patterns)
    IN  IF sentinel = 0 \/ mi >= Len(pats) THEN {}
        ELSE {pats[mi + 1].caps[i] : i \in {si + 1} \cap DOMAIN pats[mi + 1].caps}

\* interpolate(): what becomes of text t in match k; empty on an invalid
\* back-reference.
Interpolate(ml, k, t) ==
    IF IsRef(t) THEN {Lit(s) : s \in Backref(ml, k, t.mi, t.si)} ELSE {t}

\* The path of a move, and that of the stat condition, is interpolated; that of
\* flag and flags is not.
InterpolatePath(ml, k) ==
    IF ml[k].type \in {"move", "stat"}
      THEN {[ml[k].path EXCEPT !.root = t] :
               t \in Interpolate(ml, k, ml[k].path.root)}
      ELSE {ml[k].path}

\* The texts of match k, all of them interpolated.
InterpolateTexts(ml, k, texts) ==
    IF \A i \in DOMAIN texts : Interpolate(ml, k, texts[i]) # {}
      THEN {[i \in DOMAIN texts |->
                CHOOSE t \in Interpolate(ml, k, texts[i]) : TRUE]}
      ELSE {}

\* The X-Label header after label match k: the labels the message has, those
\* of the action after them, all interpolated.
InterpolateLabels(ml, k, xlabel) == InterpolateTexts(ml, k, xlabel \o ml[k].text)

\* Where matches_exec() leaves the message: the last of the path actions it
\* executes decides.
Destination(ml) ==
    LET last == SelectLastInSeq(ml, LAMBDA mh :
                    mh.type \in {"move", "flag", "flags"})
    IN  IF last = 0 THEN [root |-> Lit(SrcDir.root), sub |-> SrcDir.sub]
        ELSE ml[last].path

\* The switch of matches_exec(): what it does for each match of an interpolated
\* list, as the match lists of Delivery.
Verb(type) == CASE type \in {"move", "flag", "flags"} -> "move"
                [] type \in {"label", "add-header"} -> "write"
                [] OTHER -> type
Plan(ml) ==
    LET todo == SelectSeq(ml, LAMBDA mh : mh.type \in Actions)
        dir(mh) == IF Verb(mh.type) = "move"
                     THEN [root |-> mh.path.root.name, sub |-> mh.path.sub]
                     ELSE SrcDir
    IN  [i \in DOMAIN todo |-> [act |-> Verb(todo[i].type), dir |-> dir(todo[i])]]
=============================================================================
