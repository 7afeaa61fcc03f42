----------------------------- MODULE EvaluateMC -----------------------------
(***************************************************************************)
(* Instances of Evaluate for TLC: one message in in/new with two           *)
(* attachments, and blocks of at most three rules, nested blocks and       *)
(* attachment blocks among them.                                           *)
(***************************************************************************)
EXTENDS Evaluate

MCSrcDir == [root |-> "in", sub |-> "new"]
MCDirectories == {Lit("ann")}
NoLabels == {<< >>}
OldLabels == {<< >>, <<Lit("old")>>}

\* Two patterns that match, one that does not.
Ann == Header(<<"x+ann", "ann">>)
Bob == Header(<<"x+bob", "bob">>)
Miss == Header(<< >>)

Conds == {All, Ann, Miss, Fails, Or(Neg(Ann), Bob), And(Bob, Ann),
          Or(And(Ann, Miss), Bob), And(Neg(Miss), Ann),
          And(Ann, IsDirectory(Ref(0, 1))), And(Bob, IsDirectory(Ref(0, 1)))}
Backrefs == {Rule(c, <<Move(Ref(0, 1))>>) : c \in Conds}
            \cup {Rule(c, <<Label(Ref(0, 1)), Do("pass")>>) : c \in Conds}
            \cup {Rule(And(Ann, Bob), <<Move(Ref(1, 1))>>)}

Passing == {Rule(Ann, <<a, Do("pass")>>) :
               a \in {Flag("cur"), Label(Lit("l")), Do("flags"),
                      Move(Ref(0, 1))}}
Ending == {Rule(Bob, <<a>>) : a \in {Move(Lit("out")), Flag("cur"), Exec(<<Lit("cmd")>>),
                                     Do("discard"), Do("break")}}
Simple == Passing \cup Ending
          \cup {Rule(All, <<Do("pass")>>), Rule(Miss, <<Do("reject")>>),
                Rule(All, <<Label(Lit("m")), Move(Lit("out")), Do("break")>>)}

Blocks == {Block(Ann, <<r>>) : r \in Simple}
          \cup {Block(Ann, <<r, s>>) : r \in Simple, s \in Simple}
Nested == {Block(All, <<Block(Bob, <<r>>), s>>) : r \in Simple, s \in Simple}

\* Patterns of attachments, of which there are two: one that the first matches,
\* one that the second does, one that both match, and one only the message does.
One == HeaderOf(<< << >>, <<"x+one", "one">>, << >> >>)
Two == HeaderOf(<< << >>, << >>, <<"x+two", "two">> >>)
Each == HeaderOf(<< << >>, <<"y+1st", "1st">>, <<"y+2nd", "2nd">> >>)

PartConds == {Attachment(Each), Attachment(Ann), Neg(Attachment(One)),
              Attachment(Or(And(One, Miss), Two)), Attachment(Or(Two, Fails)),
              And(Bob, Attachment(And(Neg(Two), Each))),
              And(Attachment(Two), Ann)}
PartActs == {<<Exec(<<Ref(i, 1), Ref(0, 1)>>)>> : i \in {0, 1}}
            \cup {<<AddHeader(Ref(0, 1)), Do("pass")>>, <<Move(Ref(0, 1))>>}

\* The actions after an attachment block have no back-references: theirs would
\* be those of the last rule tried in the block.
Run(i) == <<Exec(<<Lit("cmd"), Ref(i, 1)>>)>>
PartRules == {<<Rule(c, Run(0))>> : c \in {One, Two, Each, Ann, Neg(One), Fails}}
             \cup {<<Rule(One, Run(0)), Rule(Each, Run(0))>>,
                   <<Rule(And(Each, Two), Run(1)), Rule(Or(And(One, Ann), Each), Run(0))>>,
                   <<Block(Each, <<Rule(Two, Run(0))>>), Rule(One, Run(0))>>}
PartBlocks == {AttachmentBlock(c, rs, as) : c \in {All, Bob}, rs \in PartRules,
                  as \in {<< >>, <<Do("break")>>, <<Label(Lit("l")), Do("pass")>>,
                          <<AddHeader(Lit("v")), Move(Lit("out"))>>}}
PartRuled == PartBlocks \cup {Rule(c, as) : c \in PartConds, as \in PartActs}
PartConfigs == {<<r, s>> : r \in PartRuled, s \in Ending \cup Backrefs}
               \cup {<<r, s>> : r \in Passing \cup Ending, s \in PartRuled}
               \cup {<<Block(Ann, <<r>>), s>> : r \in PartBlocks, s \in Ending}

AllConfigs ==
    {<<r, s>> : r \in Simple \cup Backrefs, s \in Simple \cup Blocks}
    \cup {<<r, s>> : r \in Simple, s \in Nested}
    \cup {<<r, s>> : r \in Backrefs, s \in Backrefs}
    \cup {<<b, s>> : b \in Blocks \cup Nested, s \in Passing \cup Ending}
    \cup {<<Block(Ann, <<r>>), s>> : r \in Simple, s \in Backrefs}
    \cup {<<r, b, s>> : r \in Passing, b \in Blocks, s \in Ending}
    \cup PartConfigs

\* The blocks of these are not tangled, see Promised.
Untangled == {c \in AllConfigs : ~Promised(c, << >>, FALSE, 0).tangled}

\* A label with pass, a nested block none of whose rules match, and a rule that
\* matches.
PassConfigs ==
    {<<Rule(Ann, <<Label(Lit("l")), Do("pass")>>),
       Block(All, <<Rule(Miss, <<Move(Lit("out"))>>)>>),
       Rule(Bob, <<Exec(<<Lit("cmd")>>)>>)>>}
=============================================================================
