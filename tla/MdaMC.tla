------------------------------- MODULE MdaMC -------------------------------
(***************************************************************************)
(* Instances of Mda for TLC.  The lists to execute are those that merging  *)
(* leaves (MatchList) of the actions some stdin block adds.                *)
(***************************************************************************)
EXTENDS Mda

CONSTANTS a, b, c

MCIds == {a, b, c}
MCRoots == {"tmp", "in", "out"}
MCDevice == [r \in MCRoots |-> IF r = "out" THEN "nfs" ELSE "ssd"]
MCSrcDir == [root |-> "tmp", sub |-> "new"]

M == INSTANCE MatchList WITH SrcDir <- MCSrcDir

\* What merging leaves of actions in the order evaluated.
Merged(acts) == M!Plan(M!FoldLeft(M!MatchesAppend, << >>, acts))

Move(root) == [M!Match("move") EXCEPT !.md = M!Lit(root)]
Flag(sub) == [M!Match("flag") EXCEPT !.sub = sub]
Act1(type) == M!Match(type)
MoveIn == Move("in")
MoveOut == Move("out")

\* Blocks whose actions stay clear of the temporary maildir.
CleanPlans == {Merged(s) : s \in
    {<<MoveIn>>, <<MoveOut>>, <<Flag("cur"), MoveOut>>, <<MoveIn, Flag("cur")>>,
     <<MoveOut, Act1("label")>>, <<Act1("label"), MoveIn>>,
     <<MoveIn, Act1("exec"), MoveOut>>, <<Act1("discard")>>, <<Act1("reject")>>,
     <<Act1("label"), Act1("reject")>>, <<Act1("exec")>>}}

\* flags or flag before a move that is not merged, or on their own; the first is
\* the example of CHANGELOG 11.4.0.
TemporaryPlans == {Merged(s) : s \in
    {<<Act1("flags"), MoveOut>>, <<Flag("cur")>>, <<Flag("new")>>,
     <<Act1("label"), Act1("flags")>>}}

AllPlans == CleanPlans \cup TemporaryPlans

\* flags after a move.
MoveThenFlags == {Merged(<<MoveOut, Act1("flags")>>)}
=============================================================================
