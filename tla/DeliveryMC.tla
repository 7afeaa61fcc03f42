----------------------------- MODULE DeliveryMC -----------------------------
(***************************************************************************)
(* Instances of Delivery for TLC: two maildirs, "in" and "out", of which a *)
(* plan may move the message to any directory, on one file system or two.  *)
(***************************************************************************)
EXTENDS Delivery, TLC

CONSTANTS in, out, a, b, c

MCRoots == {in, out}
MCIds == {a, b, c}
TwoDevices == [r \in MCRoots |-> IF r = in THEN "ssd" ELSE "nfs"]
New == [root |-> in, sub |-> "new"]

To(d) == [act |-> "move", dir |-> d]
Do(verb) == [act |-> verb, dir |-> New]

MCDirs == [root : MCRoots, sub : {"new", "cur"}]
Middle == {To(d) : d \in MCDirs} \cup {Do("write"), Do("exec")}
Last == Middle \cup {Do("discard"), Do("reject")}

\* Every well-formed match list of at most two actions.
Plans2 == {<<x>> : x \in Last} \cup (Middle \X Last)

Symmetry == Permutations(MCIds)
=============================================================================
