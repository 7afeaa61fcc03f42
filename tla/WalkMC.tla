------------------------------- MODULE WalkMC -------------------------------
(***************************************************************************)
(* Instances of Walk for TLC: the maildir "in", another one on the same    *)
(* file system ("out") and one on another ("far"), the temporary maildir   *)
(* of stdin mode ("tmp", like far), and two processes.                     *)
(***************************************************************************)
EXTENDS Walk

MCRoots == {"in", "out", "far", "tmp"}
MCDevice == [r \in MCRoots |-> IF r \in {"far", "tmp"} THEN "nfs" ELSE "ssd"]
MCProcs == {"p", "q"}

In(s) == [root |-> "in", sub |-> s]
Elsewhere == [root |-> "out", sub |-> "cur"]
Tmp == [root |-> "tmp", sub |-> "new"]

Moves == {[cond |-> c, act |-> "move", root |-> r] :
             c \in {"all", "new"}, r \in {"out", "far"}}
Others == {[cond |-> c, act |-> a, root |-> "in"] :
             c \in {"all", "new", "unlabelled"}, a \in {"flag", "label", "discard"}}
Deliver == [cond |-> "all", act |-> "move", root |-> "in"]

Run(b, r, at, f, n) == [blocks |-> [p |-> b[1], q |-> b[2]],
                        rule |-> [p |-> r[1], q |-> r[2]],
                        at |-> at, faults |-> f, renames |-> n]

\* One process, two messages in new and cur, any rule; with two maildirs, the
\* second one may be where the rule moves messages to.  A system call fails,
\* and a reader is at work.
Single == {Run(<<b, << >>>>, <<r, Deliver>>, <<In(s), In(t)>>, 1, 1) :
              b \in {<<"in">>, <<"in", "out">>}, r \in Moves \cup Others,
              s \in {"new", "cur"}, t \in {"new", "cur"}}

\* Two processes on the same maildir, in which there is one message, with rules
\* that settle.
Settling == {r \in Moves \cup Others :
                r.cond = CASE r.act = "flag" -> "new"
                           [] r.act = "label" -> "unlabelled"
                           [] OTHER -> "all"}
Both == {Run(<<<<"in">>, <<"in">>>>, <<r, o>>, <<In("new"), Elsewhere>>, 0, 0) :
            r \in Settling, o \in Settling}

\* One process delivers from stdin to the maildir the other one walks.
Incoming == {Run(<<<<"in">>, <<"tmp">>>>, <<r, Deliver>>, <<Tmp, In(s)>>, 0, 1) :
                r \in Moves \cup Others, s \in {"new", "cur"}}

MCScenarios == Single \cup Both \cup Incoming
=============================================================================
