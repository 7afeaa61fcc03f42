------------------------------- MODULE Intent -------------------------------
(***************************************************************************)
(* What a match list promises for one message, seen from outside mdsort:   *)
(* its actions take effect one at a time, each entirely or not at all, in  *)
(* the order of the list, until one of them fails.                         *)
(* Delivery, whose actions are sequences of system calls, is checked to    *)
(* implement it.                                                           *)
(***************************************************************************)
EXTENDS Integers, Sequences

CONSTANTS Plans, SrcDir

VARIABLES
    plan,     \* the match list
    done,     \* number of its actions that have taken effect
    where,    \* the directory of the message, none once discarded: a set
    edited,   \* TRUE when the message has the labels and headers added
    outcome   \* "running", "success", "rejected" or "error"

vars == <<plan, done, where, edited, outcome>>

Edits == \E i \in 1 .. Len(plan) : plan[i].act = "write"
Rejects == \E i \in 1 .. done : plan[i].act = "reject"

Init ==
    /\ plan \in Plans
    /\ done = 0
    /\ where = {SrcDir}
    /\ edited = FALSE
    /\ outcome = "running"

\* The next action takes effect.  A copy to another file system already has the
\* headers of label actions to come, so a move may edit the message.
Perform ==
    /\ outcome = "running" /\ done < Len(plan)
    /\ done' = done + 1
    /\ LET next == plan[done + 1]
       IN  /\ where' = CASE next.act = "move" -> {next.dir}
                         [] next.act = "discard" -> {}
                         [] OTHER -> where
           /\ edited' \in CASE next.act = "write" -> {TRUE}
                            [] next.act = "move" -> {edited, Edits}
                            [] next.act = "discard" -> {FALSE}
                            [] OTHER -> {edited}
    /\ UNCHANGED <<plan, outcome>>

\* mdsort gives up, before an action takes effect or after.
GiveUp ==
    /\ outcome = "running"
    /\ outcome' = "error"
    /\ UNCHANGED <<plan, done, where, edited>>

Succeed ==
    /\ outcome = "running" /\ done = Len(plan)
    /\ outcome' = IF Rejects THEN "rejected" ELSE "success"
    /\ UNCHANGED <<plan, done, where, edited>>

Next == Perform \/ GiveUp \/ Succeed

\* The order of the effects, and that they come to an end.
Safety == Init /\ [][Next]_vars
Spec == Safety /\ WF_vars(Next)
=============================================================================
