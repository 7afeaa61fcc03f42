------------------------------ MODULE Maildir ------------------------------
(***************************************************************************)
(* What the modules about maildirs share: directories, and the flag that   *)
(* the subdirectory of a message stands for.                               *)
(***************************************************************************)
CONSTANTS
    Roots,       \* maildirs (md_root)
    Device       \* [Roots -> file system the maildir resides on]

Subdirs == {"new", "cur"}
Dirs == [root : Roots, sub : Subdirs]

\* msgflags(): S is set on the way from new to cur, cleared on the way back,
\* in the new name only; the flags of the message stay what they are.
MsgFlags(from, to, seen) ==
    CASE from.sub = "new" /\ to.sub = "cur" -> TRUE
      [] from.sub = "cur" /\ to.sub = "new" -> FALSE
      [] OTHER -> seen

=============================================================================
