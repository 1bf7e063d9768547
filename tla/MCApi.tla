------------------------------- MODULE MCApi -------------------------------
(***************************************************************************)
(* Instances of Api for TLC.                                               *)
(***************************************************************************)
EXTENDS Api, TLC

CONSTANTS p1, p2

Make(op, p, dir) == [op |-> op, path |-> p, dir |-> dir]

\* Every call of the client program; two files where a call disturbs another.
AllCalls ==
    {Make("WRITE_FILE", p, "usable") : p \in Path}
    \cup {Make("WRITE_FILE", p1, "unusable")}
    \cup {Make(op, p1, "usable") : op \in {"READ_FILE", "LOCK_FILE", "UNLOCK_FILE",
                                          "REMOVE_FILE", "APPEND_TO_FILE"}}
    \cup {Make("READ_N_FILES", NoPath, dir) : dir \in {"usable", "unusable"}}

\* An append, and a call after which the next append is refused.
AppendCalls == {Make(op, p1, "usable") : op \in {"APPEND_TO_FILE", "UNLOCK_FILE"}}
=============================================================================
