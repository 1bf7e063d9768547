------------------------------ MODULE FileCache -----------------------------
(***************************************************************************)
(* What the server promises about the files it keeps, whatever its workers *)
(* do at the same time: a cache of bounded capacity, in which a write      *)
(* expels the files that were written longest ago, one after the other, as *)
(* long as it does not fit and no longer, and nothing comes in between.    *)
(*                                                                         *)
(* It promises less than one expects of removeFile: a file that was        *)
(* created and never written cannot be removed.                            *)
(***************************************************************************)
EXTENDS Naturals, Sequences, FiniteSets, SequencesExt

CONSTANTS Path, Capacity

VARIABLES
    size,      \* the number of bytes of each file that is kept
    order,     \* the files that were written, oldest first
    writing    \* the write in progress, a path and a number of bytes, if any

vars == <<size, order, writing>>

Init ==
    /\ size = [p \in {} |-> 0]
    /\ order = <<>>
    /\ writing = {}

Used == Cardinality(UNION {{p} \X (1 .. size[p]) : p \in DOMAIN size})
Fits(n) == Used + n <= Capacity
Without(p) == [q \in DOMAIN size \ {p} |-> size[q]]
Written(p) == \E i \in DOMAIN order : order[i] = p

-----------------------------------------------------------------------------
Create(p) ==
    /\ writing = {} /\ p \notin DOMAIN size
    /\ size' = [q \in DOMAIN size \cup {p} |-> IF q = p THEN 0 ELSE size[q]]
    /\ UNCHANGED <<order, writing>>

\* A file is written once, as a whole.
BeginWrite(p, n) ==
    /\ writing = {} /\ p \in DOMAIN size /\ ~Written(p)
    /\ writing' = {<<p, n>>}
    /\ UNCHANGED <<size, order>>

Expel ==
    /\ \E w \in writing : ~Fits(w[2])
    /\ order # <<>>
    /\ size' = Without(Head(order))
    /\ order' = Tail(order)
    /\ UNCHANGED writing

EndWrite ==
    /\ \E w \in writing :
          /\ Fits(w[2])
          /\ size' = [size EXCEPT ![w[1]] = w[2]]
          /\ order' = Append(order, w[1])
    /\ writing' = {}

Delete(p) ==
    /\ writing = {}
    /\ size' = Without(p)
    /\ \E i \in DOMAIN order : order[i] = p /\ order' = RemoveAt(order, i)
    /\ UNCHANGED writing

Next ==
    \/ \E p \in Path : Create(p) \/ Delete(p)
    \/ \E p \in Path, n \in 1 .. Capacity : BeginWrite(p, n)
    \/ Expel \/ EndWrite

Spec == Init /\ [][Next]_vars
=============================================================================
