------------------------------ MODULE MCFiles ------------------------------
(***************************************************************************)
(* What an application sees of mlfs: the data of files and the namespace,  *)
(* each on its own.  The first state picks the part a behaviour is about.  *)
(***************************************************************************)
EXTENDS FileData, Namespace, TLC

CONSTANTS FilePart, f1, f2, na, nb

VARIABLE part

\* A write inside a chunk of three bytes, and one over its edge.
MCWrites == {[at |-> 1, n |-> 1], [at |-> 0, n |-> 4]}
MCSizes == {2}
\* A whole chunk onto the second one, and an unaligned run.
MCCopies == {[so |-> 0, do |-> 3, n |-> 3], [so |-> 1, do |-> 0, n |-> 3]}

\* The two files, and the two names, can be swapped.
Other == (f1 :> f2) @@ (f2 :> f1) @@ (na :> nb) @@ (nb :> na)
Symmetry == {[x \in DOMAIN Other |-> IF swap THEN Other[x] ELSE x] : swap \in BOOLEAN}

Init == part \in FilePart /\ FdInit /\ NsInit

\* Not every bound is used up at once: the second crash comes with fewer operations,
\* the second handle with fewer inodes.
FdWithin == crashes' < MaxCrashes \/ ops' < MaxOps
NsWithin == Handles' < MaxRefs \/ next' < MaxIno

Next ==
    \/ part = "data" /\ FdNext /\ FdWithin /\ UNCHANGED <<part, nsVars>>
    \/ part = "names" /\ NsNext /\ NsWithin /\ UNCHANGED <<part, fdVars>>

Spec == Init /\ [][Next]_<<part, fdVars, nsVars>>
=============================================================================
