---------------------------- MODULE FencedScope ----------------------------
(***************************************************************************)
(* What scope ownership promises (meta/ownership.go): the generation grows *)
(* whenever the scope changes hands, and a metadata write takes effect     *)
(* only for the owner, under the current generation.                       *)
(***************************************************************************)
EXTENDS Naturals

CONSTANTS Node, NoNode

VARIABLES
    owner,  \* ownership.owner_node, NoNode while there is no row
    gen,    \* ownership.generation, 0 while there is no row
    log     \* the writes that took effect, as <<generation, node>>

fvars == <<owner, gen, log>>

FInit == owner = NoNode /\ gen = 0 /\ log = {}

ChangeHands(n) ==
    /\ n # owner
    /\ owner' = n
    /\ gen' = gen + 1
    /\ UNCHANGED log

Write(n) ==
    /\ n = owner
    /\ log' = log \union {<<gen, n>>}
    /\ UNCHANGED <<owner, gen>>

FNext == \E n \in Node : ChangeHands(n) \/ Write(n)

FSpec == FInit /\ [][FNext]_fvars

\* A generation has one writer: writes of two owners are never interleaved.
OneWriterPerGeneration == \A a, b \in log : a[1] = b[1] => a[2] = b[2]

\* Inductive: what was written under the current generation was written by the owner.
FInv ==
    /\ gen \in Nat
    /\ log \subseteq Nat \X Node
    /\ \A a \in log : a[1] <= gen /\ (a[1] = gen => a[2] = owner)
    /\ OneWriterPerGeneration

=============================================================================
