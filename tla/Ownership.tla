----------------------------- MODULE Ownership -----------------------------
(***************************************************************************)
(* The ownership row of one scope and the fenced metadata writes of the    *)
(* mlfs nodes (meta/ownership.go, meta/fence.go).  How a node comes by its *)
(* lease is the business of SqlOwner and NatsOwner.                        *)
(*                                                                         *)
(* A write transaction reads the row FOR SHARE, changes the namespace and  *)
(* commits; AcquireOrResume, Refresh and ReleaseOwnership update the row,  *)
(* so they wait until no write transaction holds it.  Every node computes  *)
(* expiry with its own clock.                                              *)
(***************************************************************************)
EXTENDS Naturals

CONSTANTS
    Node,     \* node identities
    Op, At,   \* concurrent metadata operations (FUSE requests) and their nodes
    NoNode,   \* owner of a scope that has no row
    TTL,      \* lease lifetime
    Skew,     \* how far each node's clock is ahead
    MaxTime,  \* bound on the clock
    MaxGen    \* bound on the generation

ASSUME OwnershipAssumption ==
    /\ NoNode \notin Node
    /\ TTL \in Nat \ {0} /\ MaxTime \in Nat \ {0} /\ MaxGen \in Nat
    /\ Skew \in [Node -> Nat]
    /\ At \in [Op -> Node]

VARIABLES
    now,          \* true time
    owner, expires, gen,  \* the row; gen = 0: there is none
    log,          \* history: writes that committed, as <<generation, node>>
    wpc, wgen,    \* control point of each operation, the generation it fences on
    share         \* operations whose write transaction holds the row FOR SHARE

rowVars == <<owner, expires, gen>>
opVars == <<wpc, wgen>>
ownVars == <<now, rowVars, log, opVars, share>>

OwnTypeOK ==
    /\ now \in 1 .. MaxTime
    /\ owner \in Node \union {NoNode}
    /\ expires \in Nat /\ gen \in Nat
    /\ log \subseteq Nat \X Node
    /\ wpc \in [Op -> {"idle", "ensure", "ask", "acquire", "store", "cache", "fence", "commit"}]
    /\ wgen \in [Op -> Nat]
    /\ share \subseteq Op

OwnInit ==
    /\ now = 1
    /\ owner = NoNode /\ expires = 0 /\ gen = 0
    /\ log = {}
    /\ wpc = [o \in Op |-> "idle"]
    /\ wgen = [o \in Op |-> 0]
    /\ share = {}

Clock(n) == now + Skew[n]

----------------------------------------------------------------------------
(* The row.                                                                 *)

\* AcquireOrResume: no row, our own row, or an expired one.
Granted(n) == gen = 0 \/ owner = n \/ expires < Clock(n)

NextGen_Same(n) == IF gen = 0 THEN 1 ELSE gen
NextGen(n) == IF owner = n THEN gen ELSE gen + 1

AcquireOrResume(n) ==
    /\ share = {}
    /\ NextGen(n) <= MaxGen
    /\ owner' = n
    /\ gen' = NextGen(n)
    /\ expires' = Clock(n) + TTL

\* The UPDATEs of Refresh and ReleaseOwnership apply to one row or none.
StillOwns(n, g) == owner = n /\ gen = g

Refresh(n, g) ==
    /\ share = {} \/ ~StillOwns(n, g)
    /\ expires' = IF StillOwns(n, g) THEN Clock(n) + TTL ELSE expires
    /\ UNCHANGED <<owner, gen>>

ReleaseOwnership(n, g) ==
    /\ share = {} \/ ~StillOwns(n, g)
    /\ expires' = IF StillOwns(n, g) THEN 0 ELSE expires
    /\ UNCHANGED <<owner, gen>>

----------------------------------------------------------------------------
(* A metadata operation: acquireScope, then a write transaction.            *)

Begin(o) ==
    /\ wpc[o] = "idle"
    /\ wpc' = [wpc EXCEPT ![o] = "ensure"]
    /\ UNCHANGED <<now, rowVars, log, wgen, share>>

\* Ensure returned a generation to fence the write on.
Fences(o, g) ==
    /\ wpc' = [wpc EXCEPT ![o] = "fence"]
    /\ wgen' = [wgen EXCEPT ![o] = g]

\* ESTALE, or an error.
Stale(o) ==
    /\ wpc' = [wpc EXCEPT ![o] = "idle"]
    /\ wgen' = [wgen EXCEPT ![o] = 0]

\* checkFence at the top of the write transaction.
FenceHolds(o) == owner = At[o] /\ gen = wgen[o]

FenceShare_NoLock(o) == share
FenceShare(o) == share \union {o}

CheckFence(o) ==
    /\ wpc[o] = "fence"
    /\ IF FenceHolds(o)
       THEN /\ share' = FenceShare(o)
            /\ wpc' = [wpc EXCEPT ![o] = "commit"]
            /\ UNCHANGED wgen
       ELSE Stale(o) /\ UNCHANGED share
    /\ UNCHANGED <<now, rowVars, log>>

Commit(o) ==
    /\ wpc[o] = "commit"
    /\ log' = log \union {<<wgen[o], At[o]>>}
    /\ share' = share \ {o}
    /\ Stale(o)
    /\ UNCHANGED <<now, rowVars>>

\* The operation fails on its own account and the transaction rolls back.
Abort(o) ==
    /\ wpc[o] = "commit"
    /\ share' = share \ {o}
    /\ Stale(o)
    /\ UNCHANGED <<now, rowVars, log>>

WriteTx(o) == CheckFence(o) \/ Commit(o) \/ Abort(o)

Tick ==
    /\ now < MaxTime
    /\ now' = now + 1

----------------------------------------------------------------------------
\* A generation belongs to whoever owns the row now, or to nobody any more.
Holds(n, g) == g <= gen /\ (g = gen /\ gen > 0 => owner = n)

\* The fence: a transaction past its check owns the row at its generation, and
\* nobody can take the row until it ends.
FenceInv ==
    /\ \A o \in Op : Holds(At[o], wgen[o])
    /\ \A o \in Op : wpc[o] \in {"store", "cache", "fence", "commit"} => wgen[o] > 0
    /\ \A o \in Op : o \in share <=> wpc[o] = "commit"
    /\ \A o \in share : StillOwns(At[o], wgen[o])
    /\ gen = 0 <=> owner = NoNode

\* The ownership row and the writes that took effect, as a fenced scope.
Fenced == INSTANCE FencedScope WITH owner <- owner, gen <- gen, log <- log

=============================================================================
