------------------------------ MODULE ScopeMemo ------------------------------
(***************************************************************************)
(* Which lease guards an inode: scopeOf walks to the first-level ancestor  *)
(* with a query per level and remembers the result, acquireScope takes     *)
(* that scope's lease, and the transaction checks the lease again.  A      *)
(* rename across scopes, of any node, moves a subtree to another lease.    *)
(* The lease protocol itself is in SqlOwner and NatsOwner; inodes are not  *)
(* deleted here, and no directory moves under itself (the kernel refuses). *)
(***************************************************************************)
EXTENDS Naturals, Sequences

CONSTANTS
    SpNode,    \* nodes
    SpOp,      \* operations in progress at a time ...
    SpAt,      \* ... and the node each runs on
    SpRoot,    \* RootInode
    SpIno,     \* the other inodes, all directories
    SpParents, \* their parents at the start
    MaxSpOps   \* bound on operations

VARIABLES
    up,      \* parent of each inode (node.parent)
    memo,    \* memo[n][i]: scopeCache of node n
    holder,  \* the node that holds each scope's lease
    sp,      \* the operations
    spOps,   \* operations begun
    excuse   \* history: excuse[n]: inodes whose scope changed where n could not see it

spVars == <<up, memo, holder, sp, spOps, excuse>>

NoScope == "none"
Scope == SpIno \cup {SpRoot}          \* "ino:<inode>", or "root"
SpIdle == [pc |-> "idle", what |-> SpRoot, from |-> SpRoot, to |-> SpRoot,
           for |-> SpRoot, cur |-> SpRoot,   \* inode being resolved; how far, then its scope
           keys |-> <<>>, valid |-> TRUE,    \* scopes ensured; their leases still held
           blind |-> FALSE]                  \* history: the scope of `what` may be out of date

SpTypeOK ==
    /\ up \in [SpIno -> Scope] /\ memo \in [SpNode -> [SpIno -> SpIno \cup {NoScope}]]
    /\ holder \in [Scope -> SpNode \cup {NoScope}]
    /\ excuse \in [SpNode -> SUBSET SpIno]
    /\ \A o \in SpOp : /\ sp[o].pc \in {"idle", "walk", "store", "ensure", "commit", "flush"}
                       /\ \A j \in DOMAIN sp[o].keys : sp[o].keys[j] \in Scope

SpInit ==
    /\ up = SpParents /\ memo = [n \in SpNode |-> [i \in SpIno |-> NoScope]]
    /\ holder = [k \in Scope |-> NoScope] /\ sp = [o \in SpOp |-> SpIdle] /\ spOps = 0
    /\ excuse = [n \in SpNode |-> {}]

\* Ancestors, and the scope an inode is really in.
RECURSIVE Under(_, _, _)
Under(tree, i, a) == i # SpRoot /\ (tree[i] = a \/ Under(tree, tree[i], a))
RECURSIVE InScope(_, _)
InScope(tree, i) == IF i = SpRoot \/ tree[i] = SpRoot THEN i ELSE InScope(tree, tree[i])

----------------------------------------------------------------------------
(* scopeOf: the memo, or one query per level, then the memo.                *)

\* A remembered scope skips the walk.
ScopeOf(n, op, i) ==
    IF i = SpRoot THEN [op EXCEPT !.pc = "ensure", !.for = i, !.cur = SpRoot]
    ELSE IF memo[n][i] # NoScope THEN [op EXCEPT !.pc = "ensure", !.for = i, !.cur = memo[n][i]]
    ELSE [op EXCEPT !.pc = "walk", !.for = i, !.cur = i]

Flushing(n) == \E o \in SpOp : SpAt[o] = n /\ sp[o].pc = "flush"

\* An operation on an inode (to = the inode itself), or a rename of `what`
\* from its parent to another directory.
BeginOp(o, i, to) ==
    /\ sp[o].pc = "idle" /\ spOps < MaxSpOps /\ spOps' = spOps + 1
    /\ to # i => to # up[i] /\ ~Under(up, to, i)
    /\ sp' = [sp EXCEPT ![o] = ScopeOf(SpAt[o],
                 [SpIdle EXCEPT !.what = i, !.from = up[i], !.to = to,
                                !.blind = i \in excuse[SpAt[o]] \/ Flushing(SpAt[o])],
                 IF to = i THEN i ELSE up[i])]
    /\ UNCHANGED <<up, memo, holder, excuse>>

WalkStep(o) ==
    /\ sp[o].pc = "walk"
    /\ sp' = [sp EXCEPT ![o] = IF up[@.cur] = SpRoot THEN [@ EXCEPT !.pc = "store"]
                               ELSE [@ EXCEPT !.cur = up[@]]]
    /\ UNCHANGED <<up, memo, holder, spOps, excuse>>

WalkStores(o) ==
    /\ sp[o].pc = "store"
    /\ memo' = [memo EXCEPT ![SpAt[o]][sp[o].for] = sp[o].cur]
    /\ sp' = [sp EXCEPT ![o].pc = "ensure"]
    /\ UNCHANGED <<up, holder, spOps, excuse>>

----------------------------------------------------------------------------
(* acquireScope, the fenced transaction and what follows it.                *)

Renames(op) == op.to # op.what

\* Another node holds the scope: ESTALE.
EnsureScope(o) ==
    /\ sp[o].pc = "ensure"
    /\ LET k == sp[o].cur  n == SpAt[o]  got == [sp[o] EXCEPT !.keys = Append(@, sp[o].cur)] IN
       IF holder[k] \notin {n, NoScope}
       THEN sp' = [sp EXCEPT ![o] = SpIdle] /\ UNCHANGED holder
       ELSE /\ holder' = [holder EXCEPT ![k] = n]
            /\ sp' = [sp EXCEPT ![o] = IF Renames(got) /\ Len(got.keys) = 1
                                       THEN ScopeOf(n, got, sp[o].to) ELSE [got EXCEPT !.pc = "commit"]]
    /\ UNCHANGED <<up, memo, spOps, excuse>>

\* A lease ends: released, handed off, expired and taken.  checkFence finds out.
LeaseEnds(k) ==
    /\ holder[k] # NoScope /\ holder' = [holder EXCEPT ![k] = NoScope]
    /\ sp' = [o \in SpOp |-> [sp[o] EXCEPT !.valid =
                  @ /\ ~(SpAt[o] = holder[k] /\ \E j \in DOMAIN sp[o].keys : sp[o].keys[j] = k)]]
    /\ UNCHANGED <<up, memo, spOps, excuse>>

CanMove(op) == up[op.what] = op.from /\ op.to # op.what /\ ~Under(up, op.to, op.what)

\* A write ends; checkFence fails; or the entry to rename is no longer there.
OpEnds(o) ==
    /\ sp[o].pc = "commit" /\ (sp[o].valid => ~Renames(sp[o]) \/ ~CanMove(sp[o]))
    /\ sp' = [sp EXCEPT ![o] = SpIdle]
    /\ UNCHANGED <<up, memo, holder, spOps, excuse>>

\* The inodes a rename takes to another scope.
Moved(tree) == {i \in SpIno : InScope(up, i) # InScope(tree, i)}
Resolving(n, i) == \E o \in SpOp : SpAt[o] = n /\ sp[o].pc \in {"walk", "store"} /\ sp[o].for = i

\* What a node cannot see: renames of another node, renames under a walk, and
\* its own when a scope it went by was wrong already.
Unseen(n, o, tree) == {i \in Moved(tree) :
    \/ SpAt[o] # n \/ Resolving(n, i)
    \/ sp[o].keys # <<InScope(up, sp[o].from), InScope(up, sp[o].to)>>}

RenameCommits_NoFlush(o) ==
    LET tree == [up EXCEPT ![sp[o].what] = sp[o].to] IN
    /\ sp[o].pc = "commit" /\ sp[o].valid /\ Renames(sp[o]) /\ CanMove(sp[o])
    /\ up' = tree
    /\ excuse' = [n \in SpNode |-> excuse[n] \cup Unseen(n, o, tree)]
    /\ sp' = [q \in SpOp |-> IF q = o THEN SpIdle ELSE [sp[q] EXCEPT !.blind = @ \/ sp[q].what \in Moved(tree)]]
    /\ UNCHANGED <<memo, holder, spOps>>

RenameCommits(o) ==
    LET tree == [up EXCEPT ![sp[o].what] = sp[o].to] IN
    /\ sp[o].pc = "commit" /\ sp[o].valid /\ Renames(sp[o]) /\ CanMove(sp[o])
    /\ up' = tree
    /\ excuse' = [n \in SpNode |-> excuse[n] \cup Unseen(n, o, tree)]
    /\ sp' = [q \in SpOp |-> IF q = o
                             THEN IF sp[o].keys[1] # sp[o].keys[2] THEN [sp[o] EXCEPT !.pc = "flush"] ELSE SpIdle
                             ELSE [sp[q] EXCEPT !.blind = @ \/ sp[q].what \in Moved(tree)]]
    /\ UNCHANGED <<memo, holder, spOps>>

FlushScopeCache(o) ==
    /\ sp[o].pc = "flush"
    /\ memo' = [memo EXCEPT ![SpAt[o]] = [i \in SpIno |-> NoScope]]
    /\ excuse' = [excuse EXCEPT ![SpAt[o]] = {i \in @ : Resolving(SpAt[o], i)}]
    /\ sp' = [sp EXCEPT ![o] = SpIdle]
    /\ UNCHANGED <<up, holder, spOps>>

SpNext ==
    \/ \E o \in SpOp :
        \/ \E i \in SpIno, to \in Scope : BeginOp(o, i, to)
        \/ WalkStep(o) \/ WalkStores(o) \/ EnsureScope(o) \/ OpEnds(o) \/ RenameCommits(o) \/ FlushScopeCache(o)
    \/ \E k \in Scope : LeaseEnds(k)

----------------------------------------------------------------------------
\* What a node remembers is right, up to the renames it cannot see and the
\* flush it is about to do (scopeCache, flushScopeCache).
MemoExact == \A n \in SpNode, i \in SpIno :
    memo[n][i] # NoScope /\ ~Flushing(n) /\ i \notin excuse[n] => memo[n][i] = InScope(up, i)

\* Two nodes never both get past the fence for one inode, whatever renames
\* move it between leases, unless one resolved the scope before such a rename.
PastFence(o) == sp[o].pc = "commit" /\ sp[o].valid /\ ~Renames(sp[o])
ExclusiveInode == \A o, q \in SpOp :
    SpAt[o] # SpAt[q] /\ sp[o].what = sp[q].what /\ PastFence(o) /\ PastFence(q)
        => sp[o].blind \/ sp[q].blind

\* "the cache is a pure memoization; the only mutation of the mapping is a
\* cross-scope rename, which calls flushScopeCache".  Refuted (no run checks
\* it): the flush is that of the node that renames, and a walk that read the
\* parents before a rename stores its result after the flush.
PureMemo == \A n \in SpNode, i \in SpIno :
    memo[n][i] # NoScope /\ ~Flushing(n) => memo[n][i] = InScope(up, i)

\* The scope of an inode: the memo is right, and two nodes do not work on one
\* inode at a time (scope.go and the lease the operation holds).
ScopeSound == SpTypeOK /\ MemoExact /\ ExclusiveInode

=============================================================================
