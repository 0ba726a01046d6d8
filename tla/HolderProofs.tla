---------------------------- MODULE HolderProofs ----------------------------
(***************************************************************************)
(* Proofs about what a node holds.  NATSOwner keeps the fence, for every   *)
(* number of nodes and operations, every TTL and every clock skew, and     *)
(* implements FencedScope, although its liveness keys may be late,         *)
(* overwritten or deleted by the wrong node and handoffs time out: nothing *)
(* below rests on them.  A CSI node keeps the mount that its pods hold,    *)
(* for every number of pods, launches and failures.                        *)
(***************************************************************************)
EXTENDS NatsOwner, MountManager, Integers, TLAPS

----------------------------------------------------------------------------
(* Facts that hold whichever protocol drives the row and the fence.         *)

\* What one step does to the row: nothing, or another node takes it.  A change of hands
\* starts a new generation and finds no write transaction on the row.
RowStep ==
    \/ UNCHANGED <<owner, gen>>
    \/ share = {} /\ owner' \in Node /\ owner' # owner /\ gen' = gen + 1

Fencing == {"store", "cache", "fence", "commit"}

\* What one step does to an operation: nothing; it gives its generation up, or has
\* none yet; it is handed a generation; it passes the fence.
OpStep(o) ==
    \/ /\ wpc'[o] = wpc[o] /\ wgen'[o] = wgen[o]
       /\ o \in share' <=> o \in share
    \/ /\ wpc'[o] \notin Fencing /\ wgen'[o] \in {0, wgen[o]}
       /\ o \notin share'
    \/ /\ wpc'[o] \in Fencing \ {"commit"} /\ wgen'[o] > 0
       /\ o \notin share'
       /\ wgen'[o] <= gen' /\ (wgen'[o] = gen' => owner' = At[o])
    \/ /\ wpc[o] = "fence" /\ wpc'[o] = "commit" /\ wgen'[o] = wgen[o]
       /\ StillOwns(At[o], wgen[o])
       /\ o \in share'
       /\ UNCHANGED <<owner, gen>>

\* AcquireOrResume changes hands or resumes, and returns the row's generation.
LEMMA AcquireIsRowStep ==
    ASSUME NEW n \in Node, AcquireOrResume(n), gen \in Nat, gen = 0 <=> owner = NoNode
    PROVE  RowStep /\ owner' = n /\ gen' \in Nat /\ gen' > 0
  BY OwnershipAssumption DEF AcquireOrResume, NextGen, RowStep

\* A generation a node holds stays either its own or behind the row's.
LEMMA HoldsForward ==
    ASSUME NEW n, NEW g \in Nat, Holds(n, g), gen \in Nat, RowStep
    PROVE  g <= gen' /\ (g = gen' /\ gen' > 0 => owner' = n)
  BY DEF Holds, RowStep

\* The fence is inductive over any such step.
LEMMA FenceStep ==
    ASSUME OwnTypeOK, OwnTypeOK', FenceInv,
           RowStep, \A o \in Op : OpStep(o)
    PROVE  FenceInv'
<1> USE OwnershipAssumption
<1>1. gen \in Nat /\ gen' \in Nat /\ wgen \in [Op -> Nat] /\ wgen' \in [Op -> Nat]
  BY DEF OwnTypeOK
<1>2. ASSUME NEW o \in Op PROVE Holds(At[o], wgen[o])'
  <2>1. wgen[o] <= gen' /\ (wgen[o] = gen' /\ gen' > 0 => owner' = At[o])
    BY <1>1, HoldsForward DEF FenceInv
  <2>2. OpStep(o)
    OBVIOUS
  <2> QED
    BY <1>1, <2>1, <2>2 DEF OpStep, Holds, StillOwns, FenceInv
<1>3. ASSUME NEW o \in Op, wpc'[o] \in Fencing PROVE wgen'[o] > 0
  BY <1>1, <1>3 DEF OpStep, FenceInv, Fencing
<1>4. ASSUME NEW o \in Op PROVE o \in share' <=> wpc'[o] = "commit"
  <2>1. OpStep(o) /\ (o \in share <=> wpc[o] = "commit")
    BY DEF FenceInv
  <2> QED
    BY <2>1 DEF OpStep, Fencing
<1>5. ASSUME NEW o \in share' PROVE StillOwns(At[o], wgen[o])'
  <2>1. o \in Op /\ OpStep(o)
    BY DEF OwnTypeOK
  <2>2. wgen'[o] = wgen[o]
    BY <2>1, <1>4 DEF OpStep, Fencing
  <2>3. StillOwns(At[o], wgen[o]) /\ UNCHANGED <<owner, gen>>
    BY <2>1, <1>4 DEF OpStep, Fencing, RowStep, FenceInv
  <2> QED
    BY <2>2, <2>3 DEF StillOwns
<1>6. gen' = 0 <=> owner' = NoNode
  BY <1>1 DEF RowStep, FenceInv
<1> QED
  BY <1>2, <1>3, <1>4, <1>5, <1>6 DEF FenceInv, Fencing

\* The steps of a write transaction leave the row alone and keep the fence.
LEMMA WriteTxStep ==
    ASSUME OwnTypeOK, FenceInv, NEW p \in Op, Begin(p) \/ WriteTx(p)
    PROVE  OwnTypeOK' /\ UNCHANGED <<now, owner, gen>> /\ \A o \in Op : OpStep(o)
<1> USE OwnershipAssumption DEF OpStep, Fencing, Stale, OwnTypeOK, rowVars
<1>1. CASE Begin(p)
  BY <1>1 DEF Begin, FenceInv
<1>2. CASE CheckFence(p)
  <2>1. CASE FenceHolds(p)
    BY <1>2, <2>1 DEF CheckFence, FenceShare, FenceHolds, StillOwns
  <2>2. CASE ~FenceHolds(p)
    BY <1>2, <2>2 DEF CheckFence, FenceInv
  <2> QED
    BY <2>1, <2>2
<1>3. CASE Commit(p)
  BY <1>3 DEF Commit
<1>4. CASE Abort(p)
  BY <1>4 DEF Abort
<1> QED
  BY <1>1, <1>2, <1>3, <1>4 DEF WriteTx

\* The log is written only for the owner, under the current generation.
LogStep ==
    \/ log' = log
    \/ /\ UNCHANGED <<owner, gen>>
       /\ owner \in Node
       /\ log' = log \union {<<gen, owner>>}

\* A commit under the fence is the log step of FencedScope.
LEMMA CommitIsLogStep ==
    ASSUME FenceInv, NEW o \in Op, Commit(o)
    PROVE  LogStep
<1>1. StillOwns(At[o], wgen[o]) /\ At[o] \in Node
  BY OwnershipAssumption DEF Commit, FenceInv
<1> QED
  BY <1>1 DEF Commit, StillOwns, LogStep, rowVars

----------------------------------------------------------------------------
(* What the fenced scope promises.                                          *)

\* FencedScope starts with an empty write log, so its invariant holds.
LEMMA FInitInv == Fenced!FInit => Fenced!FInv
  BY DEF Fenced!FInit, Fenced!FInv, Fenced!OneWriterPerGeneration

\* Every change of owner and every logged write of FencedScope keeps the invariant.
LEMMA FNextInv == Fenced!FInv /\ [Fenced!FNext]_(Fenced!fvars) => Fenced!FInv'
<1> SUFFICES ASSUME Fenced!FInv, [Fenced!FNext]_(Fenced!fvars) PROVE Fenced!FInv'
  OBVIOUS
<1>1. ASSUME NEW n \in Node, Fenced!ChangeHands(n) PROVE Fenced!FInv'
  BY <1>1 DEF Fenced!FInv, Fenced!ChangeHands, Fenced!OneWriterPerGeneration
<1>2. ASSUME NEW n \in Node, Fenced!Write(n) PROVE Fenced!FInv'
  <2>1. gen' \in Nat /\ log' \subseteq Nat \X Node
    BY <1>2 DEF Fenced!FInv, Fenced!Write
  <2>2. \A a \in log' : a \in log \/ (a[1] = gen /\ a[2] = n)
    BY <1>2 DEF Fenced!Write
  <2>3. \A a \in log' : a[1] <= gen /\ (a[1] = gen => a[2] = owner)
    BY <1>2, <2>2 DEF Fenced!FInv, Fenced!Write
  <2>4. Fenced!OneWriterPerGeneration'
    BY <1>2, <2>2, <2>3 DEF Fenced!FInv, Fenced!Write, Fenced!OneWriterPerGeneration
  <2> QED
    BY <1>2, <2>1, <2>3, <2>4 DEF Fenced!FInv, Fenced!Write
<1>3. CASE UNCHANGED Fenced!fvars
  BY <1>3 DEF Fenced!FInv, Fenced!fvars, Fenced!OneWriterPerGeneration
<1> QED
  BY <1>1, <1>2, <1>3 DEF Fenced!FNext

\* The promise of the fence: two nodes never write under one generation.
THEOREM OneWriter == Fenced!FSpec => []Fenced!OneWriterPerGeneration
<1>1. Fenced!FInv => Fenced!OneWriterPerGeneration
  BY DEF Fenced!FInv
<1> QED
  BY FInitInv, FNextInv, <1>1, PTL DEF Fenced!FSpec

----------------------------------------------------------------------------

\* Most steps are first-order; those about numbers or data cite SMT.
USE Zenon

IInv == TypeOK /\ CachesBehind

\* The type invariant of what is not the ownership row's.
LocalTypeOK ==
    /\ held \in [Node -> Nat] /\ lexp \in [Node -> Nat] /\ young \in [Node -> BOOLEAN]
    /\ live \in Node \union {NoNode} /\ liveExp \in Nat
    /\ rpc \in [Node -> {"idle", "check", "put", "sql", "apply"}] /\ rgen \in [Node -> Nat]
    /\ reqs \in [Node -> SUBSET (Op \union {Nobody})]
    /\ reply \in [Op -> {"none", "ok", "no"}]
    /\ hpc \in [Node -> {"idle", "flush", "release", "unlive", "drop"}]
    /\ hgen \in [Node -> Nat] /\ hreq \in [Node -> Op \union {Nobody}]
    /\ \A n \in Node : (hpc[n] = "idle" <=> hgen[n] = 0) /\ (rpc[n] = "idle" <=> rgen[n] = 0)
    /\ staged \subseteq Op /\ dirty \subseteq Node
    /\ ops \in 0 .. MaxOps /\ gone \subseteq Node /\ crashes \in 0 .. MaxCrashes

\* No row, no cached lease and no operation: the first state satisfies IInv.
LEMMA InitInv == Init => IInv
  BY SMT, OwnershipAssumption, NobodyAssumption
     DEF Init, OwnInit, IInv, TypeOK, OwnTypeOK, CachesBehind, FenceInv, Holds, StillOwns

\* The lease a node has cached, the one its refresh loop and the one its handoff
\* work on, are kept, dropped, copied from the cache, or - the cached one - that
\* of an operation that acquired it.
CacheStep(n) ==
    /\ \/ held'[n] \in {0, held[n]}
       \/ \E o \in Op : At[o] = n /\ held'[n] = wgen[o]
    /\ rgen'[n] \in {0, rgen[n], held[n]}
    /\ hgen'[n] \in {0, hgen[n], held[n]}

\* A step changes the row, the operations and the caches in these ways only.
Shape ==
    /\ OwnTypeOK' /\ LocalTypeOK'
    /\ RowStep
    /\ \A o \in Op : OpStep(o)
    /\ \A n \in Node : CacheStep(n)

\* Acquire and its CAS, local hit or takeover, have the shape the invariant survives.
LEMMA EnsureShape ==
    ASSUME IInv, NEW p \in Op, Ensure(p)
    PROVE  Shape
<1> USE OwnershipAssumption, NobodyAssumption
<1>0. /\ OwnTypeOK /\ LocalTypeOK /\ At[p] \in Node
      /\ Holds(At[p], wgen[p]) /\ Holds(At[p], held[At[p]])
      /\ p \in share <=> wpc[p] = "commit"
      /\ wpc[p] \in Fencing => wgen[p] > 0
      /\ gen = 0 <=> owner = NoNode
  BY DEF IInv, TypeOK, LocalTypeOK, CachesBehind, FenceInv, Fencing
<1>1. CASE EnsureCached(p)
  <2>1. OwnTypeOK' /\ RowStep /\ \A o \in Op : OpStep(o)
    BY SMT, <1>0, <1>1 DEF EnsureCached, Fresh, Fences, Holds, OwnTypeOK, LocalTypeOK, RowStep, OpStep, Fencing, rowVars
  <2>2. LocalTypeOK' /\ \A n \in Node : CacheStep(n)
    BY <1>0, <1>1 DEF EnsureCached, LocalTypeOK, CacheStep, cacheVars, liveVars, loopVars, handVars, dataVars, faultVars
  <2> QED
    BY <2>1, <2>2 DEF Shape
<1>2. CASE EnsureLooks(p)
  <2>1. OwnTypeOK' /\ RowStep /\ \A o \in Op : OpStep(o)
    BY <1>0, <1>2 DEF EnsureLooks, OwnTypeOK, RowStep, OpStep, Fencing, rowVars
  <2>2. reqs' \in [Node -> SUBSET (Op \union {Nobody})]
    BY SMT, <1>0, <1>2 DEF EnsureLooks, LocalTypeOK
  <2>3. LocalTypeOK' /\ \A n \in Node : CacheStep(n)
    BY <1>0, <1>2, <2>2 DEF EnsureLooks, LocalTypeOK, CacheStep, cacheVars, liveVars, loopVars, dataVars, faultVars
  <2> QED
    BY <2>1, <2>3 DEF Shape
<1>3. CASE AskReturns(p)
  <2>1. OwnTypeOK' /\ RowStep /\ \A o \in Op : OpStep(o)
    BY SMT, <1>0, <1>3 DEF AskReturns, Stale, OwnTypeOK, RowStep, OpStep, Fencing, rowVars
  <2>2. reqs' \in [Node -> SUBSET (Op \union {Nobody})] /\ hreq' \in [Node -> Op \union {Nobody}]
    BY SMT, <1>0, <1>3 DEF AskReturns, Forget, LocalTypeOK
  <2>3. reply' \in [Op -> {"none", "ok", "no"}] /\ staged' \subseteq Op
    BY <1>0, <1>3 DEF AskReturns, LocalTypeOK
  <2>4. LocalTypeOK' /\ \A n \in Node : CacheStep(n)
    BY <1>0, <1>3, <2>2, <2>3 DEF AskReturns, LocalTypeOK, CacheStep, cacheVars, liveVars, loopVars, faultVars
  <2> QED
    BY <2>1, <2>4 DEF Shape
<1>4. CASE EnsureAcquires(p)
  <2>1. RowStep /\ owner' = At[p] /\ gen' \in Nat /\ gen' > 0
    BY <1>0, <1>4, AcquireIsRowStep DEF EnsureAcquires, OwnTypeOK
  <2>2. expires' \in Nat
    BY SMT, <1>0, <1>4 DEF EnsureAcquires, AcquireOrResume, Clock, OwnTypeOK
  <2>3. OwnTypeOK' /\ \A o \in Op : OpStep(o)
    BY SMT, <1>0, <1>4, <2>1, <2>2 DEF EnsureAcquires, OwnTypeOK, OpStep, Fencing
  <2>4. LocalTypeOK' /\ \A n \in Node : CacheStep(n)
    BY <1>0, <1>4 DEF EnsureAcquires, LocalTypeOK, CacheStep, cacheVars, liveVars, loopVars, dataVars, faultVars
  <2> QED
    BY <2>1, <2>3, <2>4 DEF Shape
<1>5. CASE EnsureRefused(p)
  <2>1. OwnTypeOK' /\ RowStep /\ \A o \in Op : OpStep(o)
    BY <1>0, <1>5 DEF EnsureRefused, Stale, OwnTypeOK, RowStep, OpStep, Fencing, rowVars
  <2>2. LocalTypeOK' /\ \A n \in Node : CacheStep(n)
    BY <1>0, <1>5 DEF EnsureRefused, LocalTypeOK, CacheStep, cacheVars, liveVars, loopVars, faultVars
  <2> QED
    BY <2>1, <2>2 DEF Shape
<1>6. CASE EnsurePutsLive(p)
  <2>1. OwnTypeOK' /\ RowStep /\ \A o \in Op : OpStep(o)
    BY <1>0, <1>6 DEF EnsurePutsLive, Holds, OwnTypeOK, RowStep, OpStep, Fencing, rowVars
  <2>2. LocalTypeOK' /\ \A n \in Node : CacheStep(n)
    BY SMT, <1>0, <1>6 DEF EnsurePutsLive, PutLive, LocalTypeOK, OwnTypeOK, CacheStep, cacheVars, loopVars, handVars, dataVars, faultVars
  <2> QED
    BY <2>1, <2>2 DEF Shape
<1>7. CASE EnsureCaches(p)
  <2>1. OwnTypeOK' /\ RowStep /\ \A o \in Op : OpStep(o)
    BY <1>0, <1>7 DEF EnsureCaches, Holds, OwnTypeOK, RowStep, OpStep, Fencing, rowVars
  <2>2. Clock(At[p]) + TTL \in Nat
    BY SMT, <1>0 DEF Clock, OwnTypeOK
  <2>3. /\ held' \in [Node -> Nat] /\ lexp' \in [Node -> Nat] /\ young' \in [Node -> BOOLEAN]
        /\ \A n \in Node : held'[n] = held[n] \/ (At[p] = n /\ held'[n] = wgen[p])
    BY <1>0, <1>7, <2>2 DEF EnsureCaches, LocalTypeOK, OwnTypeOK
  <2>4. LocalTypeOK' /\ \A n \in Node : CacheStep(n)
    BY <1>0, <1>7, <2>3 DEF EnsureCaches, LocalTypeOK, CacheStep, liveVars, loopVars, handVars, dataVars, faultVars
  <2> QED
    BY <2>1, <2>4 DEF Shape
<1> QED
  BY <1>1, <1>2, <1>3, <1>4, <1>5, <1>6, <1>7 DEF Ensure

\* Opening, fencing and committing a metadata transaction has that shape.
LEMMA WriteShape ==
    ASSUME IInv, NEW p \in Op, OpBegins(p) \/ OpWrites(p)
    PROVE  Shape
<1> USE OwnershipAssumption
<1>0. OwnTypeOK /\ LocalTypeOK /\ FenceInv
  BY DEF IInv, TypeOK, LocalTypeOK, CachesBehind
<1>1. Begin(p) \/ WriteTx(p)
  BY DEF OpBegins, OpWrites, WriteTx
<1>2. OwnTypeOK' /\ UNCHANGED <<now, owner, gen>> /\ \A o \in Op : OpStep(o)
  BY <1>0, <1>1, WriteTxStep
<1>3. LocalTypeOK'
  <2>1. CASE OpBegins(p)
    BY SMT, <1>0, <2>1, NobodyAssumption DEF OpBegins, LocalTypeOK, cacheVars, liveVars, loopVars, handVars
  <2>2. CASE OpWrites(p)
    <3>1. staged' \subseteq Op /\ dirty' \subseteq Node
      BY <1>0, <2>2 DEF OpWrites, LocalTypeOK
    <3> QED
      BY <1>0, <2>2, <3>1 DEF OpWrites, LocalTypeOK, cacheVars, liveVars, loopVars, handVars, faultVars
  <2> QED
    BY <2>1, <2>2
<1>4. UNCHANGED <<cacheVars, loopVars, handVars>>
  BY DEF OpBegins, OpWrites
<1>5. \A n \in Node : CacheStep(n)
  BY <1>4 DEF CacheStep, cacheVars, loopVars, handVars
<1> QED
  BY <1>2, <1>3, <1>5 DEF Shape, RowStep

\* A step that leaves the row, the operations and the log alone.
LEMMA StillShape ==
    ASSUME IInv, UNCHANGED <<now, owner, expires, gen, log, opVars, share>>, LocalTypeOK',
           \A n \in Node : CacheStep(n)
    PROVE  Shape
  BY DEF IInv, TypeOK, OwnTypeOK, Shape, RowStep, OpStep, opVars

\* The refresh loop (renew, lose or drop a lease) has that shape.
LEMMA RefreshShape ==
    ASSUME IInv, NEW n \in Node, RefreshLoop(n)
    PROVE  Shape
<1> USE OwnershipAssumption
<1>0. OwnTypeOK /\ LocalTypeOK
  BY DEF IInv, TypeOK, LocalTypeOK
<1>1. CASE RefreshStarts(n)
  <2>1. LocalTypeOK' /\ \A m \in Node : CacheStep(m)
    BY <1>0, <1>1 DEF RefreshStarts, LocalTypeOK, CacheStep, cacheVars, liveVars, handVars, dataVars, faultVars
  <2> QED
    BY <1>1, <2>1, StillShape DEF RefreshStarts, ownVars, rowVars
<1>2. CASE RefreshChecks(n)
  <2>1. LocalTypeOK' /\ \A m \in Node : CacheStep(m)
    BY SMT, <1>0, <1>2 DEF RefreshChecks, RefreshReturns, DropHeld, LocalTypeOK, CacheStep, liveVars, handVars,
       dataVars, faultVars
  <2> QED
    BY <1>2, <2>1, StillShape DEF RefreshChecks, ownVars, rowVars
<1>3. CASE RefreshPuts(n)
  <2>1. LocalTypeOK' /\ \A m \in Node : CacheStep(m)
    BY SMT, <1>0, <1>3 DEF RefreshPuts, PutLive, LocalTypeOK, OwnTypeOK, CacheStep, cacheVars, handVars, dataVars, faultVars
  <2> QED
    BY <1>3, <2>1, StillShape DEF RefreshPuts, ownVars, rowVars
<1>4. CASE RefreshRow(n)
  <2>1. LocalTypeOK' /\ \A m \in Node : CacheStep(m)
    BY SMT, <1>0, <1>4 DEF RefreshRow, RefreshReturns, DropHeld, LocalTypeOK, CacheStep, liveVars, handVars,
       dataVars, faultVars
  <2>2. expires' \in Nat /\ UNCHANGED <<now, owner, gen, log, opVars, share>>
    BY SMT, <1>0, <1>4 DEF RefreshRow, Refresh, Clock, OwnTypeOK
  <2> QED
    BY <1>0, <2>1, <2>2 DEF Shape, OwnTypeOK, RowStep, OpStep, opVars
<1>5. CASE RefreshApplies(n)
  <2>1. lexp' \in [Node -> Nat]
    BY SMT, <1>0, <1>5 DEF RefreshApplies, Clock, LocalTypeOK, OwnTypeOK
  <2>2. LocalTypeOK' /\ \A m \in Node : CacheStep(m)
    BY <1>0, <1>5, <2>1 DEF RefreshApplies, RefreshReturns, LocalTypeOK, CacheStep, liveVars, handVars, dataVars, faultVars
  <2> QED
    BY <1>5, <2>2, StillShape DEF RefreshApplies, ownVars, rowVars
<1> QED
  BY <1>1, <1>2, <1>3, <1>4, <1>5 DEF RefreshLoop

\* Answering a handoff request (drain, then release the row) has that shape.
LEMMA ResponderShape ==
    ASSUME IInv, NEW n \in Node, Responder(n) \/ FlushFails(n) \/ Drain(n)
    PROVE  Shape
<1> USE OwnershipAssumption, NobodyAssumption
<1>0. OwnTypeOK /\ LocalTypeOK
  BY DEF IInv, TypeOK, LocalTypeOK
<1>1. ASSUME NEW r \in Op \union {Nobody}, HandoffTaken(n, r) PROVE Shape
  <2>1. reply' \in [Op -> {"none", "ok", "no"}] /\ reqs' \in [Node -> SUBSET (Op \union {Nobody})]
    BY <1>0, <1>1 DEF HandoffTaken, Responds, LocalTypeOK
  <2>2. LocalTypeOK' /\ \A m \in Node : CacheStep(m)
    <3>1. /\ hpc' \in [Node -> {"idle", "flush", "release", "unlive", "drop"}]
          /\ hgen' \in [Node -> Nat] /\ hreq' \in [Node -> Op \union {Nobody}]
      BY SMT, <1>0, <1>1 DEF HandoffTaken, LocalTypeOK
    <3>2. \A m \in Node : (hpc'[m] = "idle" <=> hgen'[m] = 0) /\ hgen'[m] \in {0, hgen[m], held[m]}
      BY SMT, <1>0, <1>1 DEF HandoffTaken, LocalTypeOK
    <3> QED
      BY <1>0, <1>1, <2>1, <3>1, <3>2 DEF HandoffTaken, LocalTypeOK, CacheStep, cacheVars, liveVars, loopVars,
         dataVars, faultVars
  <2> QED
    BY <1>1, <2>2, StillShape DEF HandoffTaken, ownVars, rowVars
<1>2. CASE Flush(n)
  <2>1. LocalTypeOK' /\ \A m \in Node : CacheStep(m)
    BY <1>0, <1>2 DEF Flush, Uploaded, LocalTypeOK, CacheStep, cacheVars, liveVars, loopVars, faultVars
  <2> QED
    BY <1>2, <2>1, StillShape DEF Flush, ownVars, rowVars
<1>3. CASE FlushFails(n)
  <2>1. reply' \in [Op -> {"none", "ok", "no"}] /\ crashes' \in 0 .. MaxCrashes
    BY SMT, <1>0, <1>3 DEF FlushFails, Responds, LocalTypeOK
  <2>2. LocalTypeOK' /\ \A m \in Node : CacheStep(m)
    BY <1>0, <1>3, <2>1 DEF FlushFails, HandoffIdle, LocalTypeOK, CacheStep, cacheVars, liveVars, loopVars, dataVars
  <2> QED
    BY <1>3, <2>2, StillShape DEF FlushFails, ownVars, rowVars
<1>4. CASE Drain(n)
  <2>1. LocalTypeOK' /\ \A m \in Node : CacheStep(m)
    BY <1>0, <1>4 DEF Drain, Uploaded, LocalTypeOK, CacheStep, cacheVars, liveVars, loopVars, handVars, faultVars
  <2> QED
    BY <1>4, <2>1, StillShape DEF Drain, ownVars, rowVars
<1>5. CASE HandoffReleases(n)
  <2>1. LocalTypeOK' /\ \A m \in Node : CacheStep(m)
    BY <1>0, <1>5 DEF HandoffReleases, LocalTypeOK, CacheStep, cacheVars, liveVars, loopVars, dataVars, faultVars
  <2>2. expires' \in Nat /\ UNCHANGED <<now, owner, gen, log, opVars, share>>
    BY <1>0, <1>5 DEF HandoffReleases, ReleaseOwnership, OwnTypeOK
  <2> QED
    BY <1>0, <2>1, <2>2 DEF Shape, OwnTypeOK, RowStep, OpStep, opVars
<1>6. CASE HandoffUnlives(n)
  <2>1. LocalTypeOK' /\ \A m \in Node : CacheStep(m)
    BY <1>0, <1>6 DEF HandoffUnlives, LocalTypeOK, CacheStep, cacheVars, loopVars, dataVars, faultVars
  <2> QED
    BY <1>6, <2>1, StillShape DEF HandoffUnlives, ownVars, rowVars
<1>7. CASE HandoffAnswers(n)
  <2>1. reply' \in [Op -> {"none", "ok", "no"}]
    BY <1>0, <1>7 DEF HandoffAnswers, Responds, LocalTypeOK
  <2>2. LocalTypeOK' /\ \A m \in Node : CacheStep(m)
    BY <1>0, <1>7, <2>1 DEF HandoffAnswers, HandoffIdle, DropHeld, LocalTypeOK, CacheStep, liveVars, loopVars,
       dataVars, faultVars
  <2> QED
    BY <1>7, <2>2, StillShape DEF HandoffAnswers, ownVars, rowVars
<1> QED
  BY <1>1, <1>2, <1>3, <1>4, <1>5, <1>6, <1>7 DEF Responder

\* Close, Release and a crash have that shape.
LEMMA HaltShape ==
    ASSUME IInv, NEW n \in Node, Shutdown(n) \/ Crash(n)
    PROVE  Shape
<1> USE OwnershipAssumption, NobodyAssumption
<1>0. OwnTypeOK /\ LocalTypeOK /\ \A o \in Op : (o \in share <=> wpc[o] = "commit")
  BY DEF IInv, TypeOK, LocalTypeOK, CachesBehind, FenceInv
<1>1. Halts(n)
  BY DEF Shutdown, Crash
<1>2. OwnTypeOK' /\ RowStep /\ \A o \in Op : OpStep(o)
  BY <1>0, <1>1 DEF Halts, OwnTypeOK, RowStep, OpStep, Fencing, rowVars
<1>3. \A m \in Node : CacheStep(m)
  BY <1>0, <1>1 DEF Halts, HandoffIdle, LocalTypeOK, CacheStep
<1>4. /\ held' \in [Node -> Nat] /\ lexp' \in [Node -> Nat] /\ young' \in [Node -> BOOLEAN]
      /\ rpc' \in [Node -> {"idle", "check", "put", "sql", "apply"}] /\ rgen' \in [Node -> Nat]
      /\ hpc' \in [Node -> {"idle", "flush", "release", "unlive", "drop"}]
      /\ hgen' \in [Node -> Nat] /\ hreq' \in [Node -> Op \union {Nobody}]
      /\ \A m \in Node : (hpc'[m] = "idle" <=> hgen'[m] = 0) /\ (rpc'[m] = "idle" <=> rgen'[m] = 0)
      /\ crashes' \in 0 .. MaxCrashes
  <2>1. held' \in [Node -> Nat] /\ lexp' \in [Node -> Nat] /\ young' \in [Node -> BOOLEAN]
    BY SMT, <1>0, <1>1 DEF Halts, LocalTypeOK
  <2>2. /\ rpc' \in [Node -> {"idle", "check", "put", "sql", "apply"}] /\ rgen' \in [Node -> Nat]
        /\ \A m \in Node : (rpc'[m] = "idle" <=> rgen'[m] = 0)
    BY SMT, <1>0, <1>1 DEF Halts, LocalTypeOK
  <2>3. /\ hpc' \in [Node -> {"idle", "flush", "release", "unlive", "drop"}]
        /\ hgen' \in [Node -> Nat] /\ hreq' \in [Node -> Op \union {Nobody}]
        /\ \A m \in Node : (hpc'[m] = "idle" <=> hgen'[m] = 0)
    BY SMT, <1>0, <1>1 DEF Halts, HandoffIdle, LocalTypeOK
  <2>4. crashes' \in 0 .. MaxCrashes
    BY SMT, <1>0, <1>1 DEF Halts, LocalTypeOK
  <2> QED
    BY <2>1, <2>2, <2>3, <2>4
<1>5. reqs' \in [Node -> SUBSET (Op \union {Nobody})] /\ reply' \in [Op -> {"none", "ok", "no"}]
  BY SMT, <1>0, <1>1 DEF Halts, LocalTypeOK
<1>6. /\ live' \in Node \union {NoNode} /\ liveExp' \in Nat
      /\ staged' \subseteq Op /\ dirty' \subseteq Node
      /\ ops' \in 0 .. MaxOps /\ gone' \subseteq Node
  BY SMT, <1>0 DEF Shutdown, Crash, LocalTypeOK, liveVars, dataVars
<1> QED
  BY <1>2, <1>3, <1>4, <1>5, <1>6 DEF Shape, LocalTypeOK

\* The passing of time, with expiring liveness keys, has that shape.
LEMMA TimeShape ==
    ASSUME IInv, TimePasses
    PROVE  Shape
<1> USE OwnershipAssumption
<1>0. OwnTypeOK /\ LocalTypeOK
  BY DEF IInv, TypeOK, LocalTypeOK
<1>1. LocalTypeOK' /\ \A m \in Node : CacheStep(m)
  BY <1>0 DEF TimePasses, LocalTypeOK, CacheStep, liveVars, loopVars, handVars, dataVars, faultVars
<1>2. OwnTypeOK'
  BY SMT, <1>0 DEF TimePasses, Tick, OwnTypeOK, rowVars, opVars
<1>3. RowStep /\ \A o \in Op : OpStep(o)
  BY DEF TimePasses, RowStep, OpStep, rowVars, opVars
<1> QED
  BY <1>1, <1>2, <1>3 DEF Shape

\* Every step of NATSOwner, stutters included, has that shape.
LEMMA StepShape == IInv /\ [Next]_vars => Shape
<1> SUFFICES ASSUME IInv, [Next]_vars PROVE Shape
  OBVIOUS
<1>1. CASE UNCHANGED vars
  <2>1. LocalTypeOK' /\ \A m \in Node : CacheStep(m)
    BY <1>1 DEF IInv, TypeOK, LocalTypeOK, CacheStep, vars, cacheVars, liveVars, loopVars, handVars, dataVars, faultVars
  <2> QED
    BY <1>1, <2>1, StillShape DEF vars, ownVars, rowVars
<1> QED
  BY <1>1, EnsureShape, WriteShape, RefreshShape, ResponderShape, HaltShape, TimeShape DEF Next

\* The caches stay behind the row over any step of that shape.
LEMMA ShapeInv == IInv /\ Shape => IInv'
<1> SUFFICES ASSUME IInv, Shape PROVE IInv'
  OBVIOUS
<1> USE OwnershipAssumption
<1>1. FenceInv'
  BY FenceStep DEF IInv, CachesBehind, Shape, TypeOK
<1>2. /\ gen \in Nat /\ gen' \in Nat /\ wgen \in [Op -> Nat] /\ held \in [Node -> Nat]
      /\ rgen \in [Node -> Nat] /\ hgen \in [Node -> Nat]
      /\ RowStep
  BY DEF IInv, TypeOK, OwnTypeOK, Shape
<1>3. ASSUME NEW n \in Node PROVE Holds(n, held[n])' /\ Holds(n, rgen[n])' /\ Holds(n, hgen[n])'
  <2>1. CacheStep(n)
    BY DEF Shape
  <2>2. /\ held[n] <= gen' /\ (held[n] = gen' /\ gen' > 0 => owner' = n)
        /\ rgen[n] <= gen' /\ (rgen[n] = gen' /\ gen' > 0 => owner' = n)
        /\ hgen[n] <= gen' /\ (hgen[n] = gen' /\ gen' > 0 => owner' = n)
    BY <1>2, HoldsForward DEF IInv, CachesBehind
  <2>3. ASSUME NEW o \in Op, At[o] = n
        PROVE wgen[o] <= gen' /\ (wgen[o] = gen' /\ gen' > 0 => owner' = n)
    BY <1>2, <2>3, HoldsForward DEF IInv, CachesBehind, FenceInv
  <2>4. Holds(n, held[n])'
    <3>1. CASE held'[n] \in {0, held[n]}
      BY SMT, <1>2, <2>2, <3>1 DEF Holds
    <3>2. ASSUME NEW o \in Op, At[o] = n, held'[n] = wgen[o] PROVE Holds(n, held[n])'
      BY <2>3, <3>2 DEF Holds
    <3> QED
      BY <2>1, <3>1, <3>2 DEF CacheStep
  <2>5. Holds(n, rgen[n])' /\ Holds(n, hgen[n])'
    BY SMT, <1>2, <2>1, <2>2 DEF CacheStep, Holds
  <2> QED
    BY <2>4, <2>5
<1> QED
  BY <1>1, <1>3 DEF IInv, TypeOK, CachesBehind, Shape, LocalTypeOK

\* For every number of nodes, operations and ticks the inductive invariant IInv
\* holds: what NATSOwner caches or carries never runs ahead of the CAS row.
THEOREM Invariance == Spec => []IInv
<1>1. IInv /\ [Next]_vars => IInv'
  BY StepShape, ShapeInv
<1> QED
  BY InitInv, <1>1, PTL DEF Spec

\* NatsOwner's TypeOK holds in every reachable state.
THEOREM TypeCorrect == Spec => []TypeOK
<1>1. IInv => TypeOK
  BY DEF IInv
<1> QED
  BY Invariance, <1>1, PTL

\* No lease, refresh or handoff in progress of NATSOwner holds a generation that
\* another node owns (Ensure, Run, handoff responder, releaseAll).
THEOREM CachesStayBehind == Spec => []CachesBehind
<1>1. IInv => CachesBehind
  BY DEF IInv
<1> QED
  BY Invariance, <1>1, PTL

----------------------------------------------------------------------------
(* The refinement.                                                          *)

\* The write log grows only at a commit, by the operation that passed the fence.
LEMMA LogShape == IInv /\ [Next]_vars => LogStep
<1> SUFFICES ASSUME IInv, [Next]_vars PROVE LogStep
  OBVIOUS
<1>1. ASSUME NEW o \in Op, Commit(o) PROVE LogStep
  BY <1>1, CommitIsLogStep DEF IInv, CachesBehind
<1>2. ASSUME NEW o \in Op, OpBegins(o) \/ Ensure(o) \/ OpWrites(o), ~Commit(o) PROVE log' = log
  BY <1>2 DEF OpBegins, Begin, OpWrites, CheckFence, Abort, Ensure, EnsureCached, EnsureLooks, AskReturns,
     EnsureAcquires, EnsureRefused, EnsurePutsLive, EnsureCaches
<1>3. ASSUME NEW n \in Node, RefreshLoop(n) \/ Shutdown(n) \/ Crash(n) PROVE log' = log
  BY <1>3 DEF RefreshLoop, RefreshStarts, RefreshChecks, RefreshPuts, RefreshRow, RefreshApplies, Shutdown,
     Crash, Halts, ownVars
<1>4. ASSUME NEW n \in Node, Responder(n) \/ FlushFails(n) \/ Drain(n) PROVE log' = log
  BY <1>4 DEF Responder, HandoffTaken, Flush, FlushFails, Drain, HandoffReleases, HandoffUnlives,
     HandoffAnswers, ownVars
<1>5. CASE TimePasses \/ UNCHANGED vars
  BY <1>5 DEF TimePasses, vars, ownVars, LogStep
<1> QED
  BY <1>1, <1>2, <1>3, <1>4, <1>5 DEF Next, LogStep

\* NATSOwner starts in an initial state of FencedScope.
LEMMA InitFenced == Init => Fenced!FInit
  BY DEF Init, OwnInit, Fenced!FInit

\* A step of NATSOwner is a step of FencedScope or changes nothing it sees.
LEMMA StepFenced == IInv /\ [Next]_vars => [Fenced!FNext]_(Fenced!fvars)
<1> SUFFICES ASSUME IInv, [Next]_vars PROVE [Fenced!FNext]_(Fenced!fvars)
  OBVIOUS
<1>1. RowStep /\ LogStep
  BY StepShape, LogShape DEF Shape
<1>2. CASE UNCHANGED <<owner, gen>>
  BY <1>1, <1>2 DEF LogStep, Fenced!FNext, Fenced!Write, Fenced!fvars
<1>3. CASE ~UNCHANGED <<owner, gen>>
  <2>1. owner' \in Node /\ owner' # owner /\ gen' = gen + 1 /\ log' = log
    BY <1>1, <1>3 DEF RowStep, LogStep
  <2> QED
    BY <2>1 DEF Fenced!FNext, Fenced!ChangeHands
<1> QED
  BY <1>2, <1>3

\* NATSOwner implements the fenced scope: "keeps this exact fence contract".
THEOREM Refinement == Spec => FencedSpec
  BY Invariance, InitFenced, StepFenced, PTL DEF Spec, FencedSpec, Fenced!FSpec

\* Two nodes never commit writes under one generation, whatever the liveness keys,
\* the handoffs and their timeouts do.
THEOREM OneWriterThm == Spec => []Fenced!OneWriterPerGeneration
  BY Refinement, OneWriter, PTL DEF FencedSpec

----------------------------------------------------------------------------
(* The mounts of a domain.  While a pod is bound to the domain's daemon its *)
(* hold is on record, in memory and in state.json; a daemon that serves     *)
(* nobody's record was launched or stopped half way.                        *)

Holders == [on : BOOLEAN, refs : SUBSET Target]
Daemon == [no : Nat, live : BOOLEAN]

\* The daemon of the record can still be stopped by it.
Whole == mount.no \notin died \cup strays

Recording ==
    /\ entry \in Holders /\ saved \in Holders /\ mount \in Daemon
    /\ ~plugin => entry = NoEntry
    /\ entry.on => saved.on
    /\ mount.live => mount.no # 0
    /\ ~mount.live /\ mount.no # 0 => mount.no \in died

HoldsRecorded == \A t \in Target \ forgotten :
    /\ pod[t] = "acquired" => t \in entry.refs /\ t \in saved.refs
    /\ pod[t] = "bound" /\ bind[t] = mount.no /\ Whole
         => t \in saved.refs /\ (plugin => t \in entry.refs)

MmInv ==
    /\ MountSound /\ Recording /\ HoldsRecorded
    /\ \A t \in Target : pod[t] = "bound" <=> bind[t] # 0

\* The records a step writes.
LEMMA HoldersTyped ==
    /\ NoEntry \in Holders /\ NoEntry.refs = {} /\ NoEntry.on = FALSE
    /\ \A S \in SUBSET Target : Held(S) \in Holders /\ Held(S).refs = S /\ Held(S).on = TRUE
    /\ NoDaemon \in Daemon /\ NoDaemon.no = 0 /\ NoDaemon.live = FALSE
  BY SMT DEF NoEntry, Held, NoDaemon, Holders, Daemon

\* A launched daemon has a number no target is bound to.
LEMMA FreshDaemon ==
    ASSUME MmInv, LaunchDaemon
    PROVE  /\ Fresh1 \in Daemon /\ Fresh1.no = launched + 1 /\ Fresh1.live = TRUE /\ Fresh1.no # 0
           /\ launched' = launched + 1 /\ launched' \in 0 .. MaxDaemon /\ Fresh1.no \in 1 .. launched'
           /\ 0 .. launched \subseteq 0 .. launched' /\ 1 .. launched \subseteq 1 .. launched'
           /\ \A t \in Target : bind[t] # Fresh1.no
<1>1. launched \in Nat /\ MaxDaemon \in Nat /\ launched < MaxDaemon /\ launched' = launched + 1
  BY SMT, MountAssumption DEF LaunchDaemon, MmInv, MountSound, MmTypeOK
<1>2. Fresh1 \in Daemon /\ Fresh1.no = launched + 1 /\ Fresh1.live = TRUE
  BY SMT, <1>1 DEF Fresh1, Daemon
<1>3. \A t \in Target : bind[t] \in 0 .. launched \/ bind[t] = MaxDaemon + 1
  BY DEF MmInv, MountSound, MmTypeOK, Bare
<1>4. \A t \in Target : bind[t] # launched + 1
  BY SMT, <1>1, <1>3
<1>5. /\ launched + 1 # 0 /\ launched' \in 0 .. MaxDaemon /\ launched + 1 \in 1 .. launched'
      /\ 0 .. launched \subseteq 0 .. launched' /\ 1 .. launched \subseteq 1 .. launched'
  BY SMT, <1>1
<1> QED
  BY <1>1, <1>2, <1>4, <1>5

\* Before anything is published there is no record and no daemon.
LEMMA MmInitInv == MmInit => MmInv
<1> SUFFICES ASSUME MmInit
             PROVE  MmInv
  OBVIOUS
<1>1. 0 \in 0 .. 0 /\ 0 \in 0 .. MaxDaemon /\ 0 \in 0 .. MaxFault
  BY SMT, MountAssumption
<1>2. MmTypeOK
  BY <1>1, HoldersTyped DEF MmInit, MmTypeOK
<1>3. ServesBound /\ Accounted /\ HoldsRecorded
  BY HoldersTyped DEF MmInit, ServesBound, Accounted, HoldsRecorded
<1>4. Recording
  BY HoldersTyped DEF MmInit, Recording
<1> QED
  BY <1>2, <1>3, <1>4 DEF MmInit, MmInv, MountSound

\* A fault is counted.
LEMMA FaultTyped ==
    ASSUME MmInv, Fault \/ UNCHANGED faults
    PROVE  faults' \in 0 .. MaxFault
  BY SMT, MountAssumption DEF Fault, MmInv, MountSound, MmTypeOK

\* What state.json holds after a step that tried to replace it by e.
LEMMA SavedEither ==
    ASSUME MmInv, NEW e, Persisted(e) \/ NotPersisted
    PROVE  (saved' = e \/ saved' = saved) /\ faults' \in 0 .. MaxFault
  BY FaultTyped DEF Persisted, NotPersisted

\* The facts of the invariant that steps use.
LEMMA MmFacts ==
    ASSUME MmInv
    PROVE  /\ entry \in Holders /\ saved \in Holders /\ entry.refs \subseteq Target /\ saved.refs \subseteq Target
           /\ entry.on \in BOOLEAN /\ (entry.refs # {} => entry.on) /\ (saved.refs # {} => saved.on)
           /\ mount \in Daemon /\ mount.live \in BOOLEAN /\ mount.no \in 0 .. launched /\ mount.no \in Nat
           /\ pod \in [Target -> {"absent", "acquired", "retry", "bound", "unbound"}]
           /\ bind \in [Target -> (0 .. launched) \cup {Bare}]
  BY DEF MmInv, MountSound, MmTypeOK, Recording, Holders, Daemon

\* A step that leaves the daemon, the binds and the launches alone.
LEMMA RecordStep ==
    ASSUME MmInv, UNCHANGED <<mount, bind, launched, strays, died>>, faults' \in 0 .. MaxFault,
           {plugin', timer', fired'} \subseteq BOOLEAN,
           entry' \in Holders, saved' \in Holders,
           entry'.refs # {} => entry'.on, saved'.refs # {} => saved'.on,
           ~plugin' => entry' = NoEntry, entry'.on => saved'.on,
           pod' \in [Target -> {"absent", "acquired", "retry", "bound", "unbound"}],
           \A t \in Target : pod'[t] = "bound" <=> pod[t] = "bound",
           forgotten \subseteq forgotten', HoldsRecorded',
           mount.live /\ mount.no \notin strays => (IF plugin' THEN entry' ELSE saved').on
    PROVE  MmInv'
<1>1. MmTypeOK'
  BY DEF MmInv, MountSound, MmTypeOK, Holders, Bare
<1>2. ServesBound' /\ Accounted'
  BY DEF MmInv, MountSound, ServesBound, Accounted, Bare
<1>3. Recording'
  BY DEF MmInv, Recording
<1> QED
  BY <1>1, <1>2, <1>3 DEF MmInv, MountSound

\* One more holder of a serving mount.
LEMMA AcquireInv == ASSUME MmInv, NEW t \in Target, Acquire(t) PROVE MmInv'
<1>1. /\ entry' = Held(entry.refs \cup {t}) /\ timer' = FALSE /\ entry.on /\ plugin /\ pod[t] # "bound"
      /\ UNCHANGED <<plugin, fired, mount, bind, launched, strays, forgotten, died>>
  BY DEF Acquire, Wanted
<1>2. faults' \in 0 .. MaxFault
  BY FaultTyped DEF Acquire, Persisted, NotPersisted
<1>3. /\ entry' \in Holders /\ entry'.refs = entry.refs \cup {t} /\ entry'.on
      /\ {plugin', timer', fired'} \subseteq BOOLEAN
  BY <1>1, HoldersTyped, MmFacts DEF MmInv, MountSound, MmTypeOK
<1>4. CASE saved' = entry' /\ pod' = [pod EXCEPT ![t] = "acquired"]
  <2>1. HoldsRecorded'
    BY <1>1, <1>3, <1>4, MmFacts DEF MmInv, HoldsRecorded, Whole
  <2>2. /\ pod' \in [Target -> {"absent", "acquired", "retry", "bound", "unbound"}]
        /\ \A u \in Target : pod'[u] = "bound" <=> pod[u] = "bound"
    BY <1>1, <1>4, MmFacts
  <2> QED
    BY <1>1, <1>2, <1>3, <1>4, <2>1, <2>2, RecordStep
<1>5. CASE saved' = saved /\ pod' = [pod EXCEPT ![t] = "retry"]
  <2>1. HoldsRecorded'
    BY <1>1, <1>3, <1>5, MmFacts DEF MmInv, HoldsRecorded, Whole
  <2>2. /\ pod' \in [Target -> {"absent", "acquired", "retry", "bound", "unbound"}]
        /\ \A u \in Target : pod'[u] = "bound" <=> pod[u] = "bound"
    BY <1>1, <1>5, MmFacts
  <2>3. saved \in Holders /\ saved.on /\ saved'.on
    BY <1>1, <1>5 DEF MmInv, Recording
  <2> QED
    BY <1>1, <1>2, <1>3, <1>5, <2>1, <2>2, <2>3, RecordStep
<1> QED
  BY <1>4, <1>5 DEF Acquire, Persisted, NotPersisted

\* A holder leaves, and others stay or the grace period starts.
LEMMA ReleaseInv ==
    ASSUME MmInv, NEW t \in Target, Release(t) \/ ReleaseIdle(t)
    PROVE  MmInv'
<1>1. /\ plugin /\ pod[t] = "unbound"
      /\ UNCHANGED <<plugin, fired, mount, bind, launched, strays, forgotten, died>>
  BY DEF Release, ReleaseIdle
<1>2. /\ entry' \in Holders /\ entry'.refs = entry.refs \ {t} /\ (entry'.on <=> entry.on)
      /\ {plugin', timer', fired'} \subseteq BOOLEAN
  <2>1. CASE Release(t)
    BY <1>1, <2>1, MmFacts DEF Release, Holders, MmInv, MountSound, MmTypeOK
  <2>2. CASE ReleaseIdle(t)
    <3>1. entry' = Held({}) /\ timer' = TRUE /\ entry.refs = {t}
      BY <2>2 DEF ReleaseIdle
    <3> QED
      BY <1>1, <3>1, HoldersTyped, MmFacts DEF MmInv, MountSound, MmTypeOK
  <2> QED
    BY <2>1, <2>2
<1>3. saved' = saved \/ saved' = entry'
  BY DEF Release, ReleaseIdle, Persisted, NotPersisted
<1>4. faults' \in 0 .. MaxFault
  BY FaultTyped DEF Release, ReleaseIdle, Persisted, NotPersisted
<1>5. pod' = pod \/ pod' = [pod EXCEPT ![t] = "absent"]
  BY DEF Release, ReleaseIdle
<1>6. /\ pod' \in [Target -> {"absent", "acquired", "retry", "bound", "unbound"}]
      /\ \A u \in Target : u # t => pod'[u] = pod[u]
      /\ pod'[t] \notin {"bound", "acquired"}
  BY <1>1, <1>5, MmFacts
<1>7. HoldsRecorded'
  <2>1. \A u \in Target : u # t /\ u \in entry.refs => u \in entry'.refs
    BY <1>2
  <2>2. \A u \in Target : u # t /\ u \in entry.refs /\ u \in saved.refs => u \in saved'.refs
    BY <1>3, <2>1
  <2> QED
    BY <1>1, <1>6, <2>1, <2>2 DEF MmInv, HoldsRecorded, Whole
<1>8. /\ saved' \in Holders /\ (saved'.refs # {} => saved'.on) /\ (entry'.on => saved'.on)
      /\ entry'.refs # {} => entry'.on
  BY <1>2, <1>3, MmFacts DEF MmInv, Recording
<1>9. mount.live /\ mount.no \notin strays => entry'.on
  BY <1>1, <1>2 DEF MmInv, MountSound, Accounted
<1> QED
  BY <1>1, <1>2, <1>4, <1>6, <1>7, <1>8, <1>9, RecordStep

\* The plugin ends; state.json stays.
LEMMA PluginCrashInv == ASSUME MmInv, PluginCrash PROVE MmInv'
<1>1. /\ plugin' = FALSE /\ entry' = NoEntry /\ timer' = FALSE /\ fired' = FALSE /\ plugin
      /\ pod' = [t \in Target |-> IF pod[t] = "acquired" THEN "retry" ELSE pod[t]]
      /\ UNCHANGED <<saved, mount, bind, launched, strays, forgotten, died>>
  BY DEF PluginCrash, Down
<1>2. faults' \in 0 .. MaxFault
  BY FaultTyped DEF PluginCrash
<1>3. /\ pod' \in [Target -> {"absent", "acquired", "retry", "bound", "unbound"}]
      /\ \A t \in Target : pod'[t] # "acquired" /\ (pod'[t] = "bound" <=> pod[t] = "bound")
  BY <1>1, MmFacts
<1>4. HoldsRecorded'
  BY <1>1, <1>3 DEF MmInv, HoldsRecorded, Whole
<1>5. mount.live /\ mount.no \notin strays => saved'.on
  BY <1>1 DEF MmInv, Recording, MountSound, Accounted
<1> QED
  BY <1>1, <1>2, <1>3, <1>4, <1>5, HoldersTyped, MmFacts, RecordStep

\* A target that is unbound holds no daemon; the grace timer holds no state.
LEMMA UnpublishInv ==
    ASSUME MmInv, GraceFires \/ (\E t \in Target : Unpublish(t))
    PROVE  MmInv'
<1>1. CASE GraceFires
  <2>1. UNCHANGED <<plugin, entry, saved, mount, pod, bind, faults, launched, strays, forgotten, died>>
        /\ timer' = FALSE /\ fired' = TRUE
    BY <1>1 DEF GraceFires
  <2> QED
    BY <2>1 DEF MmInv, MountSound, MmTypeOK, Recording, HoldsRecorded, ServesBound, Accounted, Whole, Bare
<1>2. ASSUME NEW t \in Target, Unpublish(t)
      PROVE  MmInv'
  <2>1. /\ pod' = [pod EXCEPT ![t] = "unbound"] /\ bind' = [bind EXCEPT ![t] = 0]
        /\ UNCHANGED <<plugin, entry, timer, fired, saved, mount, faults, launched, strays, forgotten, died>>
    BY <1>2 DEF Unpublish
  <2>2. launched \in Nat /\ 0 \in 0 .. launched
    BY SMT, MountAssumption DEF MmInv, MountSound, MmTypeOK
  <2>3. /\ pod' \in [Target -> {"absent", "acquired", "retry", "bound", "unbound"}]
        /\ bind' \in [Target -> (0 .. launched) \cup {Bare}]
        /\ pod'[t] = "unbound" /\ bind'[t] = 0
        /\ \A u \in Target : u # t => pod'[u] = pod[u] /\ bind'[u] = bind[u]
    BY <2>1, <2>2, MmFacts
  <2>4. MmTypeOK'
    BY <2>1, <2>3 DEF MmInv, MountSound, MmTypeOK, Bare
  <2>5. ServesBound' /\ Accounted'
    BY <2>1, <2>3 DEF MmInv, MountSound, ServesBound, Accounted, Bare
  <2>6. HoldsRecorded' /\ Recording'
    BY <2>1, <2>3 DEF MmInv, HoldsRecorded, Recording, Whole
  <2> QED
    BY <2>3, <2>4, <2>5, <2>6 DEF MmInv, MountSound
<1> QED
  BY <1>1, <1>2

\* A target is bound to the daemon it holds.
LEMMA PublishInv == ASSUME MmInv, NEW t \in Target, Publish(t) PROVE MmInv'
<1>1. /\ pod' = [pod EXCEPT ![t] = "bound"] /\ pod[t] = "acquired"
      /\ bind' = [bind EXCEPT ![t] = IF @ # 0 THEN @ ELSE IF mount.no = 0 THEN Bare ELSE mount.no]
      /\ UNCHANGED <<plugin, entry, timer, fired, saved, mount, faults, launched, strays, forgotten, died>>
  BY DEF Publish
<1>2. bind[t] = 0
  BY <1>1, MmFacts DEF MmInv
<1>3. Bare # 0
  BY SMT, MountAssumption DEF Bare
<1>4. bind' = [bind EXCEPT ![t] = IF mount.no = 0 THEN Bare ELSE mount.no]
  BY <1>1, <1>2, MmFacts
<1>5. /\ pod' \in [Target -> {"absent", "acquired", "retry", "bound", "unbound"}]
      /\ bind' \in [Target -> (0 .. launched) \cup {Bare}]
      /\ pod'[t] = "bound" /\ bind'[t] # 0 /\ bind'[t] \in {mount.no, Bare}
      /\ \A u \in Target : u # t => pod'[u] = pod[u] /\ bind'[u] = bind[u]
  BY <1>1, <1>3, <1>4, MmFacts
<1>6. MmTypeOK'
  BY <1>1, <1>5 DEF MmInv, MountSound, MmTypeOK, Bare
<1>7. ServesBound' /\ Accounted'
  BY <1>1, <1>5 DEF MmInv, MountSound, ServesBound, Accounted, Bare
<1>8. HoldsRecorded'
  BY <1>1, <1>5 DEF MmInv, HoldsRecorded, Whole
<1>9. Recording'
  BY <1>1, <1>5 DEF MmInv, Recording
<1> QED
  BY <1>5, <1>6, <1>7, <1>8, <1>9 DEF MmInv, MountSound

\* A step after which the domain has another daemon or none: nobody that is
\* remembered was bound to the one it had, unless it died or went astray.
LEMMA DaemonStep ==
    ASSUME MmInv, faults' \in 0 .. MaxFault, {plugin', timer', fired'} \subseteq BOOLEAN,
           launched' \in 0 .. MaxDaemon, 0 .. launched \subseteq 0 .. launched',
           strays \subseteq strays', strays' \subseteq 1 .. launched', UNCHANGED <<bind, died>>,
           mount' \in Daemon, mount'.no \in 0 .. launched',
           mount'.live => mount'.no # 0, ~mount'.live => mount'.no = 0 \/ mount' = mount,
           mount' = mount \/ mount'.no \in strays' \/ \A t \in Target : pod[t] = "bound" => bind[t] # mount'.no,
           mount' = mount \/ \A t \in Target \ forgotten' :
               pod[t] = "bound" /\ bind[t] = mount.no => mount.no \in died \cup strays',
           entry' \in Holders, saved' \in Holders,
           entry'.refs # {} => entry'.on, saved'.refs # {} => saved'.on,
           ~plugin' => entry' = NoEntry, entry'.on => saved'.on,
           pod' \in [Target -> {"absent", "acquired", "retry", "bound", "unbound"}],
           \A t \in Target : pod'[t] = "bound" <=> pod[t] = "bound",
           forgotten \subseteq forgotten',
           \A t \in Target \ forgotten' : pod'[t] = "acquired" => t \in entry'.refs /\ t \in saved'.refs,
           mount' = mount => \A t \in Target \ forgotten' :
               pod[t] = "bound" /\ bind[t] = mount.no /\ Whole
                 => t \in saved'.refs /\ (plugin' => t \in entry'.refs),
           mount'.live /\ mount'.no \notin strays' => (IF plugin' THEN entry' ELSE saved').on
    PROVE  MmInv'
<1>1. bind \in [Target -> (0 .. launched') \cup {Bare}]
  BY MmFacts
<1>2. MmTypeOK'
  BY <1>1 DEF MmInv, MountSound, MmTypeOK, Holders, Bare
<1>3. \A t \in Target : pod'[t] = "bound" <=> bind'[t] # 0
  BY DEF MmInv
<1>4. Recording'
  BY DEF MmInv, Recording
<1>5. ServesBound'
  BY DEF MmInv, MountSound, ServesBound, Bare
<1>6. HoldsRecorded'
  BY DEF MmInv, HoldsRecorded, Whole
<1>7. Accounted'
  BY DEF Accounted
<1> QED
  BY <1>2, <1>3, <1>4, <1>5, <1>6, <1>7 DEF MmInv, MountSound

\* A daemon that serves no record is a stray, and one that does not serve died;
\* a target that is bound is bound to a daemon.
LEMMA OldDaemon ==
    ASSUME MmInv
    PROVE  /\ mount.no = 0 \/ mount.no \in died \/ (mount.live /\ mount.no \in 1 .. launched)
           /\ plugin /\ ~entry.on /\ mount.live => mount.no \in strays
           /\ \A t \in Target : pod[t] = "bound" => bind[t] # 0
<1>1. mount.no \in 0 .. launched /\ mount.no # 0 => mount.no \in 1 .. launched
  BY SMT DEF MmInv, MountSound, MmTypeOK
<1> QED
  BY <1>1 DEF MmInv, MountSound, MmTypeOK, Recording, Accounted

\* A daemon is started and recorded, with the holders of the one before.
LEMMA AcquireLaunchInv == ASSUME MmInv, NEW t \in Target, AcquireLaunch(t) PROVE MmInv'
<1>1. /\ plugin /\ pod[t] # "bound" /\ mount' = Fresh1 /\ timer' = FALSE
      /\ entry' = Held(Carried(t)) /\ saved' = entry' /\ faults' = faults
      /\ pod' = [pod EXCEPT ![t] = "acquired"]
      /\ strays' = IF mount.live THEN strays \cup {mount.no} ELSE strays
      /\ UNCHANGED <<plugin, fired, bind, forgotten, died>>
  BY DEF AcquireLaunch, Wanted, Persisted
<1>2. LaunchDaemon
  BY DEF AcquireLaunch
<1>3. /\ entry' \in Holders /\ entry'.refs = entry.refs \cup {t} /\ entry'.on
      /\ {plugin', timer', fired'} \subseteq BOOLEAN /\ faults' \in 0 .. MaxFault
  BY <1>1, HoldersTyped, MmFacts, FaultTyped DEF MmInv, MountSound, MmTypeOK, Carried
<1>4. /\ pod' \in [Target -> {"absent", "acquired", "retry", "bound", "unbound"}]
      /\ \A u \in Target : pod'[u] = "bound" <=> pod[u] = "bound"
      /\ \A u \in Target : pod'[u] = "acquired" => u = t \/ pod[u] = "acquired"
  BY <1>1, MmFacts
<1>5. strays \subseteq strays' /\ strays' \subseteq 1 .. launched'
  <2>1. mount.live => mount.no \in 1 .. launched
    BY OldDaemon, SMT DEF MmInv, Recording, MountSound, MmTypeOK
  <2> QED
    BY <1>1, <1>2, <2>1, FreshDaemon DEF MmInv, MountSound, MmTypeOK
<1>6. \A u \in Target : pod[u] = "bound" => bind[u] # mount'.no
  BY <1>1, <1>2, FreshDaemon
<1>7. \A u \in Target : pod[u] = "bound" /\ bind[u] = mount.no => mount.no \in died \cup strays'
  BY <1>1, OldDaemon
<1>8. \A u \in Target \ forgotten' : pod'[u] = "acquired" => u \in entry'.refs /\ u \in saved'.refs
  BY <1>1, <1>3, <1>4 DEF MmInv, HoldsRecorded
<1>9. mount' \in Daemon /\ mount'.no \in 0 .. launched' /\ mount'.live = TRUE /\ mount'.no # 0
      /\ launched' \in 0 .. MaxDaemon /\ 0 .. launched \subseteq 0 .. launched'
  <2>1. Fresh1.no \in 1 .. launched' => Fresh1.no \in 0 .. launched'
    BY SMT, <1>2 DEF LaunchDaemon, MmInv, MountSound, MmTypeOK
  <2> QED
    BY <1>1, <1>2, <2>1, FreshDaemon
<1> QED
  BY <1>1, <1>3, <1>4, <1>5, <1>6, <1>7, <1>8, <1>9, DaemonStep

\* The launch fails, or ends with the plugin, after the daemon came up or before.
LEMMA AcquireFailsInv ==
    ASSUME MmInv, NEW t \in Target, AcquireFails(t) \/ AcquireCrash(t)
    PROVE  MmInv'
<1>1. /\ plugin /\ pod[t] # "bound" /\ ~(entry.on /\ mount.live) /\ entry' = NoEntry /\ timer' = FALSE
      /\ UNCHANGED <<saved, bind, died>>
      /\ {plugin', fired'} \subseteq BOOLEAN /\ forgotten \subseteq forgotten'
  BY DEF AcquireFails, AcquireCrash, Wanted, Down, MmInv, MountSound, MmTypeOK
<1>2. faults' \in 0 .. MaxFault
  BY FaultTyped DEF AcquireFails, AcquireCrash
<1>3. /\ pod' \in [Target -> {"absent", "acquired", "retry", "bound", "unbound"}]
      /\ \A u \in Target : pod'[u] = "bound" <=> pod[u] = "bound"
      /\ \A u \in Target \ forgotten' : pod'[u] # "acquired"
  <2>1. CASE AcquireFails(t)
    <3>1. pod' = [pod EXCEPT ![t] = "retry"] /\ forgotten' = forgotten \cup (entry.refs \ {t})
      BY <2>1 DEF AcquireFails
    <3> QED
      BY <1>1, <3>1, MmFacts DEF MmInv, HoldsRecorded
  <2>2. CASE AcquireCrash(t)
    <3>1. pod' = [u \in Target |-> IF pod[u] = "acquired" THEN "retry" ELSE pod[u]]
      BY <2>2 DEF AcquireCrash, Down
    <3> QED
      BY <3>1, MmFacts
  <2> QED
    BY <2>1, <2>2
<1>4. \A u \in Target : pod[u] = "bound" /\ bind[u] = mount.no => mount.no \in died \cup strays
  BY <1>1, OldDaemon
<1>5. /\ NoEntry \in Holders /\ NoEntry.refs = {} /\ saved' \in Holders /\ (saved'.refs # {} => saved'.on)
      /\ strays \subseteq 1 .. launched /\ launched \in 0 .. MaxDaemon
      /\ NoEntry.on = FALSE
  BY <1>1, HoldersTyped, MmFacts DEF MmInv, MountSound, MmTypeOK
<1>6. CASE LaunchDaemon /\ mount' = Fresh1 /\ strays' = strays \cup {launched + 1}
  <2>1. mount' \in Daemon /\ mount'.no \in 0 .. launched' /\ mount'.live = TRUE /\ mount'.no # 0
        /\ launched' \in 0 .. MaxDaemon /\ 0 .. launched \subseteq 0 .. launched'
        /\ mount'.no \in strays' /\ strays' \subseteq 1 .. launched'
    <3>1. Fresh1.no \in 1 .. launched' => Fresh1.no \in 0 .. launched'
      BY SMT, <1>6 DEF LaunchDaemon, MmInv, MountSound, MmTypeOK
    <3> QED
      BY <1>5, <1>6, <3>1, FreshDaemon
  <2>2. \A u \in Target : pod[u] = "bound" => bind[u] # mount'.no
    BY <1>6, FreshDaemon
  <2> QED
    BY <1>1, <1>2, <1>3, <1>4, <1>5, <1>6, <2>1, <2>2, DaemonStep
<1>7. CASE /\ mount' = NoDaemon /\ strays' = strays
           /\ LaunchDaemon \/ launched' = launched
  <2>1. mount' \in Daemon /\ mount'.no \in 0 .. launched' /\ mount'.live = FALSE /\ mount'.no = 0
        /\ launched' \in 0 .. MaxDaemon /\ 0 .. launched \subseteq 0 .. launched'
        /\ strays' \subseteq 1 .. launched'
    <3>1. launched' \in 0 .. MaxDaemon => 0 \in 0 .. launched'
      BY SMT, MountAssumption
    <3> QED
      BY <1>5, <1>7, <3>1, FreshDaemon, HoldersTyped
  <2>2. \A u \in Target : pod[u] = "bound" => bind[u] # mount'.no
    BY <2>1, OldDaemon
  <2> QED
    BY <1>1, <1>2, <1>3, <1>4, <1>5, <1>7, <2>1, <2>2, DaemonStep
<1>8. CASE ~entry.on /\ plugin' /\ UNCHANGED <<mount, launched, strays>>
  <2>1. HoldsRecorded'
    BY <1>1, <1>3, <1>4, <1>8 DEF HoldsRecorded, Whole
  <2>2. mount.live /\ mount.no \notin strays => entry'.on
    BY <1>1, <1>8, OldDaemon
  <2> QED
    BY <1>1, <1>2, <1>3, <1>5, <1>8, <2>1, <2>2, RecordStep
<1> QED
  BY <1>1, <1>6, <1>7, <1>8 DEF AcquireFails, AcquireCrash

\* The domain's mount goes when nobody that is remembered holds it.
LEMMA MountGoes ==
    ASSUME MmInv, plugin, entry.on, \A t \in entry.refs : pod[t] \notin {"bound", "acquired"},
           faults' \in 0 .. MaxFault, {timer', fired'} \subseteq BOOLEAN, entry' = NoEntry, mount' = NoDaemon,
           saved' = entry' \/ saved' = saved,
           pod' \in [Target -> {"absent", "acquired", "retry", "bound", "unbound"}],
           \A t \in Target : pod'[t] \in {"bound", "acquired"} => pod'[t] = pod[t],
           \A t \in Target : pod[t] = "bound" => pod'[t] = pod[t],
           UNCHANGED <<plugin, bind, launched, strays, forgotten, died>>
    PROVE  MmInv'
<1>1. \A t \in Target \ forgotten : pod[t] = "bound" /\ bind[t] = mount.no => mount.no \in died \cup strays
  BY DEF MmInv, HoldsRecorded, Whole
<1>2. \A t \in Target \ forgotten : pod'[t] # "acquired"
  BY DEF MmInv, HoldsRecorded
<1>3. /\ NoEntry \in Holders /\ NoEntry.refs = {} /\ saved' \in Holders /\ (saved'.refs # {} => saved'.on)
      /\ NoEntry.on = FALSE
      /\ strays \subseteq 1 .. launched /\ launched \in 0 .. MaxDaemon /\ plugin' \in BOOLEAN
  BY HoldersTyped, MmFacts DEF MmInv, MountSound, MmTypeOK
<1>4. mount' \in Daemon /\ mount'.no \in 0 .. launched' /\ mount'.live = FALSE /\ mount'.no = 0
  <2>1. launched \in 0 .. MaxDaemon => 0 \in 0 .. launched
    BY SMT, MountAssumption
  <2> QED
    BY <1>3, <2>1, HoldersTyped
<1>5. \A t \in Target : pod[t] = "bound" => bind[t] # mount'.no
  BY <1>4, OldDaemon
<1>6. \A t \in Target : pod'[t] = "bound" <=> pod[t] = "bound"
  OBVIOUS
<1> QED
  BY <1>1, <1>2, <1>3, <1>4, <1>5, <1>6, DaemonStep

LEMMA ReleaseDownInv == ASSUME MmInv, NEW t \in Target, ReleaseDown(t) PROVE MmInv'
<1>1. /\ plugin /\ pod[t] = "unbound" /\ entry.refs = {t}
      /\ UNCHANGED <<plugin, timer, fired, bind, launched, strays, forgotten, died>>
  BY DEF ReleaseDown
<1>2. /\ faults' \in 0 .. MaxFault /\ {plugin', timer', fired'} \subseteq BOOLEAN /\ entry.on
  BY <1>1, FaultTyped, MmFacts DEF ReleaseDown, Persisted, NotPersisted, MmInv, MountSound, MmTypeOK
<1>3. CASE /\ entry' = NoEntry /\ mount' = NoDaemon /\ (saved' = entry' \/ saved' = saved)
           /\ pod' = [pod EXCEPT ![t] = "absent"] \/ pod' = pod
  <2>1. /\ pod' \in [Target -> {"absent", "acquired", "retry", "bound", "unbound"}]
        /\ \A u \in Target : pod'[u] \in {"bound", "acquired"} => pod'[u] = pod[u]
        /\ \A u \in Target : pod[u] = "bound" => pod'[u] = pod[u]
    BY <1>1, <1>3, MmFacts
  <2> QED
    BY <1>1, <1>2, <1>3, <2>1, MountGoes
<1>4. CASE UNCHANGED <<entry, mount, saved, pod>>
  BY <1>1, <1>2, <1>4
     DEF MmInv, MountSound, MmTypeOK, Recording, HoldsRecorded, ServesBound, Accounted, Whole, Bare
<1> QED
  BY <1>3, <1>4 DEF ReleaseDown, Persisted, NotPersisted

\* The countdown ends: the record is looked at again.
LEMMA GraceTeardownInv == ASSUME MmInv, GraceTeardown PROVE MmInv'
<1>1. /\ plugin /\ fired' = FALSE
      /\ UNCHANGED <<plugin, pod, bind, launched, strays, forgotten, died>>
  BY DEF GraceTeardown
<1>2. faults' \in 0 .. MaxFault /\ {plugin', timer', fired'} \subseteq BOOLEAN
  BY <1>1, FaultTyped DEF GraceTeardown, Persisted, NotPersisted, MmInv, MountSound, MmTypeOK
<1>3. CASE StillIdle /\ entry' = NoEntry /\ mount' = NoDaemon /\ (saved' = entry' \/ saved' = saved)
  BY <1>1, <1>2, <1>3, MmFacts, MountGoes DEF StillIdle
<1>4. CASE UNCHANGED <<entry, mount, saved>>
  BY <1>1, <1>2, <1>4
     DEF MmInv, MountSound, MmTypeOK, Recording, HoldsRecorded, ServesBound, Accounted, Whole, Bare
<1> QED
  BY <1>3, <1>4 DEF GraceTeardown, Persisted, NotPersisted

\* A daemon dies by itself: its number stays, as one that died.
LEMMA DaemonDiesInv == ASSUME MmInv, DaemonDies PROVE MmInv'
<1>1. /\ mount' = [mount EXCEPT !.live = FALSE] /\ died' = died \cup {mount.no}
      /\ UNCHANGED <<plugin, entry, timer, fired, saved, pod, bind, launched, strays, forgotten>>
  BY DEF DaemonDies
<1>2. faults' \in 0 .. MaxFault
  BY FaultTyped DEF DaemonDies
<1>3. mount' \in Daemon /\ mount'.no = mount.no /\ mount'.live = FALSE
  BY <1>1, MmFacts DEF Daemon
<1>4. MmTypeOK'
  BY <1>1, <1>2, <1>3 DEF MmInv, MountSound, MmTypeOK, Bare
<1>5. ServesBound' /\ Accounted'
  BY <1>1, <1>3 DEF MmInv, MountSound, ServesBound, Accounted, Bare
<1>6. HoldsRecorded'
  BY <1>1, <1>3 DEF MmInv, HoldsRecorded, Whole
<1>7. Recording'
  BY SMT, <1>1, <1>3 DEF MmInv, Recording
<1> QED
  BY <1>1, <1>4, <1>5, <1>6, <1>7 DEF MmInv, MountSound

\* A restarted plugin takes back a mount that serves, and clears away one that
\* does not, with its holders.
LEMMA AdoptInv == ASSUME MmInv, Adopt PROVE MmInv'
<1>1. /\ ~plugin /\ plugin' = TRUE /\ UNCHANGED <<fired, faults, pod, bind, launched, strays, died>>
      /\ timer' = (entry'.on /\ entry'.refs = {}) /\ saved' = entry'
      /\ mount' = IF saved.on /\ ~entry'.on THEN NoDaemon ELSE mount
      /\ forgotten' = forgotten \cup (saved.refs \ entry'.refs)
      /\ (entry' = saved /\ saved.on) \/ entry' = NoEntry
  BY DEF Adopt
<1>2. /\ NoEntry \in Holders /\ NoEntry.refs = {} /\ NoEntry.on = FALSE /\ entry = NoEntry
      /\ strays \subseteq 1 .. launched /\ launched \in 0 .. MaxDaemon
      /\ faults' \in 0 .. MaxFault /\ {plugin', timer', fired'} \subseteq BOOLEAN
  BY <1>1, HoldersTyped, MmFacts DEF MmInv, MountSound, MmTypeOK, Recording
<1>3. \A t \in Target \ forgotten : pod[t] # "acquired"
  BY <1>1, <1>2 DEF MmInv, HoldsRecorded
<1>4. CASE entry' = saved /\ saved.on
  <2>1. mount' = mount
    BY <1>1, <1>4
  <2>2. HoldsRecorded'
    BY <1>1, <1>3, <1>4, <2>1 DEF MmInv, HoldsRecorded, Whole
  <2> QED
    BY <1>1, <1>2, <1>4, <2>1, <2>2, MmFacts, RecordStep
<1>5. CASE entry' = NoEntry
  <2>1. \A t \in Target \ forgotten' :
            pod[t] = "bound" /\ bind[t] = mount.no => mount.no \in died \cup strays
    BY <1>1, <1>2, <1>5 DEF MmInv, HoldsRecorded, Whole
  <2>2. CASE saved.on
    <3>1. mount' \in Daemon /\ mount'.no \in 0 .. launched' /\ mount'.live = FALSE /\ mount'.no = 0
      <4>1. launched \in 0 .. MaxDaemon => 0 \in 0 .. launched
        BY SMT, MountAssumption
      <4> QED
        BY <1>1, <1>2, <1>5, <2>2, <4>1, HoldersTyped
    <3>2. \A t \in Target : pod[t] = "bound" => bind[t] # mount'.no
      BY <3>1, OldDaemon
    <3> QED
      BY <1>1, <1>2, <1>3, <1>5, <2>1, <3>1, <3>2, MmFacts, DaemonStep
  <2>3. CASE ~saved.on
    <3>1. mount' = mount
      BY <1>1, <2>3
    <3>2. HoldsRecorded'
      BY <1>1, <1>3, <2>1, <3>1 DEF HoldsRecorded, Whole
    <3>3. ~(mount.live /\ mount.no \notin strays)
      BY <1>1, <2>3 DEF MmInv, MountSound, Accounted
    <3> QED
      BY <1>1, <1>2, <1>5, <3>1, <3>2, <3>3, MmFacts, RecordStep
  <2> QED
    BY <2>2, <2>3
<1> QED
  BY <1>1, <1>4, <1>5

LEMMA MmStep == MmInv /\ [MmNext]_mmVars => MmInv'
<1> SUFFICES ASSUME MmInv, [MmNext]_mmVars
             PROVE  MmInv'
  OBVIOUS
<1>1. CASE \E t \in Target : Acquire(t) \/ AcquireLaunch(t) \/ AcquireFails(t) \/ AcquireCrash(t) \/ Publish(t)
  BY <1>1, AcquireInv, AcquireLaunchInv, AcquireFailsInv, PublishInv
<1>2. CASE \E t \in Target : Unpublish(t) \/ Release(t) \/ ReleaseIdle(t) \/ ReleaseDown(t)
  BY <1>2, UnpublishInv, ReleaseInv, ReleaseDownInv
<1>3. CASE GraceFires \/ GraceTeardown \/ DaemonDies
  BY <1>3, UnpublishInv, GraceTeardownInv, DaemonDiesInv
<1>4. CASE PluginCrash \/ Adopt
  BY <1>4, PluginCrashInv, AdoptInv
<1>5. CASE UNCHANGED mmVars
  BY <1>5 DEF mmVars, MmInv, MountSound, MmTypeOK, Recording, HoldsRecorded, ServesBound, Accounted, Whole, Bare
<1> QED
  BY <1>1, <1>2, <1>3, <1>4, <1>5 DEF MmNext

\* No mount is taken from under a pod that holds it, and every serving daemon
\* has a record, whatever fails and however often the plugin restarts
\* (mountmanager.go: Acquire, Release, graceTeardown, Adopt).
THEOREM MountsStaySound == MmSpec => []MountSound
<1>1. MmInv => MountSound
  BY DEF MmInv
<1> QED
  BY MmInitInv, MmStep, <1>1, PTL DEF MmSpec

=============================================================================
