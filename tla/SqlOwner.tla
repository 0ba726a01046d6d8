------------------------------ MODULE SqlOwner ------------------------------
(***************************************************************************)
(* SQLOwner (meta/sqlowner.go): every node keeps a cache of its lease, its *)
(* writes use the cache while it is fresh, and a background loop renews.   *)
(* Writes, renewals, steals, restarts and clock skew interleave.           *)
(***************************************************************************)
EXTENDS Ownership

CONSTANT MaxCrashes   \* bound on crashes and shutdowns

ASSUME CrashAssumption == MaxCrashes \in Nat

VARIABLES
    held, lexp,  \* the cached lease (0: none) and its localExpiry
    rpc, rgen,   \* the refresh loop: control point, generation it snapshotted
    crashes

cacheVars == <<held, lexp>>
loopVars == <<rpc, rgen>>
vars == <<ownVars, cacheVars, loopVars, crashes>>

TypeOK ==
    /\ OwnTypeOK
    /\ held \in [Node -> Nat] /\ lexp \in [Node -> Nat]
    /\ rpc \in [Node -> {"idle", "sql", "renewed", "stolen", "failed"}]
    /\ rgen \in [Node -> Nat]
    /\ crashes \in 0 .. MaxCrashes

Init ==
    /\ OwnInit
    /\ held = [n \in Node |-> 0] /\ lexp = [n \in Node |-> 0]
    /\ rpc = [n \in Node |-> "idle"] /\ rgen = [n \in Node |-> 0]
    /\ crashes = 0

----------------------------------------------------------------------------
(* Ensure.                                                                  *)

Fresh(n) == held[n] # 0 /\ Clock(n) < lexp[n]

EnsureCached(o) ==
    /\ wpc[o] = "ensure" /\ Fresh(At[o])
    /\ Fences(o, held[At[o]])
    /\ UNCHANGED <<now, rowVars, log, share, cacheVars, loopVars, crashes>>

EnsureAcquires(o) ==
    /\ wpc[o] = "ensure" /\ ~Fresh(At[o])
    /\ Granted(At[o])
    /\ AcquireOrResume(At[o])
    /\ wpc' = [wpc EXCEPT ![o] = "store"]
    /\ wgen' = [wgen EXCEPT ![o] = gen']
    /\ UNCHANGED <<now, log, share, cacheVars, loopVars, crashes>>

\* The lease enters the cache after the transaction, whatever is there by now.
EnsureStores(o) ==
    /\ wpc[o] = "store"
    /\ held' = [held EXCEPT ![At[o]] = wgen[o]]
    /\ lexp' = [lexp EXCEPT ![At[o]] = Clock(At[o]) + TTL]
    /\ wpc' = [wpc EXCEPT ![o] = "fence"]
    /\ UNCHANGED <<now, rowVars, log, wgen, share, loopVars, crashes>>

EnsureRefused(o) ==
    /\ wpc[o] = "ensure" /\ ~Fresh(At[o])
    /\ ~Granted(At[o])
    /\ Stale(o)
    /\ UNCHANGED <<now, rowVars, log, share, cacheVars, loopVars, crashes>>

Ensure(o) == EnsureCached(o) \/ EnsureAcquires(o) \/ EnsureStores(o) \/ EnsureRefused(o)

----------------------------------------------------------------------------
(* The refresh loop: snapshot the lease, refresh it in SQL, apply the answer *)
(* to whatever the cache holds by then.                                     *)

RefreshStarts(n) ==
    /\ rpc[n] = "idle" /\ held[n] # 0
    /\ rpc' = [rpc EXCEPT ![n] = "sql"]
    /\ rgen' = [rgen EXCEPT ![n] = held[n]]
    /\ UNCHANGED <<ownVars, cacheVars, crashes>>

RefreshRow(n) ==
    /\ rpc[n] = "sql"
    /\ Refresh(n, rgen[n])
    /\ rpc' = [rpc EXCEPT ![n] = IF StillOwns(n, rgen[n]) THEN "renewed" ELSE "stolen"]
    /\ UNCHANGED <<now, log, opVars, share, cacheVars, rgen, crashes>>

RefreshFails(n) ==
    /\ rpc[n] = "sql"
    /\ crashes < MaxCrashes
    /\ crashes' = crashes + 1
    /\ rpc' = [rpc EXCEPT ![n] = "failed"]
    /\ UNCHANGED <<ownVars, cacheVars, rgen>>

\* A failed refresh keeps the lease but ends the trust in the cache.
Lapsed(n) == Clock(n)

Dropped_Kept(n) == held
Dropped(n) == [held EXCEPT ![n] = 0]

RefreshApplies(n) ==
    /\ rpc[n] \in {"renewed", "stolen", "failed"}
    /\ held' = IF rpc[n] = "stolen" THEN Dropped(n) ELSE held
    /\ lexp' = CASE held[n] = 0 \/ rpc[n] = "stolen" -> lexp
                 [] held[n] # 0 /\ rpc[n] = "renewed" -> [lexp EXCEPT ![n] = Clock(n) + TTL]
                 [] held[n] # 0 /\ rpc[n] = "failed" -> [lexp EXCEPT ![n] = Lapsed(n)]
    /\ rpc' = [rpc EXCEPT ![n] = "idle"]
    /\ rgen' = [rgen EXCEPT ![n] = 0]
    /\ UNCHANGED <<ownVars, crashes>>

RefreshLoop(n) == RefreshStarts(n) \/ RefreshRow(n) \/ RefreshApplies(n)

\* releaseAll, on shutdown: the cache goes, the row stays.
ReleaseAll(n) ==
    /\ rpc[n] = "idle" /\ held[n] # 0
    /\ crashes < MaxCrashes
    /\ crashes' = crashes + 1
    /\ held' = [held EXCEPT ![n] = 0]
    /\ UNCHANGED <<ownVars, lexp, loopVars>>

\* The node dies and comes back under its name; its transactions roll back.
Crash(n) ==
    /\ crashes < MaxCrashes
    /\ crashes' = crashes + 1
    /\ held' = [held EXCEPT ![n] = 0] /\ lexp' = [lexp EXCEPT ![n] = 0]
    /\ rpc' = [rpc EXCEPT ![n] = "idle"] /\ rgen' = [rgen EXCEPT ![n] = 0]
    /\ share' = {o \in share : At[o] # n}
    /\ wpc' = [o \in Op |-> IF At[o] = n THEN "idle" ELSE wpc[o]]
    /\ wgen' = [o \in Op |-> IF At[o] = n THEN 0 ELSE wgen[o]]
    /\ UNCHANGED <<now, rowVars, log>>

Operation(o) ==
    \/ (Begin(o) \/ WriteTx(o)) /\ UNCHANGED <<cacheVars, loopVars, crashes>>
    \/ Ensure(o)

Next ==
    \/ \E o \in Op : Operation(o)
    \/ \E n \in Node : RefreshLoop(n) \/ RefreshFails(n) \/ ReleaseAll(n) \/ Crash(n)
    \/ Tick /\ UNCHANGED <<rowVars, log, opVars, share, cacheVars, loopVars, crashes>>

Spec == Init /\ [][Next]_vars

\* The refresh ticker of every node keeps firing, and transactions end.
LiveSpec ==
    /\ Spec
    /\ \A n \in Node : WF_vars(RefreshLoop(n))
    /\ \A o \in Op : WF_vars(WriteTx(o) /\ UNCHANGED <<cacheVars, loopVars, crashes>>)

----------------------------------------------------------------------------
\* The detailed protocol implements the fenced scope.
FencedSpec == Fenced!FSpec

\* No cache and no loop ever holds a generation that another node owns: what a node
\* believes is either right or old, and old is what the fence rejects.
CachesBehind ==
    /\ FenceInv
    /\ \A n \in Node : Holds(n, held[n]) /\ Holds(n, rgen[n])

\* Two nodes never commit writes under one generation, across steals, renewals in
\* place, restarts under the same name and skewed clocks.
OneWriterPerGeneration == Fenced!OneWriterPerGeneration

\* A node whose lease was stolen stops believing in it: Run drops the lease on a
\* refresh, or the next Ensure takes a new one.
StaleLeaseDropped ==
    \A n \in Node : (held[n] # 0 /\ held[n] # gen) ~> (held[n] = 0 \/ held[n] = gen)

=============================================================================
