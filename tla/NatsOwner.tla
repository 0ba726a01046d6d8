----------------------------- MODULE NatsOwner -----------------------------
(***************************************************************************)
(* NATSOwner (coord/owner.go, coord/handoff.go): the liveness of a lease   *)
(* is a key in a NATS bucket, its generation is the SQL row's, and a node  *)
(* that wants a live peer's scope asks for it.  The owner flushes its      *)
(* write-back cache, releases the row, deletes the key and answers.        *)
(*                                                                         *)
(* One scope.  young abstracts the min-hold floor, which time alone lifts. *)
(***************************************************************************)
EXTENDS Ownership

CONSTANTS
    Nobody,     \* a requester that stopped waiting
    MaxOps,     \* bound on the operations started
    MaxCrashes  \* bound on crashes, shutdowns and failed flushes

ASSUME NobodyAssumption == Nobody \notin Op /\ MaxCrashes \in Nat /\ MaxOps \in Nat

VARIABLES
    held, lexp, young,  \* cached lease (0: none), localExpiry, within minHold
    live, liveExp,      \* the liveness key (NoNode: absent) and its expiry
    rpc, rgen,          \* the refresh loop
    reqs, reply,        \* handoff requests delivered to a node, answer to an operation
    hpc, hgen, hreq,    \* the handoff responder: control point, lease, requester
    staged, dirty,      \* operations with data only in the local cache; nodes with
                        \* such data behind committed metadata
    ops, gone, crashes  \* operations started; nodes that shut down; faults so far

cacheVars == <<held, lexp, young>>
liveVars == <<live, liveExp>>
loopVars == <<rpc, rgen>>
handVars == <<reqs, reply, hpc, hgen, hreq>>
dataVars == <<staged, dirty>>
faultVars == <<ops, gone, crashes>>
vars == <<ownVars, cacheVars, liveVars, loopVars, handVars, dataVars, faultVars>>

TypeOK ==
    /\ OwnTypeOK
    /\ held \in [Node -> Nat] /\ lexp \in [Node -> Nat] /\ young \in [Node -> BOOLEAN]
    /\ live \in Node \union {NoNode} /\ liveExp \in Nat
    /\ rpc \in [Node -> {"idle", "check", "put", "sql", "apply"}] /\ rgen \in [Node -> Nat]
    /\ reqs \in [Node -> SUBSET (Op \union {Nobody})]
    /\ reply \in [Op -> {"none", "ok", "no"}]
    /\ hpc \in [Node -> {"idle", "flush", "release", "unlive", "drop"}]
    /\ hgen \in [Node -> Nat] /\ hreq \in [Node -> Op \union {Nobody}]
    /\ \A n \in Node : (hpc[n] = "idle" <=> hgen[n] = 0) /\ (rpc[n] = "idle" <=> rgen[n] = 0)
    /\ staged \subseteq Op /\ dirty \subseteq Node
    /\ ops \in 0 .. MaxOps /\ gone \subseteq Node /\ crashes \in 0 .. MaxCrashes

Init ==
    /\ OwnInit
    /\ held = [n \in Node |-> 0] /\ lexp = [n \in Node |-> 0] /\ young = [n \in Node |-> FALSE]
    /\ live = NoNode /\ liveExp = 0
    /\ rpc = [n \in Node |-> "idle"] /\ rgen = [n \in Node |-> 0]
    /\ reqs = [n \in Node |-> {}] /\ reply = [o \in Op |-> "none"]
    /\ hpc = [n \in Node |-> "idle"] /\ hgen = [n \in Node |-> 0]
    /\ hreq = [n \in Node |-> Nobody]
    /\ staged = {} /\ dirty = {}
    /\ ops = 0 /\ gone = {} /\ crashes = 0

----------------------------------------------------------------------------
(* Ensure: cache, liveness key, handoff, SQL, liveness key, cache.          *)

Fresh(n) == held[n] # 0 /\ Clock(n) < lexp[n]
LiveOwner == IF now <= liveExp THEN live ELSE NoNode

\* The data of the operation is staged before its metadata is written.
OpBegins(o) ==
    /\ At[o] \notin gone
    /\ ops < MaxOps
    /\ ops' = ops + 1
    /\ Begin(o)
    /\ staged' = staged \union {o}
    /\ UNCHANGED <<cacheVars, liveVars, loopVars, handVars, dirty, gone, crashes>>

EnsureCached(o) ==
    /\ wpc[o] = "ensure" /\ Fresh(At[o])
    /\ Fences(o, held[At[o]])
    /\ UNCHANGED <<now, rowVars, log, share, cacheVars, liveVars, loopVars, handVars, dataVars, faultVars>>

EnsureLooks(o) ==
    /\ wpc[o] = "ensure" /\ ~Fresh(At[o])
    /\ IF LiveOwner \in {NoNode, At[o]}
       THEN /\ wpc' = [wpc EXCEPT ![o] = "acquire"]
            /\ UNCHANGED reqs
       ELSE /\ wpc' = [wpc EXCEPT ![o] = "ask"]
            /\ reqs' = [n \in Node |-> IF n \in gone THEN reqs[n] ELSE reqs[n] \union {o}]
    /\ UNCHANGED <<now, rowVars, log, wgen, share, cacheVars, liveVars, loopVars, reply, hpc, hgen, hreq,
                   dataVars, faultVars>>

\* The first answer counts; without one the requester tries its luck in SQL.
Forget(o, r) == IF r = o THEN Nobody ELSE r

AskReturns(o) ==
    /\ wpc[o] = "ask"
    /\ IF reply[o] = "no" THEN Stale(o) /\ staged' = staged \ {o}
       ELSE wpc' = [wpc EXCEPT ![o] = "acquire"] /\ UNCHANGED <<wgen, staged>>
    /\ reply' = IF reply[o] = "no" THEN [reply EXCEPT ![o] = "none"] ELSE reply
    /\ reqs' = [n \in Node |-> {Forget(o, r) : r \in reqs[n]}]
    /\ hreq' = [n \in Node |-> Forget(o, hreq[n])]
    /\ UNCHANGED <<now, rowVars, log, share, cacheVars, liveVars, loopVars, hpc, hgen, dirty, faultVars>>

EnsureAcquires(o) ==
    /\ wpc[o] = "acquire" /\ Granted(At[o])
    /\ AcquireOrResume(At[o])
    /\ wpc' = [wpc EXCEPT ![o] = "store"]
    /\ wgen' = [wgen EXCEPT ![o] = gen']
    /\ reply' = [reply EXCEPT ![o] = "none"]
    /\ UNCHANGED <<now, log, share, cacheVars, liveVars, loopVars, reqs, hpc, hgen, hreq, dataVars, faultVars>>

EnsureRefused(o) ==
    /\ wpc[o] = "acquire" /\ ~Granted(At[o])
    /\ Stale(o)
    /\ reply' = [reply EXCEPT ![o] = "none"]
    /\ staged' = staged \ {o}
    /\ UNCHANGED <<now, rowVars, log, share, cacheVars, liveVars, loopVars, reqs, hpc, hgen, hreq, dirty,
                   faultVars>>

PutLive(n) == live' = n /\ liveExp' = now + TTL

EnsurePutsLive(o) ==
    /\ wpc[o] = "store"
    /\ PutLive(At[o])
    /\ wpc' = [wpc EXCEPT ![o] = "cache"]
    /\ UNCHANGED <<now, rowVars, log, wgen, share, cacheVars, loopVars, handVars, dataVars, faultVars>>

EnsureCaches(o) ==
    /\ wpc[o] = "cache"
    /\ held' = [held EXCEPT ![At[o]] = wgen[o]]
    /\ lexp' = [lexp EXCEPT ![At[o]] = Clock(At[o]) + TTL]
    /\ young' = [young EXCEPT ![At[o]] = TRUE]
    /\ wpc' = [wpc EXCEPT ![o] = "fence"]
    /\ UNCHANGED <<now, rowVars, log, wgen, share, liveVars, loopVars, handVars, dataVars, faultVars>>

Ensure(o) ==
    \/ EnsureCached(o) \/ EnsureLooks(o) \/ AskReturns(o)
    \/ EnsureAcquires(o) \/ EnsureRefused(o) \/ EnsurePutsLive(o) \/ EnsureCaches(o)

\* The fenced write; a committed one may leave its data in the local cache only.
OpWrites(o) ==
    /\ \/ CheckFence(o) /\ UNCHANGED dirty
       \/ Abort(o) /\ UNCHANGED dirty
       \/ Commit(o) /\ dirty' = IF o \in staged THEN dirty \union {At[o]} ELSE dirty
    /\ staged' = IF wpc'[o] = "idle" THEN staged \ {o} ELSE staged
    /\ UNCHANGED <<cacheVars, liveVars, loopVars, handVars, faultVars>>

----------------------------------------------------------------------------
(* The refresh loop.                                                        *)

DropHeld(n) == held' = [held EXCEPT ![n] = 0]

RefreshStarts(n) ==
    /\ rpc[n] = "idle" /\ held[n] # 0
    /\ rpc' = [rpc EXCEPT ![n] = "check"]
    /\ rgen' = [rgen EXCEPT ![n] = held[n]]
    /\ UNCHANGED <<ownVars, cacheVars, liveVars, handVars, dataVars, faultVars>>

RefreshReturns(n) == rpc' = [rpc EXCEPT ![n] = "idle"] /\ rgen' = [rgen EXCEPT ![n] = 0]

RefreshChecks(n) ==
    /\ rpc[n] = "check"
    /\ IF LiveOwner \in {NoNode, n}
       THEN rpc' = [rpc EXCEPT ![n] = "put"] /\ UNCHANGED <<rgen, held>>
       ELSE RefreshReturns(n) /\ DropHeld(n)
    /\ UNCHANGED <<ownVars, lexp, young, liveVars, handVars, dataVars, faultVars>>

\* Every Nth tick also renews the SQL row.
RefreshPuts(n) ==
    /\ rpc[n] = "put"
    /\ PutLive(n)
    /\ \E next \in {"sql", "apply"} : rpc' = [rpc EXCEPT ![n] = next]
    /\ UNCHANGED <<ownVars, cacheVars, rgen, handVars, dataVars, faultVars>>

RefreshRow(n) ==
    /\ rpc[n] = "sql"
    /\ Refresh(n, rgen[n])
    /\ IF StillOwns(n, rgen[n])
       THEN rpc' = [rpc EXCEPT ![n] = "apply"] /\ UNCHANGED <<rgen, held>>
       ELSE RefreshReturns(n) /\ DropHeld(n)
    /\ UNCHANGED <<now, log, opVars, share, lexp, young, liveVars, handVars, dataVars, faultVars>>

RefreshApplies(n) ==
    /\ rpc[n] = "apply"
    /\ lexp' = IF held[n] = 0 THEN lexp ELSE [lexp EXCEPT ![n] = Clock(n) + TTL]
    /\ RefreshReturns(n)
    /\ UNCHANGED <<ownVars, held, young, liveVars, handVars, dataVars, faultVars>>

RefreshLoop(n) ==
    \/ RefreshStarts(n) \/ RefreshChecks(n) \/ RefreshPuts(n) \/ RefreshRow(n) \/ RefreshApplies(n)

----------------------------------------------------------------------------
(* The handoff responder: one request at a time.                            *)

Responds(r, answer) ==
    reply' = IF r \in Op /\ reply[r] = "none" THEN [reply EXCEPT ![r] = answer] ELSE reply

HandoffIdle(n) ==
    /\ hpc' = [hpc EXCEPT ![n] = "idle"]
    /\ hgen' = [hgen EXCEPT ![n] = 0]
    /\ hreq' = [hreq EXCEPT ![n] = Nobody]

HandoffTaken(n, r) ==
    /\ hpc[n] = "idle" /\ r \in reqs[n]
    /\ reqs' = [reqs EXCEPT ![n] = @ \ {r}]
    /\ IF held[n] = 0 \/ young[n]
       THEN /\ IF held[n] = 0 THEN UNCHANGED reply ELSE Responds(r, "no")
            /\ UNCHANGED <<hpc, hgen, hreq>>
       ELSE /\ hpc' = [hpc EXCEPT ![n] = "flush"]
            /\ hgen' = [hgen EXCEPT ![n] = held[n]]
            /\ hreq' = [hreq EXCEPT ![n] = r]
            /\ UNCHANGED reply
    /\ UNCHANGED <<ownVars, cacheVars, liveVars, loopVars, dataVars, faultVars>>

\* What is staged on the node is uploaded: by the release hook, or any time by the
\* cache's own drain.
Uploaded(n) ==
    /\ staged' = {o \in staged : At[o] # n}
    /\ dirty' = dirty \ {n}

Flush(n) ==
    /\ hpc[n] = "flush"
    /\ Uploaded(n)
    /\ hpc' = [hpc EXCEPT ![n] = "release"]
    /\ UNCHANGED <<ownVars, cacheVars, liveVars, loopVars, reqs, reply, hgen, hreq, faultVars>>

FlushFails(n) ==
    /\ hpc[n] = "flush"
    /\ crashes < MaxCrashes
    /\ crashes' = crashes + 1
    /\ Responds(hreq[n], "no")
    /\ HandoffIdle(n)
    /\ UNCHANGED <<ownVars, cacheVars, liveVars, loopVars, reqs, dataVars, ops, gone>>

Drain(n) ==
    /\ n \in dirty
    /\ Uploaded(n)
    /\ UNCHANGED <<ownVars, cacheVars, liveVars, loopVars, handVars, faultVars>>

\* The number of rows ReleaseOwnership changed is ignored.
HandoffReleases(n) ==
    /\ hpc[n] = "release"
    /\ ReleaseOwnership(n, hgen[n])
    /\ hpc' = [hpc EXCEPT ![n] = "unlive"]
    /\ UNCHANGED <<now, log, opVars, share, cacheVars, liveVars, loopVars, reqs, reply, hgen, hreq,
                   dataVars, faultVars>>

\* The liveness key goes, whoever put it.
HandoffUnlives(n) ==
    /\ hpc[n] = "unlive"
    /\ live' = NoNode /\ liveExp' = 0
    /\ hpc' = [hpc EXCEPT ![n] = "drop"]
    /\ UNCHANGED <<ownVars, cacheVars, loopVars, reqs, reply, hgen, hreq, dataVars, faultVars>>

HandoffAnswers(n) ==
    /\ hpc[n] = "drop"
    /\ DropHeld(n)
    /\ Responds(hreq[n], "ok")
    /\ HandoffIdle(n)
    /\ UNCHANGED <<ownVars, lexp, young, liveVars, loopVars, reqs, dataVars, faultVars>>

Responder(n) ==
    \/ \E r \in Op \union {Nobody} : HandoffTaken(n, r)
    \/ Flush(n) \/ HandoffReleases(n) \/ HandoffUnlives(n) \/ HandoffAnswers(n)

----------------------------------------------------------------------------
\* The process of n ends: its transactions roll back, its memory is gone.
Halts(n) ==
    /\ held' = [held EXCEPT ![n] = 0] /\ lexp' = [lexp EXCEPT ![n] = 0]
    /\ young' = [young EXCEPT ![n] = FALSE]
    /\ rpc' = [rpc EXCEPT ![n] = "idle"] /\ rgen' = [rgen EXCEPT ![n] = 0]
    /\ HandoffIdle(n)
    /\ reqs' = [m \in Node |-> IF m = n THEN {} ELSE {IF r \in Op /\ At[r] = n THEN Nobody ELSE r : r \in reqs[m]}]
    /\ reply' = [o \in Op |-> IF At[o] = n THEN "none" ELSE reply[o]]
    /\ share' = {o \in share : At[o] # n}
    /\ wpc' = [o \in Op |-> IF At[o] = n THEN "idle" ELSE wpc[o]]
    /\ wgen' = [o \in Op |-> IF At[o] = n THEN 0 ELSE wgen[o]]
    /\ crashes < MaxCrashes
    /\ crashes' = crashes + 1
    /\ UNCHANGED <<now, rowVars, log>>

\* releaseAll after a clean stop: the liveness key goes, the SQL row stays as it is.
Shutdown(n) ==
    /\ \A o \in Op : At[o] = n => wpc[o] = "idle"
    /\ hpc[n] = "idle" /\ rpc[n] = "idle" /\ n \notin gone /\ n \notin dirty
    /\ Halts(n)
    /\ live' = IF held[n] # 0 THEN NoNode ELSE live
    /\ liveExp' = IF held[n] # 0 THEN 0 ELSE liveExp
    /\ gone' = gone \union {n}
    /\ UNCHANGED <<dataVars, ops>>

\* A crashed node comes back under its name; its staging area is on disk.
Crash(n) ==
    /\ n \notin gone
    /\ Halts(n)
    /\ staged' = {o \in staged : At[o] # n}
    /\ UNCHANGED <<liveVars, dirty, ops, gone>>

TimePasses ==
    /\ Tick
    /\ young' = [n \in Node |-> FALSE]
    /\ UNCHANGED <<rowVars, log, opVars, share, held, lexp, liveVars, loopVars, handVars, dataVars, faultVars>>

Next ==
    \/ \E o \in Op : OpBegins(o) \/ Ensure(o) \/ OpWrites(o)
    \/ \E n \in Node :
        \/ RefreshLoop(n) \/ Responder(n) \/ FlushFails(n) \/ Drain(n)
        \/ Shutdown(n) \/ Crash(n)
    \/ TimePasses

Spec == Init /\ [][Next]_vars

----------------------------------------------------------------------------
\* The accelerator keeps the fence contract of the SQL owner: "that swap replaces
\* the liveness/refresh traffic with KV+Watch but keeps this exact fence contract".
FencedSpec == Fenced!FSpec

\* No cached lease, refresh or handoff in progress holds a generation of another
\* node's: everything a node believes is right or rejected by the fence.
CachesBehind ==
    /\ FenceInv
    /\ \A n \in Node : Holds(n, held[n]) /\ Holds(n, rgen[n]) /\ Holds(n, hgen[n])

\* The prior owner "flushes node-local dirty state ... so the new owner can read it":
\* after an "ok" the scope changes hands only when the releasing owner has no data
\* that is in its own cache alone.
\* Refuted (no run checks it): a write begun after the flush renews the lease
\* before the release, and its data is not flushed.
HandedOverClean ==
    [][\A o \in Op : (wpc[o] = "acquire" /\ wpc'[o] = "store" /\ reply[o] = "ok" /\ owner # At[o])
                        => owner \notin dirty]_vars

=============================================================================
