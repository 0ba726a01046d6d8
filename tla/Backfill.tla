------------------------------ MODULE Backfill ------------------------------
(***************************************************************************)
(* Adopting pack associations in a domain whose older manifests have none  *)
(* (BackfillAssociations): the walk over the manifests and its marker,     *)
(* beside Puts, deletions, RegisterRef, ObliterateContext and a collector  *)
(* that trusts the associations once the marker is set.  PackReclaim and   *)
(* SweepGC have the detail of the last two; here a pack goes in one step,  *)
(* and packs younger than the safety window are not candidates.            *)
(***************************************************************************)
EXTENDS Naturals, FiniteSets

CONSTANTS
    BfKey,                 \* object keys
    BfPack,                \* packs
    Legacy,                \* keys whose manifests predate associations -> their packs
    OwnerContext,          \* context a Put of each key associates with (contextFor)
    BatchSize,             \* backfillBatchSize
    MaxBfCalls, MaxBfFaults, MaxWalks \* bounds: Puts, deletions, RegisterRefs and
                           \* ObliterateContexts; failing calls; backfills

ASSUME BackfillAssumption ==
    DOMAIN Legacy \subseteq BfKey /\ \A k \in DOMAIN Legacy : Legacy[k] \subseteq BfPack

VARIABLES
    streams,    \* the manifest store streams payloads (PayloadWalker)
    bfRows,     \* packs each key's manifest references; {}: no manifest
    bfBlobs,    \* packs stored
    bfAssoc,    \* association rows <<context, pack>>
    bfState,    \* lifecycle state of each pack
    backfilled, \* the marker
    bfWalk,     \* the backfill: [pc, left, snap, pending]
    bfPut,      \* a Put: [pc, key, packs, fresh, safe]
    bfOb,       \* an ObliterateContext: [pc, ctx, todo, marks]
    bfGc,       \* packs a pass of the collector still deletes
    bfSpent,    \* [calls, faults, walks] so far
    \* History.
    bare,       \* keys the associations do not stand for: skipped, registered, obliterated, raced
    robbed      \* packs reclaimed under a manifest that had no association yet

bfVars == <<streams, bfRows, bfBlobs, bfAssoc, bfState, backfilled, bfWalk, bfPut, bfOb, bfGc, bfSpent, bare, robbed>>

NoWalk == [pc |-> "idle", left |-> {}, snap |-> [k \in BfKey |-> {}], pending |-> {}]
NoPut == [pc |-> "idle", key |-> CHOOSE k \in BfKey : TRUE, packs |-> {}, fresh |-> {}, safe |-> TRUE]
NoOb == [pc |-> "idle", ctx |-> "none", todo |-> {}, marks |-> {}]

BfTypeOK ==
    /\ {streams, backfilled} \subseteq BOOLEAN
    /\ bfRows \in [BfKey -> SUBSET BfPack] /\ bfBlobs \subseteq BfPack
    /\ bfState \in [BfPack -> {"stored", "obliterating", "obliterated"}]
    /\ bfWalk.pc \in {"idle", "walk", "flush"} /\ bfWalk.left \subseteq BfKey
    /\ \A a \in bfAssoc \cup bfWalk.pending : a[2] \in BfPack
    /\ bfPut.pc \in {"idle", "associate", "write"} /\ bfPut.packs \subseteq BfPack
    /\ bfOb.pc \in {"idle", "mark", "finish"} /\ bfOb.todo \cup bfOb.marks \subseteq BfPack
    /\ bfGc \subseteq BfPack /\ bare \subseteq BfKey /\ robbed \subseteq BfPack

BfInit ==
    /\ streams \in BOOLEAN
    /\ bfRows = [k \in BfKey |-> IF k \in DOMAIN Legacy THEN Legacy[k] ELSE {}]
    /\ bfBlobs = UNION {Legacy[k] : k \in DOMAIN Legacy} /\ bfAssoc = {}
    /\ bfState = [p \in BfPack |-> "stored"] /\ backfilled = FALSE
    /\ bfWalk = NoWalk /\ bfPut = NoPut /\ bfOb = NoOb /\ bfGc = {}
    /\ bfSpent = [calls |-> 0, faults |-> 0, walks |-> 0] /\ bare = {} /\ robbed = {}

BfFault == bfSpent.faults < MaxBfFaults /\ bfSpent' = [bfSpent EXCEPT !.faults = @ + 1]
BfCall == bfSpent.calls < MaxBfCalls /\ bfSpent' = [bfSpent EXCEPT !.calls = @ + 1]

\* A Put relies on packs it found; it is safe while other manifests, that are
\* safe themselves, reference them.
HeldBy(rows, keys) == UNION {rows[k] : k \in keys}
StaysSafe(keys) == [bfPut EXCEPT !.safe = @ /\ bfPut.packs \ bfPut.fresh \subseteq HeldBy(bfRows, keys)]

----------------------------------------------------------------------------
(* BackfillAssociations. *)

WalkBegins ==
    /\ bfWalk.pc = "idle" /\ bfSpent.walks < MaxWalks
    /\ bfSpent' = [bfSpent EXCEPT !.walks = @ + 1]
    /\ bfWalk' = [pc |-> "walk", left |-> {k \in BfKey : bfRows[k] # {}}, snap |-> IF streams THEN bfRows ELSE NoWalk.snap, pending |-> {}]
    /\ UNCHANGED <<streams, bfRows, bfBlobs, bfAssoc, bfState, backfilled, bfPut, bfOb, bfGc, bare, robbed>>

\* absorb: the rows one manifest implies.  A streaming query returns it as it
\* was when the query started, the fallback reads it now.
Implied(k) == {k} \X (IF streams THEN bfWalk.snap[k] ELSE bfRows[k])

Absorb(k) ==
    /\ bfWalk.pc = "walk" /\ k \in bfWalk.left
    /\ LET rows == bfWalk.pending \cup Implied(k) IN
       bfWalk' = [bfWalk EXCEPT !.left = @ \ {k}, !.snap[k] = {}, !.pending = rows,
                                !.pc = IF Cardinality(rows) >= BatchSize THEN "flush" ELSE "walk"]
    /\ UNCHANGED <<streams, bfRows, bfBlobs, bfAssoc, bfState, backfilled, bfPut, bfOb, bfGc, bfSpent, bare, robbed>>

\* An unreadable manifest is logged and passed over.
AbsorbSkips(k) ==
    /\ bfWalk.pc = "walk" /\ k \in bfWalk.left /\ ~streams /\ bfRows[k] # {} /\ BfFault
    /\ bfWalk' = [bfWalk EXCEPT !.left = @ \ {k}]
    /\ bare' = bare \cup {k} /\ bfPut' = StaysSafe(BfKey \ bare')
    /\ UNCHANGED <<streams, bfRows, bfBlobs, bfAssoc, bfState, backfilled, bfOb, bfGc, robbed>>

\* Associate takes the whole batch, or none of it.
BatchRefused(rows) == \E a \in rows : bfState[a[2]] # "stored"

FlushBatch ==
    /\ bfWalk.pc = "flush" \/ (bfWalk.pc = "walk" /\ bfWalk.left = {} /\ bfWalk.pending # {})
    /\ IF BatchRefused(bfWalk.pending)
       THEN bfWalk' = NoWalk /\ UNCHANGED bfAssoc
       ELSE /\ bfAssoc' = bfAssoc \cup bfWalk.pending
            /\ bfWalk' = [bfWalk EXCEPT !.pc = "walk", !.pending = {}]
    /\ UNCHANGED <<streams, bfRows, bfBlobs, bfState, backfilled, bfPut, bfOb, bfGc, bfSpent, bare, robbed>>

MarkBackfilled ==
    /\ bfWalk.pc = "walk" /\ bfWalk.left = {} /\ bfWalk.pending = {}
    /\ backfilled' = TRUE /\ bfWalk' = NoWalk
    /\ UNCHANGED <<streams, bfRows, bfBlobs, bfAssoc, bfState, bfPut, bfOb, bfGc, bfSpent, bare, robbed>>

\* A call fails or the process ends.
WalkFails ==
    /\ bfWalk.pc # "idle" /\ BfFault /\ bfWalk' = NoWalk
    /\ UNCHANGED <<streams, bfRows, bfBlobs, bfAssoc, bfState, backfilled, bfPut, bfOb, bfGc, bare, robbed>>

----------------------------------------------------------------------------
(* Puts and what else changes manifests. *)

\* Packs that are stored are reused, others uploaded.
PutPacks(k, ps) ==
    /\ bfPut.pc = "idle" /\ BfCall /\ bfRows[k] = {}
    /\ \A p \in ps \cap bfBlobs : bfState[p] = "stored"
    /\ bfBlobs' = bfBlobs \cup ps /\ bfGc' = bfGc \ (ps \ bfBlobs)
    /\ bfPut' = [pc |-> "associate", key |-> k, packs |-> ps, fresh |-> ps \ bfBlobs,
                 safe |-> ps \cap bfBlobs \subseteq HeldBy(bfRows, BfKey \ bare)]
    /\ UNCHANGED <<streams, bfRows, bfAssoc, bfState, backfilled, bfWalk, bfOb, bare, robbed>>

PutAssociates ==
    /\ bfPut.pc = "associate"
    /\ LET rows == {OwnerContext[bfPut.key]} \X bfPut.packs IN
       IF BatchRefused(rows)
       THEN bfPut' = NoPut /\ UNCHANGED bfAssoc
       ELSE bfAssoc' = bfAssoc \cup rows /\ bfPut' = [bfPut EXCEPT !.pc = "write"]
    /\ UNCHANGED <<streams, bfRows, bfBlobs, bfState, backfilled, bfWalk, bfOb, bfGc, bfSpent, bare, robbed>>

PutWrites ==
    /\ bfPut.pc = "write" /\ bfPut' = NoPut
    /\ bfRows' = [bfRows EXCEPT ![bfPut.key] = bfPut.packs]
    /\ bare' = IF bfPut.safe THEN bare \ {bfPut.key} ELSE bare \cup {bfPut.key}
    /\ UNCHANGED <<streams, bfBlobs, bfAssoc, bfState, backfilled, bfWalk, bfOb, bfGc, bfSpent, robbed>>

DeleteKey(k) ==
    /\ BfCall /\ bfRows[k] # {} /\ bfRows' = [bfRows EXCEPT ![k] = {}]
    /\ bfPut' = StaysSafe(BfKey \ (bare \cup {k}))
    /\ UNCHANGED <<streams, bfBlobs, bfAssoc, bfState, backfilled, bfWalk, bfOb, bfGc, bare, robbed>>

\* RegisterManifest writes a manifest over packs of another, and no association;
\* not while a Put of the key is under way.
RegisterKey(k, from) ==
    /\ bfRows[k] = {} /\ bfRows[from] # {} /\ (bfPut.pc = "idle" \/ bfPut.key # k) /\ BfCall
    /\ bfRows' = [bfRows EXCEPT ![k] = bfRows[from]] /\ bare' = bare \cup {k}
    /\ UNCHANGED <<streams, bfBlobs, bfAssoc, bfState, backfilled, bfWalk, bfPut, bfOb, bfGc, robbed>>

----------------------------------------------------------------------------
(* ObliterateContext, and the collector. *)

Contexts == BfKey \cup {OwnerContext[k] : k \in BfKey}
ContextOf(x) == {k \in BfKey : x \in {k, OwnerContext[k]}}
DropRows(x) ==
    /\ bfAssoc' = {a \in bfAssoc : a[1] # x}
    /\ bare' = bare \cup {k \in ContextOf(x) : bfRows[k] # {}}
    /\ bfPut' = [StaysSafe(BfKey \ bare') EXCEPT !.safe = @ /\ bfPut.key \notin ContextOf(x)]

ObDrop(x) ==
    /\ BfCall /\ bfOb.pc = "idle" /\ \E a \in bfAssoc : a[1] = x
    /\ DropRows(x)
    /\ bfOb' = [pc |-> "mark", ctx |-> x, todo |-> {p \in BfPack : <<x, p>> \in bfAssoc}, marks |-> {}]
    /\ UNCHANGED <<streams, bfRows, bfBlobs, bfState, backfilled, bfWalk, bfGc, robbed>>

ObMark(p) ==
    /\ bfOb.pc = "mark" /\ p \in bfOb.todo
    /\ bfOb' = [bfOb EXCEPT !.todo = @ \ {p}, !.marks = IF bfState[p] = "stored" THEN @ \cup {p} ELSE @]
    /\ bfState' = [bfState EXCEPT ![p] = IF @ = "stored" THEN "obliterating" ELSE @]
    /\ UNCHANGED <<streams, bfRows, bfBlobs, bfAssoc, backfilled, bfWalk, bfPut, bfGc, bfSpent, bare, robbed>>

ObDropAgain ==
    /\ bfOb.pc = "mark" /\ bfOb.todo = {}
    /\ DropRows(bfOb.ctx) /\ bfOb' = [bfOb EXCEPT !.pc = "finish"]
    /\ UNCHANGED <<streams, bfRows, bfBlobs, bfState, backfilled, bfWalk, bfGc, bfSpent, robbed>>

ObFinish(p) ==
    /\ bfOb.pc = "finish" /\ p \in bfOb.marks
    /\ bfOb' = [bfOb EXCEPT !.marks = @ \ {p}]
    /\ IF \E a \in bfAssoc : a[2] = p
       THEN bfState' = [bfState EXCEPT ![p] = "stored"] /\ UNCHANGED <<bfBlobs, robbed>>
       ELSE /\ bfState' = [bfState EXCEPT ![p] = "obliterated"] /\ bfBlobs' = bfBlobs \ {p}
            /\ robbed' = robbed \cup {p}
    /\ UNCHANGED <<streams, bfRows, bfAssoc, backfilled, bfWalk, bfPut, bfGc, bfSpent, bare>>

ObReturns ==
    /\ bfOb.pc = "finish" /\ bfOb.marks = {} /\ bfOb' = NoOb
    /\ UNCHANGED <<streams, bfRows, bfBlobs, bfAssoc, bfState, backfilled, bfWalk, bfPut, bfGc, bfSpent, bare, robbed>>

\* liveFromAssociations declines for a domain that is not backfilled.
GcLive_Unmarked == {a[2] : a \in bfAssoc}
GcLive == IF backfilled THEN {a[2] : a \in bfAssoc} ELSE HeldBy(bfRows, BfKey)

GcBegins ==
    /\ bfGc = {} /\ bfGc' = bfBlobs \ (GcLive \cup bfPut.fresh)
    /\ UNCHANGED <<streams, bfRows, bfBlobs, bfAssoc, bfState, backfilled, bfWalk, bfPut, bfOb, bfSpent, bare, robbed>>

\* An unreadable manifest is passed over: its packs are not in the live set.
GcSkips(k) ==
    /\ bfGc = {} /\ ~backfilled /\ ~streams /\ bfRows[k] # {} /\ BfFault
    /\ bfGc' = bfBlobs \ (HeldBy(bfRows, BfKey \ {k}) \cup bfPut.fresh)
    /\ bare' = bare \cup {k} /\ bfPut' = StaysSafe(BfKey \ bare')
    /\ UNCHANGED <<streams, bfRows, bfBlobs, bfAssoc, bfState, backfilled, bfWalk, bfOb, robbed>>

GcSweeps(p) ==
    /\ p \in bfGc /\ bfGc' = bfGc \ {p} /\ bfBlobs' = bfBlobs \ {p}
    /\ UNCHANGED <<streams, bfRows, bfAssoc, bfState, backfilled, bfWalk, bfPut, bfOb, bfSpent, bare, robbed>>

BfNext ==
    \/ WalkBegins \/ FlushBatch \/ MarkBackfilled \/ WalkFails
    \/ \E k \in BfKey : Absorb(k) \/ AbsorbSkips(k) \/ DeleteKey(k) \/ GcSkips(k)
    \/ \E x \in Contexts : ObDrop(x)
    \/ \E k \in BfKey, ps \in SUBSET BfPack \ {{}} : PutPacks(k, ps)
    \/ PutAssociates \/ PutWrites
    \/ \E k, from \in BfKey : RegisterKey(k, from)
    \/ \E p \in BfPack : ObMark(p) \/ ObFinish(p) \/ GcSweeps(p)
    \/ ObDropAgain \/ ObReturns \/ GcBegins

BfSpec == BfInit /\ [][BfNext]_bfVars

----------------------------------------------------------------------------
\* Before, during and after the backfill the collector takes no pack that a
\* manifest references, unless that manifest was skipped, registered, raced
\* with a deletion or had its context reclaimed (liveSet, liveFromAssociations).
CollectorSpares == \A k \in BfKey \ bare : bfRows[k] \subseteq bfBlobs \cup robbed

\* Once the marker is set, every such manifest has all its packs, and each of
\* them is associated: reclaiming another context cannot take it either.
BackfilledKept == backfilled => \A k \in BfKey \ bare : \A p \in bfRows[k] :
    p \in bfBlobs /\ \E x \in {k, OwnerContext[k]} : <<x, p>> \in bfAssoc

\* "so the dangerous state is unreachable": no manifest loses a pack.
\* Refuted (no run checks it): the walk passes over a manifest it cannot read
\* and sets the marker; the collector's own walk passes over one and takes its
\* packs for unreferenced; and ObliterateContext does not ask for the marker.
LegacyKept == \A k \in DOMAIN Legacy : bfRows[k] = Legacy[k] => Legacy[k] \subseteq bfBlobs

\* "a backfilled association must be indistinguishable from one the write path
\* would have recorded".  Refuted (no run checks it): a Put may name its
\* context in a tag, the backfill always takes the owner key.
AsWritten == \A a \in bfAssoc : \E k \in BfKey : a[1] = OwnerContext[k]

\* The backfill of associations beside writers, reclamation and the collector:
\* the packs of a manifest stay, and after the marker they are associated.
BackfillSound == BfTypeOK /\ CollectorSpares /\ BackfilledKept

=============================================================================
