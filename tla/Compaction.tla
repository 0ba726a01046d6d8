----------------------------- MODULE Compaction -----------------------------
(***************************************************************************)
(* Pack compaction (ChunkedStore.Compact) beside Puts, deletions and a     *)
(* sweep of the same domain.  The runner of one replica compacts and then  *)
(* sweeps; the two run side by side when a deposed leader finishes a pass  *)
(* while its successor starts one.                                         *)
(*                                                                         *)
(* One codec; the fill ratio and size thresholds are any choice of aged,   *)
(* referenced packs.                                                       *)
(***************************************************************************)
EXTENDS SweepGC, TLC

VARIABLES
    kpc, kbusy,   \* control point of the pass, time since it started
    ksel,         \* selected (candidate) packs
    knew,         \* consolidated packs still to write
    kloc,         \* relocate: chunk -> consolidated pack
    kkeys, kcur,  \* keys still to rewrite, the manifest being rewritten
    kmade, kracy, \* packs the pass created; history: it relied on an orphan
    superseded    \* versions that are not the latest of their key

compactVars == <<kpc, kbusy, ksel, knew, kloc, kkeys, kcur, kmade, kracy, superseded>>
cvars == <<vars, compactVars>>

NoLoc == [c \in Chunk |-> NoPack]
NoManifest == [ctx |-> NoContext, refs |-> NoLoc, own |-> FALSE]

CTypeOK ==
    /\ TypeOK
    /\ kpc \in {"idle", "write", "purge", "record", "keys", "put", "drop"}
    /\ kbusy \in 0 .. MaxPut
    /\ ksel \subseteq Pack /\ knew \subseteq Pack /\ kmade \subseteq Pack
    /\ kloc \in [Chunk -> Loc]
    /\ kkeys \subseteq Context
    /\ kcur # NoManifest <=> kpc \in {"put", "drop"}
    /\ kracy \in BOOLEAN
    /\ superseded \subseteq manifests

CInit ==
    /\ Init
    /\ kpc = "idle" /\ kbusy = 0 /\ ksel = {} /\ knew = {} /\ kloc = NoLoc
    /\ kkeys = {} /\ kcur = NoManifest /\ kmade = {} /\ kracy = FALSE
    /\ superseded = {}

----------------------------------------------------------------------------
KReturns ==
    /\ kpc' = "idle" /\ kbusy' = 0 /\ ksel' = {} /\ knew' = {} /\ kloc' = NoLoc
    /\ kkeys' = {} /\ kcur' = NoManifest /\ kmade' = {} /\ kracy' = FALSE

Latest == manifests \ superseded

\* Ways to cut the live chunks into packs of the target size, the last one smaller.
Consolidations(live) ==
    {S \in SUBSET Pack :
        /\ UNION S = live
        /\ \A p, q \in S : p # q => p \cap q = {}
        /\ \A p \in S : Cardinality(p) <= PackTarget
        /\ \A p, q \in S : p # q => Cardinality(p) = PackTarget \/ Cardinality(q) = PackTarget}

\* Steps 1 to 4: inventory, walk of the latest manifests, choice of candidates that
\* are older than the window, and the check that the pack count goes down.
LiveIn(p) == {c \in Chunk : \E m \in Latest : m.refs[c] = p}
Budget(sel) == Cardinality({e \in sel \X Chunk : e[2] \in LiveIn(e[1])})

KSelects(sel) ==
    LET live == UNION {LiveIn(p) : p \in sel}
    IN  /\ kpc = "idle"
        /\ \A p \in sel : age[p] >= Window /\ LiveIn(p) # {}
        /\ Cardinality(sel) >= 2
        /\ Budget(sel) <= (Cardinality(sel) - 1) * PackTarget
        /\ \E S \in Consolidations(live) :
            /\ knew' = S
            /\ kloc' = [c \in Chunk |-> IF c \in live THEN CHOOSE p \in S : c \in p ELSE NoPack]
        /\ ksel' = sel
        /\ kkeys' = {m.ctx : m \in {n \in Latest : PacksOf(n.refs) \cap sel # {}}}
        /\ kpc' = "write"
        /\ UNCHANGED <<kbusy, kcur, kmade, kracy, superseded, vars>>

\* Step 5: fetch the candidates and write the consolidated packs.
KWrites(p) ==
    /\ kpc = "write" /\ p \in knew /\ ksel \subseteq blobs
    /\ blobs' = blobs \union {p}
    /\ IF p \in blobs
       THEN kracy' = (kracy \/ p \notin Pinned) /\ UNCHANGED <<age, kmade>>
       ELSE /\ age' = [age EXCEPT ![p] = 0]
            /\ kmade' = kmade \union {p}
            /\ UNCHANGED kracy
    /\ knew' = knew \ {p}
    /\ kpc' = IF knew = {p} THEN "purge" ELSE "write"
    /\ UNCHANGED <<kbusy, ksel, kloc, kkeys, kcur, superseded, index, pstate, assoc, manifests,
                   writerVars, faults, busy, made, racy, sweepVars, bridgeVars>>

\* fetchPackRaw fails on a candidate that was collected meanwhile.
KFetchFails ==
    /\ kpc = "write" /\ ~(ksel \subseteq blobs)
    /\ KReturns
    /\ UNCHANGED <<superseded, vars>>

\* Step 6: Repoint, as a purge and a record.
KPurges ==
    /\ kpc = "purge"
    /\ index' = [c \in Chunk |-> IF index[c] \in ksel THEN NoPack ELSE index[c]]
    /\ kpc' = "record"
    /\ UNCHANGED <<kbusy, ksel, knew, kloc, kkeys, kcur, kmade, kracy, superseded, blobs, pstate,
                   assoc, manifests, writerVars, faults, timeVars, sweepVars, bridgeVars>>

KRecords ==
    /\ kpc = "record"
    /\ index' = [c \in Chunk |-> IF index[c] = NoPack THEN kloc[c] ELSE index[c]]
    /\ kpc' = "keys"
    /\ UNCHANGED <<kbusy, ksel, knew, kloc, kkeys, kcur, kmade, kracy, superseded, blobs, pstate,
                   assoc, manifests, writerVars, faults, timeVars, sweepVars, bridgeVars>>

\* Step 7, rewriteSelectedRefs: only a key with one version, and only if it still
\* references a candidate; a chunk without a new place fails the whole pass.  (A
\* consolidated pack may be one of the candidates: putting the same manifest again
\* and deleting the first copy is no change here.)
Versions(x) == {m \in manifests : m.ctx = x}
Relocated(m) == [c \in Chunk |-> IF m.refs[c] \in ksel THEN kloc[c] ELSE m.refs[c]]

MayRewrite(x) == Cardinality(Versions(x)) = 1

KReads(x) ==
    /\ kpc = "keys" /\ x \in kkeys
    /\ \/ /\ ~MayRewrite(x) \/ \A m \in Versions(x) : Relocated(m) = m.refs
          /\ kkeys' = kkeys \ {x}
          /\ UNCHANGED <<kpc, kbusy, ksel, knew, kloc, kcur, kmade, kracy>>
       \/ /\ MayRewrite(x)
          /\ \E m \in Versions(x) \ superseded :
                /\ Relocated(m) # m.refs
                /\ IF \E c \in Chunk : m.refs[c] \in ksel /\ kloc[c] = NoPack
                   THEN KReturns
                   ELSE /\ kcur' = m /\ kpc' = "put" /\ kkeys' = kkeys \ {x}
                        /\ UNCHANGED <<kbusy, ksel, knew, kloc, kmade, kracy>>
    /\ UNCHANGED <<superseded, vars>>

\* The rewritten manifest is put as a new version, then the old one is deleted.
KPuts_OldDropped ==
    /\ kpc = "put"
    /\ manifests' = manifests \ {kcur}
    /\ kpc' = "drop"
    /\ UNCHANGED <<kbusy, ksel, knew, kloc, kkeys, kcur, kmade, kracy, superseded, blobs, index, pstate,
                   assoc, writerVars, faults, timeVars, sweepVars, bridgeVars>>

KPuts ==
    /\ kpc = "put"
    /\ manifests' = manifests \union {[kcur EXCEPT !.refs = Relocated(kcur)]}
    /\ superseded' = superseded \union ({kcur} \cap manifests)
    /\ racy' = IF kracy \/ kcur \notin manifests THEN racy \union {kcur.ctx} ELSE racy
    /\ kpc' = "drop"
    /\ UNCHANGED <<kbusy, ksel, knew, kloc, kkeys, kcur, kmade, kracy, blobs, index, pstate, assoc,
                   writerVars, faults, age, busy, made, sweepVars, bridgeVars>>

KDrops ==
    /\ kpc = "drop"
    /\ manifests' = manifests \ {kcur}
    /\ superseded' = superseded \ {kcur}
    /\ racy' = racy \union Exposed(UNION {PacksOf(m.refs) :
                                 m \in {n \in manifests \ {kcur} : n.ctx \notin racy}})
    /\ kcur' = NoManifest
    /\ kpc' = "keys"
    /\ UNCHANGED <<kbusy, ksel, knew, kloc, kkeys, kmade, kracy, blobs, index, pstate, assoc,
                   writerVars, faults, age, busy, made, sweepVars, bridgeVars>>

KEnds ==
    /\ kpc = "keys" /\ kkeys = {}
    /\ KReturns
    /\ UNCHANGED <<superseded, vars>>

KDies ==
    /\ kpc # "idle"
    /\ faults < MaxFaults
    /\ faults' = faults + 1
    /\ KReturns
    /\ UNCHANGED <<superseded, storeVars, writerVars, timeVars, sweepVars, bridgeVars>>

KStep ==
    \/ \E sel \in SUBSET blobs : KSelects(sel)
    \/ \E p \in Pack : KWrites(p)
    \/ KFetchFails \/ KPurges \/ KRecords
    \/ \E x \in Context : KReads(x)
    \/ KPuts \/ KDrops \/ KEnds

----------------------------------------------------------------------------
Keys == {m.ctx : m \in manifests}

\* A deletion may also orphan a pack the compaction reused.
CKeyDeleted(x) ==
    /\ KeyDeleted(x)
    /\ superseded' = {m \in superseded : m.ctx # x}
    /\ kracy' = (kracy \/ (PacksOf(kloc) \cap blobs) \ (kmade \union knew \union PinnedWithout(x)) # {})
    /\ UNCHANGED <<kpc, kbusy, ksel, knew, kloc, kkeys, kcur, kmade>>

\* Keys are written once: nobody puts the key that is being rewritten.
CPutActs(w) ==
    /\ PutActs(w)
    /\ kcur = NoManifest \/ wctx'[w] # kcur.ctx
    /\ UNCHANGED compactVars

CTick ==
    /\ kpc # "idle" => kbusy < MaxPut
    /\ Tick
    /\ kbusy' = IF kpc = "idle" THEN 0 ELSE kbusy + 1
    /\ UNCHANGED <<kpc, ksel, knew, kloc, kkeys, kcur, kmade, kracy, superseded>>

CNext ==
    \/ \E w \in Writer : CPutActs(w)
    \/ \E x \in Context : CKeyDeleted(x)
    \/ (GCStep \/ GCSkips \/ GCDies) /\ UNCHANGED compactVars
    \/ CTick
    \/ KStep \/ KDies

CSpec == CInit /\ [][CNext]_cvars

\* No key is deleted (and, with MaxFaults = 0, nothing fails).
CKeptSpec == CInit /\ [][CNext /\ Keys \subseteq Keys']_cvars

----------------------------------------------------------------------------
\* A compaction never costs a key its last version, whatever happens to the key and
\* wherever the pass stops: its own steps only ever replace a version by another.
KeysSurvive == [][kpc' # kpc => Keys \subseteq Keys']_cvars

\* Compaction leaves alone what is younger than the window so as not to "race a fresh
\* write": if no key is deleted and nothing fails, no object loses its bytes.
\* Refuted (no run checks it): a Put that deduplicated into a candidate pack
\* writes its manifest after the keys were listed.
ObjectsReadable == \A m \in manifests : PacksOf(m.refs) \subseteq blobs

\* The same beside a compaction: moving chunks to other packs and rewriting
\* manifests costs no covered object its bytes (CompactOnce).
CompactionSpares == CTypeOK /\ CoveredReadable

\* The contexts are interchangeable.
Symmetry == Permutations(Context)

=============================================================================
