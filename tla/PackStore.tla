----------------------------- MODULE PackStore -----------------------------
(***************************************************************************)
(* The content-addressed pack store of casstore and its writers.           *)
(*                                                                         *)
(* State: the pack blobs of one dedup domain, the dedup index (chunk ->    *)
(* pack), the reclamation state and the owner associations of the packs,   *)
(* and the manifests.  A writer runs ChunkedStore.putV2: it looks every    *)
(* chunk up, packs the misses, uploads the packs, commits the index,       *)
(* associates the packs with its owner context and writes the manifest.    *)
(*                                                                         *)
(* A pack is identified by the hash of its bytes, so here a pack IS the    *)
(* set of the chunks in it: two writers that pack the same chunks produce  *)
(* the same blob, and the pack of a single chunk has that chunk's hash.    *)
(***************************************************************************)
EXTENDS Naturals, FiniteSets

CONSTANTS
    Chunk,       \* chunk hashes
    Context,     \* owner contexts (a slice key, a blob ref)
    Writer,      \* concurrent Put calls
    NoContext,   \* the context of a call that is not running
    PackTarget,  \* packTargetBytes, in chunks
    MaxFaults,   \* bound on injected failures (cancelled calls, store errors)
    Objects,     \* the objects written: non-empty sets of chunks
    MaxPuts      \* bound on the number of Puts started

ASSUME BoundsAssumption ==
    PackTarget \in Nat \ {0} /\ MaxFaults \in Nat /\ MaxPuts \in Nat
ASSUME ObjectsAssumption == Objects \subseteq (SUBSET Chunk) \ {{}}
ASSUME ContextAssumption == NoContext \notin Context

Pack == (SUBSET Chunk) \ {{}}

\* A blank PackHash: the chunk has no location (yet).
NoPack == {}
Loc == Pack \union {NoPack}

PackState == {"stored", "obliterating", "obliterated"}

VARIABLES
    blobs,      \* the packs present in the object store
    index,      \* DedupStore: chunk -> pack, NoPack when absent
    pstate,     \* lifecycle state; a pack with no row is "stored"
    assoc,      \* set of <<context, pack>>
    manifests,  \* committed manifests; own: no DropContext of ctx since Associate
    wpc, wctx,  \* control point and owner context of each writer
    todo,       \* chunks of the object not yet emitted
    buf,        \* packBuf: chunks waiting for a flush
    refs,       \* the manifest under construction: chunk -> pack
    packed,     \* packs this session uploaded (its pending index entries)
    own,        \* history: the associations just made were not dropped since
    puts,       \* Puts started so far
    faults      \* failures injected so far

storeVars == <<blobs, index, pstate, assoc, manifests>>
writerVars == <<wpc, wctx, todo, buf, refs, packed, own, puts>>

PacksOf(f) == {f[c] : c \in Chunk} \ {NoPack}

Associated(p) == \E x \in Context : <<x, p>> \in assoc

PSTypeOK ==
    /\ blobs \subseteq Pack
    /\ index \in [Chunk -> Loc]
    /\ pstate \in [Pack -> PackState]
    /\ assoc \subseteq Context \X Pack
    /\ manifests \subseteq [ctx : Context, refs : [Chunk -> Loc], own : BOOLEAN]
    /\ wpc \in [Writer -> {"idle", "emit", "associate", "insert", "manifest", "refused"}]
    /\ wctx \in [Writer -> Context \union {NoContext}]
    /\ todo \in [Writer -> SUBSET Chunk]
    /\ buf \in [Writer -> SUBSET Chunk]
    /\ refs \in [Writer -> [Chunk -> Loc]]
    /\ packed \in [Writer -> SUBSET Pack]
    /\ own \in [Writer -> BOOLEAN]
    /\ puts \in 0 .. MaxPuts
    /\ faults \in 0 .. MaxFaults

PSInit ==
    /\ blobs = {} /\ assoc = {} /\ manifests = {}
    /\ index = [c \in Chunk |-> NoPack]
    /\ pstate = [p \in Pack |-> "stored"]
    /\ wpc = [w \in Writer |-> "idle"]
    /\ wctx = [w \in Writer |-> NoContext]
    /\ todo = [w \in Writer |-> {}]
    /\ buf = [w \in Writer |-> {}]
    /\ refs = [w \in Writer |-> [c \in Chunk |-> NoPack]]
    /\ packed = [w \in Writer |-> {}]
    /\ own = [w \in Writer |-> FALSE]
    /\ puts = 0 /\ faults = 0

----------------------------------------------------------------------------
(* The Put of one object.                                                   *)

\* The call's locals are gone.
PutReturns(w) ==
    /\ wpc' = [wpc EXCEPT ![w] = "idle"]
    /\ wctx' = [wctx EXCEPT ![w] = NoContext]
    /\ todo' = [todo EXCEPT ![w] = {}]
    /\ buf' = [buf EXCEPT ![w] = {}]
    /\ refs' = [refs EXCEPT ![w] = [c \in Chunk |-> NoPack]]
    /\ packed' = [packed EXCEPT ![w] = {}]
    /\ own' = [own EXCEPT ![w] = FALSE]

\* putV2 is called: a session is opened on the object's chunks.
Begin(w, x, obj) ==
    /\ wpc[w] = "idle"
    /\ puts < MaxPuts
    /\ puts' = puts + 1
    /\ wpc' = [wpc EXCEPT ![w] = "emit"]
    /\ wctx' = [wctx EXCEPT ![w] = x]
    /\ todo' = [todo EXCEPT ![w] = obj]
    /\ UNCHANGED <<storeVars, buf, refs, packed, own, faults>>

\* Lookup hides a pack that is not stored; emitChunk also takes a location in
\* the pack of that single chunk for a miss (ref.PackHash != hash).
LookupHit(c) ==
    /\ index[c] # NoPack
    /\ pstate[index[c]] = "stored"
    /\ index[c] # {c}

\* emitChunk: reuse the known location, or buffer the chunk for the next pack.
Emit(w, c) ==
    /\ wpc[w] = "emit"
    /\ c \in todo[w]
    /\ Cardinality(buf[w]) < PackTarget
    /\ todo' = [todo EXCEPT ![w] = @ \ {c}]
    /\ IF LookupHit(c)
       THEN /\ refs' = [refs EXCEPT ![w][c] = index[c]]
            /\ UNCHANGED buf
       ELSE /\ buf' = [buf EXCEPT ![w] = @ \union {c}]
            /\ UNCHANGED refs
    /\ UNCHANGED <<storeVars, wpc, wctx, packed, own, puts, faults>>

\* flushPack: PutIfAbsent (a no-op on an existing blob), then back-fill the refs.
FlushDue(w) == buf[w] # {} /\ (Cardinality(buf[w]) >= PackTarget \/ todo[w] = {})

Flush(w) ==
    /\ wpc[w] = "emit"
    /\ FlushDue(w)
    /\ blobs' = blobs \union {buf[w]}
    /\ refs' = [refs EXCEPT ![w] = [c \in Chunk |-> IF c \in buf[w] THEN buf[w] ELSE @[c]]]
    /\ packed' = [packed EXCEPT ![w] = @ \union {buf[w]}]
    /\ buf' = [buf EXCEPT ![w] = {}]
    /\ UNCHANGED <<index, pstate, assoc, manifests, wpc, wctx, todo, own, puts, faults>>

\* The stream is exhausted and the last pack uploaded: sess.Commit ->
\* DedupStore.Record, where the first writer of a chunk wins.
Record(w) ==
    /\ wpc[w] = "emit"
    /\ todo[w] = {} /\ buf[w] = {}
    /\ index' = [c \in Chunk |-> IF index[c] = NoPack /\ c \in UNION packed[w]
                                 THEN refs[w][c] ELSE index[c]]
    /\ wpc' = [wpc EXCEPT ![w] = "associate"]
    /\ UNCHANGED <<blobs, pstate, assoc, manifests, wctx, todo, buf, refs, packed, own, puts, faults>>

\* Associate refuses the whole batch when one pack is not stored.
MayAssociate_Unchecked(w) == TRUE
MayAssociate(w) == \A p \in PacksOf(refs[w]) : pstate[p] = "stored"

Associate(w) ==
    /\ wpc[w] = "associate"
    /\ IF MayAssociate(w)
       THEN /\ assoc' = assoc \union ({wctx[w]} \X PacksOf(refs[w]))
            /\ wpc' = [wpc EXCEPT ![w] = "manifest"]
            /\ own' = [own EXCEPT ![w] = TRUE]
       ELSE /\ wpc' = [wpc EXCEPT ![w] = "refused"]
            /\ UNCHANGED <<assoc, own>>
    /\ UNCHANGED <<blobs, index, pstate, manifests, wctx, todo, buf, refs, packed, puts, faults>>

\* writeManifest: the object becomes visible.
WriteManifest(w) ==
    /\ wpc[w] = "manifest"
    /\ manifests' = manifests \union {[ctx |-> wctx[w], refs |-> refs[w], own |-> own[w]]}
    /\ PutReturns(w)
    /\ UNCHANGED <<blobs, index, pstate, assoc, puts, faults>>

\* The caller of a refused Put (ErrPackObliterating) retries the same object.
Retry(w) ==
    /\ wpc[w] = "refused"
    /\ wpc' = [wpc EXCEPT ![w] = "emit"]
    /\ todo' = [todo EXCEPT ![w] = {c \in Chunk : refs[w][c] # NoPack}]
    /\ refs' = [refs EXCEPT ![w] = [c \in Chunk |-> NoPack]]
    /\ packed' = [packed EXCEPT ![w] = {}]
    /\ UNCHANGED <<storeVars, wctx, buf, own, puts, faults>>

\* Any step of a Put may return an error or be cancelled: what it uploaded,
\* recorded and associated stays behind, and no manifest is written.
PutFails(w) ==
    /\ wpc[w] # "idle"
    /\ faults < MaxFaults
    /\ faults' = faults + 1
    /\ PutReturns(w)
    /\ UNCHANGED <<storeVars, puts>>

PutStep(w) ==
    \/ \E c \in Chunk : Emit(w, c)
    \/ Flush(w) \/ Record(w)
    \/ Associate(w) \/ WriteManifest(w) \/ Retry(w)

\* ChunkedStore.Delete: the manifest goes, its packs and associations stay.
DeleteManifest(m) ==
    /\ m \in manifests
    /\ manifests' = manifests \ {m}
    /\ UNCHANGED <<blobs, index, pstate, assoc, writerVars, faults>>

============================================================================
