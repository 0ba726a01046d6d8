----------------------------- MODULE DiskCache -----------------------------
(***************************************************************************)
(* mlfs's local disk cache (mlfs/internal/cache): durable write-back       *)
(* staging in front of the chunk store, and an LRU of clean copies.        *)
(*                                                                         *)
(* A slice is its size.  A file is absent ("none"), cut short or rotten    *)
(* ("bad": its checksum fails) or whole ("ok").                            *)
(***************************************************************************)
EXTENDS Naturals, Sequences, FiniteSets, FiniteSetsExt, Functions

CONSTANTS
    Slice,              \* slice ids; a slice's id is also its size in the cache
    Drain,              \* the upload loop and the callers of Flush
    BatchBudget,        \* bytes of a batch before it is flushed
    CacheBytes, CacheItems, \* caps of the clean cache
    MaxBroken, MaxCrash \* bounds: failing calls or rotten files, crashes

ASSUME DiskCacheAssumption ==
    /\ Slice \subseteq Nat \ {0} /\ Drain # {}
    /\ {BatchBudget, CacheBytes, CacheItems, MaxBroken, MaxCrash} \subseteq Nat

VARIABLES
    up,        \* "down", "opening" (New is recovering) or "up"
    staged,    \* staging files
    ghost,     \* staging files whose removal is not on disk yet
    corrupt,   \* quarantined slices
    clean,     \* clean cache files
    lru,       \* clean cache index, most recent first: <<[id, size]>>
    curBytes,  \* its size counter
    back,      \* slices in the backing chunk store
    wr,        \* the writer
    rd,        \* the reader
    drain,     \* drains under way
    flight,    \* batches being uploaded
    broken, dcCrashes,
    acked      \* acknowledged slices

dcVars == <<up, staged, ghost, corrupt, clean, lru, curBytes, back, wr, rd,
            drain, flight, broken, dcCrashes, acked>>
diskVars == <<staged, ghost, corrupt, clean>>
lruVars == <<lru, curBytes>>
envVars == <<up, broken, dcCrashes>>

None == 0
File == {"none", "bad", "ok"}
NoWrite == [pc |-> "idle", id |-> None]
NoRead == [pc |-> "idle", id |-> None, res |-> "none"]
NoDrain == [pc |-> "idle", todo |-> {}, batch |-> <<>>, failed |-> FALSE]
Flight == [by : Drain, pc : {"upload", "fill", "index", "drop"}, ids : Seq(Slice)]

DcTypeOK ==
    /\ up \in {"down", "opening", "up"}
    /\ staged \in [Slice -> File] /\ clean \in [Slice -> File]
    /\ {ghost, corrupt, back, acked} \subseteq SUBSET Slice
    /\ flight \subseteq Flight
    /\ \A d \in Drain : drain[d].todo \subseteq Slice /\ drain[d].batch \in Seq(Slice)

DcInit ==
    /\ up = "up"
    /\ staged = [s \in Slice |-> "none"] /\ clean = [s \in Slice |-> "none"]
    /\ ghost = {} /\ corrupt = {} /\ back = {}
    /\ lru = <<>> /\ curBytes = 0
    /\ wr = NoWrite /\ rd = NoRead
    /\ drain = [d \in Drain |-> NoDrain] /\ flight = {}
    /\ broken = 0 /\ dcCrashes = 0 /\ acked = {}

----------------------------------------------------------------------------
(* The LRU: addLRU and evict run under the mutex.                           *)

Total(q) == FoldFunction(LAMBDA e, t : e.size + t, 0, q)
Ids(q) == {q[i].id : i \in DOMAIN q}

AddLRU(q, id, size) == <<[id |-> id, size |-> size]>> \o SelectSeq(q, LAMBDA e : e.id # id)

\* What the counter becomes: the size of an entry that is replaced goes.
AddedBytes(q, n, id, size) ==
    n + size - FoldFunctionOnSet(LAMBDA e, t : e.size + t, 0, q, {i \in DOMAIN q : q[i].id = id})

\* evict drops from the back until the caps hold and at least `target` bytes
\* are freed: the longest prefix it keeps.
Kept(q, n, target) ==
    LET Freed(k) == Total(SubSeq(q, k + 1, Len(q)))
        Fits(k) == n - Freed(k) <= CacheBytes /\ k <= CacheItems /\ Freed(k) >= target
        ks == {k \in 0 .. Len(q) : Fits(k)}
    IN IF ks = {} THEN 0 ELSE Max(ks)

\* Writers of the clean file of `id`: it is whole when the last one is done,
\* unless it was removed meanwhile (they write on to the unlinked file).
Fillers(id) == Cardinality({f \in flight : f.pc = "index" /\ Head(f.ids) = id})
               + (IF rd.pc = "index" /\ rd.id = id THEN 1 ELSE 0)

\* One locked section that indexes `id` and evicts; freeSpaceEvictBytes finds
\* the file system full enough, or not.
IndexAndEvict(id, size) ==
    LET q == AddLRU(lru, id, size)
        n == AddedBytes(lru, curBytes, id, size)
    IN \E target \in {0, n} :
        LET k == Kept(q, n, target)
            out == Ids(SubSeq(q, k + 1, Len(q)))
        IN /\ lru' = SubSeq(q, 1, k)
           /\ curBytes' = n - Total(SubSeq(q, k + 1, Len(q)))
           /\ clean' = [s \in Slice |-> IF s \in out THEN "none"
                          ELSE IF s = id /\ clean[s] # "none" /\ Fillers(s) = 1
                               THEN "ok" ELSE clean[s]]

Touch(id) ==
    lru' = SelectSeq(lru, LAMBDA e : e.id = id) \o SelectSeq(lru, LAMBDA e : e.id # id)

\* populate truncates the file first: it is short until it is written.
Truncated(id) == clean' = [clean EXCEPT ![id] = "bad"]

Breaks == broken < MaxBroken /\ broken' = broken + 1

----------------------------------------------------------------------------
(* Write: the temporary file is on disk, then renamed, then the directory   *)
(* is synced (which also settles earlier removals) and the caller is        *)
(* answered.                                                                *)

WriteRename(s) ==
    /\ up = "up" /\ wr.pc = "idle" /\ s \notin acked /\ staged[s] = "none"
    /\ wr' = [pc |-> "sync", id |-> s]
    /\ staged' = [staged EXCEPT ![s] = "ok"]
    /\ UNCHANGED <<envVars, ghost, corrupt, clean, lruVars, back, rd, drain, flight, acked>>

WriteAck ==
    /\ wr.pc = "sync"
    /\ wr' = NoWrite
    /\ ghost' = {}
    /\ acked' = acked \cup {wr.id}
    /\ UNCHANGED <<envVars, staged, corrupt, clean, lruVars, back, rd, drain, flight>>

----------------------------------------------------------------------------
(* Read: clean copy, staged copy, backing store.  A slice's id reaches      *)
(* readers through the metadata, after its write is acknowledged.           *)

\* Only a failing read is remembered.
ReadDone(res) == rd' = IF res = "data" THEN NoRead ELSE [rd EXCEPT !.pc = "done", !.res = res]

ReadClean(s) ==
    /\ up = "up" /\ rd.pc \in {"idle", "done"} /\ s \in acked
    /\ IF clean[s] = "ok"
       THEN ReadDone("data") /\ Touch(s)
       ELSE rd' = [pc |-> "staged", id |-> s, res |-> "none"] /\ UNCHANGED lru
    /\ clean' = [clean EXCEPT ![s] = IF @ = "bad" THEN "none" ELSE @]
    /\ UNCHANGED <<envVars, staged, ghost, corrupt, curBytes, back, wr, drain, flight, acked>>

ReadStaged ==
    /\ rd.pc = "staged"
    /\ IF staged[rd.id] = "ok" THEN ReadDone("data")
       ELSE rd' = [rd EXCEPT !.pc = "back", !.res = IF staged[rd.id] = "bad" THEN "rot" ELSE @]
    /\ UNCHANGED <<envVars, diskVars, lruVars, back, wr, drain, flight, acked>>

\* A miss is fetched and its clean file begun; or the slice is not there.
ReadBacking ==
    /\ rd.pc = "back"
    /\ IF rd.id \in back
       THEN rd' = [rd EXCEPT !.pc = "index"] /\ Truncated(rd.id)
       ELSE ReadDone(IF rd.res = "rot" THEN "rot" ELSE "missing") /\ UNCHANGED clean
    /\ UNCHANGED <<envVars, staged, ghost, corrupt, lruVars, back, wr, drain, flight, acked>>

ReadIndex ==
    /\ rd.pc = "index"
    /\ ReadDone("data")
    /\ IndexAndEvict(rd.id, rd.id)
    /\ UNCHANGED <<envVars, staged, ghost, corrupt, back, wr, drain, flight, acked>>

----------------------------------------------------------------------------
(* drainBatched: list the directory, read each entry into a batch, hand     *)
(* full batches to the upload pool.                                         *)

StartDrain(d) ==
    /\ up = "up" /\ drain[d].pc = "idle"
    /\ \E s \in Slice : staged[s] # "none"
    /\ drain' = [drain EXCEPT ![d] = [NoDrain EXCEPT !.pc = "read",
                     !.todo = {s \in Slice : staged[s] # "none"}]]
    /\ UNCHANGED <<envVars, diskVars, lruVars, back, wr, rd, flight, acked>>

Launch(d, ids) == flight' = flight \cup {[by |-> d, pc |-> "upload", ids |-> ids]}

BatchBytes(ids) == FoldFunction(LAMBDA s, t : s + t, 0, ids)

\* The next entry, in directory order; a rotten one is quarantined, or the
\* drain gives up when it cannot be.
DrainEntry(d) ==
    LET s == Min(drain[d].todo)
        ids == Append(drain[d].batch, s)
        Next1(batch) == drain' = [drain EXCEPT ![d].todo = @ \ {s}, ![d].batch = batch]
    IN /\ drain[d].pc = "read" /\ drain[d].todo # {}
       /\ \/ /\ staged[s] = "none" /\ Next1(drain[d].batch)
             /\ UNCHANGED <<staged, corrupt, flight, broken>>
          \/ /\ staged[s] = "bad" /\ Next1(drain[d].batch)
             /\ staged' = [staged EXCEPT ![s] = "none"]
             /\ corrupt' = corrupt \cup {s}
             /\ UNCHANGED <<flight, broken>>
          \/ /\ staged[s] = "bad" /\ Breaks
             /\ drain' = [drain EXCEPT ![d] = [@ EXCEPT !.pc = "wait", !.batch = <<>>,
                              !.failed = TRUE]]
             /\ UNCHANGED <<staged, corrupt, flight>>
          \/ /\ staged[s] = "ok" /\ BatchBytes(ids) < BatchBudget /\ Next1(ids)
             /\ UNCHANGED <<staged, corrupt, flight, broken>>
          \/ /\ staged[s] = "ok" /\ BatchBytes(ids) >= BatchBudget /\ Next1(<<>>)
             /\ Launch(d, ids)
             /\ UNCHANGED <<staged, corrupt, broken>>
       /\ UNCHANGED <<up, dcCrashes, ghost, clean, lruVars, back, wr, rd, acked>>

\* Mutant: the last, partial batch is not uploaded.
DrainRest_Forgets(d) ==
    /\ drain[d].pc = "read" /\ drain[d].todo = {}
    /\ drain' = [drain EXCEPT ![d].pc = "wait", ![d].batch = <<>>]
    /\ UNCHANGED <<envVars, diskVars, lruVars, back, wr, rd, flight, acked>>

DrainRest(d) ==
    /\ drain[d].pc = "read" /\ drain[d].todo = {}
    /\ drain' = [drain EXCEPT ![d].pc = "wait", ![d].batch = <<>>]
    /\ IF drain[d].batch = <<>> THEN UNCHANGED flight ELSE Launch(d, drain[d].batch)
    /\ UNCHANGED <<envVars, diskVars, lruVars, back, wr, rd, acked>>

\* wg.Wait: New fails if its recovery drain did.
DrainDone(d) ==
    /\ drain[d].pc = "wait" /\ \A f \in flight : f.by # d
    /\ drain' = [drain EXCEPT ![d] = NoDrain]
    /\ up' = IF up # "opening" THEN up ELSE IF drain[d].failed THEN "down" ELSE "up"
    /\ UNCHANGED <<broken, dcCrashes, diskVars, lruVars, back, wr, rd, flight, acked>>

----------------------------------------------------------------------------
(* A batch in flight: one packed write, then each slice is promoted to the  *)
(* clean cache and its staging file dropped.                                *)

Advance(f, g) == flight' = (flight \ {f}) \cup {g}

\* Mutant: a failing upload is promoted all the same.
Upload_IgnoreError(f) ==
    /\ f.pc = "upload"
    /\ \/ back' = back \cup Range(f.ids) /\ UNCHANGED broken
       \/ Breaks /\ UNCHANGED back
    /\ Advance(f, [f EXCEPT !.pc = "fill"])
    /\ UNCHANGED <<up, dcCrashes, diskVars, lruVars, wr, rd, drain, acked>>

Upload(f) ==
    /\ f.pc = "upload"
    /\ \/ /\ back' = back \cup Range(f.ids)
          /\ Advance(f, [f EXCEPT !.pc = "fill"])
          /\ UNCHANGED <<drain, broken>>
       \/ /\ Breaks
          /\ \E part \in SUBSET Range(f.ids) : back' = back \cup part
          /\ flight' = flight \ {f}
          /\ drain' = [drain EXCEPT ![f.by].failed = TRUE]
    /\ UNCHANGED <<up, dcCrashes, diskVars, lruVars, wr, rd, acked>>

\* populate; its error is ignored.
Fill(f) ==
    /\ f.pc = "fill"
    /\ Truncated(Head(f.ids))
    /\ \/ Advance(f, [f EXCEPT !.pc = "index"]) /\ UNCHANGED broken
       \/ Advance(f, [f EXCEPT !.pc = "drop"]) /\ Breaks
    /\ UNCHANGED <<up, dcCrashes, staged, ghost, corrupt, lruVars, back, wr, rd, drain, acked>>

Index(f) ==
    /\ f.pc = "index"
    /\ Advance(f, [f EXCEPT !.pc = "drop"])
    /\ IndexAndEvict(Head(f.ids), Head(f.ids))
    /\ UNCHANGED <<envVars, staged, ghost, corrupt, back, wr, rd, drain, acked>>

Drop(f) ==
    LET s == Head(f.ids)
    IN /\ f.pc = "drop"
       /\ staged' = [staged EXCEPT ![s] = "none"]
       /\ ghost' = IF staged[s] = "none" THEN ghost ELSE ghost \cup {s}
       /\ IF Len(f.ids) = 1 THEN flight' = flight \ {f}
          ELSE Advance(f, [f EXCEPT !.pc = "fill", !.ids = Tail(@)])
       /\ UNCHANGED <<envVars, corrupt, clean, lruVars, back, wr, rd, drain, acked>>

----------------------------------------------------------------------------
(* The disk, the process.                                                   *)

\* A file's bytes go bad.
Rot ==
    /\ Breaks
    /\ \E s \in Slice :
          \/ staged[s] = "ok" /\ staged' = [staged EXCEPT ![s] = "bad"] /\ UNCHANGED clean
          \/ clean[s] = "ok" /\ clean' = [clean EXCEPT ![s] = "bad"] /\ UNCHANGED staged
    /\ UNCHANGED <<up, dcCrashes, ghost, corrupt, lruVars, back, wr, rd, drain, flight, acked>>

\* kill -9 or power loss: a rename that was not synced may be undone, and so
\* may removals.
DcCrash ==
    /\ up # "down" /\ dcCrashes < MaxCrash /\ dcCrashes' = dcCrashes + 1
    /\ up' = "down"
    /\ \E again \in SUBSET ghost, lost \in SUBSET {wr.id} :
          staged' = [s \in Slice |-> IF s \in again THEN "ok"
                       ELSE IF s \in lost THEN "none" ELSE staged[s]]
    /\ ghost' = {}
    /\ lru' = <<>> /\ curBytes' = 0
    /\ wr' = NoWrite /\ rd' = NoRead
    /\ drain' = [d \in Drain |-> NoDrain] /\ flight' = {}
    /\ UNCHANGED <<broken, corrupt, clean, back, acked>>

\* New: scanCache indexes the files it finds, in name order, evicts, and a
\* drain recovers the staging directory.
Scanned ==
    LET files == {s \in Slice : clean[s] # "none"}
        found == [i \in 1 .. Cardinality(files) |->
                    CHOOSE s \in files : Cardinality({r \in files : r > s}) = i - 1]
    IN [i \in DOMAIN found |->
          [id |-> found[i], size |-> IF clean[found[i]] = "ok" THEN found[i] ELSE found[i] - 1]]

Restart ==
    /\ up = "down"
    /\ up' = "opening"
    /\ LET k == Kept(Scanned, Total(Scanned), 0)
       IN /\ lru' = SubSeq(Scanned, 1, k)
          /\ curBytes' = Total(SubSeq(Scanned, 1, k))
          /\ clean' = [s \in Slice |-> IF s \in Ids(SubSeq(Scanned, 1, k)) THEN clean[s]
                                        ELSE "none"]
    /\ \E d \in Drain : drain' = [drain EXCEPT ![d] = [NoDrain EXCEPT !.pc = "read",
                     !.todo = {s \in Slice : staged[s] # "none"}]]
    /\ UNCHANGED <<broken, dcCrashes, staged, ghost, corrupt, back, wr, rd, flight, acked>>

\* What the scheduler keeps running: the upload loop's ticker starts a drain
\* again and again, its goroutines run.
DrainRuns(d) == StartDrain(d) \/ DrainEntry(d) \/ DrainRest(d) \/ DrainDone(d)
FlightRuns == \E f \in flight : Upload(f) \/ Fill(f) \/ Index(f) \/ Drop(f)

DcNext ==
    \/ \E s \in Slice : WriteRename(s) \/ ReadClean(s)
    \/ WriteAck \/ ReadStaged \/ ReadBacking \/ ReadIndex
    \/ \E d \in Drain : DrainRuns(d)
    \/ FlightRuns
    \/ Rot \/ DcCrash \/ Restart

DcSpec == DcInit /\ [][DcNext]_dcVars

----------------------------------------------------------------------------
\* An acknowledged write has a durable copy at every
\* moment - staged, uploaded or quarantined - whatever crash, failing upload
\* or concurrent drain comes between the steps of drainBatched.
AckedDurable == \A s \in acked : staged[s] # "none" \/ s \in back \/ s \in corrupt

\* A read of an acknowledged slice finds it while drains move it from staging
\* to the backing store, unless its staged bytes rotted (Read's three lookups).
ReadFindsAcked ==
    rd.pc = "done" /\ rd.res = "missing" => rd.id \in corrupt

\* The size counter is the sum of the indexed sizes, no slice is indexed twice
\* and the caps hold after every locked section (addLRU, evict).
LruExact ==
    /\ lru \in Seq([id : Slice, size : Nat])
    /\ curBytes = Total(lru) /\ curBytes <= CacheBytes /\ Len(lru) <= CacheItems
    /\ Cardinality(Ids(lru)) = Len(lru)

\* Every whole clean file is indexed once nobody is writing it, so eviction
\* bounds the directory (populate, evict and readLocal race on it).
CleanIndexed ==
    up = "up" => \A s \in Slice : clean[s] = "ok" => s \in Ids(lru) \/ Fillers(s) > 0

\* What is staged reaches the backing store or the quarantine.
StagedDrains == \A s \in Slice : staged[s] # "none" /\ s \in acked ~> staged[s] = "none"

\* The write-back cache: no acknowledged slice is without a copy or missed by a
\* read (cache.go).
CacheSound == DcTypeOK /\ AckedDurable /\ ReadFindsAcked

=============================================================================
