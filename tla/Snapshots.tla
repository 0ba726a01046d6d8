------------------------------ MODULE Snapshots -----------------------------
(***************************************************************************)
(* Snapshot stores, and the local cache in front of one.                   *)
(***************************************************************************)
EXTENDS Naturals, Sequences, FiniteSets, SequencesExt

-----------------------------------------------------------------------------
(***************************************************************************)
(* One snapshot key in LocalStore or S3Store (store_local.go, store_s3.go),*)
(* with the checkpoint pipe and the prune helpers (checkpoint.go) and the  *)
(* version names of NewVersion (version.go).  A snapshot is a blob and,    *)
(* written after it, its metadata; any step may be a process's last.       *)
(***************************************************************************)

CONSTANTS
    SnClient, SnBackend,
    Stamp       \* the fraction digits of the clock at successive Puts

ASSUME SnapStoreAssumption ==
    /\ SnBackend \subseteq {"local", "s3"}
    /\ \A i \in DOMAIN Stamp : Stamp[i] \in Seq(0 .. 9) /\ Len(Stamp[i]) = Len(Stamp[1])

SnVersion == DOMAIN Stamp

VARIABLES
    snBackend,
    puts,     \* Puts begun: their versions are 1 .. puts
    dir,      \* LocalStore: version directories
    blob,     \* versions whose blob is in place
    meta,     \* metadata of a version: "none", "torn" or "whole"
    cl,       \* the clients: [pc, v, todo, known, got]
    \* History.
    stored,   \* Puts acknowledged
    gone,     \* versions some Delete, or the clean-up of a Put, has touched
    hollow    \* a failed Put left metadata without a blob

snVars == <<snBackend, puts, dir, blob, meta, cl, stored, gone, hollow>>

Idle == [pc |-> "idle", v |-> 0, todo |-> {}, known |-> {}, got |-> 0]

SnTypeOK ==
    /\ puts \in 0 .. Len(Stamp)
    /\ {dir, blob, stored, gone} \subseteq SUBSET (1 .. puts)
    /\ meta \in [SnVersion -> {"none", "torn", "whole"}]
    /\ \A c \in SnClient : cl[c].v \in 0 .. puts /\ cl[c].todo \subseteq 1 .. puts

SnInit ==
    /\ snBackend \in SnBackend /\ puts = 0
    /\ dir = {} /\ blob = {} /\ meta = [v \in SnVersion |-> "none"]
    /\ cl = [c \in SnClient |-> Idle] /\ stored = {} /\ gone = {} /\ hollow = FALSE

----------------------------------------------------------------------------
\* RFC3339Nano drops the zeros at the end of the fraction; the zone's "Z" is
\* greater than every digit, the "." of a fraction is smaller.
Zone == 10
Trimmed(f) == SubSeq(f, 1, CHOOSE n \in 0 .. Len(f) :
    /\ n = 0 \/ f[n] # 0
    /\ \A i \in n + 1 .. Len(f) : f[i] = 0)
NewVersion(v) == Append(Trimmed(Stamp[v]), Zone)

Before(a, b) == \E i \in 1 .. Len(a) :
    /\ i <= Len(b) /\ a[i] < b[i]
    /\ \A j \in 1 .. i - 1 : a[j] = b[j]
Newer(v, w) == Before(NewVersion(w), NewVersion(v))
Newest(S) == CHOOSE v \in S : \A w \in S \ {v} : Newer(v, w)

\* What a listing shows: every directory, or every version with metadata.
Readable(S) == {v \in S : meta[v] = "whole"}
Candidates == IF snBackend = "local" THEN dir ELSE Readable(SnVersion)
Listed == Readable(Candidates)

Goto(c, pc) == cl' = [cl EXCEPT ![c].pc = pc]
Finish(c) == cl' = [cl EXCEPT ![c] = Idle]

\* Put: directory and temporary file; the caller streams a checkpoint into it.
PutBegin(c) ==
    /\ cl[c].pc = "idle" /\ puts < Len(Stamp)
    /\ puts' = puts + 1
    /\ cl' = [cl EXCEPT ![c] = [Idle EXCEPT !.pc = "blob", !.v = puts + 1]]
    /\ dir' = IF snBackend = "local" THEN dir \cup {puts + 1} ELSE dir
    /\ UNCHANGED <<snBackend, blob, meta, stored, gone, hollow>>

PutBlob(c) ==
    /\ cl[c].pc = "blob" /\ Goto(c, "meta")
    /\ blob' = blob \cup {cl[c].v}
    /\ UNCHANGED <<snBackend, puts, dir, meta, stored, gone, hollow>>

\* The checkpoint or the write fails: nothing remains.
PutBlobFails(c) ==
    /\ cl[c].pc = "blob" /\ Finish(c)
    /\ dir' = dir \ {cl[c].v} /\ gone' = gone \cup {cl[c].v}
    /\ UNCHANGED <<snBackend, puts, blob, meta, stored, hollow>>

\* The metadata: a file created and then filled, or one object.
PutMeta(c) ==
    /\ cl[c].pc = "meta" /\ snBackend = "local" /\ Goto(c, "fill")
    /\ meta' = [meta EXCEPT ![cl[c].v] = "torn"]
    /\ UNCHANGED <<snBackend, puts, dir, blob, stored, gone, hollow>>

Filling == IF snBackend = "local" THEN "fill" ELSE "meta"

PutDone(c) ==
    /\ cl[c].pc = Filling
    /\ meta' = [meta EXCEPT ![cl[c].v] = "whole"]
    /\ stored' \in {stored, stored \cup {cl[c].v}}    \* it may end before it answers
    /\ Finish(c)
    /\ UNCHANGED <<snBackend, puts, dir, blob, gone, hollow>>

\* ... fails, on S3 perhaps after it took effect: the blob is removed, and a
\* directory that still has the torn file stays.
PutMetaFails(c) ==
    /\ cl[c].pc = Filling
    /\ \/ UNCHANGED <<meta, hollow>>
       \/ snBackend = "s3" /\ meta' = [meta EXCEPT ![cl[c].v] = "whole"] /\ hollow' = TRUE
    /\ blob' = blob \ {cl[c].v} /\ gone' = gone \cup {cl[c].v} /\ Finish(c)
    /\ UNCHANGED <<snBackend, puts, dir, stored>>

\* GetLatest, GetLatestMetadata: the version, its metadata, its blob.
GetLatest(c) ==
    /\ cl[c].pc = "idle"
    /\ cl' = [cl EXCEPT ![c] = [Idle EXCEPT !.known = stored \ gone,
              !.pc = IF Candidates = {} THEN "answer" ELSE "open",
              !.v = IF Candidates = {} THEN 0 ELSE Newest(Candidates)]]
    /\ UNCHANGED <<snBackend, puts, dir, blob, meta, stored, gone, hollow>>

Get(c) ==
    /\ cl[c].pc = "open"
    /\ cl' = [cl EXCEPT ![c].pc = IF meta[cl[c].v] = "whole" THEN "read" ELSE "answer"]
    /\ UNCHANGED <<snBackend, puts, dir, blob, meta, stored, gone, hollow>>

GetBlob(c) ==
    /\ cl[c].pc = "read"
    /\ cl' = [cl EXCEPT ![c].pc = "answer", ![c].got = IF cl[c].v \in blob THEN cl[c].v ELSE 0]
    /\ UNCHANGED <<snBackend, puts, dir, blob, meta, stored, gone, hollow>>

Answered(c) == /\ cl[c].pc = "answer" /\ Finish(c)
               /\ UNCHANGED <<snBackend, puts, dir, blob, meta, stored, gone, hollow>>

\* PruneOldVersions keeps the newest listed; PruneByAge also the young ones.
Prunable_All(young) == Listed \ young
Prunable(young) == Listed \ (young \cup IF Listed = {} THEN {} ELSE {Newest(Listed)})

PruneList(c, young) ==
    /\ cl[c].pc = "idle" /\ Prunable(young) # {}
    /\ cl' = [cl EXCEPT ![c] = [Idle EXCEPT !.pc = "prune", !.todo = Prunable(young)]]
    /\ UNCHANGED <<snBackend, puts, dir, blob, meta, stored, gone, hollow>>

\* Delete empties a version piece by piece; a failed one is passed over.
DeletePiece(c, v) ==
    /\ cl[c].pc = "prune" /\ v \in cl[c].todo
    /\ \/ blob' = blob \ {v} /\ UNCHANGED meta
       \/ meta' = [meta EXCEPT ![v] = "none"] /\ UNCHANGED blob
    /\ gone' = gone \cup {v}
    /\ UNCHANGED <<snBackend, puts, dir, cl, stored, hollow>>

Delete(c, v) ==
    /\ cl[c].pc = "prune" /\ v \in cl[c].todo
    /\ blob' = blob \ {v} /\ meta' = [meta EXCEPT ![v] = "none"] /\ dir' = dir \ {v}
    /\ gone' = gone \cup {v}
    /\ cl' = [cl EXCEPT ![c].todo = @ \ {v}, ![c].pc = IF cl[c].todo = {v} THEN "idle" ELSE "prune"]
    /\ UNCHANGED <<snBackend, puts, stored, hollow>>

\* The process ends; what it wrote stays.
Crash(c) ==
    /\ cl[c].pc # "idle" /\ Finish(c)
    /\ UNCHANGED <<snBackend, puts, dir, blob, meta, stored, gone, hollow>>

SnNext ==
    \E c \in SnClient :
        \/ PutBegin(c) \/ PutBlob(c) \/ PutBlobFails(c) \/ PutMeta(c) \/ PutDone(c) \/ PutMetaFails(c)
        \/ GetLatest(c) \/ Get(c) \/ GetBlob(c) \/ Answered(c) \/ Crash(c)
        \/ \E young \in SUBSET Listed : PruneList(c, young)
        \/ \E v \in SnVersion : DeletePiece(c, v) \/ Delete(c, v)

----------------------------------------------------------------------------
\* "A partially-written blob is never visible behind a complete metadata":
\* complete metadata has its blob, unless the version was being removed.
MetaBacked == \A v \in SnVersion : meta[v] = "whole" => v \in blob \cup gone

\* Once a Put was acknowledged some complete snapshot stays, whatever prune
\* lists while other Puts finish, fail or end out of order; only metadata
\* whose blob a failed S3 Put withdrew can stand in for it.
RestorePointKept == stored # {} /\ ~hollow => blob \cap Readable(SnVersion) # {}

Missed(c) == cl[c].pc = "answer" /\ cl[c].got = 0 /\ cl[c].known # {}

\* S3Store's GetLatest answers "no snapshot" past an acknowledged Put only for
\* a version that was removed under it.
S3LatestFound == \A c \in SnClient : snBackend = "s3" /\ Missed(c) => cl[c].v \in gone

\* The same for either store.
\* Refuted (no run checks it): the local store takes the newest directory, of
\* a Put still in progress, and fails.
LatestFound == \A c \in SnClient : Missed(c) => cl[c].v \in gone

\* "Keeps the keepLatest most-recent versions": prune leaves a later Put than
\* every one it deletes.
LatestPutKept == ~hollow => \A v \in stored \cap gone : v < puts

-----------------------------------------------------------------------------
(***************************************************************************)
(* CacheStore: a bounded local copy of snapshot versions in front of a     *)
(* durable store (store_cache.go).  Fills and removals touch the disk and  *)
(* the locked index in separate steps.                                     *)
(***************************************************************************)

CONSTANTS ScClient, ScVersion, MaxBytes, MaxFills

VARIABLES
    upstream,  \* versions in the durable store
    disk,      \* versions in the cache directory
    entries,   \* the index, oldest first; one unit of space each
    run,       \* the clients: [pc, v, out]
    fills,     \* fills so far (bound)
    \* History.
    removed    \* versions Delete was called for

scVars == <<upstream, disk, entries, run, fills, removed>>

Rest == [pc |-> "idle", v |-> "none", out |-> {}]

ScTypeOK ==
    /\ {upstream, disk, removed} \subseteq SUBSET ScVersion
    /\ entries \in Seq(ScVersion) /\ fills \in 0 .. MaxFills
    /\ \A c \in ScClient : run[c].out \subseteq ScVersion

ScInit ==
    /\ upstream = {} /\ disk = {} /\ entries = <<>> /\ fills = 0 /\ removed = {}
    /\ run = [c \in ScClient |-> Rest]

ScGoto(c, pc, v) == run' = [run EXCEPT ![c].pc = pc, ![c].v = v]

\* Put writes through to the durable store, which names a new version.
CachePut(c, v) ==
    /\ run[c].pc = "idle" /\ v \notin upstream \cup removed /\ fills < MaxFills
    /\ upstream' = upstream \cup {v} /\ fills' = fills + 1 /\ ScGoto(c, "fill", v)
    /\ UNCHANGED <<disk, entries, removed>>

\* Get: a version on disk is served (nothing changes); another is fetched whole.
CacheGet(c, v) ==
    /\ run[c].pc = "idle" /\ v \notin disk /\ v \in upstream /\ fills < MaxFills
    /\ fills' = fills + 1 /\ ScGoto(c, "fill", v)
    /\ UNCHANGED <<upstream, disk, entries, removed>>

\* putWithMeta, best effort: a failure takes the version's files away.
Fill(c) ==
    /\ run[c].pc = "fill"
    /\ \/ disk' = disk \cup {run[c].v} /\ ScGoto(c, "index", run[c].v)
       \/ disk' = disk \ {run[c].v} /\ run' = [run EXCEPT ![c] = Rest]
    /\ UNCHANGED <<upstream, entries, fills, removed>>

\* Under the lock: the new entry, then (a second section) the oldest ones out.
Index(c) ==
    /\ run[c].pc = "index" /\ ScGoto(c, "evict", run[c].v)
    /\ entries' = Append(entries, run[c].v)
    /\ UNCHANGED <<upstream, disk, fills, removed>>

CollectEvictions == IF Len(entries) > MaxBytes THEN MaxBytes ELSE Len(entries)

Evict(c) ==
    LET out == Len(entries) - CollectEvictions
    IN /\ run[c].pc = "evict"
       /\ run' = [run EXCEPT ![c] = [Rest EXCEPT !.out = ToSet(SubSeq(entries, 1, out)),
                                                 !.pc = IF out = 0 THEN "idle" ELSE "unlink"]]
       /\ entries' = SubSeq(entries, out + 1, Len(entries))
       /\ UNCHANGED <<upstream, disk, fills, removed>>

Unlink(c) == disk' = disk \ run[c].out

EvictFiles(c) ==
    /\ run[c].pc = "unlink" /\ Unlink(c) /\ run' = [run EXCEPT ![c] = Rest]
    /\ UNCHANGED <<upstream, entries, fills, removed>>

\* Delete: the durable store, the files, then the first entry of the version.
CacheDelete(c, v) ==
    /\ run[c].pc = "idle" /\ v \in upstream
    /\ upstream' = upstream \ {v} /\ removed' = removed \cup {v} /\ ScGoto(c, "files", v)
    /\ UNCHANGED <<disk, entries, fills>>

DeleteFiles(c) ==
    /\ run[c].pc = "files" /\ disk' = disk \ {run[c].v} /\ ScGoto(c, "entry", run[c].v)
    /\ UNCHANGED <<upstream, entries, fills, removed>>

RemoveEntry(c) == entries' = ReplaceFirstSubSeq(<<>>, <<run[c].v>>, entries)

DeleteEntry(c) ==
    /\ run[c].pc = "entry" /\ RemoveEntry(c) /\ run' = [run EXCEPT ![c] = Rest]
    /\ UNCHANGED <<upstream, disk, fills, removed>>

\* A restart indexes what is on disk (seedIndex; any order of mtimes).
ScRestart(order) ==
    /\ order \in SetToSeqs(disk) /\ entries' = order
    /\ run' = [c \in ScClient |-> Rest]
    /\ UNCHANGED <<upstream, disk, fills, removed>>

ScNext ==
    \/ \E c \in ScClient :
        \/ Fill(c) \/ Index(c) \/ Evict(c) \/ EvictFiles(c) \/ DeleteFiles(c) \/ DeleteEntry(c)
        \/ \E v \in ScVersion : CachePut(c, v) \/ CacheGet(c, v) \/ CacheDelete(c, v)
    \/ \E order \in SetToSeqs(disk) : ScRestart(order)

----------------------------------------------------------------------------
Pending(v) == \E c \in ScClient : run[c].v = v \/ v \in run[c].out

\* Every cached version can be evicted: it is in the index, or a client is at
\* work on it.  Only a deleted version, which a late fill may bring back,
\* escapes the index and with it the bound.
DiskTracked == \A v \in disk \ removed : v \in ToSet(entries) \/ Pending(v)

\* "Delete removes the version from both": no version comes back on disk.
\* Refuted (no run checks it): a fill that read the version before the
\* deletion indexes it afterwards.
DeletedUncached == \A v \in disk \cap removed : Pending(v)

\* The snapshot stores and their local cache: metadata has its blob, a restore
\* point stays, the latest is found, cached files are counted.
SnapshotsSound ==
    /\ SnTypeOK /\ MetaBacked /\ RestorePointKept /\ S3LatestFound
    /\ ScTypeOK /\ DiskTracked

=============================================================================
