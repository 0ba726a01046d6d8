----------------------------- MODULE RefBridge -----------------------------
(***************************************************************************)
(* The mlfs <-> blobgw bridge (mlfs/bridge: coordinator.go, bridgefs.go):  *)
(* a blob_ref is made over the chunks of an mlfs file and an mlfs file     *)
(* over the chunks of a blob_ref, without moving a byte.                   *)
(*                                                                         *)
(* One file name and one ref.  A byte is <<c, i>>, the i-th of casstore    *)
(* chunk c, so that two chunks share no byte; a content hash is the byte   *)
(* sequence it was computed from.  Writers of the file keep away while a   *)
(* bridge call runs, as the coordinator requires; writers of the ref do    *)
(* not.                                                                    *)
(***************************************************************************)
EXTENDS Overlay, FiniteSets

CONSTANTS
    ChunkLen,    \* [casstore chunk -> its Size]
    RefObjects,  \* the chunk lists put under the ref by other clients
    FileWrites,  \* the native writes: records [at, locs], within one mlfs chunk
    FileSizes,   \* the lengths a truncate sets
    MlfsChunk,   \* meta.ChunkSize
    MaxFileOps,  \* bound on native writes and truncates
    MaxRefPuts,  \* bound on puts of the ref by others
    MaxRbFaults  \* bound on failed calls

ASSUME ChunkLenAssumption == MlfsChunk \in Nat \ {0} /\ \A c \in DOMAIN ChunkLen : ChunkLen[c] \in Nat \ {0}

VARIABLES
    blobref,  \* the ref: its chunk list, size and content hash
    inode,    \* the file under the name, or NoFile; made: by whom, and whether whole
    bridge,   \* the bridge call in progress
    stranded, \* history: a compensating unlink failed
    budget    \* operations and faults left

rbVars == <<blobref, inode, bridge, stranded, budget>>

NoHash == << <<"", 0>> >>
NoFile == [there |-> FALSE]
NoCallRb == [pc |-> "idle", hash |-> NoHash, size |-> 0, locs |-> <<>>, k |-> 0, quiet |-> TRUE]

SizeSum(locs) == FoldLeft(LAMBDA n, c : n + ChunkLen[c], 0, locs)
ObjectBytes(locs) == FlattenSeq([i \in DOMAIN locs |-> [j \in 1 .. ChunkLen[locs[i]] |-> <<locs[i], j>>]])
RefOver(locs, hash) == [locs |-> locs, size |-> SizeSum(locs), hash |-> hash]

RowsAt(f, k) == SelectSeq(f.rows, LAMBDA r : r.indx = k)
SegmentsOf(f, k) == Resolve(RowsAt(f, k), 0, Smaller(MlfsChunk, f.len - k * MlfsChunk))
MlfsChunks(n) == 0 .. ((n + MlfsChunk - 1) \div MlfsChunk) - 1

\* What Files.Read returns for the whole file.
FileBytes(f) ==
    [b \in 1 .. f.len |->
        LET k == (b - 1) \div MlfsChunk
            at == (b - 1) % MlfsChunk
            sg == CHOOSE s \in Range(SegmentsOf(f, k)) : s.start <= at /\ at < s.end
        IN  IF sg.id = NoSlice THEN <<"hole", 0>>
            ELSE ObjectBytes(f.data[sg.id])[sg.srcOff + (at - sg.start) + 1]]

----------------------------------------------------------------------------
(* The algorithms of bridgefs.go.                                           *)

\* chunksForWindow: the chunks that start within [off, off+n).
ChunksForWindow(locs, off, n) ==
    LET start(i) == SizeSum(SubSeq(locs, 1, i - 1)) IN
    [x \in {i \in DOMAIN locs : start(i) >= off /\ start(i) < off + n} |-> locs[x]]

\* The selected chunks are consecutive: as a list.
AsList(sel) ==
    IF DOMAIN sel = {} THEN <<>>
    ELSE LET lo == CHOOSE i \in DOMAIN sel : \A j \in DOMAIN sel : i <= j
         IN  [n \in 1 .. Cardinality(DOMAIN sel) |-> sel[lo + n - 1]]

\* resolveChunkRange: the chunk lists of the visible segments, in order; a
\* hole is an error.
Holed(f) == \E k \in MlfsChunks(f.len) : \E s \in Range(SegmentsOf(f, k)) : s.id = NoSlice
ResolveChunkRange(f, k) ==
    LET segs == SegmentsOf(f, k) IN
    FlattenSeq([i \in DOMAIN segs |->
        AsList(ChunksForWindow(f.data[segs[i].id], segs[i].srcOff, segs[i].end - segs[i].start))])

\* FileChunks: every mlfs chunk in turn, and the byte-accounting guard.
FileChunks(f) == FlattenSeq([i \in 1 .. Cardinality(MlfsChunks(f.len)) |-> ResolveChunkRange(f, i - 1)])
Unbridgeable(f) == Holed(f) \/ SizeSum(FileChunks(f)) # f.len

\* layChunks: the slice of mlfs chunk k references, whole, every chunk that
\* overlaps it; soff skips the head of one that began earlier.
LaidSlice_FromStart(locs, k) ==
    LET start(i) == SizeSum(SubSeq(locs, 1, i - 1))
        lo == k * MlfsChunk
        hi == Smaller(lo + MlfsChunk, SizeSum(locs))
        over == {i \in DOMAIN locs : start(i + 1) > lo /\ start(i) < hi}
        first == CHOOSE i \in over : \A j \in over : i <= j
        last == CHOOSE i \in over : \A j \in over : j <= i
    IN  [assigned |-> SubSeq(locs, first, last), soff |-> 0, slen |-> hi - lo]

LaidSlice(locs, k) ==
    LET start(i) == SizeSum(SubSeq(locs, 1, i - 1))
        lo == k * MlfsChunk
        hi == Smaller(lo + MlfsChunk, SizeSum(locs))
        over == {i \in DOMAIN locs : start(i + 1) > lo /\ start(i) < hi}
        first == CHOOSE i \in over : \A j \in over : i <= j
        last == CHOOSE i \in over : \A j \in over : j <= i
    IN  [assigned |-> SubSeq(locs, first, last), soff |-> lo - start(first), slen |-> hi - lo]

----------------------------------------------------------------------------
(* The file and the ref between bridge calls.                               *)

\* meta.Write of a new slice.
WithSlice(f, k, pos, locs, off, n) ==
    [f EXCEPT !.data = Append(@, locs),
              !.rows = Append(@, [indx |-> k, pos |-> pos, len |-> n, off |-> off, sid |-> Len(f.data) + 1]),
              !.len = Larger(@, k * MlfsChunk + pos + n)]

NewFile == [there |-> TRUE, len |-> 0, rows |-> <<>>, data |-> <<>>, hash |-> NoHash, made |-> "native"]

Spend(what) == budget[what] > 0 /\ budget' = [budget EXCEPT ![what] = @ - 1]

\* Files.Write by an application.
FileWrite(w) ==
    /\ bridge.pc = "idle" /\ Spend("file")
    /\ inode' = WithSlice(IF inode.there THEN [inode EXCEPT !.made = "native"] ELSE NewFile,
                          w.at \div MlfsChunk, w.at % MlfsChunk, w.locs, 0, SizeSum(w.locs))
    /\ UNCHANGED <<blobref, bridge, stranded>>

\* meta.Truncate: slices past the new size go, one across it is cut.
FileTruncate(n) ==
    LET base(r) == r.indx * MlfsChunk + r.pos
        cut(r) == [r EXCEPT !.len = Smaller(@, n - base(r))]
        kept == SelectSeq(inode.rows, LAMBDA r : base(r) < n)
    IN  /\ bridge.pc = "idle" /\ inode.there /\ n # inode.len /\ Spend("file")
        /\ inode' = [inode EXCEPT !.len = n, !.made = "native",
                       !.rows = IF n < inode.len THEN [i \in DOMAIN kept |-> cut(kept[i])] ELSE @]
        /\ UNCHANGED <<blobref, bridge, stranded>>

\* Flush or close of a file that was written stamps its content hash.
FileFlush ==
    /\ bridge.pc = "idle" /\ inode.there /\ inode.made = "native"
    /\ inode' = [inode EXCEPT !.hash = FileBytes(inode)]
    /\ UNCHANGED <<blobref, bridge, stranded, budget>>

FileRemove ==
    /\ bridge.pc = "idle" /\ inode.there
    /\ inode' = NoFile
    /\ UNCHANGED <<blobref, bridge, stranded, budget>>

\* A put of the ref through the gateway, at any time.
RefPut(locs) ==
    /\ Spend("put")
    /\ blobref' = RefOver(locs, ObjectBytes(locs))
    /\ bridge' = [bridge EXCEPT !.quiet = FALSE]
    /\ UNCHANGED <<inode, stranded>>

----------------------------------------------------------------------------
(* Bridge.MlfsToRef.                                                        *)

MlfsToRef ==
    /\ bridge.pc = "idle" /\ inode.there /\ inode.hash # NoHash
    /\ bridge' = [NoCallRb EXCEPT !.pc = "chunks", !.hash = inode.hash, !.size = inode.len]
    /\ UNCHANGED <<blobref, inode, stranded, budget>>

GatherChunks ==
    /\ bridge.pc = "chunks"
    /\ bridge' = IF Unbridgeable(inode) \/ SizeSum(FileChunks(inode)) # bridge.size THEN NoCallRb
                 ELSE [bridge EXCEPT !.pc = "register", !.locs = FileChunks(inode)]
    /\ UNCHANGED <<blobref, inode, stranded, budget>>

BindRef ==
    /\ bridge.pc = "register"
    /\ blobref' = RefOver(bridge.locs, bridge.hash)
    /\ bridge' = NoCallRb
    /\ UNCHANGED <<inode, stranded, budget>>

----------------------------------------------------------------------------
(* Bridge.RefToMlfs and FS.CreateInodeFromChunks.                           *)

RefToMlfs ==
    /\ bridge.pc = "idle"
    /\ bridge' = [NoCallRb EXCEPT !.pc = "refchunks", !.hash = blobref.hash, !.size = blobref.size]
    /\ UNCHANGED <<blobref, inode, stranded, budget>>

ReadRefChunks ==
    /\ bridge.pc = "refchunks"
    /\ bridge' = IF blobref.size # bridge.size THEN NoCallRb
                 ELSE [bridge EXCEPT !.pc = "create", !.locs = blobref.locs]
    /\ UNCHANGED <<blobref, inode, stranded, budget>>

CreateInode ==
    /\ bridge.pc = "create"
    /\ inode' = IF inode.there THEN inode ELSE [NewFile EXCEPT !.made = "partial"]
    /\ bridge' = IF inode.there THEN NoCallRb
                 ELSE [bridge EXCEPT !.pc = IF bridge.locs = <<>> THEN "stamp" ELSE "lay"]
    /\ UNCHANGED <<blobref, stranded, budget>>

LayChunk ==
    /\ bridge.pc = "lay"
    /\ LET s == LaidSlice(bridge.locs, bridge.k)
       IN  inode' = WithSlice(inode, bridge.k, 0, s.assigned, s.soff, s.slen)
    /\ bridge' = [bridge EXCEPT !.k = @ + 1,
                    !.pc = IF bridge.k + 1 \in MlfsChunks(SizeSum(bridge.locs)) THEN "lay" ELSE "stamp"]
    /\ UNCHANGED <<blobref, stranded, budget>>

StampHash ==
    /\ bridge.pc = "stamp"
    /\ inode' = [inode EXCEPT !.hash = bridge.hash, !.made = "bridged"]
    /\ bridge' = [bridge EXCEPT !.pc = "made"]
    /\ UNCHANGED <<blobref, stranded, budget>>

CreateDone ==
    /\ bridge.pc = "made"
    /\ bridge' = NoCallRb
    /\ UNCHANGED <<blobref, inode, stranded, budget>>

\* A step after the create fails: the coordinator unlinks the new inode.
StepFails ==
    /\ bridge.pc \in {"lay", "stamp"} /\ Spend("fault")
    /\ inode' = NoFile
    /\ bridge' = NoCallRb
    /\ UNCHANGED <<blobref, stranded>>

UnlinkFails ==
    /\ bridge.pc \in {"lay", "stamp"} /\ Spend("fault")
    /\ bridge' = NoCallRb /\ stranded' = TRUE
    /\ UNCHANGED <<blobref, inode>>

RbInit ==
    /\ \E locs \in RefObjects : blobref = RefOver(locs, ObjectBytes(locs))
    /\ inode = NoFile /\ bridge = NoCallRb /\ stranded = FALSE
    /\ budget = [file |-> MaxFileOps, put |-> MaxRefPuts, fault |-> MaxRbFaults]

RbNext ==
    \/ \E w \in FileWrites : FileWrite(w)
    \/ \E n \in FileSizes : FileTruncate(n)
    \/ \E locs \in RefObjects : RefPut(locs)
    \/ FileFlush \/ FileRemove
    \/ MlfsToRef \/ GatherChunks \/ BindRef
    \/ RefToMlfs \/ ReadRefChunks \/ CreateInode \/ LayChunk \/ StampHash \/ CreateDone
    \/ StepFails \/ UnlinkFails

----------------------------------------------------------------------------
\* Every slice row lies within its mlfs chunk and within its own object, and
\* the ref's size is that of its chunks.
RbTypeOK ==
    /\ blobref.size = SizeSum(blobref.locs)
    /\ inode.there => \A i \in DOMAIN inode.rows :
          LET r == inode.rows[i] IN
          /\ r.len > 0 /\ r.pos + r.len <= MlfsChunk
          /\ r.off + r.len <= SizeSum(inode.data[r.sid])
    /\ stranded \in BOOLEAN

\* A file whose content is a sequence of whole casstore chunks is never
\* refused by FileChunks, and the list FileChunks returns is that sequence,
\* whatever overwrites, truncations and 64 MiB boundaries are in between:
\* a straddling chunk is emitted once, a hidden one never.
WholeChunks(bs) ==
    \A b \in DOMAIN bs :
        LET c == bs[b][1]  i == bs[b][2] IN
        /\ c # "hole"
        /\ i = 1 \/ (b > 1 /\ bs[b - 1] = <<c, i - 1>>)
        /\ i < ChunkLen[c] => b < Len(bs) /\ bs[b + 1] = <<c, i + 1>>
WholeFilesBridge ==
    bridge.pc = "chunks" =>
        \A bs \in {FileBytes(inode)} :
            WholeChunks(bs) => ~Unbridgeable(inode) /\ ObjectBytes(FileChunks(inode)) = bs

\* A file laid from a ref reads as the ref's object at the time its chunks
\* were read, and carries its hash unless the ref was replaced meanwhile.
LaidExact ==
    bridge.pc \in {"stamp", "made"} =>
        \A bs \in {ObjectBytes(bridge.locs)} :
            /\ FileBytes(inode) = bs
            /\ bridge.pc = "made" /\ bridge.quiet /\ bridge.hash = bs => inode.hash = bs

\* All or nothing: outside a call the name holds no half-made file, unless
\* the compensating unlink itself failed.
NoPartialFile ==
    bridge.pc = "idle" /\ inode.there /\ inode.made = "partial" => stranded

\* What FileChunks accepts has the file's bytes: its byte-accounting guard
\* "detects" every file whose visible ranges do not fall on chunk boundaries.
BridgedExact ==
    bridge.pc = "register" => ObjectBytes(bridge.locs) = FileBytes(inode)

\* The bridge between files and blob refs: what it registers or lays out has
\* the bytes of its source, and a failed layout leaves nothing (coordinator.go).
BridgeSound == RbTypeOK /\ WholeFilesBridge /\ LaidExact /\ NoPartialFile

=============================================================================
