----------------------------- MODULE FileData ------------------------------
(***************************************************************************)
(* The data path of one mlfs mount: Files.Write, the FUSE size change and  *)
(* Files.CopyFileRange over the slice_ref rows of the metadata engine, the *)
(* local write-ahead log, and its replay at the next start.                *)
(*                                                                         *)
(* A byte is a pair <<w, k>>, the k-th byte of write w, so that no two     *)
(* bytes are confused; Hole is the zero byte of a sparse region.  Next to  *)
(* the rows the module keeps the image of every file: what the operations  *)
(* acknowledged so far ask a reader to see.  The kernel holds the inode    *)
(* lock of the file written for the whole call, so that each file has at   *)
(* most one operation in progress.                                         *)
(***************************************************************************)
EXTENDS Overlay, FiniteSets

CONSTANTS
    File,         \* regular files
    NoFile,       \* no file
    ChunkSize,   \* meta.ChunkSize
    MaxLen,      \* bound on file lengths
    Writes,      \* the writes issued: records [at, n]
    Sizes,       \* the lengths set
    Copies,      \* the copies issued: records [so, do, n]
    SegMax,      \* segmentSize, in records
    MaxOps,      \* bound on operations started
    MaxCrashes,  \* bound on stops and crashes
    MaxFaults    \* bound on failed metadata transactions

ASSUME SizesAssumption ==
    /\ ChunkSize \in Nat \ {0} /\ SegMax \in Nat \ {0}
    /\ \A w \in Writes : w.n > 0 /\ w.at + w.n <= MaxLen
    /\ \A c \in Copies : c.n > 0 /\ c.do + c.n <= MaxLen
    /\ Sizes \subseteq 0 .. MaxLen
ASSUME InoAssumption == NoFile \notin File

VARIABLES
    rows,      \* slice_ref of each file, in id order
    length,    \* node.length
    data,      \* the slices staged so far; a slice id is an index of it
    segs,      \* WAL segments, the current one last
    op,        \* the operation in progress on each file
    phase,     \* "serve", or "replay" while ReplayWAL runs
    rp,        \* records replayed so far
    img, ilen, \* the image of each file
    spoiled,   \* history: files a replay or a clone may have altered
    ops, crashes, faults

store == <<rows, length, data>>
image == <<img, ilen, spoiled>>
fdVars == <<rows, length, data, segs, op, phase, rp, img, ilen, spoiled, ops, crashes, faults>>

Hole == <<0, 0>>
Offset == 0 .. MaxLen - 1
Byte == (0 .. MaxOps) \X (0 .. MaxLen)
Idle == [pc |-> "idle", at |-> 0, bytes |-> <<>>, sid |-> 0,
         src |-> NoFile, cur |-> 0, end |-> 0, first |-> 0, short |-> FALSE]

Log == FlattenSeq(segs)
Sids(i) == {rows[i][k].sid : k \in DOMAIN rows[i]}

FdTypeOK ==
    /\ \A i \in File : \A k \in DOMAIN rows[i] :
          LET r == rows[i][k] IN
          /\ r.sid \in DOMAIN data
          /\ r.len > 0 /\ r.pos + r.len <= ChunkSize
          /\ r.off + r.len <= Len(data[r.sid])
          /\ \A l \in DOMAIN rows[i] : rows[i][l].sid = r.sid => l = k
    /\ \A i \in File : length[i] \in 0 .. MaxLen
    /\ \A s \in DOMAIN data : \A k \in DOMAIN data[s] : data[s][k] \in Byte
    /\ segs # <<>> /\ \A s \in DOMAIN segs : Len(segs[s]) <= SegMax
    /\ phase \in {"serve", "replay"} /\ rp \in 0 .. Len(Log)
    /\ img \in [File -> [Offset -> Byte]] /\ ilen \in [File -> 0 .. MaxLen]
    /\ spoiled \subseteq File
    /\ ops \in 0 .. MaxOps /\ crashes \in 0 .. MaxCrashes /\ faults \in 0 .. MaxFaults

FdInit ==
    /\ rows = [i \in File |-> <<>>] /\ length = [i \in File |-> 0]
    /\ data = <<>> /\ segs = << <<>> >>
    /\ op = [i \in File |-> Idle]
    /\ phase = "serve" /\ rp = 0
    /\ img = [i \in File |-> [o \in Offset |-> Hole]] /\ ilen = [i \in File |-> 0]
    /\ spoiled = {}
    /\ ops = 0 /\ crashes = 0 /\ faults = 0

----------------------------------------------------------------------------
(* Reading.                                                                 *)

ReadSlices(i, indx) == SelectSeq(rows[i], LAMBDA r : r.indx = indx)

\* The bytes [lo,hi) of a chunk, from the segments resolve returns.
ChunkBytes(i, indx, lo, hi) ==
    LET out == Resolve(ReadSlices(i, indx), lo, hi)
    IN  [b \in lo .. hi - 1 |->
            LET sg == CHOOSE s \in Range(out) : s.start <= b /\ b < s.end
            IN  IF sg.id = NoSlice THEN Hole ELSE data[sg.id][sg.srcOff + (b - sg.start) + 1]]

\* Files.Read of [off, end), end at most the file's length: chunk by chunk.
ReadBytes(i, off, end) ==
    LET lo(indx) == Larger(off - indx * ChunkSize, 0)
        hi(indx) == Smaller(end - indx * ChunkSize, ChunkSize)
        at(indx) == ChunkBytes(i, indx, lo(indx), hi(indx))
        chunk == [indx \in off \div ChunkSize .. (end - 1) \div ChunkSize |-> at(indx)]
    IN  [k \in 1 .. end - off |->
            chunk[(off + k - 1) \div ChunkSize][(off + k - 1) % ChunkSize]]

----------------------------------------------------------------------------
(* The metadata transactions (meta.Write, Truncate, CloneRange).            *)

\* meta.Write: a slice the file already references is a no-op.
WriteTx_AnySlice(i, r) ==
    /\ rows' = [rows EXCEPT ![i] = Append(@, r)]
    /\ length' = [length EXCEPT ![i] = Larger(@, r.indx * ChunkSize + r.pos + r.len)]

WriteTx(i, r) ==
    IF r.sid \in Sids(i) THEN UNCHANGED <<rows, length>>
    ELSE /\ rows' = [rows EXCEPT ![i] = Append(@, r)]
         /\ length' = [length EXCEPT ![i] = Larger(@, r.indx * ChunkSize + r.pos + r.len)]

\* The rows a truncation to n keeps, the straddling one trimmed.
Start(r) == r.indx * ChunkSize + r.pos

Trimmed(s, n) ==
    LET kept == SelectSeq(s, LAMBDA r : Start(r) < n)
    IN  [k \in DOMAIN kept |-> [kept[k] EXCEPT !.len = Smaller(@, n - Start(kept[k]))]]

TruncateTx(i, n) ==
    /\ rows' = [rows EXCEPT ![i] = IF n < length[i] THEN Trimmed(@, n) ELSE @]
    /\ length' = [length EXCEPT ![i] = n]

\* CloneRange clears the destination chunks and inserts the source's rows there,
\* except those whose slice the destination still references (ON CONFLICT
\* (inode, slice_id) DO NOTHING).  The SELECT has no ORDER BY: the rows get
\* their ids in any order.
Uncovered(i, d, n) == SelectSeq(rows[i], LAMBDA r : r.indx < d \/ r.indx >= d + n)

CloneSource(src, dst, s, d, n) ==
    SelectSeq(IF src = dst THEN Uncovered(dst, d, n) ELSE rows[src],
              LAMBDA r : r.indx >= s /\ r.indx < s + n)

CloneTx(src, dst, s, d, n, order) ==
    LET kept == Uncovered(dst, d, n)
        from == CloneSource(src, dst, s, d, n)
        new == [k \in DOMAIN from |-> [from[order[k]] EXCEPT !.indx = @ + d - s]]
        held == {kept[k].sid : k \in DOMAIN kept}
        landed == SelectSeq(new, LAMBDA r : r.sid \notin held)
    IN  /\ rows' = [rows EXCEPT ![dst] = kept \o landed]
        /\ spoiled' = IF Len(landed) = Len(from) /\ order = [k \in DOMAIN from |-> k]
                      THEN spoiled ELSE spoiled \union {dst}

----------------------------------------------------------------------------
(* Files.Write.                                                             *)

Begins(i) ==
    /\ phase = "serve" /\ op[i] = Idle
    /\ ops < MaxOps /\ ops' = ops + 1
    /\ UNCHANGED <<phase, rp, crashes, faults>>

StartWrite(i, w) ==
    /\ Begins(i)
    /\ op' = [op EXCEPT ![i] = [Idle EXCEPT !.pc = "write", !.at = w.at,
                                            !.bytes = [k \in 1 .. w.n |-> <<ops + 1, k>>]]]
    /\ UNCHANGED <<store, segs, image>>

\* The piece of the write that fits in its chunk.
Piece(o) == Smaller(Len(o.bytes), ChunkSize - (o.at % ChunkSize))
PieceRow(o) == [indx |-> o.at \div ChunkSize, pos |-> o.at % ChunkSize,
                sid |-> o.sid, off |-> 0, len |-> Piece(o)]

\* NewSlice and chunks.Write: the piece is durable under a fresh slice id.
Stage(i) ==
    /\ op[i].pc = "write"
    /\ data' = Append(data, SubSeq(op[i].bytes, 1, Piece(op[i])))
    /\ op' = [op EXCEPT ![i].pc = "staged", ![i].sid = Len(data) + 1]
    /\ UNCHANGED <<rows, length, segs, phase, rp, image, ops, crashes, faults>>

\* wal.Append, rolling a full segment first.
Logged(rec) ==
    IF Len(Last(segs)) >= SegMax THEN Append(segs, <<rec>>)
    ELSE [segs EXCEPT ![Len(segs)] = Append(@, rec)]

AppendWAL(i) ==
    /\ op[i].pc = "staged"
    /\ segs' = Logged([ino |-> i, row |-> PieceRow(op[i])])
    /\ op' = [op EXCEPT ![i].pc = "logged"]
    /\ UNCHANGED <<store, phase, rp, image, ops, crashes, faults>>

\* The image once the piece is written.
Written(i) ==
    LET o == op[i] IN
    /\ img' = [img EXCEPT ![i] = [b \in Offset |->
                  IF o.at <= b /\ b < o.at + Piece(o) THEN o.bytes[b - o.at + 1] ELSE @[b]]]
    /\ ilen' = [ilen EXCEPT ![i] = Larger(@, o.at + Piece(o))]

\* meta.Write; then the next piece, the next step of the copy, or the return.
AfterPiece(o) ==
    LET n == Piece(o)
        next == [o EXCEPT !.at = @ + n, !.cur = @ + n, !.bytes = SubSeq(@, n + 1, Len(@))]
    IN  IF n < Len(o.bytes) THEN [next EXCEPT !.pc = "write"]
        ELSE IF o.src = NoFile THEN Idle
        ELSE [next EXCEPT !.pc = IF o.short THEN "extend" ELSE "copy"]

Commit(i) ==
    /\ op[i].pc = "logged"
    /\ WriteTx(i, PieceRow(op[i]))
    /\ Written(i)
    /\ op' = [op EXCEPT ![i] = AfterPiece(@)]
    /\ UNCHANGED <<data, segs, phase, rp, spoiled, ops, crashes, faults>>

\* The transaction is rolled back: the call fails, its record stays in the log.
CommitFails(i) ==
    /\ op[i].pc = "logged"
    /\ faults < MaxFaults /\ faults' = faults + 1
    /\ op' = [op EXCEPT ![i] = Idle]
    /\ UNCHANGED <<store, segs, phase, rp, image, ops, crashes>>

----------------------------------------------------------------------------
(* SetAttr with a size: meta.Truncate, with no record in the log.           *)

SetSize(i, n) ==
    /\ Begins(i)
    /\ TruncateTx(i, n)
    /\ img' = [img EXCEPT ![i] = [b \in Offset |-> IF b >= n THEN Hole ELSE @[b]]]
    /\ ilen' = [ilen EXCEPT ![i] = n]
    /\ UNCHANGED <<data, segs, op, spoiled>>

----------------------------------------------------------------------------
(* Files.CopyFileRange.                                                     *)

\* The kernel refuses overlapping ranges of one file; the length is clamped to
\* the source's.
StartCopy(i, src, c) ==
    /\ Begins(i)
    /\ src = i => c.so + c.n <= c.do \/ c.do + c.n <= c.so
    /\ c.so < length[src]
    /\ op' = [op EXCEPT ![i] = [Idle EXCEPT !.pc = "copy", !.src = src, !.cur = c.so,
                   !.end = Smaller(c.so + c.n, length[src]), !.at = c.do, !.first = c.do]]
    /\ UNCHANGED <<store, segs, image>>

Aligned(o) ==
    /\ o.cur % ChunkSize = 0 /\ o.at % ChunkSize = 0
    /\ o.end - o.cur >= ChunkSize

\* The aligned run: share whole chunks.
CopyShare(i) ==
    LET o == op[i]
        n == (o.end - o.cur) \div ChunkSize
        s == o.cur \div ChunkSize
        d == o.at \div ChunkSize
        from == CloneSource(o.src, i, s, d, n)
    IN  /\ o.pc = "copy" /\ o.cur < o.end /\ Aligned(o)
        /\ \E order \in SetToSeqs(DOMAIN from) : CloneTx(o.src, i, s, d, n, order)
        /\ img' = [img EXCEPT ![i] = [b \in Offset |->
              IF o.at <= b /\ b < o.at + n * ChunkSize
              THEN ChunkBytes(o.src, b \div ChunkSize + s - d, 0, ChunkSize)[b % ChunkSize]
              ELSE @[b]]]
        /\ op' = [op EXCEPT ![i].cur = @ + n * ChunkSize, ![i].at = @ + n * ChunkSize]
        /\ UNCHANGED <<length, data, segs, phase, rp, ilen, ops, crashes, faults>>

\* The bytes up to the next chunk boundary of either side.
Step(o) ==
    Smaller(o.end - o.cur, Smaller(ChunkSize - (o.cur % ChunkSize), ChunkSize - (o.at % ChunkSize)))

\* They are read now and written by the steps of Files.Write.
CopyRead(i) ==
    LET o == op[i]
        rn == Smaller(Step(o), length[o.src] - o.cur)
    IN  /\ o.pc = "copy" /\ o.cur < o.end /\ ~Aligned(o)
        /\ op' = [op EXCEPT ![i] =
              IF rn <= 0 THEN [o EXCEPT !.pc = "extend"]
              ELSE [o EXCEPT !.pc = "write", !.bytes = ReadBytes(o.src, o.cur, o.cur + rn),
                             !.short = rn < Step(o)]]
        /\ UNCHANGED <<store, segs, phase, rp, image, ops, crashes, faults>>

\* The loop is over: the destination is at least as long as the copy.
Extend(i) ==
    LET o == op[i] IN
    /\ o.pc = "extend" \/ (o.pc = "copy" /\ o.cur >= o.end)
    /\ IF o.at > o.first /\ length[i] < o.at
       THEN TruncateTx(i, o.at) ELSE UNCHANGED <<rows, length>>
    /\ ilen' = [ilen EXCEPT ![i] = IF o.at > o.first THEN Larger(@, o.at) ELSE @]
    /\ op' = [op EXCEPT ![i] = Idle]
    /\ UNCHANGED <<data, segs, phase, rp, img, spoiled, ops, crashes, faults>>

----------------------------------------------------------------------------
(* Stop, crash and recovery.                                                *)

\* Files with a record in the log whose slice no row references any more, other
\* than that of the write in progress: replaying it is not a no-op.
Resurrected ==
    {i \in File : \E k \in DOMAIN Log :
        /\ Log[k].ino = i /\ Log[k].row.sid \notin Sids(i)
        /\ ~(op[i].pc = "logged" /\ op[i].sid = Log[k].row.sid)}

\* The daemon dies.  A write that was logged and not committed will be replayed.
FdCrash ==
    /\ crashes < MaxCrashes /\ crashes' = crashes + 1
    /\ img' = [i \in File |-> IF op[i].pc # "logged" THEN img[i] ELSE [b \in Offset |->
                 IF op[i].at <= b /\ b < op[i].at + Piece(op[i])
                 THEN op[i].bytes[b - op[i].at + 1] ELSE img[i][b]]]
    /\ ilen' = [i \in File |-> IF op[i].pc # "logged" THEN ilen[i]
                              ELSE Larger(ilen[i], op[i].at + Piece(op[i]))]
    /\ spoiled' = IF phase = "serve" THEN spoiled \union Resurrected ELSE spoiled
    /\ op' = [i \in File |-> Idle]
    /\ phase' = "replay" /\ rp' = 0
    /\ UNCHANGED <<store, segs, ops, faults>>

\* Checkpoint(LastSeq): every segment but the current one goes.
Checkpointed == << Last(segs) >>

\* An orderly shutdown: unmounted, then checkpointed.
Stop ==
    /\ phase = "serve" /\ \A i \in File : op[i] = Idle
    /\ crashes < MaxCrashes /\ crashes' = crashes + 1
    /\ segs' = Checkpointed
    /\ spoiled' = spoiled \union Resurrected
    /\ phase' = "replay" /\ rp' = 0
    /\ UNCHANGED <<store, op, img, ilen, ops, faults>>

\* ReplayWAL: the next record is written again.
Replay ==
    /\ phase = "replay" /\ rp < Len(Log)
    /\ WriteTx(Log[rp + 1].ino, Log[rp + 1].row)
    /\ rp' = rp + 1
    /\ UNCHANGED <<data, segs, op, phase, image, ops, crashes, faults>>

\* All records are in: checkpoint, and the mount serves.
Recovered ==
    /\ phase = "replay" /\ rp = Len(Log)
    /\ segs' = Checkpointed
    /\ phase' = "serve" /\ rp' = 0
    /\ UNCHANGED <<store, op, image, ops, crashes, faults>>

OpStep(i) ==
    \/ Stage(i) \/ AppendWAL(i) \/ Commit(i)
    \/ CopyShare(i) \/ CopyRead(i) \/ Extend(i)

FdNext ==
    \/ \E i \in File : OpStep(i) \/ CommitFails(i)
    \/ \E i \in File, w \in Writes : StartWrite(i, w)
    \/ \E i \in File, n \in Sizes : SetSize(i, n)
    \/ \E i, src \in File, c \in Copies : StartCopy(i, src, c)
    \/ FdCrash \/ Stop \/ Replay \/ Recovered

FdSpec == FdInit /\ [][FdNext]_fdVars

----------------------------------------------------------------------------
(* Properties.                                                              *)

\* A read of the whole file returns the image and, between operations, so does
\* one of any window of a chunk.
Exact(i) ==
    /\ length[i] = ilen[i]
    /\ length[i] > 0 =>
          ReadBytes(i, 0, length[i]) = [k \in 1 .. length[i] |-> img[i][k - 1]]
    /\ op[i] = Idle => \A indx \in {b \div ChunkSize : b \in Offset} : \A lo, hi \in 0 .. ChunkSize :
          lo < hi /\ indx * ChunkSize + hi <= length[i] =>
          ChunkBytes(i, indx, lo, hi) = [b \in lo .. hi - 1 |-> img[i][indx * ChunkSize + b]]

\* Read-after-write over every window, for any interleaving of writes, size
\* changes and copies, through stops, crashes at every step and replays
\* interrupted and repeated: Files.Read returns what the operations acknowledged
\* ask for, unless a copy lost or reordered rows of the file, or the daemon
\* restarted while the log held a record whose row had been removed.
ReadsLastWritten ==
    phase = "serve" => \A i \in File \ spoiled : Exact(i)

\* The same with no exception, between operations: what fileio/replay.go says of
\* replaying committed records, and fileio.go of copies.
\* Refuted (no run checks it): a record in the current segment is replayed
\* over a truncation or a copy, and a write that failed after its append takes
\* effect at the next start.
ReadsExact ==
    phase = "serve" => \A i \in File : op[i] = Idle => Exact(i)

\* The data of files: well formed, and reads see the last write (Files.Read).
FilesExact == FdTypeOK /\ ReadsLastWritten

=============================================================================
