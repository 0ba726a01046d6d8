----------------------------- MODULE PackRead -----------------------------
(***************************************************************************)
(* How the bytes of an object come back out of packs: the self-describing  *)
(* pack framings (store_compress.go), the streaming reader and the batch   *)
(* reader (store_chunked.go, batchget.go), which find out each pack's      *)
(* framing once per process and then read byte ranges.  A stored byte is a *)
(* token that says what it is, so a range read at the wrong place shows.   *)
(***************************************************************************)
EXTENDS Naturals, Sequences, SequencesExt, FiniteSets, FiniteSetsExt

CONSTANTS
    Layout,       \* Layout[b]: the chunks of pack b, in order
    Standalone,   \* the blobs that are one chunk of a v1 manifest
    Size, ZSize,  \* bytes of each chunk, plain and compressed
    Objects,      \* Objects[o]: the chunks of object o, as <<blob, position>>
    MaxPuts       \* bound

HeaderLen == 2          \* magic, codec
ChunkedHeaderLen == 3   \* and the length of the index
Blob == DOMAIN Layout
Object == DOMAIN Objects

VARIABLES
    strict,    \* the backend rejects a range that ends with the blob
    packs,    \* packs[b]: the bytes of blob b; empty: absent
    live,      \* objects with a manifest
    known,     \* known[b]: framingCache
    rd,        \* the streaming reader
    batch,     \* the batch reader
    packPuts

prVars == <<strict, packs, live, known, rd, batch, packPuts>>

----------------------------------------------------------------------------
(* Packs: their content, and the forms it is stored in *)

ChunkBytes(c) == [i \in 1 .. Size[c] |-> [k |-> "raw", c |-> c, i |-> i]]
Squeezed(name, n) == [i \in 1 .. n |-> [k |-> "zstd", c |-> name, i |-> i]]
Joined(cs) == FlattenSeq([j \in DOMAIN cs |-> ChunkBytes(cs[j])])
Raw(b) == Joined(Layout[b])
Slice(s, off, n) == SubSeq(s, off + 1, off + n)
Header(codec) == <<[k |-> "magic"], [k |-> "codec", c |-> codec]>>

CompressPackBlob(b, algo) == Header(algo) \o (IF algo = "none" THEN Raw(b) ELSE Squeezed(b, 2))

\* A chunk that does not shrink is stored as it is.
ChunkBody(c) == IF ZSize[c] < Size[c] THEN Squeezed(c, ZSize[c]) ELSE ChunkBytes(c)
ChunkCodec(c) == IF ZSize[c] < Size[c] THEN "zstd" ELSE "none"

\* The index: where chunk j is in the content, and in the stored bodies.
Bodies(cs) == FlattenSeq([j \in DOMAIN cs |-> ChunkBody(cs[j])])
FrameIndex(b) == [j \in DOMAIN Layout[b] |->
    LET before == SubSeq(Layout[b], 1, j - 1) c == Layout[b][j]
    IN [unc |-> Len(Joined(before)), n |-> Size[c],
        sto |-> Len(Bodies(before)), m |-> Len(ChunkBody(c)), codec |-> ChunkCodec(c)]]

CompressPackBlobChunked(b) ==
    Header("chunked") \o <<[k |-> "indexLen", i |-> Len(FrameIndex(b))]>>
        \o [j \in DOMAIN FrameIndex(b) |-> [k |-> "entry", e |-> FrameIndex(b)[j]]] \o Bodies(Layout[b])

\* Under the PackCompressionMode of the writer: "whole" or "chunked".
StorePackBlob(b, codec, mode) ==
    IF codec = "none" \/ mode = "whole" \/ b \in Standalone
    THEN CompressPackBlob(b, codec) ELSE CompressPackBlobChunked(b)

----------------------------------------------------------------------------
(* Finding out a framing *)

Frame(algo, base) == [algo |-> algo, base |-> base, index |-> <<>>]
Unknown == Frame("unknown", 0)

\* ReadBlob of an exact range.
ReadBlob(b, off, n) ==
    LET end == off + n
        ok == end < Len(packs[b]) \/ (end = Len(packs[b]) /\ ~strict)
    IN [ok |-> ok, bytes |-> IF ok THEN Slice(packs[b], off, n) ELSE <<>>]

DetectPackFraming(head) ==
    IF Len(head) < HeaderLen \/ head[1].k # "magic" THEN Frame("none", 0)
    ELSE IF head[2].c = "chunked"
         THEN Frame("chunked", ChunkedHeaderLen + head[3].i)
         ELSE Frame(head[2].c, HeaderLen)

\* A pack too short for either header is read whole.
ProbePackFraming(b) ==
    LET long == ReadBlob(b, 0, ChunkedHeaderLen)
        short == ReadBlob(b, 0, HeaderLen)
        f == DetectPackFraming(IF long.ok THEN long.bytes ELSE short.bytes)
    IN IF ~long.ok /\ ~short.ok THEN Frame("forceWhole", 0)
       ELSE [f EXCEPT !.index = IF f.algo # "chunked" THEN <<>>
                 ELSE [j \in 1 .. f.base - ChunkedHeaderLen |-> packs[b][ChunkedHeaderLen + j].e]]

FramingFor(b) == IF known[b] = Unknown THEN ProbePackFraming(b) ELSE known[b]

----------------------------------------------------------------------------
(* Reading a run of chunks of one pack *)

Ref(loc) == LET e == FrameIndex(loc[1])[loc[2]]
            IN [b |-> loc[1], off |-> e.unc, n |-> e.n, c |-> Layout[loc[1]][loc[2]]]

\* Results: a status, and the bytes of each reference of the run.
Failed(st) == [st |-> st, of |-> <<>>]

\* Bounds and hash of every chunk.
ShiftRun(r, base) == r.off - base
SliceRun(content, run, base) ==
    IF \A r \in run : /\ ShiftRun(r, base) + r.n <= Len(content)
                      /\ Slice(content, ShiftRun(r, base), r.n) = ChunkBytes(r.c)
    THEN [st |-> "ok", of |-> [r \in run |-> Slice(content, ShiftRun(r, base), r.n)]]
    ELSE Failed("corrupt")

\* One index entry's body, decoded.
Inflates(e, body) == e.codec = "none" \/ \E c \in DOMAIN Size : body = Squeezed(c, ZSize[c]) /\ Size[c] = e.n
Inflated(e, body) == IF e.codec = "none" THEN body ELSE ChunkBytes(body[1].c)

DecompressPackBlob(s) ==
    LET f == DetectPackFraming(s)
        entry(j) == s[ChunkedHeaderLen + j].e
        body(j) == Slice(s, f.base + entry(j).sto, entry(j).m)
    IN CASE f.algo = "none" -> Slice(s, f.base, Len(s) - f.base)
         [] f.algo = "zstd" -> Raw(s[HeaderLen + 1].c)
         [] f.algo = "chunked" -> FlattenSeq([j \in 1 .. f.base - ChunkedHeaderLen |-> Inflated(entry(j), body(j))])

WholePack(b, run) == SliceRun(DecompressPackBlob(packs[b]), run, 0)

\* A v1 chunk is checked by its length.
LoadStandaloneChunk(b, run) ==
    LET got == DecompressPackBlob(packs[b])
    IN IF \A r \in run : Len(got) = r.n THEN [st |-> "ok", of |-> [r \in run |-> got]] ELSE Failed("corrupt")

\* The entries of a window, which must begin and end with one.
ChunkedStoredSpan(f, lo, hi) == {j \in DOMAIN f.index : f.index[j].unc >= lo /\ f.index[j].unc < hi}

ChunkedRun(b, f, run, lo, hi) ==
    LET span == ChunkedStoredSpan(f, lo, hi)
        first == f.index[Min(span)] last == f.index[Max(span)]
        got == ReadBlob(b, f.base + first.sto, last.sto + last.m - first.sto)
        body(j) == Slice(got.bytes, f.index[j].sto - first.sto, f.index[j].m)
    IN IF span = {} \/ first.unc # lo \/ last.unc + last.n # hi THEN Failed("corrupt")
       ELSE IF ~got.ok THEN Failed("fetch")
       ELSE IF \E j \in span : ~Inflates(f.index[j], body(j)) THEN Failed("decode")
       ELSE SliceRun(FlattenSeq([i \in 1 .. Cardinality(span) |->
                LET j == Min(span) + i - 1 IN Inflated(f.index[j], body(j))]), run, lo)

\* One ranged read for the run's window, if the framing allows ranges.
Ranged(b, f, run) ==
    LET lo == Min({r.off : r \in run}) hi == Max({r.off + r.n : r \in run})
        got == ReadBlob(b, f.base + lo, hi - lo)
    IN CASE f.algo = "chunked" -> ChunkedRun(b, f, run, lo, hi)
         [] f.algo = "none" -> IF got.ok THEN SliceRun(got.bytes, run, lo) ELSE Failed("fetch")
         [] OTHER -> Failed("fetch")

\* loadPackRun: what cannot be fetched or decoded by range is read whole.
LoadPackRun(b, run) ==
    LET r == Ranged(b, FramingFor(b), run)
    IN IF r.st \in {"fetch", "decode"} THEN WholePack(b, run) ELSE r
----------------------------------------------------------------------------
(* Writers of any process, and the collector *)

RestOf == [o |-> 0, at |-> 1, out |-> <<>>, slot |-> [b |-> "", content |-> <<>>], st |-> "idle"]
NoBatch == [got |-> <<>>, keys |-> {}, todo |-> {}, failed |-> {}, st |-> "idle"]

PackUses(o) == {Objects[o][i][1] : i \in DOMAIN Objects[o]}
\* The packs an object's own Put writes are the ones it holds in full.
Writes(o) == {b \in PackUses(o) : \A j \in DOMAIN Layout[b] : \E i \in DOMAIN Objects[o] : Objects[o][i] = <<b, j>>}

PrTypeOK ==
    /\ strict \in BOOLEAN /\ live \subseteq Object
    /\ \A b \in Blob : known[b].algo \in {"unknown", "none", "zstd", "chunked", "forceWhole"}
    /\ rd.st \in {"idle", "open", "done", "failed", "stale", "gone"}
    /\ batch.st \in {"idle", "open", "done"} /\ batch.todo \subseteq Blob /\ packPuts \in 0 .. MaxPuts

\* An empty store, or one written before packs had headers.
PrInit ==
    /\ strict \in BOOLEAN
    /\ \/ packs = [b \in Blob |-> <<>>] /\ live = {}
       \/ packs = [b \in Blob |-> Raw(b)] /\ live = Object
    /\ known = [b \in Blob |-> Unknown] /\ rd = RestOf /\ batch = NoBatch /\ packPuts = 0

\* The packs that are not there yet (PutIfAbsent), then the manifest; the other
\* modules have what may come between.
PrPut(o, codec, mode) ==
    /\ packPuts < MaxPuts /\ packPuts' = packPuts + 1 /\ o \notin live
    /\ \A b \in PackUses(o) \ Writes(o) : packs[b] # <<>>
    /\ packs' = [b \in Blob |-> IF b \in Writes(o) /\ packs[b] = <<>> THEN StorePackBlob(b, codec, mode) ELSE packs[b]]
    /\ live' = live \cup {o}
    /\ UNCHANGED <<strict, known, rd, batch>>

PrPuts(o) == PrPut(o, "none", "whole") \/ \E mode \in {"whole", "chunked"} : PrPut(o, "zstd", mode)

PrDelete(o) == /\ o \in live /\ live' = live \ {o}
               /\ UNCHANGED <<strict, packs, known, rd, batch, packPuts>>

\* A collector's pass: the packs no manifest refers to.
PrSweep ==
    LET dead == {b \in Blob : packs[b] # <<>> /\ \A o \in live : b \notin PackUses(o)}
    IN /\ dead # {} /\ packs' = [b \in Blob |-> IF b \in dead THEN <<>> ELSE packs[b]]
       /\ UNCHANGED <<strict, live, known, rd, batch, packPuts>>

Stale(b) == known[b] # Unknown /\ known[b] # ProbePackFraming(b)
Probed(b) == [known EXCEPT ![b] = IF b \in Standalone THEN @ ELSE FramingFor(b)]

----------------------------------------------------------------------------
(* The streaming reader *)

OpenManifest(o) ==
    /\ rd.st = "idle" /\ batch.st = "idle" /\ o \in live /\ rd' = [RestOf EXCEPT !.o = o, !.st = "open"]
    /\ UNCHANGED <<strict, packs, live, known, batch, packPuts>>

\* The maximal run of one pack from the cursor on.
RunEnd(s, at) == Max({i \in at .. Len(s) : \A j \in at .. i : s[j][1] = s[at][1] /\ (j > at => s[at][1] \notin Standalone)})

Emitted_ByOffset(locs, of) == Joined([i \in DOMAIN locs |-> Layout[locs[1][1]][Min({l[2] : l \in Range(SubSeq(locs, i, Len(locs)))})]])
Emitted(locs, of) == FlattenSeq([i \in DOMAIN locs |-> of[Ref(locs[i])]])

LoadNextRun ==
    LET s == Objects[rd.o]
        b == s[rd.at][1]
        locs == SubSeq(s, rd.at, RunEnd(s, rd.at))
        run == {Ref(locs[i]) : i \in DOMAIN locs}
        slot == rd.slot.b = b
        r == IF slot THEN SliceRun(rd.slot.content, run, 0)
             ELSE IF b \in Standalone THEN LoadStandaloneChunk(b, run) ELSE LoadPackRun(b, run)
        whole == ~slot /\ b \notin Standalone /\ Ranged(b, FramingFor(b), run).st \in {"fetch", "decode"}
    IN /\ rd.st = "open" /\ rd.at <= Len(s)
       /\ IF ~slot /\ packs[b] = <<>>
          THEN rd' = [rd EXCEPT !.st = IF rd.o \in live THEN "failed" ELSE "gone"] /\ UNCHANGED known
          ELSE /\ known' = IF slot THEN known ELSE Probed(b)
               /\ rd' = IF r.st = "ok"
                        THEN [rd EXCEPT !.at = @ + Len(locs), !.out = @ \o Emitted(locs, r.of),
                                        !.slot = IF whole THEN [b |-> b, content |-> DecompressPackBlob(packs[b])] ELSE @]
                        ELSE [rd EXCEPT !.st = IF Stale(b) THEN "stale" ELSE "failed"]
       /\ UNCHANGED <<strict, packs, live, batch, packPuts>>

ReadEnds ==
    /\ rd.st = "open" /\ rd.at > Len(Objects[rd.o]) /\ rd' = [rd EXCEPT !.st = "done"]
    /\ UNCHANGED <<strict, packs, live, known, batch, packPuts>>

Close == /\ rd.st # "idle" /\ rd' = RestOf
         /\ UNCHANGED <<strict, packs, live, known, batch, packPuts>>

----------------------------------------------------------------------------
(* The batch reader: every pack once for all the objects asked for *)

GetLatestBatch ==
    /\ batch.st = "idle" /\ rd.st = "idle" /\ live # {}
    /\ batch' = [got |-> [o \in live |-> [i \in DOMAIN Objects[o] |-> <<>>]], keys |-> live,
                 todo |-> UNION {PackUses(o) : o \in live}, failed |-> {}, st |-> "open"]
    /\ UNCHANGED <<strict, packs, live, known, rd, packPuts>>

\* Adjacent or overlapping references share a range.
GroupContiguous(run) ==
    FoldLeft(LAMBDA gs, r : IF gs # <<>> /\ r.off <= Max({q.off + q.n : q \in Last(gs)})
                            THEN Append(Front(gs), Last(gs) \cup {r}) ELSE Append(gs, {r}),
             <<>>, SetToSortSeq(run, LAMBDA q, r : q.off < r.off))

\* The first group that cannot be served decides: the whole pack, or an error.
FetchPackBucket(b, run) ==
    LET gs == GroupContiguous(run)
        rs == [i \in DOMAIN gs |-> Ranged(b, FramingFor(b), gs[i])]
        bad == {i \in DOMAIN rs : rs[i].st # "ok"}
        all == [r \in run |-> rs[CHOOSE i \in DOMAIN gs : r \in gs[i]].of[r]]
    IN IF bad = {} THEN [st |-> "ok", of |-> all]
       ELSE IF rs[Min(bad)].st = "fetch" THEN WholePack(b, run) ELSE rs[Min(bad)]

\* A bucket that fails fails every object it serves.
FailedKeys(hit) == hit

FetchBucket(b) ==
    LET locs == {l \in UNION {{<<o, i>> : i \in DOMAIN Objects[o]} : o \in batch.keys} : Objects[l[1]][l[2]][1] = b}
        run == {Ref(Objects[l[1]][l[2]]) : l \in locs}
        r == IF b \in Standalone THEN LoadStandaloneChunk(b, run) ELSE FetchPackBucket(b, run)
        ok == packs[b] # <<>> /\ r.st = "ok"
        hit == {l[1] : l \in locs}
    IN /\ b \in batch.todo
       /\ known' = IF packs[b] = <<>> THEN known ELSE Probed(b)
       /\ batch' = [batch EXCEPT !.todo = @ \ {b},
              !.failed = IF ok THEN @ ELSE @ \cup [o : FailedKeys(hit), why : {IF packs[b] # <<>> /\ Stale(b) THEN "stale" ELSE "failed"}],
              !.got = [o \in batch.keys |-> [i \in DOMAIN Objects[o] |->
                         IF ok /\ <<o, i>> \in locs THEN r.of[Ref(Objects[o][i])] ELSE @[o][i]]]]
       /\ UNCHANGED <<strict, packs, live, rd, packPuts>>

BatchEnds ==
    /\ batch.st = "open" /\ batch.todo = {} /\ batch' = [batch EXCEPT !.st = "done"]
    /\ UNCHANGED <<strict, packs, live, known, rd, packPuts>>

BatchTaken == /\ batch.st = "done" /\ batch' = NoBatch
              /\ UNCHANGED <<strict, packs, live, known, rd, packPuts>>

PrNext ==
    \/ \E o \in Object : PrDelete(o) \/ OpenManifest(o) \/ PrPuts(o)
    \/ \E b \in Blob : FetchBucket(b)
    \/ PrSweep \/ LoadNextRun \/ ReadEnds \/ Close \/ GetLatestBatch \/ BatchEnds \/ BatchTaken

----------------------------------------------------------------------------
(* Properties *)

PackContent(o) == Joined([i \in DOMAIN Objects[o] |-> Layout[Objects[o][i][1]][Objects[o][i][2]]])

\* What a reader has handed out is the beginning of the object's bytes, all of
\* them at the end, whatever mix of framings, ranges and fallbacks served it.
StreamExact ==
    /\ rd.st \in {"open", "done"} => rd.out = SubSeq(PackContent(rd.o), 1, Len(rd.out))
    /\ rd.st = "done" => rd.out = PackContent(rd.o)

\* A read of an object that is there does not fail, unless its pack went away
\* and came back in another framing than the one remembered.
StoredReadable == rd.st # "failed"

\* "Output is byte-identical to calling GetLatest per key": an object no bucket
\* failed for comes back exact.
BatchExact ==
    batch.st = "done" => \A o \in batch.keys \ {f.o : f \in batch.failed} : FlattenSeq(batch.got[o]) = PackContent(o)

\* "A pack hash is permanently bound to one set of bytes, its framing never
\* changes": no read meets a framing other than the one remembered.
\* Refuted (no run checks it): a pack deleted and stored again under another
\* compression setting has the same name.
FramingFixed == rd.st # "stale"

\* The readers of packs: what they hand out is the object's bytes, and they
\* hand it out (ObjectReader, BatchGetLatest).
PackReadSound == PrTypeOK /\ StreamExact /\ StoredReadable /\ BatchExact

=============================================================================
