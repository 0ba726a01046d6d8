------------------------------- MODULE S3Wire -------------------------------
(***************************************************************************)
(* What blobgw-s3 reads and writes on the wire: listings page by page,     *)
(* streamed bodies and ranges.                                             *)
(***************************************************************************)
EXTENDS Sequences, FiniteSets, SequencesExt, Integers

-----------------------------------------------------------------------------
(***************************************************************************)
(* Paged listings of blobgw-s3 (list.go): a client follows the cursor page *)
(* by page while objects come and go.  Keys and the common prefixes they   *)
(* roll up to are numbers in their lexicographic order.                    *)
(***************************************************************************)

CONSTANTS
    Key,         \* keys
    Folder,      \* the common prefix of a key; 0: the delimiter is not in it
    MaxKeys,     \* page caps a client may ask for
    MaxPages, MaxChanges   \* bounds

ASSUME S3ListAssumption ==
    /\ Key \subseteq Nat \ {0} /\ DOMAIN Folder = Key /\ MaxKeys \subseteq Nat \ {0}
    /\ \A k \in Key : Folder[k] < k

VARIABLES
    keys,      \* stored keys
    ls,        \* the listing: [on, max, delim, cursor, pages, out]
    changes,
    stable     \* history: keys stored during the whole listing

lsVars == <<keys, ls, changes, stable>>

NoListing == [on |-> FALSE, max |-> 0, delim |-> FALSE, cursor |-> 0, pages |-> 0, out |-> <<>>]

LsTypeOK ==
    /\ {keys, stable} \subseteq SUBSET Key
    /\ ls.pages \in 0 .. MaxPages /\ ls.out \in Seq(Nat)

LsInit == keys \in SUBSET Key /\ ls = NoListing /\ changes = 0 /\ stable = {}

----------------------------------------------------------------------------
\* Mutant: the token is the first key of the next page.
PageStep_NextKey(max, acc, k) ==
    IF acc.full THEN acc
    ELSE IF acc.count >= max THEN [acc EXCEPT !.full = TRUE, !.last = k]
    ELSE [acc EXCEPT !.out = Append(@, k), !.count = @ + 1, !.last = k]

\* One key of the page: rolled up, listed, or the page is full.
PageStep(max, acc, k) ==
    LET p == IF ls.delim THEN Folder[k] ELSE 0
        item == IF p = 0 THEN k ELSE p
    IN IF acc.full THEN acc
       ELSE IF p \in acc.seen THEN [acc EXCEPT !.last = p]
       ELSE IF acc.count >= max THEN [acc EXCEPT !.full = TRUE]
       ELSE [acc EXCEPT !.out = Append(@, item), !.count = @ + 1, !.last = item,
                 !.seen = IF p = 0 THEN @ ELSE @ \cup {p}]

\* buildListResult: the keys after the cursor, which is exclusive.
AfterCursor(stored, cursor) == SetToSortSeq({k \in stored : k > cursor}, <)

BuildList(cursor, max) ==
    FoldLeft(LAMBDA acc, k : PageStep(max, acc, k),
             [out |-> <<>>, count |-> 0, last |-> 0, seen |-> {}, full |-> FALSE],
             AfterCursor(keys, cursor))

StartListing ==
    /\ ~ls.on
    /\ \E max \in MaxKeys, delim \in BOOLEAN :
          ls' = [NoListing EXCEPT !.on = TRUE, !.max = max, !.delim = delim]
    /\ stable' = keys
    /\ UNCHANGED <<keys, changes>>

\* The client passes the token of a truncated page on.
ListPage ==
    LET page == BuildList(ls.cursor, ls.max)
    IN /\ ls.on /\ ls.pages < MaxPages
       /\ ls' = [ls EXCEPT !.on = page.full, !.cursor = page.last, !.pages = @ + 1,
                     !.out = @ \o page.out]
       /\ UNCHANGED <<keys, changes, stable>>

ChangeKey(k) ==
    /\ changes < MaxChanges /\ changes' = changes + 1
    /\ keys' = IF k \in keys THEN keys \ {k} ELSE keys \cup {k}
    /\ stable' = IF ls.on THEN stable \ {k} ELSE stable
    /\ UNCHANGED ls

LsNext == StartListing \/ ListPage \/ \E k \in Key : ChangeKey(k)

----------------------------------------------------------------------------
\* Every key stored during the whole listing is in it, or its prefix is,
\* whatever is added or removed between two pages.
ListingComplete ==
    ~ls.on /\ ls.pages > 0 =>
        \A k \in stable : k \in Range(ls.out) \/ (ls.delim /\ Folder[k] \in Range(ls.out))

\* Pages never go back and never repeat an entry.
\* Refuted (no run checks it): a common prefix that fills a page is the
\* cursor, and the keys below it come after it.
ListedOnce == \A i, j \in DOMAIN ls.out : i < j => ls.out[i] < ls.out[j]

\* The same without a delimiter.
PlainListedOnce == ~ls.delim => ListedOnce

-----------------------------------------------------------------------------
(***************************************************************************)
(* What blobgw-s3 stores of a PutObject body and serves of a ranged GET:   *)
(* the body decoders of handler.go and streaming.go, and range.go.         *)
(*                                                                         *)
(* The client sends bytes 1 .. size; the network may cut the body short or *)
(* alter one byte.                                                         *)
(***************************************************************************)

CONSTANTS MaxBody,   \* bound: body size
          MaxObject  \* the configured ceiling; 0: none

ASSUME S3BodyAssumption == {MaxBody, MaxObject} \subseteq Nat

VARIABLES
    rq,      \* the request: [mode, size, cut, bad]
    left,    \* what LimitReader still lets through; -1: unlimited
    sbGot,   \* bytes handed to the gateway; 0 stands for an altered byte
    sbPc,    \* "idle", "read", "ok" (acknowledged) or "error"
    range    \* the last ranged GET: [spec, size, res]

sbVars == <<rq, left, sbGot, sbPc, range>>

Mode == {"unsigned", "digest", "streaming"}
Whole == [ok |-> FALSE, sat |-> TRUE, from |-> 0, to |-> -1]
NoRange == [spec |-> <<-1, -1>>, size |-> 0, res |-> Whole]
NoBody == [mode |-> "unsigned", size |-> 0, cut |-> 0, bad |-> 0]

SbTypeOK ==
    /\ rq.mode \in Mode /\ rq.size \in 0 .. MaxBody /\ rq.cut \in 0 .. rq.size
    /\ left \in -1 .. MaxObject /\ sbGot \in Seq(0 .. MaxBody)
    /\ sbPc \in {"idle", "read", "ok", "error"}

SbInit == rq = NoBody /\ left = -1 /\ sbGot = <<>> /\ sbPc = "idle" /\ range = NoRange

----------------------------------------------------------------------------
Sent == [i \in 1 .. rq.size |-> i]
Byte(i) == IF i = rq.bad THEN 0 ELSE i

\* objectBody builds the reader: decoder, ceiling, verifier.
PutBody(mode, size, cut, bad) ==
    /\ sbPc = "idle"
    /\ rq' = [mode |-> mode, size |-> size, cut |-> cut, bad |-> bad]
    /\ left' = IF MaxObject > 0 THEN MaxObject ELSE -1
    /\ sbGot' = <<>> /\ sbPc' = "read"
    /\ UNCHANGED range

\* A frame of n bytes: a streaming frame is released only when all of it has
\* arrived and its signature holds.
FrameReady(n) ==
    /\ Len(sbGot) + n <= rq.cut
    /\ rq.mode = "streaming" => rq.bad \notin Len(sbGot) + 1 .. Len(sbGot) + n

Deliver(n) ==
    LET m == IF left = -1 \/ left > n THEN n ELSE left
    IN /\ sbGot' = sbGot \o [i \in 1 .. m |-> Byte(Len(sbGot) + i)]
       /\ left' = IF left = -1 THEN -1 ELSE left - m

ReadFrame(n) ==
    /\ sbPc = "read" /\ left # 0 /\ FrameReady(n)
    /\ Deliver(n)
    /\ UNCHANGED <<rq, sbPc, range>>

\* The next frame is short, unsigned for or missing.
ReadFails ==
    /\ sbPc = "read" /\ left # 0
    /\ \/ rq.cut < rq.size /\ Len(sbGot) <= rq.cut
       \/ rq.mode = "streaming" /\ rq.bad > Len(sbGot)
    /\ sbPc' = "error"
    /\ UNCHANGED <<rq, left, sbGot, range>>

\* End of the body, or of what the ceiling lets through; then the verifier
\* compares the digest of what it saw.
DigestMatches == sbGot = Sent
ReadEOF ==
    /\ sbPc = "read"
    /\ left = 0 \/ (Len(sbGot) = rq.size /\ rq.cut = rq.size)
    /\ sbPc' = IF rq.mode = "digest" /\ ~DigestMatches THEN "error" ELSE "ok"
    /\ UNCHANGED <<rq, left, sbGot, range>>

NextBody ==
    /\ sbPc \in {"ok", "error"}
    /\ sbPc' = "idle" /\ rq' = NoBody /\ left' = -1 /\ sbGot' = <<>>
    /\ range' = NoRange

----------------------------------------------------------------------------
(* parseRange: a spec is <<first, last>>, -1 where the number is missing.   *)

Unsatisfiable == [ok |-> TRUE, sat |-> FALSE, from |-> 0, to |-> -1]
Resolved(a, b) == [ok |-> TRUE, sat |-> TRUE, from |-> a, to |-> b]

ParseRange(spec, size) ==
    LET a == spec[1]
        b == spec[2]
        n == IF b >= size THEN size ELSE b
    IN CASE a = -1 /\ b = -1 -> Whole
         [] a = -1 /\ b # -1 -> IF b = 0 \/ size = 0 THEN Unsatisfiable
                                ELSE Resolved(size - n, size - 1)
         [] a # -1 /\ b = -1 -> IF a >= size THEN Unsatisfiable ELSE Resolved(a, size - 1)
         [] a # -1 /\ b # -1 -> IF a > b THEN Whole
                                ELSE IF a >= size THEN Unsatisfiable
                                ELSE Resolved(a, IF b >= size THEN size - 1 ELSE b)

\* GET of what was stored.
GetRange(spec) ==
    /\ sbPc = "ok"
    /\ range' = [spec |-> spec, size |-> Len(sbGot), res |-> ParseRange(spec, Len(sbGot))]
    /\ UNCHANGED <<rq, left, sbGot, sbPc>>

Spec1 == -1 .. MaxBody + 1

SbNext ==
    \/ \E mode \in Mode, size \in 0 .. MaxBody :
          \E cut \in 0 .. size, bad \in 0 .. size : PutBody(mode, size, cut, bad)
    \/ \E n \in 1 .. MaxBody : ReadFrame(n)
    \/ ReadFails \/ ReadEOF \/ NextBody
    \/ \E a, b \in Spec1 : GetRange(<<a, b>>)

----------------------------------------------------------------------------
TooLarge == MaxObject > 0 /\ rq.size > MaxObject

\* An acknowledged body is stored whole and unaltered - always when the client
\* signed it, frame by frame or by its digest; cut-short bodies never are.
\* Over the ceiling only the digest protects it.
AckedWhole ==
    sbPc = "ok" /\ (rq.mode # "unsigned" \/ rq.bad = 0) /\ (TooLarge => rq.mode = "digest")
    => sbGot = Sent

\* A body over MaxObject is rejected.
\* Refuted (no run checks it): an unsigned body is cut at the limit and stored
\* as if it ended there.
OversizeRejected == sbPc = "ok" => ~TooLarge

\* The bytes a range header asks for.
Wanted(spec, size) ==
    LET a == spec[1]
        b == spec[2]
    IN {i \in 0 .. size - 1 :
          IF a = -1 THEN b = -1 \/ i >= size - b ELSE i >= a /\ (b = -1 \/ i <= b)}

\* A satisfiable range is answered with exactly the bytes it asks for, and 416
\* only when there are none of them; first > last is no range (parseRange).
RangeExact ==
    LET r == range.res
        w == Wanted(range.spec, range.size)
    IN /\ r.ok /\ r.sat => r.from .. r.to = w /\ w # {}
       /\ ~r.sat => w = {}
       /\ ~r.ok => range.spec = <<-1, -1>> \/ (range.spec[2] # -1 /\ range.spec[1] > range.spec[2])

\* What the S3 front end says over the wire: listings are complete, acknowledged
\* bodies whole, ranges exact (list.go, streaming.go, range.go).
S3WireSound ==
    /\ LsTypeOK /\ ListingComplete /\ PlainListedOnce
    /\ SbTypeOK /\ AckedWhole /\ RangeExact

=============================================================================
