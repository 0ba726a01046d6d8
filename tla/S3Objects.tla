------------------------------ MODULE S3Objects -----------------------------
(***************************************************************************)
(* What blobgw-s3 keeps beside objects: multipart uploads and buckets.     *)
(***************************************************************************)
EXTENDS Naturals, Sequences, FiniteSets, SequencesExt

-----------------------------------------------------------------------------
(***************************************************************************)
(* Multipart uploads of blobgw-s3 (mpuops.go) over the JetStream registry  *)
(* (multipart_jetstream.go), one upload, several requests at a time.       *)
(* A part's bytes are a number, which is also its ETag.                    *)
(***************************************************************************)

CONSTANTS
    MpClient,    \* concurrent requests
    Part,        \* part numbers
    Bytes,       \* part contents
    MaxPart,     \* the handler's size ceiling, in parts; 0: none
    MaxRetry,    \* putPart's compare-and-set attempts
    MaxRequests  \* bound

ASSUME MultipartAssumption ==
    /\ Part \subseteq Nat \ {0} /\ Bytes \subseteq Nat \ {0}
    /\ {MaxPart, MaxRetry, MaxRequests} \subseteq Nat

VARIABLES
    kv,       \* the upload's registry entry: [rev, parts], parts = <<>> once deleted
    obj,      \* reserved part objects in the gateway; 0: none
    final,    \* the assembled object: [list, body, etag], one entry per part
    mp,       \* the requests
    requests,
    \* History.
    ok,       \* parts acknowledged, with the ETag last returned
    raced,    \* parts stored while another request used the same number
    stray,    \* parts a finishing request never knew of, or did not list
    ended     \* Complete or Abort was acknowledged

mpVars == <<kv, obj, final, mp, requests, ok, raced, stray, ended>>

Gone == <<>>
NoParts == [p \in Part |-> 0]
MpIdle == [pc |-> "idle", n |-> 0, etag |-> 0, rev |-> 0, parts |-> NoParts, tries |-> 0,
         list |-> <<>>, body |-> <<>>]
MpExists == kv.parts # Gone

MpTypeOK ==
    /\ kv.rev \in Nat /\ (MpExists => kv.parts \in [Part -> Bytes \cup {0}])
    /\ obj \in [Part -> Bytes \cup {0}]
    /\ \A c \in MpClient : mp[c].list \in Seq(Part) /\ mp[c].tries \in 0 .. MaxRetry
    /\ {raced, stray} \subseteq SUBSET Part

\* createMultipartUpload has answered.
MpInit ==
    /\ kv = [rev |-> 1, parts |-> NoParts]
    /\ obj = NoParts /\ final = [list |-> <<>>, body |-> <<>>, etag |-> <<>>]
    /\ mp = [c \in MpClient |-> MpIdle] /\ requests = 0
    /\ ok = NoParts /\ raced = {} /\ stray = {} /\ ended = FALSE

MpAt(c, pc) == mp[c].pc = pc
MpGoto(c, pc) == mp' = [mp EXCEPT ![c].pc = pc]
MpDone(c) == mp' = [mp EXCEPT ![c] = MpIdle]
MpBegin(c) == MpAt(c, "idle") /\ requests < MaxRequests /\ requests' = requests + 1

\* Requests that use part n: an upload of it, or one that finishes.
Uses(c, n) == ~MpAt(c, "idle") /\ (mp[c].n = n \/ mp[c].n = 0)
InUpload == {mp[c].n : c \in MpClient} \ {0}

----------------------------------------------------------------------------
(* uploadPart.                                                              *)

UploadPart(c, n, b) ==
    /\ MpBegin(c) /\ MpExists
    /\ mp' = [mp EXCEPT ![c] = [MpIdle EXCEPT !.pc = "put", !.n = n, !.etag = b]]
    /\ UNCHANGED <<kv, obj, final, ok, raced, stray, ended>>

PutPartObject(c) ==
    LET n == mp[c].n
    IN /\ MpAt(c, "put")
       /\ obj' = [obj EXCEPT ![n] = mp[c].etag]
       /\ raced' = IF \E d \in MpClient \ {c} : Uses(d, n) THEN raced \cup {n} ELSE raced
       /\ MpGoto(c, "load")
       /\ UNCHANGED <<kv, final, requests, ok, stray, ended>>

PutPartLoad(c) ==
    /\ MpAt(c, "load")
    /\ IF MpExists THEN mp' = [mp EXCEPT ![c].pc = "cas", ![c].rev = kv.rev,
                                  ![c].parts = kv.parts]
       ELSE MpGoto(c, "undo")
    /\ UNCHANGED <<kv, obj, final, requests, ok, raced, stray, ended>>

MpUpdate_Blind(c) ==
    kv' = [rev |-> kv.rev + 1,
           parts |-> IF MpExists THEN [mp[c].parts EXCEPT ![mp[c].n] = mp[c].etag] ELSE Gone]

\* kv.Update against the revision read; a deletion is a revision too.
MpUpdate(c) ==
    IF kv.rev = mp[c].rev
    THEN kv' = [rev |-> kv.rev + 1, parts |-> [mp[c].parts EXCEPT ![mp[c].n] = mp[c].etag]]
    ELSE UNCHANGED kv

PutPartCAS(c) ==
    /\ MpAt(c, "cas")
    /\ MpUpdate(c)
    /\ IF kv' # kv
       THEN MpDone(c) /\ ok' = [ok EXCEPT ![mp[c].n] = mp[c].etag]
       ELSE /\ UNCHANGED ok
            /\ mp' = [mp EXCEPT ![c].tries = @ + 1,
                          ![c].pc = IF mp[c].tries + 1 < MaxRetry THEN "load" ELSE "undo"]
    /\ stray' = IF kv' # kv /\ \E d \in MpClient \ {c} : ~MpAt(d, "idle") /\ mp[d].n = 0
                THEN stray \cup {mp[c].n} ELSE stray
    /\ UNCHANGED <<obj, final, requests, raced, ended>>

\* putPart said no: the part just stored is deleted again.
UndoPart(c) ==
    /\ MpAt(c, "undo")
    /\ obj' = [obj EXCEPT ![mp[c].n] = 0]
    /\ raced' = raced \cup {mp[c].n}
    /\ MpDone(c)
    /\ UNCHANGED <<kv, final, requests, ok, stray, ended>>

----------------------------------------------------------------------------
(* completeMultipartUpload: the parts listed, with the ETags the client     *)
(* holds; sorted by number.                                                 *)

SortedParts(ns) == SetToSortSeq(ns, <)

MpValid(parts, ns) ==
    /\ ns # {} /\ \A n \in ns : parts[n] # 0 /\ parts[n] = ok[n]
    /\ MaxPart > 0 => Cardinality(ns) <= MaxPart

Complete(c, ns) ==
    /\ MpBegin(c) /\ MpExists /\ MpValid(kv.parts, ns)
    /\ mp' = [mp EXCEPT ![c] = [MpIdle EXCEPT !.pc = "open", !.parts = kv.parts,
                                    !.list = SortedParts(ns)]]
    /\ stray' = stray \cup {n \in Part \ ns : kv.parts[n] # 0 \/ obj[n] # 0}
    /\ raced' = raced \cup InUpload
    /\ UNCHANGED <<kv, obj, final, ok, ended>>

\* The readers are opened one part after the other.
OpenPart(c) ==
    LET i == Len(mp[c].body) + 1
        n == mp[c].list[i]
    IN /\ MpAt(c, "open")
       /\ IF obj[n] = 0 THEN MpDone(c)
          ELSE mp' = [mp EXCEPT ![c].body = Append(@, obj[n]),
                          ![c].pc = IF i = Len(mp[c].list) THEN "assemble" ELSE "open"]
       /\ UNCHANGED <<kv, obj, final, requests, ok, raced, stray, ended>>

MultipartETag(parts, list) == [i \in DOMAIN list |-> parts[list[i]]]

Assemble(c) ==
    /\ MpAt(c, "assemble")
    /\ final' = [list |-> mp[c].list, body |-> mp[c].body,
                 etag |-> MultipartETag(mp[c].parts, mp[c].list)]
    /\ MpGoto(c, "clean")
    /\ UNCHANGED <<kv, obj, requests, ok, raced, stray, ended>>

\* abortMultipartUpload deletes every part it knows of.
Abort(c) ==
    LET known == {n \in Part : kv.parts[n] # 0}
    IN /\ MpBegin(c) /\ MpExists
       /\ mp' = [mp EXCEPT ![c] = [MpIdle EXCEPT !.pc = IF known = {} THEN "del" ELSE "clean",
                                       !.parts = kv.parts, !.list = SortedParts(known)]]
       /\ stray' = stray \cup {n \in Part \ known : obj[n] # 0}
       /\ raced' = raced \cup InUpload
       /\ UNCHANGED <<kv, obj, final, ok, ended>>

CleanPart(c) ==
    /\ MpAt(c, "clean")
    /\ obj' = [obj EXCEPT ![Head(mp[c].list)] = 0]
    /\ mp' = [mp EXCEPT ![c].list = Tail(@),
                  ![c].pc = IF Len(mp[c].list) = 1 THEN "del" ELSE "clean"]
    /\ UNCHANGED <<kv, final, requests, ok, raced, stray, ended>>

DelUpload(c) ==
    /\ MpAt(c, "del")
    /\ kv' = [rev |-> kv.rev + 1, parts |-> Gone]
    /\ ended' = TRUE
    /\ MpDone(c)
    /\ UNCHANGED <<obj, final, requests, ok, raced, stray>>

MpNext == \E c \in MpClient :
    \/ \E n \in Part, b \in Bytes : UploadPart(c, n, b)
    \/ PutPartObject(c) \/ PutPartLoad(c) \/ PutPartCAS(c) \/ UndoPart(c)
    \/ \E ns \in SUBSET Part : Complete(c, ns)
    \/ OpenPart(c) \/ Assemble(c) \/ Abort(c) \/ CleanPart(c) \/ DelUpload(c)

----------------------------------------------------------------------------
\* A part whose upload was acknowledged stays in the upload's record: parts
\* stored concurrently by several gateways are merged (putPart's retry loop).
AckedRecorded == MpExists => \A n \in Part : ok[n] # 0 => kv.parts[n] = ok[n]

\* The assembled object is the listed parts in part-number order, and its ETag
\* is that of its bytes, unless a part was stored again meanwhile.
AssembledExact ==
    /\ final.body = final.etag \/ Range(final.list) \cap raced # {}
    /\ \A i, j \in DOMAIN final.list : i < j => final.list[i] < final.list[j]

\* A finished upload never comes back: a late putPart cannot resurrect it.
FinishedStays == ended => ~MpExists

\* Once nothing is in flight a finished upload leaves no part object behind,
\* but for the parts it was not told of.
PartsReclaimed ==
    ended /\ (\A c \in MpClient : MpAt(c, "idle"))
    => \A n \in Part : obj[n] # 0 => n \in stray \cup raced

-----------------------------------------------------------------------------
(***************************************************************************)
(* The bucket registry of blobgw-s3 (bucketops.go, buckets.go), within one *)
(* credential's domain: buckets are records, and the objects of all of     *)
(* them live in the domain.                                                *)
(***************************************************************************)

CONSTANTS BkClient, Bucket, BkKey, MaxBkRequests

ASSUME BucketsAssumption == MaxBkRequests \in Nat

VARIABLES
    registry,   \* registered buckets
    objects,    \* objects of the domain: [key, via], via the bucket they came by
    bk,         \* requests
    bkCount,
    lateBk      \* history: buckets deleted under an object request

bkVars == <<registry, objects, bk, bkCount, lateBk>>

BkIdle == [pc |-> "idle", bucket |-> "none", key |-> "none"]

BkTypeOK ==
    /\ {registry, lateBk} \subseteq SUBSET Bucket
    /\ objects \subseteq [key : BkKey, via : Bucket]
    /\ bkCount \in 0 .. MaxBkRequests

BkInit ==
    /\ registry = {} /\ objects = {}
    /\ bk = [c \in BkClient |-> BkIdle] /\ bkCount = 0 /\ lateBk = {}

BkRequest(c, b, op, k) ==
    /\ bk[c].pc = "idle" /\ bkCount < MaxBkRequests /\ bkCount' = bkCount + 1
    /\ bk' = [bk EXCEPT ![c] = [pc |-> op, bucket |-> b, key |-> k]]
    /\ UNCHANGED <<registry, objects, lateBk>>

BkDone(c) == bk' = [bk EXCEPT ![c] = BkIdle]
BkGoto(c, pc) == bk' = [bk EXCEPT ![c].pc = pc]

\* A name that is taken is refused.
CreateBucket(c) ==
    /\ bk[c].pc = "create"
    /\ registry' = registry \cup {bk[c].bucket}
    /\ lateBk' = IF bk[c].bucket \in registry THEN lateBk ELSE lateBk \ {bk[c].bucket}
    /\ BkDone(c)
    /\ UNCHANGED <<objects, bkCount>>

\* An object request: the bucket must exist, then the object is stored.
CheckBucket(c) ==
    /\ bk[c].pc = "put"
    /\ IF bk[c].bucket \in registry THEN BkGoto(c, "store") ELSE BkDone(c)
    /\ UNCHANGED <<registry, objects, bkCount, lateBk>>

StoreObject(c) ==
    LET dropping == {bk[d].bucket : d \in {e \in BkClient : bk[e].pc = "drop"}}
    IN /\ bk[c].pc = "store"
       /\ objects' = {o \in objects : o.key # bk[c].key}
                     \cup {[key |-> bk[c].key, via |-> bk[c].bucket]}
       /\ lateBk' = lateBk \cup (dropping \cap {bk[c].bucket})
       /\ BkDone(c)
       /\ UNCHANGED <<registry, bkCount>>

DropObject(o) ==
    /\ objects' = objects \ {o}
    /\ UNCHANGED <<registry, bk, bkCount, lateBk>>

\* deleteBucket: known, then empty, then gone.
DeleteCheck(c) ==
    /\ bk[c].pc = "delete"
    /\ IF bk[c].bucket \in registry THEN BkGoto(c, "list") ELSE BkDone(c)
    /\ UNCHANGED <<registry, objects, bkCount, lateBk>>

DeleteList(c) ==
    /\ bk[c].pc = "list"
    /\ IF objects = {} THEN BkGoto(c, "drop") ELSE BkDone(c)
    /\ UNCHANGED <<registry, objects, bkCount, lateBk>>

DeleteDrop(c) ==
    LET b == bk[c].bucket
    IN /\ bk[c].pc = "drop"
       /\ registry' = registry \ {b}
       /\ lateBk' = IF \E d \in BkClient : bk[d].pc = "store" /\ bk[d].bucket = b
                    THEN lateBk \cup {b} ELSE lateBk
       /\ BkDone(c)
       /\ UNCHANGED <<objects, bkCount>>

BkNext ==
    \/ \E c \in BkClient :
         \/ \E b \in Bucket : \/ \E op \in {"create", "delete"} : BkRequest(c, b, op, "none")
                              \/ \E k \in BkKey : BkRequest(c, b, "put", k)
         \/ CreateBucket(c) \/ CheckBucket(c) \/ StoreObject(c)
         \/ DeleteCheck(c) \/ DeleteList(c) \/ DeleteDrop(c)
    \/ \E o \in objects : DropObject(o)

----------------------------------------------------------------------------
\* An object's bucket is registered, unless the bucket was deleted under a
\* request that had passed the existence check (deleteBucket and PutObject
\* both check, then act).
ObjectsHaveBucket == \A o \in objects : o.via \in registry \cup lateBk

\* Multipart uploads and buckets under concurrent requests: no acknowledged
\* part is lost, the object is assembled as listed, finished uploads stay
\* finished and leave nothing, objects are in registered buckets.
S3ObjectsSound ==
    /\ MpTypeOK /\ AckedRecorded /\ AssembledExact /\ FinishedStays /\ PartsReclaimed
    /\ BkTypeOK /\ ObjectsHaveBucket

=============================================================================
