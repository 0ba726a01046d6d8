------------------------------- MODULE Fronts -------------------------------
(***************************************************************************)
(* The front ends of the gateway: the metered edge, and the unmetered ones.*)
(***************************************************************************)
EXTENDS Gateway, Functions, TLC

-----------------------------------------------------------------------------
(***************************************************************************)
(* The edge's data path (blobgw-edge/edge): every request passes the quota *)
(* check before the gateway call and is charged after it, and a capability *)
(* may bind the bytes it reads or writes by their hash.  One tenant.       *)
(***************************************************************************)

CONSTANTS
    MaxBytes, MaxObjects,  \* the tenant's quota
    Ceiling,               \* largest object a request may upload
    Claim,                 \* hash claims of capabilities; 0: unbound
    MaxReq                 \* bound: requests started

ASSUME EdgeAssumption ==
    {MaxBytes, MaxObjects, Ceiling, MaxReq} \subseteq Nat /\ Claim \subseteq Body \cup {0}

VARIABLES
    edge,          \* the edge request each client runs
    bytes, count,  \* the quota store's counters
    reqs,
    slack          \* history: bytes the counters are excused for

quotaVars == <<bytes, count, slack>>
edgeVars == <<edge, reqs, quotaVars>>
vars == <<gwVars, edgeVars>>

NoReq == [kind |-> "none", ref |-> 0, want |-> 0, size |-> 0, raced |-> FALSE]

EdgeTypeOK ==
    /\ GwTypeOK
    /\ \A c \in Client : edge[c].kind \in
          {"none", "put", "body", "undo", "head", "delete", "finalize", "get"}
    /\ {bytes, count, slack} \subseteq Nat /\ reqs \in 0 .. MaxReq

EdgeInit ==
    /\ GwInit
    /\ edge = [c \in Client |-> NoReq]
    /\ bytes = 0 /\ count = 0 /\ reqs = 0 /\ slack = 0

----------------------------------------------------------------------------
(* The quota store.                                                         *)

Authorize(add) == count + 1 <= MaxObjects /\ bytes + add <= MaxBytes

\* A failing write of the counters is only logged.
RecordPut(size) ==
    \/ /\ bytes' = bytes + size /\ count' = count + 1
       /\ UNCHANGED <<slack, faults>>
    \/ /\ faults < MaxFaults /\ faults' = faults + 1
       /\ slack' = slack + size
       /\ UNCHANGED <<bytes, count>>

RecordDelete(size, excused) ==
    /\ bytes' = IF bytes < size THEN 0 ELSE bytes - size
    /\ count' = IF count = 0 THEN 0 ELSE count - 1
    /\ slack' = IF excused THEN slack + size ELSE slack

\* Requests on the same reference that overlap are marked.
Admit(c, kind, r, want, size) ==
    LET others == {d \in Client \ {c} : edge[d].kind # "none" /\ edge[d].ref = r}
    IN /\ edge[c].kind = "none" /\ reqs < MaxReq
       /\ reqs' = reqs + 1
       /\ edge' = [d \in Client |->
            IF d = c THEN [kind |-> kind, ref |-> r, want |-> want, size |-> size,
                           raced |-> others # {}]
            ELSE IF d \in others THEN [edge[d] EXCEPT !.raced = TRUE] ELSE edge[d]]

Finish(c) == edge' = [edge EXCEPT ![c] = NoReq]
Phase(c, kind) == edge' = [edge EXCEPT ![c].kind = kind]
Returned(c, kind) == edge[c].kind = kind /\ op[c].pc = "done"

----------------------------------------------------------------------------
(* handlePut.                                                               *)

EdgePut(c, r, want) ==
    /\ Authorize(Ceiling)
    /\ Admit(c, "put", r, want, 0)
    /\ UNCHANGED <<gwVars, quotaVars>>

EdgePutBody(c, b) ==
    /\ edge[c].kind = "put" /\ b <= Ceiling
    /\ PutStore(c, edge[c].ref, b, {})
    /\ Phase(c, "body")
    /\ UNCHANGED <<quotaVars, reqs>>

\* The upload breaks off, or MaxBytesReader ends it at the ceiling.
EdgePutBroken(c) ==
    /\ edge[c].kind = "put"
    /\ Finish(c)
    /\ UNCHANGED <<gwVars, quotaVars, reqs>>

\* The bytes do not have the hash the capability names: the reference goes.
Undo(c) ==
    /\ DeleteList(c, edge[c].ref)
    /\ edge' = [edge EXCEPT ![c].kind = "undo", ![c].size = op[c].body]
    /\ UNCHANGED <<quotaVars, reqs>>

Charge(c) ==
    /\ RecordPut(op[c].body)
    /\ Finish(c)
    /\ op' = [op EXCEPT ![c] = Idle(op[c].ref)]
    /\ UNCHANGED <<storeVars, gc, now, slots, histVars, reqs>>

Refuse(c) ==
    /\ Finish(c)
    /\ op' = [op EXCEPT ![c] = Idle(op[c].ref)]
    /\ UNCHANGED <<storeVars, gc, now, slots, faults, histVars, quotaVars, reqs>>

Bound(c) == edge[c].want = 0 \/ op[c].body = edge[c].want

EdgePutDone(c) ==
    /\ Returned(c, "body")
    /\ \/ op[c].res = "ok" /\ Bound(c) /\ Charge(c)
       \/ op[c].res = "ok" /\ ~Bound(c) /\ Undo(c)
       \/ op[c].res # "ok" /\ Refuse(c)

\* Undoing is best effort.
EdgeUndone(c) ==
    /\ Returned(c, "undo")
    /\ slack' = IF op[c].res = "ok" THEN slack ELSE slack + edge[c].size
    /\ Finish(c)
    /\ op' = [op EXCEPT ![c] = Idle(op[c].ref)]
    /\ UNCHANGED <<storeVars, gc, now, slots, faults, histVars, bytes, count, reqs>>

----------------------------------------------------------------------------
(* handleDelete: the size comes from a Head before the delete.              *)

EdgeDelete(c, r) ==
    /\ Admit(c, "head", r, 0, IF Readable(r) THEN refs[r].hash ELSE 0)
    /\ UNCHANGED <<gwVars, quotaVars>>

EdgeDeleteRun(c) ==
    /\ edge[c].kind = "head"
    /\ DeleteList(c, edge[c].ref)
    /\ Phase(c, "delete")
    /\ UNCHANGED <<quotaVars, reqs>>

EdgeDeleteDone(c) ==
    /\ Returned(c, "delete")
    /\ IF op[c].res = "ok" THEN RecordDelete(edge[c].size, edge[c].raced)
       ELSE UNCHANGED quotaVars
    /\ Finish(c)
    /\ op' = [op EXCEPT ![c] = Idle(op[c].ref)]
    /\ UNCHANGED <<storeVars, gc, now, slots, faults, histVars, reqs>>

----------------------------------------------------------------------------
(* stage and finalize.                                                      *)

EdgeStage(c, r, want) ==
    /\ edge[c].kind = "none" /\ reqs < MaxReq /\ Authorize(Ceiling)
    /\ MintRef(c, r, want)
    /\ reqs' = reqs + 1
    /\ UNCHANGED <<edge, quotaVars>>

EdgeFinalize(c, r, want) ==
    /\ Finalize(c, r)
    /\ Admit(c, "finalize", r, want, 0)
    /\ UNCHANGED quotaVars

\* Mutant: only direct uploads are charged.
EdgeFinalizeDone_Free(c) ==
    /\ Returned(c, "finalize")
    /\ \/ op[c].res = "ok" /\ Bound(c) /\ Refuse(c)
       \/ op[c].res = "ok" /\ ~Bound(c) /\ Undo(c)
       \/ op[c].res # "ok" /\ Refuse(c)

EdgeFinalizeDone(c) ==
    /\ Returned(c, "finalize")
    /\ \/ op[c].res = "ok" /\ Bound(c) /\ Charge(c)
       \/ op[c].res = "ok" /\ ~Bound(c) /\ Undo(c)
       \/ op[c].res # "ok" /\ Refuse(c)

----------------------------------------------------------------------------
(* handleGet: a capability minted for a hash is refused when the row has    *)
(* another one; what is streamed is the reader Get returned.                *)

EdgeGet(c, r, want) ==
    /\ GetRow(c, r)
    /\ Admit(c, "get", r, want, 0)
    /\ UNCHANGED quotaVars

Streamed(c) ==
    /\ Returned(c, "get") /\ op[c].res = "ok"
    /\ edge[c].want \in {0, op[c].row.hash}

EdgeGetDone(c) == Returned(c, "get") /\ Refuse(c)

----------------------------------------------------------------------------
EdgeStart(c) ==
    \/ \E r \in Ref, w \in Claim :
          EdgePut(c, r, w) \/ EdgeStage(c, r, w) \/ EdgeFinalize(c, r, w)
    \/ \E r \in Ref : EdgeDelete(c, r)
    \/ \E r \in Ref, w \in Claim : EdgeGet(c, r, w)

EdgeOwn(c) ==
    \/ (\E b \in Body : EdgePutBody(c, b)) \/ EdgePutBroken(c)
    \/ EdgePutDone(c) \/ EdgeUndone(c)
    \/ EdgeDeleteRun(c) \/ EdgeDeleteDone(c)
    \/ EdgeFinalizeDone(c) \/ EdgeGetDone(c)

EdgeNext ==
    \/ \E c \in Client : EdgeStart(c) \/ EdgeOwn(c)
    \/ (Background \/ \E c \in Client : GatewayStep(c)) /\ UNCHANGED edgeVars

EdgeSpec == EdgeInit /\ [][EdgeNext]_vars

----------------------------------------------------------------------------
(* Properties.                                                              *)

StoredBytes == FoldFunction(+, 0, [r \in {r \in Ref : Finalized(r)} |-> refs[r].hash])

\* What the gateway has stored for a request that is not charged for it yet.
Owing(c) ==
    IF edge[c].kind = "undo" THEN edge[c].size
    ELSE IF op[c].kind \in {"put", "fin"} /\ edge[c].kind \in {"body", "finalize"}
              /\ (op[c].pc = "clean" \/ (op[c].pc = "done" /\ op[c].res = "ok"))
    THEN op[c].body ELSE 0
Uncharged == FoldFunction(+, 0, [c \in Client |-> Owing(c)])

\* The bytes a tenant has stored are covered by its quota counter, whatever
\* interleaves between Authorize, the gateway call and RecordPut, up to the
\* charges that failed to be written, the undos that failed and the deletes
\* that overlapped another request on their reference.
QuotaCovers == StoredBytes <= bytes + slack + Uncharged

\* A read bound to a hash serves the bytes of that hash.
\* Refuted (no run checks it): the hash is compared with the row's, the body
\* is that of the latest manifest, and a Put writes one before the other.
BoundReads == \A c \in Client : Streamed(c) /\ edge[c].want # 0 => op[c].body = edge[c].want

\* The same, where handleGet's comparison suffices: the object was last written by a
\* request that ran alone, and no writer overlaps the read.
QuietReads == \A c \in Client :
    Streamed(c) /\ edge[c].want # 0 /\ op[c].raced = 0 /\ whole[op[c].ref] # 0 =>
        op[c].body = edge[c].want

-----------------------------------------------------------------------------
(***************************************************************************)
(* The unmetered front ends of the gateway: the HTTP server of blobgw, the *)
(* objects of the S3 front end (blobgw-s3/s3) and the bridge.  PutObject   *)
(* stores the bytes and then binds the ETag it computed from them by       *)
(* SetUserMeta.  The ETag of bytes b is the user tag b.                    *)
(***************************************************************************)

CONSTANTS
    Known,     \* contents known before the call: bridged files, declared hashes
    MaxCalls   \* bound: requests started

ASSUME FrontAssumption == MaxCalls \in Nat /\ Body \subseteq Tag /\ Known \subseteq Body

VARIABLES
    call,    \* the request each client runs
    calls,
    tagged   \* history: ETag bound by a PutObject no other request overlapped

frontVars == <<call, calls, tagged>>

NoFrontCall == [kind |-> "none", ref |-> 0, body |-> 0, alone |-> FALSE]

FrontTypeOK ==
    /\ \A c \in Client : call[c].kind \in {"none", "object", "meta", "plain"}
    /\ calls \in 0 .. MaxCalls /\ tagged \in [Ref -> Body \cup {0}]

FrontInit ==
    /\ call = [c \in Client |-> NoFrontCall] /\ calls = 0
    /\ tagged = [r \in Ref |-> 0]

Accept(c, kind, r, b) ==
    LET others == {d \in Client \ {c} : call[d].kind # "none" /\ call[d].ref = r}
    IN /\ call[c].kind = "none" /\ calls < MaxCalls
       /\ calls' = calls + 1
       /\ call' = [d \in Client |->
            IF d = c THEN [kind |-> kind, ref |-> r, body |-> b,
                           alone |-> others = {}]
            ELSE IF d \in others THEN [call[d] EXCEPT !.alone = FALSE] ELSE call[d]]
       /\ tagged' = [tagged EXCEPT ![r] = 0]

Plain(c, r) == Accept(c, "plain", r, 0)

----------------------------------------------------------------------------
(* The HTTP server.                                                         *)

ServerDelete(c, r) == DeleteList(c, r) /\ Plain(c, r)
ServerMint(c, r, want) == MintRef(c, r, want) /\ Plain(c, r)
ServerFinalize(c, r) == Finalize(c, r) /\ Plain(c, r)

----------------------------------------------------------------------------
(* The S3 front end and the bridge.                                         *)

PutObject(c, r, b) == PutStore(c, r, b, {}) /\ Accept(c, "object", r, b)

\* The MD5 is known once the body has been streamed.
PutObjectMeta(c) ==
    /\ call[c].kind = "object" /\ op[c].pc = "done" /\ op[c].res = "ok"
    /\ SetUserMeta(c, call[c].ref, {call[c].body})
    /\ call' = [call EXCEPT ![c].kind = "meta"]
    /\ UNCHANGED <<calls, tagged>>

BridgeRegister(c, r, b) == RegisterRef(c, r, b) /\ Plain(c, r)

Reply(c) ==
    /\ call[c].kind # "none" /\ op[c].pc = "done"
    /\ call[c].kind = "object" => op[c].res # "ok"
    /\ tagged' = [tagged EXCEPT ![call[c].ref] =
          IF call[c].kind = "meta" /\ op[c].res = "ok" /\ call[c].alone
          THEN call[c].body ELSE @]
    /\ call' = [call EXCEPT ![c] = NoFrontCall]
    /\ op' = [op EXCEPT ![c] = Idle(op[c].ref)]
    /\ UNCHANGED <<storeVars, gc, now, slots, faults, histVars, calls>>

FrontStart(c) ==
    \/ \E r \in Ref, b \in Body : PutObject(c, r, b)
    \/ \E r \in Ref, b \in Known : BridgeRegister(c, r, b) \/ ServerMint(c, r, b)
    \/ \E r \in Ref : ServerDelete(c, r) \/ ServerFinalize(c, r)

FrontNext ==
    \/ \E c \in Client : FrontStart(c) \/ PutObjectMeta(c) \/ Reply(c)
    \/ (Background \/ \E c \in Client : GatewayStep(c)) /\ UNCHANGED frontVars

----------------------------------------------------------------------------
\* After a PutObject that overlapped no other request the object's ETag is
\* that of its bytes, and is its only user tag, whatever versions earlier
\* and failed requests left behind.
EtagExact ==
    \A r \in Ref : tagged[r] # 0 /\ r \notin swept =>
        Readable(r) /\ Latest(r).body = tagged[r] /\ Latest(r).tags = {tagged[r]}

-----------------------------------------------------------------------------
(* The gateway behind one front end or the other.                           *)

VARIABLE front

gatewayVars == <<vars, frontVars, front>>

GatewayInit == EdgeInit /\ FrontInit /\ front \in {"edge", "open"}

GatewayNext ==
    \/ front = "edge" /\ EdgeNext /\ UNCHANGED <<frontVars, front>>
    \/ front = "open" /\ FrontNext /\ UNCHANGED <<edgeVars, front>>

GatewaySpec == GatewayInit /\ [][GatewayNext]_gatewayVars

\* Clients are interchangeable.
Clients == Permutations(Client)

\* What the gateway acknowledged stays, byte for byte and tag for tag, met the
\* hash it was declared with and is what a bound read returns, whichever front
\* end the requests came from.
AckedHolds ==
    /\ EdgeTypeOK /\ FrontTypeOK
    /\ AckedKept /\ AckedExact /\ EtagExact /\ IntegrityGate /\ QuietReads

\* QuotaCovers where the edge is the front end: the others are not metered.
MeteredCovers == front = "edge" => QuotaCovers
=============================================================================
