------------------------------ MODULE Gateway ------------------------------
(***************************************************************************)
(* The blob gateway (blobgw/gateway): objects live as manifest versions in *)
(* the chunk store and as one row per reference in the ref index.  The two *)
(* are written by separate calls, so the requests of concurrent clients    *)
(* and the staging sweeper interleave between them.                        *)
(*                                                                         *)
(* An object's bytes are a number: equal numbers, equal SHA-256; the       *)
(* number is also the size.  0 stands for "none" throughout.               *)
(***************************************************************************)
EXTENDS Naturals

CONSTANTS
    Ref,         \* object references of one domain
    Client,      \* request handlers running at a time
    Body,        \* contents an object can have
    Tag,         \* user metadata keys
    StagingTTL,  \* age at which a pending row is swept
    MaxClock, MaxVer, MaxSlot, MaxFaults   \* bounds

ASSUME GatewayAssumption ==
    /\ Ref # {} /\ Body \subseteq Nat \ {0}
    /\ {StagingTTL, MaxClock, MaxVer, MaxSlot, MaxFaults} \subseteq Nat

VARIABLES
    refs,    \* the ref index: a function from the references that have a row
    man,     \* the manifest versions in the store
    stage,   \* staging store: bytes by slot
    op,      \* the request each client is executing
    gc,      \* the staging sweeper: rows it listed and has still to reclaim
    now, slots, faults,
    \* History.
    kept,    \* references whose object was acknowledged and not given up since
    whole,   \* bytes last acknowledged by a request that ran alone, else 0
    swept    \* references acknowledged while the sweeper held them listed

storeVars == <<refs, man, stage>>
histVars == <<kept, whole, swept>>
gwVars == <<storeVars, op, gc, now, slots, faults, histVars>>

Row == [pending : BOOLEAN, slot : 0 .. MaxSlot, want : Body \cup {0},
        hash : Body \cup {0}, ver : 0 .. MaxVer, at : 0 .. MaxClock]
Manifest == [ref : Ref, ver : 1 .. MaxVer, body : Body, tags : SUBSET Tag]
Mutator == {"put", "reg", "meta", "fin", "del"}

NoRow == [pending |-> FALSE, slot |-> 0, want |-> 0, hash |-> 0, ver |-> 0, at |-> 0]
Idle(r) == [kind |-> "none", pc |-> "idle", ref |-> r, body |-> 0, tags |-> {},
            row |-> NoRow, ver |-> 0, vers |-> {}, stale |-> {}, raced |-> 0,
            was |-> 0, res |-> "none"]

GwTypeOK ==
    /\ DOMAIN refs \subseteq Ref /\ \A r \in DOMAIN refs : refs[r] \in Row
    /\ man \subseteq Manifest
    /\ \A m, n \in man : m.ver = n.ver => m = n
    /\ stage \in [1 .. MaxSlot -> Body \cup {0}]
    /\ \A c \in Client : op[c].ref \in Ref /\ op[c].row \in Row
    /\ gc \subseteq [ref : Ref, slot : 0 .. MaxSlot]
    /\ kept \in [Ref -> BOOLEAN] /\ whole \in [Ref -> Body \cup {0}]
    /\ swept \subseteq Ref

GwInit ==
    /\ refs = [r \in {} |-> NoRow] /\ man = {}
    /\ stage = [s \in 1 .. MaxSlot |-> 0]
    /\ op = [c \in Client |-> Idle(CHOOSE r \in Ref : TRUE)]
    /\ gc = {} /\ now = 0 /\ slots = 0 /\ faults = 0
    /\ kept = [r \in Ref |-> FALSE] /\ whole = [r \in Ref |-> 0] /\ swept = {}

----------------------------------------------------------------------------
(* The ref index and the manifest store.                                    *)

HasRow(r) == r \in DOMAIN refs
Finalized(r) == HasRow(r) /\ ~refs[r].pending
PutRow(r, row) == refs' = [q \in DOMAIN refs \cup {r} |-> IF q = r THEN row ELSE refs[q]]
DeleteRow(r) == refs' = [q \in DOMAIN refs \ {r} |-> refs[q]]

Versions(r) == {m \in man : m.ref = r}

\* Versions are handed out in increasing order.
Newer(v) ==
    /\ \A m \in man : m.ver < v
    /\ \A c \in Client : op[c].ver < v
    /\ \A r \in DOMAIN refs : refs[r].ver < v
Fresh == {v \in 1 .. MaxVer : Newer(v)}
NewVer == CHOOSE v \in Fresh : TRUE
Without(r, v) == {m \in man : ~(m.ref = r /\ m.ver = v)}

Latest(r) == CHOOSE m \in Versions(r) : \A n \in Versions(r) : n.ver <= m.ver
Written(r, b, tags) == [ref |-> r, ver |-> NewVer, body |-> b, tags |-> tags]
Readable(r) == Finalized(r) /\ Versions(r) # {}

\* Mutant: the pending filter is missing.
ListStalePending_Any(cutoff) ==
    {[ref |-> r, slot |-> refs[r].slot] : r \in
        {q \in DOMAIN refs : refs[q].at + cutoff <= now}}
ListStalePending(cutoff) ==
    {[ref |-> r, slot |-> refs[r].slot] : r \in
        {q \in DOMAIN refs : refs[q].pending /\ refs[q].at + cutoff <= now}}

----------------------------------------------------------------------------
(* Requests.  Begin records which other requests on the reference are under *)
(* way: raced is 2 when one of them deletes, 1 when one mutates.            *)

Ready(c) == op[c].pc \in {"idle", "done"}
Busy(d, r) == op[d].kind \in Mutator /\ ~Ready(d) /\ op[d].ref = r

\* A request overlapped by others of these kinds.
Raced(was, kinds) ==
    IF "del" \in kinds THEN 2 ELSE IF was = 0 /\ kinds # {} THEN 1 ELSE was

Begin(c, kind, r, new) ==
    LET others == {d \in Client \ {c} : Busy(d, r)}
        level == Raced(0, {op[d].kind : d \in others})
    IN /\ op' = [d \in Client |->
            IF d = c THEN [new EXCEPT !.kind = kind, !.raced = level, !.was = whole[r]]
            ELSE IF d \in others \/ (op[d].kind = "get" /\ op[d].ref = r)
                 THEN [op[d] EXCEPT !.raced = Raced(@, {kind})]
            ELSE op[d]]
       /\ whole' = [whole EXCEPT ![r] = 0]
       /\ kept' = [kept EXCEPT ![r] = @ /\ kind # "del"]

Step(c, pc) == op' = [op EXCEPT ![c].pc = pc]
Return(c, res) == op' = [op EXCEPT ![c].pc = "done", ![c].res = res]

\* The object b of r is acknowledged to its writer.
Ack(c, r, b) ==
    /\ kept' = [kept EXCEPT ![r] = op[c].raced < 2]
    /\ whole' = [whole EXCEPT ![r] = IF op[c].raced = 0 THEN b ELSE 0]
    /\ swept' = IF \E i \in gc : i.ref = r THEN swept \cup {r} ELSE swept \ {r}

\* A call to the store or the index fails, or the process dies: the request
\* stops where it is.  RegisterRef takes its manifest back if it still can.
FailRequest(c) ==
    /\ ~Ready(c) /\ op[c].pc # "clean" /\ faults < MaxFaults
    /\ faults' = faults + 1
    /\ Return(c, "error")
    /\ man' \in {man} \cup (IF op[c].kind = "reg"
                            THEN {Without(op[c].ref, op[c].ver)} ELSE {})
    /\ UNCHANGED <<refs, stage, gc, now, slots, histVars>>

----------------------------------------------------------------------------
(* Put and PutWithMeta: the bytes go to the store, then the row.            *)

Opened(r, b, tags) == [Idle(r) EXCEPT !.pc = "row", !.body = b, !.tags = tags, !.ver = NewVer]

PutStore(c, r, b, tags) ==
    /\ Ready(c) /\ Fresh # {}
    /\ Begin(c, "put", r, Opened(r, b, tags))
    /\ man' = man \cup {Written(r, b, tags)}
    /\ UNCHANGED <<refs, stage, gc, now, slots, faults, swept>>

FinalRow(c, want) == [pending |-> FALSE, slot |-> 0, want |-> want,
                      hash |-> op[c].body, ver |-> op[c].ver, at |-> now]

PutRowStep(c) ==
    /\ op[c].kind \in {"put", "reg"} /\ op[c].pc = "row"
    /\ PutRow(op[c].ref, FinalRow(c, 0))
    /\ Ack(c, op[c].ref, op[c].body)
    /\ Return(c, "ok")
    /\ UNCHANGED <<man, stage, gc, now, slots, faults>>

\* RegisterRef: a manifest over chunks that are stored already.
RegisterRef(c, r, b) ==
    /\ Ready(c) /\ Fresh # {}
    /\ Begin(c, "reg", r, Opened(r, b, {}))
    /\ man' = man \cup {Written(r, b, {})}
    /\ UNCHANGED <<refs, stage, gc, now, slots, faults, swept>>

----------------------------------------------------------------------------
(* SetUserMeta: reads the row and the current tags, rewrites the latest     *)
(* manifest (read and write are two calls), then puts the row it read.      *)

SetUserMeta(c, r, tags) ==
    /\ Ready(c)
    /\ IF Readable(r)
       THEN Begin(c, "meta", r, [Idle(r) EXCEPT !.pc = "load", !.tags = tags,
                  !.row = refs[r], !.stale = Latest(r).tags \ tags])
       ELSE /\ op' = [op EXCEPT ![c] = [Idle(r) EXCEPT !.pc = "done", !.res = "notfound"]]
            /\ UNCHANGED <<kept, whole>>
    /\ UNCHANGED <<storeVars, gc, now, slots, faults, swept>>

\* UpdateLatestMeta reads the latest manifest ...
MetaLoad(c) ==
    /\ op[c].kind = "meta" /\ op[c].pc = "load"
    /\ IF Versions(op[c].ref) = {} THEN Return(c, "notfound")
       ELSE op' = [op EXCEPT ![c].pc = "store", ![c].body = Latest(op[c].ref).body,
                   ![c].tags = @ \cup (Latest(op[c].ref).tags \ op[c].stale)]
    /\ UNCHANGED <<storeVars, gc, now, slots, faults, histVars>>

\* ... and writes the same chunks as a new version.
MetaStore(c) ==
    /\ op[c].kind = "meta" /\ op[c].pc = "store" /\ Fresh # {}
    /\ man' = man \cup {Written(op[c].ref, op[c].body, op[c].tags)}
    /\ op' = [op EXCEPT ![c].pc = "row", ![c].ver = NewVer]
    /\ UNCHANGED <<refs, stage, gc, now, slots, faults, histVars>>

MetaRow(c) ==
    /\ op[c].kind = "meta" /\ op[c].pc = "row"
    /\ PutRow(op[c].ref, [op[c].row EXCEPT !.ver = op[c].ver])
    /\ Ack(c, op[c].ref, op[c].was)
    /\ Return(c, "ok")
    /\ UNCHANGED <<man, stage, gc, now, slots, faults>>

----------------------------------------------------------------------------
(* Get: the row, then the latest manifest.                                  *)

GetRow(c, r) ==
    /\ Ready(c) /\ Finalized(r)
    /\ op' = [op EXCEPT ![c] = [Idle(r) EXCEPT !.kind = "get", !.pc = "body",
                 !.row = refs[r],
                 !.raced = IF \E d \in Client : Busy(d, r) THEN 1 ELSE 0]]
    /\ UNCHANGED <<storeVars, gc, now, slots, faults, histVars>>

GetBody(c) ==
    /\ op[c].kind = "get" /\ op[c].pc = "body"
    /\ op' = [op EXCEPT ![c].pc = "done",
                 ![c].res = IF Versions(op[c].ref) = {} THEN "notfound" ELSE "ok",
                 ![c].body = IF Versions(op[c].ref) = {} THEN 0
                             ELSE Latest(op[c].ref).body]
    /\ UNCHANGED <<storeVars, gc, now, slots, faults, histVars>>

----------------------------------------------------------------------------
(* Delete: lists the versions, deletes each, then the row.                  *)

DeleteList(c, r) ==
    /\ Ready(c)
    /\ Begin(c, "del", r, [Idle(r) EXCEPT !.pc = "versions",
                               !.vers = {m.ver : m \in Versions(r)}])
    /\ UNCHANGED <<storeVars, gc, now, slots, faults, swept>>

DeleteVersion(c) ==
    /\ op[c].kind = "del" /\ op[c].pc = "versions" /\ op[c].vers # {}
    /\ LET v == CHOOSE v \in op[c].vers : \A w \in op[c].vers : w <= v
       IN /\ man' = Without(op[c].ref, v)
          /\ op' = [op EXCEPT ![c].vers = @ \ {v}]
    /\ UNCHANGED <<refs, stage, gc, now, slots, faults, histVars>>

DeleteRefRow(c) ==
    /\ op[c].kind = "del" /\ op[c].pc = "versions" /\ op[c].vers = {}
    /\ DeleteRow(op[c].ref)
    /\ Return(c, "ok")
    /\ UNCHANGED <<man, stage, gc, now, slots, faults, histVars>>

----------------------------------------------------------------------------
(* Staged uploads: mint, upload to the presigned URL, finalize.             *)

MintRef(c, r, want) ==
    /\ Ready(c) /\ slots < MaxSlot
    /\ slots' = slots + 1
    /\ PutRow(r, [NoRow EXCEPT !.pending = TRUE, !.slot = slots + 1,
                      !.want = want, !.at = now])
    /\ kept' = [kept EXCEPT ![r] = FALSE] /\ whole' = [whole EXCEPT ![r] = 0]
    /\ op' = [op EXCEPT ![c] = [Idle(r) EXCEPT !.kind = "mint", !.pc = "done", !.res = "ok"]]
    /\ UNCHANGED <<man, stage, gc, now, faults, swept>>

\* The client uploads to its URL, once or again.
Upload(s, b) ==
    /\ s <= slots /\ stage[s] # b
    /\ stage' = [stage EXCEPT ![s] = b]
    /\ UNCHANGED <<refs, man, op, gc, now, slots, faults, histVars>>

Finalize(c, r) ==
    /\ Ready(c) /\ HasRow(r)
    /\ IF refs[r].pending
       THEN Begin(c, "fin", r, [Idle(r) EXCEPT !.pc = "open", !.row = refs[r]])
       ELSE /\ op' = [op EXCEPT ![c] = [Idle(r) EXCEPT !.kind = "fin", !.pc = "done",
                         !.row = refs[r], !.body = refs[r].hash, !.res = "ok"]]
            /\ UNCHANGED <<kept, whole>>
    /\ UNCHANGED <<storeVars, gc, now, slots, faults, swept>>

FinStore(c) ==
    /\ op[c].kind = "fin" /\ op[c].pc = "open"
    /\ LET b == stage[op[c].row.slot]
       IN IF b = 0 THEN Return(c, "error") /\ man' = man
          ELSE /\ Fresh # {}
               /\ man' = man \cup {Written(op[c].ref, b, {})}
               /\ op' = [op EXCEPT ![c].pc = "check", ![c].body = b, ![c].ver = NewVer]
    /\ UNCHANGED <<refs, stage, gc, now, slots, faults, histVars>>

Mismatch(c) == op[c].row.want # 0 /\ op[c].row.want # op[c].body

FinReject(c) ==
    /\ op[c].kind = "fin" /\ op[c].pc = "check" /\ Mismatch(c)
    /\ man' = Without(op[c].ref, op[c].ver)
    /\ stage' = [stage EXCEPT ![op[c].row.slot] = 0]
    /\ Return(c, "integrity")
    /\ UNCHANGED <<refs, gc, now, slots, faults, histVars>>

FinRow(c) ==
    /\ op[c].kind = "fin" /\ op[c].pc = "check" /\ ~Mismatch(c)
    /\ PutRow(op[c].ref, FinalRow(c, op[c].row.want))
    /\ Ack(c, op[c].ref, op[c].body)
    /\ Step(c, "clean")
    /\ UNCHANGED <<man, stage, gc, now, slots, faults>>

FinClean(c) ==
    /\ op[c].kind = "fin" /\ op[c].pc = "clean"
    /\ \/ stage' = [stage EXCEPT ![op[c].row.slot] = 0] /\ faults' = faults
       \/ faults < MaxFaults /\ faults' = faults + 1 /\ stage' = stage
    /\ Return(c, "ok")
    /\ UNCHANGED <<refs, man, gc, now, slots, histVars>>

----------------------------------------------------------------------------
(* StagingGC.RunOnce: lists the stale pending rows, then reclaims each.     *)

GcList ==
    /\ gc = {} /\ ListStalePending(StagingTTL) # {}
    /\ gc' = ListStalePending(StagingTTL)
    /\ UNCHANGED <<storeVars, op, now, slots, faults, histVars>>

GcReclaim(i) ==
    /\ i \in gc
    /\ stage' = [stage EXCEPT ![i.slot] = 0]
    /\ DeleteRow(i.ref)
    /\ gc' = gc \ {i}
    /\ UNCHANGED <<man, op, now, slots, faults, histVars>>

Tick ==
    /\ now < MaxClock
    /\ now' = now + 1
    /\ UNCHANGED <<storeVars, op, gc, slots, faults, histVars>>

GatewayStep(c) ==
    \/ PutRowStep(c) \/ MetaLoad(c) \/ MetaStore(c) \/ MetaRow(c)
    \/ GetBody(c) \/ DeleteVersion(c) \/ DeleteRefRow(c)
    \/ FinStore(c) \/ FinReject(c) \/ FinRow(c) \/ FinClean(c)
    \/ FailRequest(c)

Background ==
    \/ \E s \in 1 .. MaxSlot, b \in Body : Upload(s, b)
    \/ GcList \/ (\E i \in gc : GcReclaim(i)) \/ Tick

----------------------------------------------------------------------------
(* Properties.                                                              *)

\* An acknowledged object stays readable until someone deletes or re-mints
\* its reference: concurrent puts, metadata rewrites, repeated finalizes,
\* failed requests and the sweeper never take it away.  Excused are requests
\* that overlapped a delete and references the sweeper had listed before.
AckedKept == \A r \in Ref : kept[r] => Readable(r) \/ r \in swept

\* What ListStalePending's contract adds: a row listed as stale "has no
\* in-flight Finalize", so the sweeper cannot remove an acknowledged object.
\* Refuted (no run checks it): the sweeper's list is older than the Put or the
\* Finalize that completed since, and it deletes the row by name.
AckedSurvivesSweep == \A r \in Ref : kept[r] => Readable(r)

\* After a request that overlapped no other, the row's hash, the bytes the
\* store returns and the acknowledged bytes agree, and stay so.
AckedExact ==
    \A r \in Ref : whole[r] # 0 /\ r \notin swept =>
        Readable(r) /\ refs[r].hash = whole[r] /\ Latest(r).body = whole[r]

\* A finalized row that carries an expectation meets it (Finalize's integrity
\* gate), whoever uploads to the staging slot while Finalize runs.
IntegrityGate ==
    \A r \in Ref : Finalized(r) /\ refs[r].want # 0 => refs[r].hash = refs[r].want
=============================================================================
