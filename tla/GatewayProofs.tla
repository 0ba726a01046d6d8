---------------------------- MODULE GatewayProofs ----------------------------
(* What the gateway has acknowledged stays held, for every set of clients and   *)
(* references, every bound, and both front ends.  The invariant says who        *)
(* overlaps whom (OverlapInv), what the manifests (ManifestInv) and the rows     *)
(* (RowInv) of a reference hold between the steps of a request, what a read      *)
(* that is under way has seen (ReadInv), and what the edge (EdgeInv) and the     *)
(* open front end (CallInv, SideInv, TagInv) know of the requests they started.  *)
EXTENDS Fronts, TLAPS

USE Zenon

\* A request is at a phase of its kind.
PhaseOK(o) ==
    /\ o.pc = "idle" => o.kind = "none"
    /\ o.pc = "body" => o.kind = "get"
    /\ o.pc = "versions" => o.kind = "del"
    /\ o.pc \in {"load", "store"} => o.kind = "meta"
    /\ o.pc \in {"open", "check", "clean"} => o.kind = "fin"
    /\ o.pc = "row" => o.kind \in {"put", "reg", "meta"}

\* The phases, results and records of the requests.
Pcs == {"idle", "row", "load", "store", "body", "versions", "open", "check", "clean", "done"}
Results == {"none", "ok", "error", "notfound", "integrity"}
OpRec == [kind : {"none", "mint", "get", "put", "reg", "meta", "del", "fin"}, pc : Pcs,
          ref : Ref, body : Body \cup {0}, tags : SUBSET Tag, row : Row, ver : 0 .. MaxVer,
          vers : SUBSET Nat, stale : SUBSET Tag, raced : {0, 1, 2}, was : Body \cup {0},
          res : Results]

\* The type invariant, with the phases and the bounds.
Typed ==
    /\ GwTypeOK
    /\ op \in [Client -> OpRec] /\ \A c \in Client : PhaseOK(op[c])
    /\ now \in 0 .. MaxClock /\ slots \in 0 .. MaxSlot

\* Staged rows have a slot.
Staged ==
    /\ \A r \in DOMAIN refs : refs[r].pending => refs[r].slot \in 1 .. MaxSlot
    /\ \A c \in Client : op[c].kind = "fin" /\ ~Ready(c) => op[c].row.slot \in 1 .. MaxSlot
    /\ \A c \in Client : op[c].pc = "store" => op[c].body # 0

\* A manifest was written and its row was not.
Unacked(c) == op[c].pc \in {"row", "check"}

\* A mutator under way, and the reference it is on.
Busied(c) == op[c].kind \in Mutator /\ ~Ready(c)
On(c, r) == Busied(c) /\ op[c].ref = r

\* The latest version of a reference.
Top(r, m) == m \in man /\ m.ref = r /\ \A n \in man : n.ref = r => n.ver <= m.ver

(* Who overlaps whom.                                                       *)

\* Two mutators on one reference know of each other; a delete is known as such.
AloneAt(c, d) ==
    Busied(d) /\ On(c, op[d].ref) /\ c # d =>
        op[c].raced # 0 /\ (op[d].kind = "del" /\ op[c].kind # "del" => op[c].raced = 2)
\* Versions are not shared.
DistinctAt(c, d) == Unacked(c) /\ Unacked(d) /\ op[c].ver = op[d].ver => c = d
\* What is acknowledged has no delete on it, what is whole no mutator but a cleanup.
QuietAt(c, r) ==
    On(c, r) => (kept[r] => op[c].kind # "del") /\ (whole[r] # 0 => op[c].pc = "clean")

OverlapInv ==
    /\ \A c, d \in Client : AloneAt(c, d)
    /\ \A c, d \in Client : DistinctAt(c, d)
    /\ \A c \in Client, r \in Ref : QuietAt(c, r)
    /\ \A r \in Ref : whole[r] # 0 => kept[r]

(* The manifests.                                                           *)

\* Every set of manifests has a last version.
HasLast == \A S \in SUBSET man : S # {} => \E m \in S : \A n \in S : n.ver <= m.ver

\* The manifest of a request whose row is still to be written.
StoredAt(c) ==
    Unacked(c) /\ op[c].raced # 2 =>
        \E m \in man : /\ m.ref = op[c].ref /\ m.ver = op[c].ver /\ m.body = op[c].body
                       /\ op[c].raced = 0 => Top(op[c].ref, m)
\* An acknowledged body has a manifest that no request may still take back.
KeptBodyAt(r) ==
    kept[r] => \E m \in man : m.ref = r /\ \A c \in Client : Unacked(c) => op[c].ver # m.ver
\* What no request overlapped is the latest version.
WholeTopAt(r) == whole[r] # 0 => \E m \in man : Top(r, m) /\ m.body = whole[r]
\* SetUserMeta is under way; nobody overlapped it and the reference was whole.
Rewriting(c) == op[c].kind = "meta" /\ ~Ready(c)
Exact(c) == Rewriting(c) /\ op[c].raced = 0 /\ op[c].was # 0
\* It rewrites the bytes that were acknowledged.
MetaTopAt(c) ==
    Exact(c) => /\ op[c].pc = "load" => \E m \in man : Top(op[c].ref, m) /\ m.body = op[c].was
                /\ op[c].pc # "load" => op[c].body = op[c].was

ManifestInv ==
    /\ HasLast
    /\ \A c \in Client : StoredAt(c) /\ MetaTopAt(c)
    /\ \A r \in Ref : KeptBodyAt(r) /\ WholeTopAt(r)

(* The rows.                                                                *)

\* An acknowledged reference has its final row and no sweep lists it, or a sweep did.
KeptRowAt(r) == kept[r] => r \in swept \/ (Finalized(r) /\ \A i \in gc : i.ref # r)
\* The row of a whole reference has the hash of its bytes.
WholeRowAt(r) == whole[r] # 0 /\ HasRow(r) => ~refs[r].pending /\ refs[r].hash = whole[r]
\* The hash gate: a final row has the hash its minter asked for.
GateAt(r) == Finalized(r) /\ refs[r].want # 0 => refs[r].hash = refs[r].want
\* So has the row SetUserMeta is about to write back.
MetaRowAt(c) ==
    /\ Rewriting(c) => /\ ~op[c].row.pending
                       /\ op[c].row.want # 0 => op[c].row.hash = op[c].row.want
    /\ Exact(c) => op[c].row.hash = op[c].was

RowInv ==
    /\ \A r \in Ref : KeptRowAt(r) /\ WholeRowAt(r) /\ GateAt(r)
    /\ \A c \in Client : MetaRowAt(c)

(* The reads.                                                               *)

\* A read that no mutator overlapped sees the acknowledged bytes.
Quietly(c) == op[c].kind = "get" /\ op[c].raced = 0
ReadAt(c) ==
    Quietly(c) =>
        /\ \A d \in Client : ~On(d, op[c].ref)
        /\ whole[op[c].ref] # 0 =>
              /\ op[c].row.hash = whole[op[c].ref]
              /\ op[c].pc = "done" /\ op[c].res = "ok" => op[c].body = whole[op[c].ref]
ReadInv == \A c \in Client : ReadAt(c)

\* The invariant of the gateway under whatever front end.
GwInv == Typed /\ Staged /\ OverlapInv /\ ManifestInv /\ RowInv /\ ReadInv

\* The front ends.
Calling(c) == call[c].kind # "none"

\* The requests at the edge.
EdgeKinds == {"none", "put", "body", "undo", "head", "delete", "finalize", "get"}
EdgeRec == [kind : EdgeKinds, ref : Ref \cup {0}, want : Claim \cup {0}, size : Nat, raced : BOOLEAN]

\* A request of the edge names a reference, and a read is one in the gateway.
Admitted(c) ==
    /\ edge[c].kind # "none" => edge[c].ref \in Ref
    /\ edge[c].kind = "get" => op[c].kind = "get"
EdgeInv ==
    /\ edge \in [Client -> EdgeRec] /\ \A c \in Client : Admitted(c)
    /\ bytes \in Nat /\ count \in Nat /\ slack \in Nat /\ reqs \in 0 .. MaxReq

\* The calls at the open front end.
CallRec == [kind : {"none", "object", "meta", "plain"}, ref : Ref \cup {0}, body : Body \cup {0},
            alone : BOOLEAN]
Accepted(c) ==
    /\ Calling(c) => call[c].ref \in Ref
    /\ call[c].kind = "object" => call[c].body \in Body

\* Two calls on one reference know of each other.
KnownAt(c, d) ==
    Calling(c) /\ Calling(d) /\ c # d /\ call[c].ref = call[d].ref => ~call[c].alone
CallInv ==
    /\ call \in [Client -> CallRec] /\ \A c \in Client : Accepted(c)
    /\ \A c, d \in Client : KnownAt(c, d)
    /\ calls \in 0 .. MaxCalls /\ tagged \in [Ref -> Body \cup {0}]

\* One front end is idle, and mutators of the open one serve a call.
ServesCall(c) == Busied(c) => Calling(c) /\ call[c].ref = op[c].ref
SideInv ==
    /\ front = "edge" => (\A c \in Client : ~Calling(c)) /\ \A r \in Ref : tagged[r] = 0
    /\ front = "open" => (\A c \in Client : edge[c].kind = "none") /\ \A c \in Client : ServesCall(c)

\* The latest version of r has these tags.
TopTags(r, tags) == \E m \in man : Top(r, m) /\ m.tags = tags

\* c stores the bytes b of r, alone.
StoresAlone(c, r, b) ==
    /\ op[c].kind = "put" /\ op[c].ref = r /\ op[c].body = b /\ b # 0 /\ op[c].raced = 0
    /\ op[c].pc = "row" \/ op[c].res = "ok" => TopTags(r, {})
    /\ op[c].pc = "done" /\ op[c].res = "ok" => whole[r] = b

\* c binds the ETag of b to r, alone.
BindsAlone(c, r, b) ==
    /\ op[c].ref = r /\ b # 0
    /\ op[c].kind # "meta" => op[c].pc = "done" /\ op[c].res # "ok"
    /\ op[c].kind = "meta" =>
         /\ op[c].raced = 0 /\ op[c].was = b
         /\ op[c].pc \in {"load", "store"} => op[c].tags = {b}
         /\ op[c].pc = "load" => op[c].stale = {} /\ TopTags(r, {})
         /\ op[c].pc = "row" \/ op[c].res = "ok" => TopTags(r, {b})
         /\ op[c].pc = "done" /\ op[c].res = "ok" => whole[r] = b

\* The tag a PutObject returned is the tag of what is stored, until another call comes.
TaggedAt(r) ==
    tagged[r] # 0 => /\ \A c \in Client : Calling(c) => call[c].ref # r
                     /\ whole[r] = tagged[r] /\ TopTags(r, {tagged[r]})
\* A call that is alone is served by the request it started.
PutAt(c) ==
    call[c].alone => /\ call[c].kind = "object" => StoresAlone(c, call[c].ref, call[c].body)
                     /\ call[c].kind = "meta" => BindsAlone(c, call[c].ref, call[c].body)

TagInv == (\A r \in Ref : TaggedAt(r)) /\ \A c \in Client : PutAt(c)

-----------------------------------------------------------------------------
(* What one step does to the requests.                                      *)

\* A request of another client is at most marked as overlapped.
Marked(d) ==
    /\ op'[d].kind = op[d].kind /\ op'[d].pc = op[d].pc /\ op'[d].ref = op[d].ref
    /\ op'[d].body = op[d].body /\ op'[d].ver = op[d].ver /\ op'[d].row = op[d].row
    /\ op'[d].was = op[d].was /\ op'[d].res = op[d].res /\ op'[d].tags = op[d].tags
    /\ op'[d].stale = op[d].stale
    /\ op'[d].raced = 0 => op[d].raced = 0
    /\ op[d].raced = 2 => op'[d].raced = 2
\* All the others are.
Others(c) == \A d \in Client : d # c => Marked(d)

\* The requests of the others are where they were.
LEMMA OthersStay ==
    ASSUME NEW d, Marked(d)
    PROVE  /\ Busied(d)' = Busied(d) /\ Unacked(d)' = Unacked(d) /\ Ready(d)' = Ready(d)
           /\ Rewriting(d)' = Rewriting(d) /\ (Exact(d)' => Exact(d)) /\ (Quietly(d)' => Quietly(d))
           /\ \A r : On(d, r)' = On(d, r)
  BY DEF Marked, Busied, Unacked, Ready, Rewriting, Exact, Quietly, On

\* Nothing new is acknowledged.
NoneAcked ==
    /\ \A r \in Ref : kept'[r] => kept[r]
    /\ \A r \in Ref : whole'[r] # 0 => whole'[r] = whole[r] /\ kept'[r]

\* The request of c goes on, or ends.
GoesOn(c) ==
    /\ op'[c].ref = op[c].ref /\ op'[c].kind = op[c].kind /\ op'[c].raced = op[c].raced
    /\ op[c].pc # "clean" /\ Busied(c)
\* It goes on if it does not end, and a version it takes is its own.
Advances(c) ==
    /\ Busied(c)' => GoesOn(c)
    /\ Unacked(c)' => \A d \in Client : d # c => op[d].ver # op'[c].ver

\* The others do nothing.
OthersSame(c) == \A d \in Client : d # c => op'[d] = op[d]

\* A record that did not change is not even marked.
LEMMA SameMarked == ASSUME NEW c, OthersSame(c) PROVE Others(c)
  BY DEF OthersSame, Others, Marked

\* Requests that overlapped none still do.
LEMMA OverlapStay ==
    ASSUME OverlapInv, NEW c \in Client, OthersSame(c), Advances(c), NoneAcked
    PROVE  OverlapInv'
<1> USE DEF OverlapInv
<1>1. \A d \in Client : d # c => Marked(d)
  BY SameMarked DEF Others
<1>2. \A d \in Client : d # c => /\ Busied(d)' = Busied(d) /\ Unacked(d)' = Unacked(d)
                                 /\ \A r : On(d, r)' = On(d, r)
  BY <1>1, OthersStay
<1>3. \A d \in Client : d # c => op'[d] = op[d]
  BY DEF OthersSame
<1>4. ASSUME NEW d \in Client, NEW e \in Client PROVE AloneAt(d, e)'
  <2>0. AloneAt(d, e)
    OBVIOUS
  <2>1. CASE d # c /\ e # c
    <3>1. op'[d] = op[d] /\ op'[e] = op[e] /\ Busied(e)' = Busied(e)
      BY <2>1, <1>2, <1>3
    <3>2. On(d, op[e].ref)' = On(d, op[e].ref)
      BY <2>1, <3>1, <1>2
    <3> QED
      BY <2>0, <3>1, <3>2 DEF AloneAt, On
  <2>2. CASE d = c /\ e # c
    <3>1. op'[e] = op[e] /\ Busied(e)' = Busied(e)
      BY <2>2, <1>2, <1>3
    <3>2. Busied(d)' => /\ Busied(d) /\ op'[d].ref = op[d].ref /\ op'[d].kind = op[d].kind
                        /\ op'[d].raced = op[d].raced
      BY <2>2 DEF Advances, GoesOn
    <3> QED
      BY <2>0, <3>1, <3>2 DEF AloneAt, On
  <2>3. CASE e = c /\ d # c
    BY <2>0, <2>3, <1>2, <1>3 DEF AloneAt, On, Advances, GoesOn
  <2> QED
    BY <2>1, <2>2, <2>3 DEF AloneAt
<1>5. ASSUME NEW d \in Client, NEW e \in Client PROVE DistinctAt(d, e)'
  <2>0. DistinctAt(d, e)
    OBVIOUS
  <2>1. \A x \in Client : x # c => op'[x].ver = op[x].ver /\ Unacked(x)' = Unacked(x)
    BY <1>2, <1>3
  <2>2. Unacked(c)' => \A x \in Client : x # c => op[x].ver # op'[c].ver
    BY DEF Advances
  <2> QED
    BY <2>0, <2>1, <2>2 DEF DistinctAt
<1>6. ASSUME NEW d \in Client, NEW r \in Ref PROVE QuietAt(d, r)'
  <2>0. QuietAt(d, r) /\ (kept'[r] => kept[r]) /\ (whole'[r] # 0 => whole[r] # 0)
    BY DEF NoneAcked
  <2>1. CASE d # c
    BY <2>0, <2>1, <1>2, <1>3 DEF QuietAt
  <2>2. CASE d = c
    <3>1. On(c, r)' => On(c, r) /\ op'[c].kind = op[c].kind /\ op[c].pc # "clean"
      BY DEF Advances, GoesOn, On
    <3> QED
      BY <2>0, <2>2, <3>1 DEF QuietAt
  <2> QED
    BY <2>1, <2>2
<1>7. \A r \in Ref : whole'[r] # 0 => kept'[r]
  BY DEF NoneAcked
<1> QED
  BY <1>4, <1>5, <1>6, <1>7


\* A request begins on r: whoever is under way there is told, and so is c.
BeginsOn(c, r) ==
    /\ op'[c].ref = r
    /\ \A d \in Client : d # c /\ On(d, r) =>
          /\ op'[d].raced # 0 /\ op'[c].raced # 0
          /\ op'[c].kind = "del" => op'[d].raced = 2
          /\ op[d].kind = "del" => op'[c].raced = 2
    /\ whole'[r] = 0 /\ (kept'[r] => op'[c].kind # "del")
    /\ Unacked(c)' => \A d \in Client : op[d].ver # op'[c].ver

\* A request that begins meets whoever else is on its reference.
LEMMA OverlapBegin ==
    ASSUME OverlapInv, NEW c \in Client, NEW r \in Ref, Others(c), BeginsOn(c, r), NoneAcked
    PROVE  OverlapInv'
<1> USE DEF OverlapInv
<1>1. \A d \in Client : d # c => Marked(d)
  BY DEF Others
<1>2. \A d \in Client : d # c => /\ Busied(d)' = Busied(d) /\ Unacked(d)' = Unacked(d)
                                 /\ \A q : On(d, q)' = On(d, q)
  BY <1>1, OthersStay
<1>4. ASSUME NEW d \in Client, NEW e \in Client PROVE AloneAt(d, e)'
  <2>0. AloneAt(d, e)
    OBVIOUS
  <2>1. CASE d # c /\ e # c
    BY <2>0, <2>1, <1>1, <1>2 DEF AloneAt, Marked
  <2>2. CASE d = c /\ e # c
    <3>1. Busied(e)' /\ op'[e].ref = r => On(e, r)
      BY <2>2, <1>1, <1>2 DEF On, Marked
    <3>2. On(c, op[e].ref)' => op'[e].ref = r
      BY DEF On, BeginsOn
    <3>3. op'[e].kind = op[e].kind
      BY <2>2, <1>1 DEF Marked
    <3> QED
      BY <2>2, <3>1, <3>2, <3>3 DEF AloneAt, BeginsOn
  <2>3. CASE e = c /\ d # c
    BY <2>3, <1>1, <1>2 DEF AloneAt, On, BeginsOn, Marked
  <2> QED
    BY <2>1, <2>2, <2>3 DEF AloneAt
<1>5. ASSUME NEW d \in Client, NEW e \in Client PROVE DistinctAt(d, e)'
  <2>0. DistinctAt(d, e)
    OBVIOUS
  <2>1. \A x \in Client : x # c => op'[x].ver = op[x].ver
    BY <1>1 DEF Marked
  <2> QED
    BY <2>0, <2>1, <1>2 DEF DistinctAt, BeginsOn
<1>6. ASSUME NEW d \in Client, NEW q \in Ref PROVE QuietAt(d, q)'
  <2>0. QuietAt(d, q) /\ (kept'[q] => kept[q]) /\ (whole'[q] # 0 => whole[q] # 0)
    BY DEF NoneAcked
  <2>1. CASE d # c
    BY <2>0, <2>1, <1>1, <1>2 DEF QuietAt, Marked
  <2>2. CASE d = c
    BY <2>2 DEF QuietAt, BeginsOn, On
  <2> QED
    BY <2>1, <2>2
<1>7. \A q \in Ref : whole'[q] # 0 => kept'[q]
  BY DEF NoneAcked
<1> QED
  BY <1>4, <1>5, <1>6, <1>7

\* The request of c is acknowledged.
Acks(c) ==
    /\ Unacked(c) /\ Busied(c)
    /\ op'[c].ref = op[c].ref /\ op'[c].kind = op[c].kind /\ op'[c].raced = op[c].raced
    /\ op'[c].pc \in {"done", "clean"}
    /\ \A r \in Ref : r # op[c].ref => kept'[r] = kept[r] /\ whole'[r] = whole[r]
    /\ kept'[op[c].ref] => op[c].raced # 2
    /\ op[c].raced = 0 => kept'[op[c].ref]
    /\ whole'[op[c].ref] # 0 => op[c].raced = 0

\* A request that is acknowledged was alone, or says that it was not.
LEMMA OverlapAck ==
    ASSUME OverlapInv, NEW c \in Client, op[c].ref \in Ref, op[c].kind # "del",
           OthersSame(c), Acks(c)
    PROVE  OverlapInv'
<1> USE DEF OverlapInv
<1> DEFINE r == op[c].ref
<1>1. \A d \in Client : d # c => Marked(d)
  BY SameMarked DEF Others
<1>2. \A d \in Client : d # c => /\ Busied(d)' = Busied(d) /\ Unacked(d)' = Unacked(d)
                                 /\ \A q : On(d, q)' = On(d, q)
  BY <1>1, OthersStay
<1>3. \A d \in Client : d # c => op'[d] = op[d]
  BY DEF OthersSame
<1>4. ASSUME NEW d \in Client, NEW e \in Client PROVE AloneAt(d, e)'
  <2>0. AloneAt(d, e)
    OBVIOUS
  <2>1. CASE d # c /\ e # c
    <3>1. op'[d] = op[d] /\ op'[e] = op[e] /\ Busied(e)' = Busied(e)
      BY <2>1, <1>2, <1>3
    <3>2. On(d, op[e].ref)' = On(d, op[e].ref)
      BY <2>1, <3>1, <1>2
    <3> QED
      BY <2>0, <3>1, <3>2 DEF AloneAt, On
  <2>2. CASE d = c /\ e # c
    <3>1. op'[e] = op[e] /\ Busied(e)' = Busied(e)
      BY <2>2, <1>2, <1>3
    <3>2. Busied(d) /\ op'[d].ref = op[d].ref /\ op'[d].kind = op[d].kind /\ op'[d].raced = op[d].raced
      BY <2>2 DEF Acks
    <3> QED
      BY <2>0, <3>1, <3>2 DEF AloneAt, On
  <2>3. CASE e = c /\ d # c
    BY <2>0, <2>3, <1>2, <1>3 DEF AloneAt, On, Acks
  <2> QED
    BY <2>1, <2>2, <2>3 DEF AloneAt
<1>5. ASSUME NEW d \in Client, NEW e \in Client PROVE DistinctAt(d, e)'
  <2>0. DistinctAt(d, e)
    OBVIOUS
  <2>1. ~Unacked(c)'
    BY DEF Unacked, Acks
  <2> QED
    BY <2>0, <2>1, <1>2, <1>3 DEF DistinctAt
<1>6. ASSUME NEW d \in Client, NEW q \in Ref PROVE QuietAt(d, q)'
  <2>0. QuietAt(d, q)
    OBVIOUS
  <2>1. CASE q # r
    <3>1. kept'[q] = kept[q] /\ whole'[q] = whole[q]
      BY <2>1 DEF Acks
    <3> QED
      BY <2>0, <2>1, <3>1, <1>2, <1>3 DEF QuietAt, Acks, On
  <2>2. CASE q = r /\ d = c
    <3>1. On(c, r)' => op'[c].pc = "clean"
      BY DEF On, Busied, Ready, Acks
    <3> QED
      BY <2>2, <3>1 DEF QuietAt, Acks
  <2>3. CASE q = r /\ d # c
    <3>1. AloneAt(c, d)
      OBVIOUS
    <3>2. On(d, r) => op[c].raced # 0 /\ (op[d].kind = "del" => op[c].raced = 2)
      BY <2>3, <3>1 DEF AloneAt, On, Acks
    <3>3. op[c].raced = 2 => ~kept'[r]
      BY DEF Acks
    <3> QED
      BY <2>3, <3>2, <3>3, <1>2, <1>3 DEF QuietAt, Acks
  <2> QED
    BY <2>1, <2>2, <2>3
<1>7. \A q \in Ref : whole'[q] # 0 => kept'[q]
  <2>1. op[c].raced = 0 => kept'[r]
    BY DEF Acks
  <2> QED
    BY <2>1 DEF Acks
<1> QED
  BY <1>4, <1>5, <1>6, <1>7

-----------------------------------------------------------------------------
(* What one step does to the manifests.                                     *)

\* No manifest is written.
LEMMA ManifestStay ==
    ASSUME ManifestInv, NEW c \in Client, Others(c), NoneAcked, man' = man,
           ~Unacked(c)', MetaTopAt(c)'
    PROVE  ManifestInv'
<1> USE DEF ManifestInv
<1>1. \A d \in Client : d # c =>
        Marked(d) /\ Unacked(d)' = Unacked(d) /\ (Exact(d)' => Exact(d))
  BY OthersStay DEF Others
<1>2. \A r, m : Top(r, m)' = Top(r, m)
  BY DEF Top
<1>3. HasLast'
  BY DEF HasLast
<1>4. ASSUME NEW d \in Client PROVE StoredAt(d)' /\ MetaTopAt(d)'
  <2>1. CASE d = c
    BY <2>1 DEF StoredAt
  <2>2. CASE d # c
    <3>1. StoredAt(d) /\ MetaTopAt(d)
      OBVIOUS
    <3>2. StoredAt(d)'
      BY <3>1, <2>2, <1>1, <1>2 DEF StoredAt, Marked
    <3>3. MetaTopAt(d)'
      BY <3>1, <2>2, <1>1, <1>2 DEF MetaTopAt, Marked
    <3> QED
      BY <3>2, <3>3
  <2> QED
    BY <2>1, <2>2
<1>5. ASSUME NEW r \in Ref PROVE KeptBodyAt(r)' /\ WholeTopAt(r)'
  <2>1. KeptBodyAt(r) /\ WholeTopAt(r)
    OBVIOUS
  <2>2. \A x \in Client : Unacked(x)' => Unacked(x) /\ op'[x].ver = op[x].ver
    BY <1>1 DEF Marked
  <2>3. KeptBodyAt(r)'
    <3> SUFFICES ASSUME kept'[r]
                 PROVE  \E m \in man' : m.ref = r /\ \A x \in Client : Unacked(x)' => op'[x].ver # m.ver
      BY DEF KeptBodyAt
    <3>1. PICK m \in man : m.ref = r /\ \A x \in Client : Unacked(x) => op[x].ver # m.ver
      BY <2>1 DEF KeptBodyAt, NoneAcked
    <3> QED
      BY <3>1, <2>2
  <2>4. WholeTopAt(r)'
    BY <2>1, <1>2 DEF WholeTopAt, NoneAcked
  <2> QED
    BY <2>3, <2>4
<1> QED
  BY <1>3, <1>4, <1>5

\* A version later than all others is written.
Writes(c, w) ==
    /\ man' = man \cup {w}
    /\ w.ver <= w.ver /\ \A m \in man : m.ver <= w.ver /\ m.ver # w.ver
    /\ w.ref = op'[c].ref /\ w.ver = op'[c].ver /\ w.body = op'[c].body

\* The request of c writes its manifest, and marks whoever else is on its reference.
LEMMA ManifestWrite ==
    ASSUME ManifestInv, NEW c \in Client, Others(c), NoneAcked, NEW w, Writes(c, w),
           op'[c].ref \in Ref, whole'[op'[c].ref] = 0, MetaTopAt(c)',
           \A d \in Client : d # c /\ On(d, op'[c].ref) => op'[d].raced # 0,
           \A d \in Client : Unacked(d) \/ Exact(d) => Busied(d)
    PROVE  ManifestInv'
<1> USE DEF ManifestInv
<1>1. \A d \in Client : d # c =>
        Marked(d) /\ Unacked(d)' = Unacked(d) /\ (Exact(d)' => Exact(d))
  BY OthersStay DEF Others
<1>2. \A r, m : r # w.ref /\ Top(r, m) => Top(r, m)'
  BY DEF Top, Writes
<1>3. Top(w.ref, w)'
  BY DEF Top, Writes
<1>4. HasLast'
  <2> SUFFICES ASSUME NEW S \in SUBSET man', S # {}
               PROVE  \E m \in S : \A n \in S : n.ver <= m.ver
    BY DEF HasLast
  <2>1. CASE w \in S
    BY <2>1 DEF Writes
  <2>2. CASE w \notin S
    BY <2>2 DEF Writes, HasLast
  <2> QED
    BY <2>1, <2>2
<1>5. ASSUME NEW d \in Client PROVE StoredAt(d)' /\ MetaTopAt(d)'
  <2>1. CASE d = c
    BY <2>1, <1>3 DEF StoredAt, Writes
  <2>2. CASE d # c
    <3>1. StoredAt(d) /\ MetaTopAt(d) /\ op'[d].ref = op[d].ref
      BY <1>1, <2>2 DEF Marked
    <3>2. (Unacked(d) \/ Exact(d)) /\ op'[d].raced = 0 => op[d].ref # w.ref
      BY <2>2 DEF Writes, On
    <3>3. StoredAt(d)'
      <4> SUFFICES ASSUME Unacked(d)', op'[d].raced # 2
                   PROVE  \E m \in man' : /\ m.ref = op'[d].ref /\ m.ver = op'[d].ver
                                          /\ m.body = op'[d].body
                                          /\ op'[d].raced = 0 => Top(op[d].ref, m)'
        BY DEF StoredAt
      <4>1. Unacked(d) /\ op[d].raced # 2 /\ (op'[d].raced = 0 => op[d].raced = 0)
        BY <1>1, <2>2 DEF Marked
      <4>2. PICK m \in man : /\ m.ref = op[d].ref /\ m.ver = op[d].ver /\ m.body = op[d].body
                             /\ op[d].raced = 0 => Top(op[d].ref, m)
        BY <4>1, <3>1 DEF StoredAt
      <4>3. op'[d].raced = 0 => Top(op[d].ref, m)'
        BY <4>1, <4>2, <3>1, <3>2, <1>2
      <4>4. m \in man'
        BY DEF Writes
      <4> QED
        BY <4>2, <4>3, <4>4, <3>1, <1>1, <2>2 DEF Marked
    <3>4. MetaTopAt(d)'
      <4>1. Exact(d)' => Exact(d) /\ op'[d].raced = 0
        BY <1>1, <2>2 DEF Exact
      <4>2. \A m \in man : m \in man'
        BY DEF Writes
      <4> QED
        BY <4>1, <4>2, <3>1, <3>2, <1>1, <1>2, <2>2 DEF MetaTopAt, Marked
    <3> QED
      BY <3>3, <3>4
  <2> QED
    BY <2>1, <2>2
<1>6. ASSUME NEW r \in Ref PROVE KeptBodyAt(r)' /\ WholeTopAt(r)'
  <2>1. KeptBodyAt(r) /\ WholeTopAt(r)
    OBVIOUS
  <2>2. \A x \in Client : x # c => (Unacked(x)' => Unacked(x) /\ op'[x].ver = op[x].ver)
    BY <1>1 DEF Marked
  <2>3. \A m \in man : m \in man' /\ m.ver # op'[c].ver
    BY DEF Writes
  <2>4. KeptBodyAt(r)'
    <3> SUFFICES ASSUME kept'[r]
                 PROVE  \E m \in man' : m.ref = r /\ \A x \in Client : Unacked(x)' => op'[x].ver # m.ver
      BY DEF KeptBodyAt
    <3>1. PICK m \in man : m.ref = r /\ \A x \in Client : Unacked(x) => op[x].ver # m.ver
      BY <2>1 DEF KeptBodyAt, NoneAcked
    <3>2. m \in man' /\ m.ver # op'[c].ver
      BY <2>3
    <3> QED
      BY <3>1, <3>2, <2>2
  <2>5. whole'[r] # 0 => whole[r] = whole'[r] /\ r # w.ref
    BY DEF NoneAcked, Writes
  <2>6. WholeTopAt(r)'
    BY <2>1, <2>3, <2>5, <1>2 DEF WholeTopAt
  <2> QED
    BY <2>4, <2>6
<1> QED
  BY <1>4, <1>5, <1>6

\* A delete removes a version of its reference, or a request takes its own back.
LEMMA ManifestRemove ==
    ASSUME OverlapInv, ManifestInv, NEW c \in Client, OthersSame(c), NoneAcked,
           NEW v, man' = Without(op[c].ref, v), Busied(c), op[c].pc # "clean", op[c].ref \in Ref,
           op[c].kind = "del" \/ (Unacked(c) /\ v = op[c].ver),
           ~Unacked(c)', MetaTopAt(c)',
           \A d \in Client : Unacked(d) \/ Exact(d) => Busied(d) /\ op[d].kind # "del"
    PROVE  ManifestInv'
<1> USE DEF ManifestInv
<1>1. \A d \in Client : d # c => /\ op'[d] = op[d] /\ Marked(d) /\ Unacked(d)' = Unacked(d)
                                 /\ (Exact(d)' => Exact(d))
  BY OthersStay, SameMarked DEF Others, OthersSame
<1>2. \A m \in man : m.ref # op[c].ref \/ m.ver # v => m \in man'
  BY DEF Without
<1>3. \A m \in man' : m \in man
  BY DEF Without
<1>4. \A r, m : Top(r, m) /\ m \in man' => Top(r, m)'
  BY <1>3 DEF Top
<1>5. \A r, m : Top(r, m) /\ r # op[c].ref => Top(r, m)' /\ m \in man'
  BY <1>2, <1>4 DEF Top
<1>6. HasLast'
  BY <1>3 DEF HasLast
<1>7. \A d \in Client : d # c => AloneAt(d, c)
  BY DEF OverlapInv
<1>8. ASSUME NEW d \in Client PROVE StoredAt(d)' /\ MetaTopAt(d)'
  <2>1. CASE d = c
    BY <2>1 DEF StoredAt
  <2>2. CASE d # c
    <3>1. StoredAt(d) /\ MetaTopAt(d) /\ AloneAt(d, c) /\ DistinctAt(d, c)
      BY <1>7, <2>2 DEF OverlapInv
    <3>2. StoredAt(d)'
      <4> SUFFICES ASSUME Unacked(d)', op'[d].raced # 2
                   PROVE  \E m \in man' : /\ m.ref = op'[d].ref /\ m.ver = op'[d].ver
                                          /\ m.body = op'[d].body
                                          /\ op'[d].raced = 0 => Top(op[d].ref, m)'
        BY DEF StoredAt
      <4>1. Unacked(d) /\ op[d].raced # 2 /\ op'[d] = op[d]
        BY <1>1, <2>2
      <4>2. PICK m \in man : /\ m.ref = op[d].ref /\ m.ver = op[d].ver /\ m.body = op[d].body
                             /\ op[d].raced = 0 => Top(op[d].ref, m)
        BY <4>1, <3>1 DEF StoredAt
      <4>3. m.ref = op[c].ref => m.ver # v
        BY <4>1, <4>2, <3>1, <2>2 DEF AloneAt, On, DistinctAt
      <4>4. m \in man'
        BY <4>3, <1>2
      <4>5. op'[d].raced = 0 => Top(op[d].ref, m)'
        BY <4>1, <4>2, <4>4, <1>4
      <4> QED
        BY <4>1, <4>2, <4>4, <4>5
    <3>3. MetaTopAt(d)'
      <4>1. Exact(d)' => Exact(d) /\ op[d].raced = 0
        BY <1>1, <2>2 DEF Exact
      <4>2. Exact(d) => op[d].ref # op[c].ref
        BY <3>1, <2>2 DEF Exact, AloneAt, On
      <4>3. op'[d] = op[d]
        BY <1>1, <2>2
      <4> QED
        BY <4>1, <4>2, <4>3, <3>1, <1>5 DEF MetaTopAt
    <3> QED
      BY <3>2, <3>3
  <2> QED
    BY <2>1, <2>2
<1>9. ASSUME NEW r \in Ref PROVE KeptBodyAt(r)' /\ WholeTopAt(r)'
  <2>1. KeptBodyAt(r) /\ WholeTopAt(r) /\ QuietAt(c, r)
    BY DEF OverlapInv
  <2>2. \A x \in Client : Unacked(x)' => Unacked(x) /\ op'[x].ver = op[x].ver
    BY <1>1
  <2>3. KeptBodyAt(r)'
    <3> SUFFICES ASSUME kept'[r]
                 PROVE  \E m \in man' : m.ref = r /\ \A x \in Client : Unacked(x)' => op'[x].ver # m.ver
      BY DEF KeptBodyAt
    <3>0. kept[r]
      BY DEF NoneAcked
    <3>1. PICK m \in man : m.ref = r /\ \A x \in Client : Unacked(x) => op[x].ver # m.ver
      BY <3>0, <2>1 DEF KeptBodyAt
    <3>2. m.ref = op[c].ref => m.ver # v
      BY <3>0, <3>1, <2>1 DEF QuietAt, On
    <3> QED
      BY <3>1, <3>2, <2>2, <1>2
  <2>4. WholeTopAt(r)'
    <3>1. whole'[r] # 0 => whole'[r] = whole[r] /\ r # op[c].ref
      BY <2>1 DEF NoneAcked, QuietAt, On
    <3> QED
      BY <3>1, <2>1, <1>5 DEF WholeTopAt
  <2> QED
    BY <2>3, <2>4
<1> QED
  BY <1>6, <1>8, <1>9

\* The row of c's manifest is written and its object acknowledged.
LEMMA ManifestAck ==
    ASSUME ManifestInv, NEW c \in Client, OthersSame(c), Acks(c), man' = man,
           \A d \in Client : d # c => DistinctAt(c, d), op[c].ref \in Ref,
           whole'[op[c].ref] # 0 => whole'[op[c].ref] = op[c].body,
           MetaTopAt(c)'
    PROVE  ManifestInv'
<1> USE DEF ManifestInv
<1>1. \A d \in Client : d # c => /\ op'[d] = op[d] /\ Marked(d) /\ Unacked(d)' = Unacked(d)
                                 /\ (Exact(d)' => Exact(d))
  BY OthersStay, SameMarked DEF Others, OthersSame
<1>2. ~Unacked(c)'
  BY DEF Unacked, Acks
<1>3. \A r, m : Top(r, m)' = Top(r, m)
  BY DEF Top
<1>4. HasLast'
  BY DEF HasLast
<1>5. ASSUME NEW d \in Client PROVE StoredAt(d)' /\ MetaTopAt(d)'
  <2>1. CASE d = c
    BY <2>1, <1>2 DEF StoredAt
  <2>2. CASE d # c
    <3>1. StoredAt(d) /\ MetaTopAt(d)
      OBVIOUS
    <3>2. StoredAt(d)'
      BY <3>1, <2>2, <1>1, <1>3 DEF StoredAt, Marked
    <3>3. MetaTopAt(d)'
      BY <3>1, <2>2, <1>1, <1>3 DEF MetaTopAt, Marked
    <3> QED
      BY <3>2, <3>3
  <2> QED
    BY <2>1, <2>2
<1>6. \A x \in Client : Unacked(x)' => x # c /\ Unacked(x) /\ op'[x].ver = op[x].ver
  BY <1>1, <1>2
<1>7. StoredAt(c) /\ Unacked(c)
  BY DEF Acks
<1>8. ASSUME NEW r \in Ref PROVE KeptBodyAt(r)' /\ WholeTopAt(r)'
  <2>1. KeptBodyAt(r) /\ WholeTopAt(r)
    OBVIOUS
  <2>2. CASE r # op[c].ref
    <3>1. kept'[r] = kept[r] /\ whole'[r] = whole[r]
      BY <2>2 DEF Acks
    <3>2. WholeTopAt(r)'
      BY <3>1, <2>1, <1>3 DEF WholeTopAt
    <3>3. KeptBodyAt(r)'
      <4> SUFFICES ASSUME kept'[r]
                   PROVE  \E m \in man' : m.ref = r /\ \A x \in Client : Unacked(x)' => op'[x].ver # m.ver
        BY DEF KeptBodyAt
      <4>1. PICK m \in man : m.ref = r /\ \A x \in Client : Unacked(x) => op[x].ver # m.ver
        BY <3>1, <2>1 DEF KeptBodyAt
      <4>2. \A x \in Client : Unacked(x)' => op'[x].ver # m.ver
        BY <4>1, <1>6
      <4> QED
        BY <4>1, <4>2, <1>3
    <3> QED
      BY <3>2, <3>3
  <2>3. CASE r = op[c].ref
    <3>1. KeptBodyAt(r)'
      <4> SUFFICES ASSUME kept'[r]
                   PROVE  \E m \in man' : m.ref = r /\ \A x \in Client : Unacked(x)' => op'[x].ver # m.ver
        BY DEF KeptBodyAt
      <4>1. op[c].raced # 2
        BY <2>3 DEF Acks
      <4>2. PICK m \in man : m.ref = op[c].ref /\ m.ver = op[c].ver
        BY <4>1, <1>7 DEF StoredAt
      <4>3. \A x \in Client : Unacked(x)' => op'[x].ver # m.ver
        BY <4>2, <1>6, <1>7 DEF DistinctAt
      <4> QED
        BY <4>2, <4>3, <2>3, <1>3
    <3>2. WholeTopAt(r)'
      <4> SUFFICES ASSUME whole'[r] # 0
                   PROVE  \E m \in man' : Top(r, m)' /\ m.body = whole'[r]
        BY DEF WholeTopAt
      <4>1. op[c].raced = 0 /\ op[c].raced # 2 /\ whole'[r] = op[c].body
        BY SMT, <2>3 DEF Acks
      <4>2. PICK m \in man : m.body = op[c].body /\ Top(op[c].ref, m)
        BY <4>1, <1>7 DEF StoredAt
      <4> QED
        BY <4>1, <4>2, <2>3, <1>3
    <3> QED
      BY <3>1, <3>2
  <2> QED
    BY <2>2, <2>3
<1> QED
  BY <1>4, <1>5, <1>8

-----------------------------------------------------------------------------
(* What one step does to the rows and to the reads.                         *)

\* The row of q stays, and nothing new is promised of it.
RowSame(q) ==
    /\ HasRow(q)' = HasRow(q) /\ (HasRow(q) => refs'[q] = refs[q])
    /\ kept'[q] => kept[q]
    /\ whole'[q] # 0 => whole'[q] = whole[q]
    /\ q \in swept => q \in swept'
\* What the rows keep of one reference.
RowSound(q) == KeptRowAt(q) /\ WholeRowAt(q) /\ GateAt(q)

\* The sweeper lists pending rows only.
ListsPending == \A i \in gc' : i \in gc \/ ~Finalized(i.ref)

\* Rows that a step leaves alone stay sound.
LEMMA RowKeep ==
    ASSUME RowInv, \A d \in Client : Marked(d) \/ MetaRowAt(d)',
           \A q \in Ref : RowSame(q) \/ RowSound(q)', ListsPending
    PROVE  RowInv'
<1>1. ASSUME NEW q \in Ref PROVE RowSound(q)'
  <2> SUFFICES ASSUME RowSame(q) PROVE RowSound(q)'
    OBVIOUS
  <2>1. RowSound(q)
    BY DEF RowInv, RowSound
  <2>2. Finalized(q)' = Finalized(q) /\ HasRow(q)' = HasRow(q) /\ (HasRow(q) => refs'[q] = refs[q])
    BY DEF RowSame, Finalized
  <2>3. KeptRowAt(q)'
    BY <2>1, <2>2 DEF RowSound, KeptRowAt, RowSame, ListsPending
  <2>4. WholeRowAt(q)'
    BY <2>1, <2>2 DEF RowSound, WholeRowAt, RowSame
  <2>5. GateAt(q)'
    BY <2>1, <2>2 DEF RowSound, GateAt, Finalized
  <2> QED
    BY <2>3, <2>4, <2>5 DEF RowSound
<1>2. ASSUME NEW d \in Client PROVE MetaRowAt(d)'
  <2> SUFFICES ASSUME Marked(d) PROVE MetaRowAt(d)'
    OBVIOUS
  <2>1. MetaRowAt(d) /\ Rewriting(d)' = Rewriting(d) /\ (Exact(d)' => Exact(d))
    BY OthersStay DEF RowInv
  <2> QED
    BY <2>1 DEF MetaRowAt, Marked
<1> QED
  BY <1>1, <1>2 DEF RowInv, RowSound

\* Reads that met no writer still met none.
LEMMA ReadKeep ==
    ASSUME ReadInv, NEW c \in Client, Others(c), ReadAt(c)', \A d \in Client : op[d].ref \in Ref,
           \A r \in Ref : On(c, r)' => \/ On(c, r)
                                       \/ \A d \in Client : d # c /\ op[d].kind = "get" /\ op[d].ref = r
                                                            => op'[d].raced # 0,
           \A r \in Ref : whole'[r] # 0 => whole'[r] = whole[r] \/ On(c, r)
    PROVE  ReadInv'
<1> SUFFICES ASSUME NEW d \in Client, d # c, Quietly(d)' PROVE ReadAt(d)'
  BY DEF ReadInv, ReadAt
<1>1. \A x \in Client : x # c => Marked(x) /\ \A r : On(x, r)' = On(x, r)
  BY OthersStay DEF Others
<1>2. ReadAt(d) /\ Quietly(d) /\ Marked(d) /\ op[d].ref \in Ref
  BY OthersStay DEF ReadInv, Others
<1>3. op[d].kind = "get" /\ op'[d].raced = 0 /\ op'[d].ref = op[d].ref
  BY <1>2 DEF Quietly, Marked
<1>4. ~On(c, op[d].ref) /\ \A x \in Client : ~On(x, op[d].ref)
  BY <1>2 DEF ReadAt
<1>5. \A x \in Client : ~On(x, op[d].ref)'
  <2>1. \A x \in Client : \A r \in Ref : ~On(x, r) /\ r = op[d].ref => ~On(x, r)'
    BY <1>1, <1>3
  <2> QED
    BY <2>1, <1>2, <1>3, <1>4
<1>6. whole'[op[d].ref] # 0 => whole'[op[d].ref] = whole[op[d].ref]
  BY <1>2, <1>4
<1>7. /\ op'[d].row = op[d].row /\ op'[d].pc = op[d].pc /\ op'[d].res = op[d].res
      /\ op'[d].body = op[d].body
  BY <1>2 DEF Marked
<1>8. whole[op[d].ref] # 0 =>
        /\ op[d].row.hash = whole[op[d].ref]
        /\ op[d].pc = "done" /\ op[d].res = "ok" => op[d].body = whole[op[d].ref]
  BY <1>2 DEF ReadAt
<1> QED
  BY <1>3, <1>5, <1>6, <1>7, <1>8 DEF ReadAt

-----------------------------------------------------------------------------
(* The operators the requests use.                                          *)

\* A request with a manifest and no row, or rewriting a manifest, is under way.
LEMMA UnderWay ==
    ASSUME Typed, NEW c \in Client
    PROVE  /\ op[c] \in OpRec /\ op[c].ref \in Ref /\ PhaseOK(op[c])
           /\ Unacked(c) \/ Rewriting(c) => Busied(c) /\ op[c].kind # "del"
           /\ Exact(c) => Rewriting(c)
<1>1. op[c] \in OpRec /\ PhaseOK(op[c])
  BY DEF Typed
<1>2. op[c].ref \in Ref
  BY <1>1 DEF OpRec
<1> QED
  BY <1>1, <1>2 DEF PhaseOK, Unacked, Rewriting, Busied, Exact, Ready, Mutator

\* A version that is handed out is later than any in use.
LEMMA FreshVersion ==
    ASSUME Typed, Fresh # {}
    PROVE  /\ NewVer \in 1 .. MaxVer /\ NewVer \in 0 .. MaxVer /\ NewVer <= NewVer
           /\ \A m \in man : m.ver <= NewVer /\ m.ver # NewVer
           /\ \A c \in Client : op[c].ver # NewVer
<1>1. NewVer \in Fresh
  BY DEF NewVer
<1>2. NewVer \in 1 .. MaxVer /\ Newer(NewVer)
  BY <1>1 DEF Fresh
<1>3. \A m \in man : m.ver \in Nat
  BY SMT, GatewayAssumption DEF Typed, GwTypeOK, Manifest
<1>4. \A c \in Client : op[c].ver \in Nat
  <2>1. \A c \in Client : op[c].ver \in 0 .. MaxVer
    BY DEF Typed, OpRec
  <2> QED
    BY SMT, <2>1, GatewayAssumption
<1>5. \A a, b \in Nat : a < b => a <= b /\ a # b
  BY SMT
<1>6. NewVer \in Nat /\ NewVer \in 0 .. MaxVer /\ NewVer <= NewVer
  BY SMT, <1>2, GatewayAssumption
<1> QED
  BY <1>2, <1>3, <1>4, <1>5, <1>6 DEF Newer

\* GetLatest finds the last version of a reference that has one.
LEMMA LatestIs ==
    ASSUME Typed, HasLast, NEW r, Versions(r) # {}
    PROVE  /\ Latest(r) \in man /\ Latest(r).ref = r
           /\ \A m : Top(r, m) => Latest(r) = m
<1>1. Versions(r) \in SUBSET man
  BY DEF Versions
<1>2. \E m \in Versions(r) : \A n \in Versions(r) : n.ver <= m.ver
  BY <1>1 DEF HasLast
<1>3. Latest(r) \in Versions(r) /\ \A n \in Versions(r) : n.ver <= Latest(r).ver
  BY <1>2 DEF Latest
<1>4. Latest(r) \in man /\ Latest(r).ref = r
  BY <1>3 DEF Versions
<1>5. ASSUME NEW m, Top(r, m) PROVE Latest(r) = m
  <2>1. m \in man /\ m \in Versions(r) /\ m.ver <= Latest(r).ver /\ Latest(r).ver <= m.ver
    BY <1>3, <1>4, <1>5 DEF Top, Versions
  <2>2. \A n \in man : n.ver \in Nat
    BY SMT, GatewayAssumption DEF Typed, GwTypeOK, Manifest
  <2>3. m.ver = Latest(r).ver
    <3>1. \A x, y \in Nat : x <= y /\ y <= x => x = y
      BY SMT
    <3> QED
      BY <2>1, <2>2, <1>4, <3>1
  <2> QED
    BY <2>1, <2>3, <1>4 DEF Typed, GwTypeOK
<1> QED
  BY <1>4, <1>5

\* A new request is well formed.
LEMMA IdleTyped ==
    ASSUME NEW r \in Ref
    PROVE  /\ Idle(r) \in OpRec /\ PhaseOK(Idle(r)) /\ NoRow \in Row
           /\ Idle(r).ref = r /\ Idle(r).kind = "none" /\ Idle(r).pc = "idle" /\ Idle(r).res = "none"
<1>1. 0 \in 0 .. MaxVer /\ 0 \in 0 .. MaxSlot /\ 0 \in 0 .. MaxClock
  BY SMT, GatewayAssumption
<1>2. NoRow \in Row
  BY <1>1 DEF NoRow, Row
<1> QED
  BY <1>1, <1>2 DEF Idle, OpRec, PhaseOK, Pcs, Results

\* What Begin does to the requests and to what is promised of r.
Begun(c, kind, r, new) ==
    /\ op'[c].kind = kind /\ op'[c].ref = r /\ op'[c].pc = new.pc /\ op'[c].body = new.body
    /\ op'[c].tags = new.tags /\ op'[c].row = new.row /\ op'[c].ver = new.ver
    /\ op'[c].stale = new.stale /\ op'[c].was = whole[r] /\ op'[c].res = new.res
    /\ op'[c].vers = new.vers
    /\ \A d \in Client : d # c /\ On(d, r) =>
          /\ op'[d].raced # 0 /\ op'[c].raced # 0
          /\ kind = "del" => op'[d].raced = 2
          /\ op[d].kind = "del" => op'[c].raced = 2
    /\ (\A d \in Client : d # c => ~On(d, r)) => op'[c].raced = 0
    /\ \A d \in Client : d # c /\ op[d].kind = "get" /\ op[d].ref = r => op'[d].raced # 0
    /\ \A d \in Client : d # c /\ op[d].ref # r => op'[d] = op[d]
    /\ whole'[r] = 0 /\ (kept'[r] => kept[r] /\ kind # "del")
    /\ \A q \in Ref : q # r => kept'[q] = kept[q] /\ whole'[q] = whole[q]

\* The overlap level only grows, and a delete takes it to the top.
LEMMA RacedIs ==
    ASSUME NEW w \in {0, 1, 2}, NEW K
    PROVE  /\ Raced(w, K) \in {0, 1, 2}
           /\ K # {} => Raced(w, K) # 0
           /\ "del" \in K => Raced(w, K) = 2
           /\ w = 2 => Raced(w, K) = 2
           /\ Raced(w, K) = 0 => w = 0
           /\ K = {} => Raced(w, K) = w
  BY SMT DEF Raced

\* Begin, field by field.
LEMMA BeginIs ==
    ASSUME Typed, NEW c \in Client, NEW r \in Ref, NEW kind \in Mutator, NEW new \in OpRec,
           new.ref = r, PhaseOK([new EXCEPT !.kind = kind]), Begin(c, kind, r, new)
    PROVE  /\ Begun(c, kind, r, new) /\ Others(c)
           /\ op' \in [Client -> OpRec] /\ \A d \in Client : PhaseOK(op'[d])
           /\ kept' \in [Ref -> BOOLEAN] /\ whole' \in [Ref -> Body \cup {0}]
<1> DEFINE others == {d \in Client \ {c} : Busy(d, r)}
           level == Raced(0, {op[d].kind : d \in others})
           Reads(d) == op[d].kind = "get" /\ op[d].ref = r
<1>0. \A d \in Client : (d \in others) <=> (d # c /\ On(d, r))
  BY DEF Busy, On, Busied
<1>1. /\ op' = [d \in Client |->
                  IF d = c THEN [new EXCEPT !.kind = kind, !.raced = level, !.was = whole[r]]
                  ELSE IF d \in others \/ Reads(d) THEN [op[d] EXCEPT !.raced = Raced(@, {kind})]
                  ELSE op[d]]
      /\ whole' = [whole EXCEPT ![r] = 0]
      /\ kept' = [kept EXCEPT ![r] = @ /\ kind # "del"]
  BY DEF Begin
<1>2. /\ level \in {0, 1, 2}
      /\ \A d \in others : level # 0 /\ (op[d].kind = "del" => level = 2)
      /\ others = {} => level = 0
  <2>1. level \in {0, 1, 2}
    BY RacedIs
  <2>2. \A d \in others : op[d].kind \in {op[e].kind : e \in others}
    OBVIOUS
  <2>3. others = {} => {op[e].kind : e \in others} = {}
    OBVIOUS
  <2> QED
    BY <2>1, <2>2, <2>3, RacedIs
<1>3. \A d \in Client : op[d] \in OpRec /\ PhaseOK(op[d]) /\ op[d].raced \in {0, 1, 2}
  BY DEF Typed, OpRec
<1>4. whole \in [Ref -> Body \cup {0}] /\ kept \in [Ref -> BOOLEAN]
  BY DEF Typed, GwTypeOK
<1> HIDE DEF others, level
<1>5. /\ op'[c] = [new EXCEPT !.kind = kind, !.raced = level, !.was = whole[r]]
      /\ op'[c] \in OpRec
  BY <1>1, <1>2, <1>4 DEF OpRec, Mutator
<1>6. /\ op'[c].kind = kind /\ op'[c].ref = r /\ op'[c].pc = new.pc /\ op'[c].body = new.body
      /\ op'[c].tags = new.tags /\ op'[c].row = new.row /\ op'[c].ver = new.ver
      /\ op'[c].stale = new.stale /\ op'[c].was = whole[r] /\ op'[c].res = new.res
      /\ op'[c].vers = new.vers /\ op'[c].raced = level
  <2>1. op'[c].kind = kind /\ op'[c].was = whole[r] /\ op'[c].raced = level
    BY <1>5 DEF OpRec
  <2>2. op'[c].ref = r /\ op'[c].pc = new.pc /\ op'[c].body = new.body /\ op'[c].tags = new.tags
    BY <1>5 DEF OpRec
  <2>3. op'[c].row = new.row /\ op'[c].ver = new.ver /\ op'[c].stale = new.stale
    BY <1>5 DEF OpRec
  <2>4. op'[c].res = new.res /\ op'[c].vers = new.vers
    BY <1>5 DEF OpRec
  <2> QED
    BY <2>1, <2>2, <2>3, <2>4
<1>7. PhaseOK(op'[c])
  BY <1>6 DEF PhaseOK, OpRec
<1>8. ASSUME NEW d \in Client, d # c
      PROVE  /\ op'[d] \in OpRec /\ PhaseOK(op'[d]) /\ Marked(d)
             /\ d \in others => op'[d].raced # 0 /\ (kind = "del" => op'[d].raced = 2)
             /\ op[d].kind = "get" /\ op[d].ref = r => op'[d].raced # 0
             /\ op[d].ref # r => op'[d] = op[d]
  <2>1. CASE d \in others \/ Reads(d)
    <3>1. op'[d] = [op[d] EXCEPT !.raced = Raced(op[d].raced, {kind})]
      BY <2>1, <1>8, <1>1
    <3>2. /\ Raced(op[d].raced, {kind}) \in {0, 1, 2} /\ Raced(op[d].raced, {kind}) # 0
          /\ kind = "del" => Raced(op[d].raced, {kind}) = 2
          /\ op[d].raced = 2 => Raced(op[d].raced, {kind}) = 2
      BY <1>3, RacedIs
    <3>3. op'[d] \in OpRec /\ op'[d].raced = Raced(op[d].raced, {kind})
      BY <3>1, <3>2, <1>3 DEF OpRec
    <3>4. /\ op'[d].kind = op[d].kind /\ op'[d].pc = op[d].pc /\ op'[d].ref = op[d].ref
          /\ op'[d].body = op[d].body /\ op'[d].ver = op[d].ver /\ op'[d].row = op[d].row
          /\ op'[d].was = op[d].was /\ op'[d].res = op[d].res /\ op'[d].tags = op[d].tags
          /\ op'[d].stale = op[d].stale
      BY <3>1, <1>3 DEF OpRec
    <3>6. Marked(d)
      BY <3>2, <3>3, <3>4 DEF Marked
    <3>7. PhaseOK(op'[d])
      BY <3>4, <1>3 DEF PhaseOK
    <3>5. op[d].ref = r
      BY <2>1, <1>0 DEF On
    <3> QED
      BY <3>2, <3>3, <3>5, <3>6, <3>7
  <2>2. CASE d \notin others /\ ~Reads(d)
    <3>1. op'[d] = op[d]
      BY <2>2, <1>8, <1>1
    <3> QED
      BY <3>1, <1>3, <2>2 DEF Marked
  <2> QED
    BY <2>1, <2>2
<1>9. /\ whole'[r] = 0 /\ (kept'[r] => kept[r] /\ kind # "del")
      /\ \A q \in Ref : q # r => kept'[q] = kept[q] /\ whole'[q] = whole[q]
      /\ kept' \in [Ref -> BOOLEAN] /\ whole' \in [Ref -> Body \cup {0}]
  <2>1. whole'[r] = 0 /\ \A q \in Ref : q # r => kept'[q] = kept[q] /\ whole'[q] = whole[q]
    BY <1>1, <1>4
  <2>2. kept'[r] = (kept[r] /\ kind # "del")
    BY <1>1, <1>4
  <2>3. kept' \in [Ref -> BOOLEAN] /\ whole' \in [Ref -> Body \cup {0}]
    BY <1>1, <1>4
  <2> QED
    BY <2>1, <2>2, <2>3
<1>10. op' \in [Client -> OpRec] /\ \A d \in Client : PhaseOK(op'[d])
  BY <1>1, <1>5, <1>7, <1>8
<1>11. Begun(c, kind, r, new)
  <2>1. \A d \in Client : d # c /\ On(d, r) =>
          /\ op'[d].raced # 0 /\ op'[c].raced # 0
          /\ kind = "del" => op'[d].raced = 2
          /\ op[d].kind = "del" => op'[c].raced = 2
    BY <1>0, <1>2, <1>6, <1>8
  <2>2. (\A d \in Client : d # c => ~On(d, r)) => op'[c].raced = 0
    <3>1. (\A d \in Client : d # c => ~On(d, r)) => others = {}
      BY <1>0 DEF others
    <3> QED
      BY <3>1, <1>2, <1>6
  <2> QED
    BY <2>1, <2>2, <1>6, <1>8, <1>9 DEF Begun
<1> QED
  BY <1>8, <1>9, <1>10, <1>11 DEF Others

-----------------------------------------------------------------------------
(* Requests that begin.                                                     *)

\* A request that begins leaves every promise but those on its reference.
LEMMA BeginKeeps ==
    ASSUME Typed, OverlapInv, RowInv, ReadInv, NEW c \in Client, NEW r \in Ref, NEW kind \in Mutator,
           NEW new, Begun(c, kind, r, new), Others(c), refs' = refs, gc' = gc, swept' = swept, MetaRowAt(c)',
           Unacked(c)' => \A d \in Client : op[d].ver # new.ver
    PROVE  OverlapInv' /\ RowInv' /\ ReadInv' /\ NoneAcked
<1>1. NoneAcked
  <2>1. \A q \in Ref : whole[q] # 0 => kept[q]
    BY DEF OverlapInv
  <2>2. whole'[r] = 0 /\ (kept'[r] => kept[r])
        /\ \A q \in Ref : q # r => kept'[q] = kept[q] /\ whole'[q] = whole[q]
    BY DEF Begun
  <2>3. \A q \in Ref : kept'[q] => kept[q]
    BY <2>2
  <2>4. \A q \in Ref : whole'[q] # 0 => whole'[q] = whole[q] /\ kept'[q]
    BY <2>1, <2>2
  <2> QED
    BY <2>3, <2>4 DEF NoneAcked
<1>2. BeginsOn(c, r)
  BY DEF BeginsOn, Begun
<1>3. OverlapInv'
  BY <1>1, <1>2, OverlapBegin
<1>4. \A q \in Ref : RowSame(q)
  BY <1>1 DEF RowSame, NoneAcked, HasRow
<1>5. RowInv'
  BY <1>4, RowKeep DEF Others, ListsPending
<1>6. ReadAt(c)'
  BY DEF ReadAt, Quietly, Begun, Mutator
<1>7. ReadInv'
  <2>1. \A d \in Client : op[d].ref \in Ref
    BY UnderWay
  <2>2. \A q \in Ref : On(c, q)' => \A d \in Client : d # c /\ op[d].kind = "get" /\ op[d].ref = q
                                        => op'[d].raced # 0
    BY DEF On, Begun
  <2>3. \A q \in Ref : whole'[q] # 0 => whole'[q] = whole[q]
    BY <1>1 DEF NoneAcked
  <2> QED
    BY <2>1, <2>2, <2>3, <1>6, ReadKeep
<1> QED
  BY <1>1, <1>3, <1>5, <1>7

\* Put, and RegisterRef, write a manifest first.
LEMMA OpenedTyped ==
    ASSUME Typed, Fresh # {}, NEW r \in Ref, NEW b \in Body, NEW tags \in SUBSET Tag
    PROVE  /\ Opened(r, b, tags) \in OpRec
           /\ Opened(r, b, tags).ref = r /\ Opened(r, b, tags).pc = "row"
           /\ Opened(r, b, tags).body = b /\ Opened(r, b, tags).ver = NewVer
           /\ Opened(r, b, tags).tags = tags /\ Opened(r, b, tags).res = "none"
<1>1. NewVer \in 1 .. MaxVer /\ NewVer \in 0 .. MaxVer
  BY FreshVersion
<1>2. Idle(r) \in OpRec /\ Idle(r).ref = r /\ Idle(r).res = "none"
  BY IdleTyped
<1>3. Opened(r, b, tags) \in OpRec
  BY <1>1, <1>2 DEF Opened, OpRec, Pcs
<1>4. /\ Opened(r, b, tags).ref = r /\ Opened(r, b, tags).pc = "row"
      /\ Opened(r, b, tags).body = b /\ Opened(r, b, tags).ver = NewVer
      /\ Opened(r, b, tags).tags = tags /\ Opened(r, b, tags).res = "none"
  BY <1>2 DEF Opened, OpRec
<1> QED
  BY <1>3, <1>4

\* The manifest that is written, field by field.
LEMMA WrittenIs ==
    ASSUME Typed, Fresh # {}, NEW r \in Ref, NEW b \in Body, NEW tags \in SUBSET Tag
    PROVE  /\ Written(r, b, tags) \in Manifest
           /\ Written(r, b, tags).ref = r /\ Written(r, b, tags).body = b
           /\ Written(r, b, tags).ver = NewVer /\ Written(r, b, tags).tags = tags
<1>1. NewVer \in 1 .. MaxVer
  BY FreshVersion
<1> QED
  BY <1>1 DEF Written, Manifest

\* A later version joins the manifests.
LEMMA WrittenTyped ==
    ASSUME Typed, Fresh # {}, NEW r \in Ref, NEW b \in Body, NEW tags \in SUBSET Tag,
           man' = man \cup {Written(r, b, tags)}
    PROVE  man' \subseteq Manifest /\ \A m, n \in man' : m.ver = n.ver => m = n
<1>1. Written(r, b, tags) \in Manifest /\ Written(r, b, tags).ver = NewVer
  BY SMT, WrittenIs
<1>2. \A m \in man : m.ver # NewVer
  BY FreshVersion
<1>3. man \subseteq Manifest /\ \A m, n \in man : m.ver = n.ver => m = n
  BY DEF Typed, GwTypeOK
<1>4. \A m \in man' : m \in man \/ m = Written(r, b, tags)
  OBVIOUS
<1>5. man' \subseteq Manifest
  BY <1>1, <1>3, <1>4
<1>6. \A m, n \in man' : m.ver = n.ver => m = n
  BY <1>1, <1>2, <1>3, <1>4
<1> QED
  BY <1>5, <1>6

\* The latest version of q, and what is promised of it, stay.
Untouched(q) == whole'[q] = whole[q] /\ \A m : Top(q, m) => Top(q, m)'

\* A request of c starts on r: the others notice at most that, and nothing
\* happens to other references.
Starts(c, r) ==
    /\ Others(c) /\ op'[c].ref = r
    /\ \A d \in Client : d # c /\ op[d].ref # r => op'[d] = op[d]
    /\ \A q \in Ref : q # r => Untouched(q)

\* The version that is written is the latest of its reference, and of no other.
LEMMA WrittenTop ==
    ASSUME Typed, Fresh # {}, NEW r \in Ref, NEW b \in Body, NEW tags \in SUBSET Tag,
           man' = man \cup {Written(r, b, tags)}
    PROVE  /\ \E w : Top(r, w)' /\ w.tags = tags
           /\ \A q : q # r => \A m : Top(q, m) => Top(q, m)'
<1>1. PICK w : /\ w = Written(r, b, tags) /\ w.ref = r /\ w.ver = NewVer /\ w.tags = tags
  BY SMT, WrittenIs
<1>2. w.ver <= w.ver /\ \A m \in man : m.ver <= w.ver
  BY <1>1, FreshVersion
<1>3. Top(r, w)'
  BY <1>1, <1>2 DEF Top
<1>4. \A q : q # r => \A m : Top(q, m) => Top(q, m)'
  BY <1>1 DEF Top
<1> QED
  BY <1>1, <1>3, <1>4

\* Put and RegisterRef store the manifest of the body first.
LEMMA PutBegins ==
    ASSUME GwInv, NEW c \in Client, NEW r \in Ref, NEW b \in Body, NEW tags \in SUBSET Tag,
           NEW kind \in {"put", "reg"}, Fresh # {}, Begin(c, kind, r, Opened(r, b, tags)),
           man' = man \cup {Written(r, b, tags)},
           UNCHANGED <<refs, stage, gc, now, slots, swept>>
    PROVE  /\ GwInv' /\ Starts(c, r) /\ Begun(c, kind, r, Opened(r, b, tags))
           /\ \E w : Top(r, w)' /\ w.tags = tags
<1> DEFINE new == Opened(r, b, tags)
           w == Written(r, b, tags)
<1>0. Typed
  BY DEF GwInv
<1>1. /\ new \in OpRec /\ new.ref = r /\ new.pc = "row" /\ new.body = b /\ new.ver = NewVer
      /\ w.ref = r /\ w.body = b /\ w.ver = NewVer
  <2>1. new \in OpRec /\ new.ref = r /\ new.pc = "row" /\ new.body = b /\ new.ver = NewVer
    BY SMT, <1>0, OpenedTyped
  <2>2. w.ref = r /\ w.body = b /\ w.ver = NewVer
    BY SMT, <1>0, WrittenIs
  <2> QED
    BY <2>1, <2>2
<1> HIDE DEF new, w
<1>2. PhaseOK([new EXCEPT !.kind = kind])
  BY <1>1 DEF PhaseOK, OpRec
<1>3. kind \in Mutator /\ Typed
  BY DEF Mutator, GwInv
<1>4. /\ Begun(c, kind, r, new) /\ Others(c)
      /\ op' \in [Client -> OpRec] /\ \A d \in Client : PhaseOK(op'[d])
      /\ kept' \in [Ref -> BOOLEAN] /\ whole' \in [Ref -> Body \cup {0}]
  BY <1>1, <1>2, <1>3, BeginIs DEF new
<1>5. NewVer <= NewVer /\ (\A m \in man : m.ver <= NewVer /\ m.ver # NewVer)
      /\ (\A d \in Client : op[d].ver # NewVer)
  BY <1>3, FreshVersion
<1>6. MetaRowAt(c)' /\ MetaTopAt(c)'
  BY <1>4 DEF MetaRowAt, MetaTopAt, Rewriting, Exact, Begun
<1>7. OverlapInv' /\ RowInv' /\ ReadInv' /\ NoneAcked
  BY <1>1, <1>3, <1>4, <1>5, <1>6, BeginKeeps DEF GwInv
<1>8. ManifestInv'
  <2>0. man' = man \cup {w}
    BY DEF w
  <2>1. Writes(c, w)
    <3>1. op'[c].ref = r /\ op'[c].ver = NewVer /\ op'[c].body = b
      BY <1>1, <1>4 DEF Begun
    <3>2. w.ver <= w.ver /\ \A m \in man : m.ver <= w.ver /\ m.ver # w.ver
      BY <1>1, <1>5
    <3> QED
      BY <1>1, <2>0, <3>1, <3>2 DEF Writes
  <2>2. op'[c].ref = r /\ whole'[r] = 0
    BY <1>4 DEF Begun
  <2>3. \A d \in Client : d # c /\ On(d, r) => op'[d].raced # 0
    BY <1>4 DEF Begun
  <2>4. \A d \in Client : Unacked(d) \/ Exact(d) => Busied(d)
    BY <1>3, UnderWay
  <2> QED
    BY <2>1, <2>2, <2>3, <2>4, <1>4, <1>6, <1>7, ManifestWrite DEF GwInv
<1>9. Typed'
  <2>1. man' \subseteq Manifest /\ \A m, n \in man' : m.ver = n.ver => m = n
    BY <1>3, WrittenTyped
  <2>2. \A d \in Client : op'[d].ref \in Ref /\ op'[d].row \in Row
    BY <1>4 DEF OpRec
  <2> QED
    BY <2>1, <2>2, <1>3, <1>4 DEF Typed, GwTypeOK
<1>10. Staged'
  <2>1. \A d \in Client : d # c => Marked(d) /\ Ready(d)' = Ready(d)
    BY <1>4, OthersStay DEF Others
  <2>2. op'[c].kind # "fin" /\ op'[c].pc # "store"
    BY <1>1, <1>4 DEF Begun
  <2>3. \A d \in Client : d # c => /\ op'[d].kind = op[d].kind /\ op'[d].pc = op[d].pc
                                   /\ op'[d].row = op[d].row /\ op'[d].body = op[d].body
    BY <2>1 DEF Marked
  <2>4. Staged
    BY DEF GwInv
  <2> QED
    BY <2>1, <2>2, <2>3, <2>4 DEF Staged
<1>11. /\ \E x : Top(r, x)' /\ x.tags = tags
       /\ \A q : q # r => \A m : Top(q, m) => Top(q, m)'
  BY <1>0, WrittenTop
<1>12. Starts(c, r)
  BY <1>4, <1>11 DEF Starts, Begun, Untouched
<1> QED
  BY <1>4, <1>7, <1>8, <1>9, <1>10, <1>11, <1>12 DEF GwInv, new

\* A request begins that writes no manifest at once.
LEMMA PlainBegins ==
    ASSUME GwInv, NEW c \in Client, NEW r \in Ref, NEW kind \in Mutator, NEW new \in OpRec,
           new.ref = r, new.pc \in {"load", "versions", "open"},
           PhaseOK([new EXCEPT !.kind = kind]), Begin(c, kind, r, new),
           kind = "fin" => new.row.slot \in 1 .. MaxSlot,
           Begun(c, kind, r, new) => MetaRowAt(c)' /\ MetaTopAt(c)',
           UNCHANGED <<refs, man, stage, gc, now, slots, swept>>
    PROVE  GwInv' /\ Starts(c, r) /\ Begun(c, kind, r, new)
<1>1. Typed
  BY DEF GwInv
<1>2. /\ Begun(c, kind, r, new) /\ Others(c)
      /\ op' \in [Client -> OpRec] /\ \A d \in Client : PhaseOK(op'[d])
      /\ kept' \in [Ref -> BOOLEAN] /\ whole' \in [Ref -> Body \cup {0}]
  BY <1>1, BeginIs
<1>3. ~Unacked(c)'
  BY <1>2 DEF Begun, Unacked
<1>4. OverlapInv' /\ RowInv' /\ ReadInv' /\ NoneAcked
  BY <1>1, <1>2, <1>3, BeginKeeps DEF GwInv
<1>5. ManifestInv'
  BY <1>2, <1>3, <1>4, ManifestStay DEF GwInv
<1>6. Typed'
  <2>1. \A d \in Client : op'[d].ref \in Ref /\ op'[d].row \in Row
    BY <1>2 DEF OpRec
  <2> QED
    BY <2>1, <1>1, <1>2 DEF Typed, GwTypeOK
<1>7. Staged'
  <2>1. \A d \in Client : d # c => Marked(d) /\ Ready(d)' = Ready(d)
    BY <1>2, OthersStay DEF Others
  <2>2. (op'[c].kind = "fin" => op'[c].row.slot \in 1 .. MaxSlot) /\ op'[c].pc # "store"
    BY <1>2 DEF Begun
  <2> QED
    BY <2>1, <2>2 DEF Staged, GwInv, Marked
<1>8. Starts(c, r)
  BY <1>2 DEF Starts, Begun, Untouched, Top
<1> QED
  BY <1>2, <1>4, <1>5, <1>6, <1>7, <1>8 DEF GwInv

\* A request ends and leaves the store as it is.
LEMMA EndKeeps ==
    ASSUME GwInv, NEW c \in Client, OthersSame(c), Ready(c)', op' \in [Client -> OpRec],
           PhaseOK(op'[c]), ReadAt(c)', stage' \in [1 .. MaxSlot -> Body \cup {0}],
           UNCHANGED <<refs, man, gc, now, slots, kept, whole, swept>>
    PROVE  GwInv'
<1>1. Typed /\ Others(c)
  BY SameMarked DEF GwInv
<1>2. ~Unacked(c)' /\ ~Busied(c)' /\ ~Rewriting(c)' /\ \A r : ~On(c, r)'
  BY DEF Unacked, Busied, Rewriting, Ready, On
<1>3. NoneAcked
  BY DEF NoneAcked, GwInv, OverlapInv
<1>4. OverlapInv'
  BY <1>2, <1>3, OverlapStay DEF GwInv, Advances
<1>5. MetaTopAt(c)' /\ MetaRowAt(c)'
  BY <1>2 DEF MetaTopAt, MetaRowAt, Exact
<1>6. ManifestInv'
  BY <1>1, <1>2, <1>3, <1>5, ManifestStay DEF GwInv
<1>7. RowInv'
  <2>1. \A q \in Ref : RowSame(q)
    BY DEF RowSame, HasRow
  <2> QED
    BY <2>1, <1>1, <1>5, RowKeep DEF GwInv, Others, ListsPending
<1>8. ReadInv'
  <2>1. \A d \in Client : op[d].ref \in Ref
    BY <1>1, UnderWay
  <2> QED
    BY <2>1, <1>1, <1>2, ReadKeep DEF GwInv
<1>9. \A d \in Client : d # c => op'[d] = op[d] /\ Ready(d)' = Ready(d)
  BY DEF OthersSame, Ready
<1>10. Typed'
  <2>1. \A d \in Client : op'[d].ref \in Ref /\ op'[d].row \in Row
    BY DEF OpRec
  <2>2. \A d \in Client : PhaseOK(op'[d])
    BY <1>1, <1>9 DEF Typed
  <2> QED
    BY <2>1, <2>2, <1>1 DEF Typed, GwTypeOK
<1>11. Staged'
  <2>1. op'[c].pc # "store"
    BY DEF Ready
  <2> QED
    BY <2>1, <1>9 DEF Staged, GwInv
<1> QED
  BY <1>4, <1>6, <1>7, <1>8, <1>10, <1>11 DEF GwInv

\* A request that starts no work has only its result.
LEMMA ResetKeeps ==
    ASSUME GwInv, NEW c \in Client, NEW o \in OpRec, PhaseOK(o), o.pc \in {"idle", "done"}, o.kind # "get",
           op' = [op EXCEPT ![c] = o], stage' \in [1 .. MaxSlot -> Body \cup {0}],
           UNCHANGED <<refs, man, gc, now, slots, kept, whole, swept>>
    PROVE  GwInv' /\ Starts(c, o.ref) /\ op'[c] = o
<1>1. op \in [Client -> OpRec]
  BY DEF GwInv, Typed
<1>2. op'[c] = o /\ op' \in [Client -> OpRec] /\ OthersSame(c)
  BY <1>1 DEF OthersSame
<1>3. Ready(c)' /\ ReadAt(c)'
  BY <1>2 DEF Ready, ReadAt, Quietly
<1>4. Starts(c, o.ref)
  BY <1>2, SameMarked DEF Starts, OthersSame, Untouched, Top
<1> QED
  BY <1>2, <1>3, <1>4, EndKeeps

\* Put, up to its manifest.
LEMMA PutStoreKeeps ==
    ASSUME GwInv, NEW c \in Client, NEW r \in Ref, NEW b \in Body, NEW tags \in SUBSET Tag,
           PutStore(c, r, b, tags)
    PROVE  /\ GwInv' /\ Starts(c, r) /\ Begun(c, "put", r, Opened(r, b, tags))
           /\ \E w : Top(r, w)' /\ w.tags = tags
<1>1. /\ Fresh # {} /\ man' = man \cup {Written(r, b, tags)}
      /\ Begin(c, "put", r, Opened(r, b, tags))
      /\ UNCHANGED <<refs, stage, gc, now, slots, swept>>
  BY DEF PutStore
<1> QED
  BY SMT, <1>1, PutBegins

\* RegisterRef, up to its manifest.
LEMMA RegisterRefKeeps ==
    ASSUME GwInv, NEW c \in Client, NEW r \in Ref, NEW b \in Body, RegisterRef(c, r, b)
    PROVE  GwInv' /\ Starts(c, r)
<1>1. /\ Fresh # {} /\ man' = man \cup {Written(r, b, {})}
      /\ Begin(c, "reg", r, Opened(r, b, {}))
      /\ UNCHANGED <<refs, stage, gc, now, slots, swept>>
  BY DEF RegisterRef
<1> QED
  BY SMT, <1>1, PutBegins

\* SetUserMeta starts a rewrite, or finds no object.
MetaStarts(c, r, tags) ==
    \/ op'[c].kind = "none" /\ op'[c].pc = "done" /\ op'[c].res = "notfound"
    \/ /\ op'[c].kind = "meta" /\ op'[c].pc = "load" /\ op'[c].res = "none"
       /\ op'[c].was = whole[r] /\ op'[c].tags = tags /\ op'[c].stale = Latest(r).tags \ tags
       /\ (\A d \in Client : d # c => ~On(d, r)) => op'[c].raced = 0

\* SetUserMeta, up to the row it loads.
LEMMA SetUserMetaKeeps ==
    ASSUME GwInv, NEW c \in Client, NEW r \in Ref, NEW tags \in SUBSET Tag, SetUserMeta(c, r, tags)
    PROVE  GwInv' /\ Starts(c, r) /\ MetaStarts(c, r, tags)
<1>0. Typed /\ Idle(r) \in OpRec /\ Idle(r).ref = r /\ Idle(r).kind = "none"
  BY IdleTyped DEF GwInv
<1>1. CASE Readable(r)
  <2> DEFINE new == [Idle(r) EXCEPT !.pc = "load", !.tags = tags, !.row = refs[r],
                                    !.stale = Latest(r).tags \ tags]
  <2>1. Versions(r) # {} /\ Finalized(r) /\ r \in DOMAIN refs
    BY <1>1 DEF Readable, Finalized, HasRow
  <2>2. Latest(r).tags \ tags \in SUBSET Tag
    <3>1. Latest(r) \in Manifest
      BY <2>1, <1>0, LatestIs DEF GwInv, ManifestInv, Typed, GwTypeOK
    <3> QED
      BY <3>1 DEF Manifest
  <2>3. refs[r] \in Row
    BY <2>1, <1>0 DEF Typed, GwTypeOK
  <2>4. new \in OpRec /\ new.ref = r /\ new.pc = "load" /\ new.row = refs[r]
        /\ new.tags = tags /\ new.stale = Latest(r).tags \ tags /\ new.res = "none"
    BY IdleTyped, <2>2, <2>3, <1>0 DEF OpRec, Pcs
  <2>5. Begin(c, "meta", r, new) /\ UNCHANGED <<refs, man, stage, gc, now, slots, swept>>
    BY <1>1 DEF SetUserMeta, storeVars
  <2> HIDE DEF new
  <2>6. PhaseOK([new EXCEPT !.kind = "meta"]) /\ "meta" \in Mutator
    BY <2>4 DEF PhaseOK, OpRec, Mutator
  <2>7. ASSUME Begun(c, "meta", r, new) PROVE MetaRowAt(c)' /\ MetaTopAt(c)'
    <3>1. op'[c].row = refs[r] /\ op'[c].was = whole[r] /\ op'[c].ref = r /\ op'[c].pc = "load"
      BY <2>4, <2>7 DEF Begun
    <3>2. GateAt(r) /\ WholeRowAt(r) /\ WholeTopAt(r)
      BY DEF GwInv, RowInv, ManifestInv
    <3>3. ~refs[r].pending /\ (refs[r].want # 0 => refs[r].hash = refs[r].want)
          /\ (whole[r] # 0 => refs[r].hash = whole[r])
      BY <3>2, <2>1 DEF GateAt, WholeRowAt, Finalized, HasRow
    <3>4. whole[r] # 0 => \E m \in man' : Top(r, m)' /\ m.body = whole[r]
      BY <3>2, <2>5 DEF WholeTopAt, Top
    <3> QED
      BY <3>1, <3>3, <3>4 DEF MetaRowAt, MetaTopAt, Exact
  <2>8. GwInv' /\ Starts(c, r) /\ Begun(c, "meta", r, new)
    BY <2>4, <2>5, <2>6, <2>7, PlainBegins
  <2> QED
    BY <2>4, <2>8 DEF MetaStarts, Begun
<1>2. CASE ~Readable(r)
  <2> DEFINE o == [Idle(r) EXCEPT !.pc = "done", !.res = "notfound"]
  <2>1. o \in OpRec /\ o.pc = "done" /\ o.kind = "none" /\ o.ref = r /\ o.res = "notfound"
    BY <1>0 DEF OpRec, Pcs, Results
  <2>2. op' = [op EXCEPT ![c] = o] /\ UNCHANGED <<refs, man, stage, gc, now, slots, kept, whole, swept>>
    BY <1>2 DEF SetUserMeta, storeVars
  <2> HIDE DEF o
  <2>3. PhaseOK(o) /\ stage' \in [1 .. MaxSlot -> Body \cup {0}]
    BY <2>1, <2>2, <1>0 DEF PhaseOK, Typed, GwTypeOK
  <2>4. GwInv' /\ Starts(c, r) /\ op'[c] = o
    BY <2>1, <2>2, <2>3, ResetKeeps
  <2> QED
    BY <2>1, <2>4 DEF MetaStarts
<1> QED
  BY <1>1, <1>2

\* Delete, up to the versions it lists.
LEMMA DeleteListKeeps ==
    ASSUME GwInv, NEW c \in Client, NEW r \in Ref, DeleteList(c, r)
    PROVE  GwInv' /\ Starts(c, r)
<1> DEFINE new == [Idle(r) EXCEPT !.pc = "versions", !.vers = {m.ver : m \in Versions(r)}]
<1>0. Typed /\ Idle(r) \in OpRec /\ Idle(r).ref = r
  BY IdleTyped DEF GwInv
<1>1. {m.ver : m \in Versions(r)} \in SUBSET Nat
  <2>1. \A m \in man : m.ver \in Nat
    BY SMT, <1>0, GatewayAssumption DEF Typed, GwTypeOK, Manifest
  <2> QED
    BY <2>1 DEF Versions
<1>2. new \in OpRec /\ new.ref = r /\ new.pc = "versions"
  BY <1>0, <1>1 DEF OpRec, Pcs
<1>3. Begin(c, "del", r, new) /\ UNCHANGED <<refs, man, stage, gc, now, slots, swept>>
  BY DEF DeleteList, storeVars
<1> HIDE DEF new
<1>4. PhaseOK([new EXCEPT !.kind = "del"]) /\ "del" \in Mutator
  BY <1>2 DEF PhaseOK, OpRec, Mutator
<1>5. Begun(c, "del", r, new) => MetaRowAt(c)' /\ MetaTopAt(c)'
  BY DEF Begun, MetaRowAt, MetaTopAt, Rewriting, Exact
<1> QED
  BY <1>2, <1>3, <1>4, <1>5, PlainBegins

\* Finalize, up to the staged row it loads.
LEMMA FinalizeKeeps ==
    ASSUME GwInv, NEW c \in Client, NEW r \in Ref, Finalize(c, r)
    PROVE  GwInv' /\ Starts(c, r)
<1>0. /\ Typed /\ Idle(r) \in OpRec /\ Idle(r).ref = r /\ Idle(r).kind = "none"
      /\ refs[r] \in Row /\ r \in DOMAIN refs
  BY IdleTyped DEF GwInv, Finalize, HasRow, Typed, GwTypeOK
<1>1. CASE refs[r].pending
  <2> DEFINE new == [Idle(r) EXCEPT !.pc = "open", !.row = refs[r]]
  <2>1. new \in OpRec /\ new.ref = r /\ new.pc = "open" /\ new.row = refs[r]
    BY <1>0 DEF OpRec, Pcs
  <2>2. Begin(c, "fin", r, new) /\ UNCHANGED <<refs, man, stage, gc, now, slots, swept>>
    BY <1>1 DEF Finalize, storeVars
  <2> HIDE DEF new
  <2>3. PhaseOK([new EXCEPT !.kind = "fin"]) /\ "fin" \in Mutator
    BY <2>1 DEF PhaseOK, OpRec, Mutator
  <2>4. Begun(c, "fin", r, new) => MetaRowAt(c)' /\ MetaTopAt(c)'
    BY DEF Begun, MetaRowAt, MetaTopAt, Rewriting, Exact
  <2>5. new.row.slot \in 1 .. MaxSlot
    BY <2>1, <1>0, <1>1 DEF GwInv, Staged
  <2> QED
    BY <2>1, <2>2, <2>3, <2>4, <2>5, PlainBegins
<1>2. CASE ~refs[r].pending
  <2> DEFINE o == [Idle(r) EXCEPT !.kind = "fin", !.pc = "done", !.row = refs[r],
                                  !.body = refs[r].hash, !.res = "ok"]
  <2>1. refs[r].hash \in Body \cup {0}
    BY <1>0 DEF Row
  <2>2. o \in OpRec /\ o.pc = "done" /\ o.kind = "fin" /\ o.ref = r
    BY <2>1, <1>0 DEF OpRec, Pcs, Results
  <2>3. op' = [op EXCEPT ![c] = o] /\ UNCHANGED <<refs, man, stage, gc, now, slots, kept, whole, swept>>
    BY <1>2 DEF Finalize, storeVars
  <2> HIDE DEF o
  <2>4. PhaseOK(o) /\ stage' \in [1 .. MaxSlot -> Body \cup {0}]
    BY <2>2, <2>3, <1>0 DEF PhaseOK, Typed, GwTypeOK
  <2> QED
    BY <2>2, <2>3, <2>4, ResetKeeps
<1> QED
  BY <1>1, <1>2

\* Get, up to the row it loads.
LEMMA GetRowKeeps ==
    ASSUME GwInv, NEW c \in Client, NEW r \in Ref, GetRow(c, r)
    PROVE  GwInv' /\ Starts(c, r) /\ op'[c].kind = "get"
<1> DEFINE raced == IF \E d \in Client : Busy(d, r) THEN 1 ELSE 0
           o == [Idle(r) EXCEPT !.kind = "get", !.pc = "body", !.row = refs[r], !.raced = raced]
<1>0. /\ Typed /\ Idle(r) \in OpRec /\ Idle(r).ref = r
      /\ refs[r] \in Row /\ r \in DOMAIN refs /\ Finalized(r)
  BY IdleTyped DEF GwInv, GetRow, Finalized, HasRow, Typed, GwTypeOK
<1>1. raced \in {0, 1, 2} /\ (raced = 0 => \A d \in Client : ~On(d, r))
  BY SMT DEF On, Busy, Busied
<1>2. o \in OpRec /\ o.ref = r /\ o.kind = "get" /\ o.pc = "body" /\ o.row = refs[r] /\ o.raced = raced
  BY <1>0, <1>1 DEF OpRec, Pcs
<1>3. /\ op' = [op EXCEPT ![c] = o] /\ Ready(c)
      /\ UNCHANGED <<refs, man, stage, gc, now, slots, kept, whole, swept>>
  BY DEF GetRow, storeVars, histVars
<1> HIDE DEF o, raced
<1>4. op'[c] = o /\ op' \in [Client -> OpRec] /\ OthersSame(c)
  BY <1>0, <1>2, <1>3 DEF OthersSame, Typed
<1>5. ~Busied(c)' /\ ~Unacked(c)' /\ ~Rewriting(c)' /\ \A q : ~On(c, q)'
  BY <1>2, <1>4 DEF Busied, Unacked, Rewriting, On, Mutator
<1>6. NoneAcked /\ Others(c)
  BY <1>3, <1>4, SameMarked DEF NoneAcked, GwInv, OverlapInv
<1>7. OverlapInv'
  BY <1>4, <1>5, <1>6, OverlapStay DEF GwInv, Advances
<1>8. MetaTopAt(c)' /\ MetaRowAt(c)'
  BY <1>5 DEF MetaTopAt, MetaRowAt, Exact
<1>9. ManifestInv'
  BY <1>3, <1>5, <1>6, <1>8, ManifestStay DEF GwInv
<1>10. RowInv'
  <2>1. \A q \in Ref : RowSame(q)
    BY <1>3 DEF RowSame, HasRow
  <2> QED
    BY <2>1, <1>3, <1>6, <1>8, RowKeep DEF GwInv, Others, ListsPending
<1>11. ReadAt(c)'
  <2>1. \A d \in Client : d # c => \A q : On(d, q)' = On(d, q)
    BY <1>6, OthersStay DEF Others
  <2>2. raced = 0 => \A d \in Client : ~On(d, r)'
    BY <2>1, <1>1, <1>5
  <2>3. whole'[r] # 0 => refs[r].hash = whole'[r]
    BY <1>0, <1>3 DEF GwInv, RowInv, WholeRowAt, HasRow
  <2> QED
    BY <2>2, <2>3, <1>2, <1>4 DEF ReadAt, Quietly
<1>12. ReadInv'
  <2>1. \A d \in Client : op[d].ref \in Ref
    BY <1>0, UnderWay
  <2> QED
    BY <2>1, <1>3, <1>5, <1>6, <1>11, ReadKeep DEF GwInv
<1>13. Typed'
  <2>1. \A d \in Client : op'[d].ref \in Ref /\ op'[d].row \in Row
    BY <1>4 DEF OpRec
  <2>2. PhaseOK(o)
    BY <1>2 DEF PhaseOK
  <2>3. \A d \in Client : PhaseOK(op'[d])
    BY <2>2, <1>0, <1>4 DEF Typed, OthersSame
  <2> QED
    BY <2>1, <2>3, <1>0, <1>3, <1>4 DEF Typed, GwTypeOK
<1>14. Staged'
  BY <1>2, <1>3, <1>4 DEF Staged, GwInv, OthersSame, Ready
<1>15. Starts(c, r) /\ op'[c].kind = "get"
  BY <1>2, <1>3, <1>4, <1>6 DEF Starts, OthersSame, Untouched, Top
<1> QED
  BY <1>7, <1>9, <1>10, <1>12, <1>13, <1>14, <1>15 DEF GwInv

-----------------------------------------------------------------------------
(* Requests under way.                                                      *)

\* One row is written, the others stay.
LEMMA PutRowIs ==
    ASSUME NEW r, NEW row, PutRow(r, row)
    PROVE  /\ HasRow(r)' /\ refs'[r] = row /\ DOMAIN refs' = DOMAIN refs \cup {r}
           /\ \A q : q # r => HasRow(q)' = HasRow(q) /\ (HasRow(q) => refs'[q] = refs[q])
<1>1. refs' = [q \in DOMAIN refs \cup {r} |-> IF q = r THEN row ELSE refs[q]]
  BY DEF PutRow
<1>2. DOMAIN refs' = DOMAIN refs \cup {r} /\ refs'[r] = row
  BY <1>1
<1>3. \A q \in DOMAIN refs : q # r => refs'[q] = refs[q]
  BY <1>1
<1>4. \A q : q # r => (q \in DOMAIN refs' <=> q \in DOMAIN refs)
  BY <1>2
<1>5. \A q : HasRow(q) <=> q \in DOMAIN refs
  BY DEF HasRow
<1>6. \A q : HasRow(q)' <=> q \in DOMAIN refs'
  BY DEF HasRow
<1>7. \A q : HasRow(q) \in BOOLEAN /\ HasRow(q)' \in BOOLEAN
  BY SMT DEF HasRow
<1> QED
  BY <1>2, <1>3, <1>4, <1>5, <1>6, <1>7

\* One row is deleted, the others stay.
LEMMA DeleteRowIs ==
    ASSUME NEW r, DeleteRow(r)
    PROVE  /\ ~HasRow(r)' /\ DOMAIN refs' = DOMAIN refs \ {r}
           /\ \A q : q # r => HasRow(q)' = HasRow(q) /\ (HasRow(q) => refs'[q] = refs[q])
<1>1. refs' = [q \in DOMAIN refs \ {r} |-> refs[q]]
  BY DEF DeleteRow
<1>2. DOMAIN refs' = DOMAIN refs \ {r}
  BY <1>1
<1>3. \A q \in DOMAIN refs : q # r => refs'[q] = refs[q]
  BY <1>1
<1>4. \A q : q # r => (q \in DOMAIN refs' <=> q \in DOMAIN refs)
  BY <1>2
<1>5. \A q : HasRow(q) <=> q \in DOMAIN refs
  BY DEF HasRow
<1>6. \A q : HasRow(q)' <=> q \in DOMAIN refs'
  BY DEF HasRow
<1>7. \A q : HasRow(q) \in BOOLEAN /\ HasRow(q)' \in BOOLEAN
  BY SMT DEF HasRow
<1> QED
  BY <1>2, <1>3, <1>4, <1>5, <1>6, <1>7

\* The rows of refs' are those of refs and one more.
LEMMA RowsTyped ==
    ASSUME Typed, NEW r \in Ref, NEW row \in Row, PutRow(r, row),
           Staged, row.pending => row.slot \in 1 .. MaxSlot
    PROVE  /\ DOMAIN refs' \subseteq Ref /\ \A q \in DOMAIN refs' : refs'[q] \in Row
           /\ \A q \in DOMAIN refs' : refs'[q].pending => refs'[q].slot \in 1 .. MaxSlot
<1>1. DOMAIN refs \subseteq Ref /\ \A q \in DOMAIN refs : refs[q] \in Row
  BY DEF Typed, GwTypeOK
<1>2. \A q \in DOMAIN refs' : q = r \/ (q \in DOMAIN refs /\ refs'[q] = refs[q])
  BY PutRowIs DEF HasRow
<1>3. refs'[r] = row /\ DOMAIN refs' = DOMAIN refs \cup {r}
  BY PutRowIs
<1> QED
  BY <1>1, <1>2, <1>3 DEF Staged

\* MintRef writes a pending row where there was none.
LEMMA MintRefKeeps ==
    ASSUME GwInv, NEW c \in Client, NEW r \in Ref, NEW want \in Body \cup {0}, MintRef(c, r, want)
    PROVE  GwInv' /\ Starts(c, r)
<1> DEFINE row == [NoRow EXCEPT !.pending = TRUE, !.slot = slots + 1, !.want = want, !.at = now]
           o == [Idle(r) EXCEPT !.kind = "mint", !.pc = "done", !.res = "ok"]
<1>0. Typed /\ Idle(r) \in OpRec /\ Idle(r).ref = r /\ NoRow \in Row
  BY IdleTyped DEF GwInv
<1>1. slots + 1 \in 1 .. MaxSlot /\ slots + 1 \in 0 .. MaxSlot /\ now \in 0 .. MaxClock
  BY SMT, <1>0, GatewayAssumption DEF Typed, MintRef
<1>2. row \in Row /\ row.pending /\ row.slot \in 1 .. MaxSlot
  <2>1. row \in Row
    BY <1>0, <1>1 DEF Row
  <2>2. row.pending /\ row.slot = slots + 1
    BY <1>0 DEF Row
  <2> QED
    BY <2>1, <2>2, <1>1
<1>3. o \in OpRec /\ o.kind = "mint" /\ o.pc = "done" /\ o.ref = r
  <2>1. o \in OpRec
    BY <1>0 DEF OpRec, Pcs, Results
  <2>2. o.kind = "mint" /\ o.pc = "done" /\ o.ref = Idle(r).ref
    BY <1>0 DEF OpRec
  <2> QED
    BY <1>0, <2>1, <2>2
<1>4. /\ slots' = slots + 1 /\ PutRow(r, row) /\ op' = [op EXCEPT ![c] = o]
      /\ kept' = [kept EXCEPT ![r] = FALSE] /\ whole' = [whole EXCEPT ![r] = 0]
      /\ UNCHANGED <<man, stage, gc, now, swept>>
  BY DEF MintRef
<1> HIDE DEF row, o
<1>5. op'[c] = o /\ op' \in [Client -> OpRec] /\ OthersSame(c)
  BY <1>0, <1>3, <1>4 DEF OthersSame, Typed
<1>6. ~Busied(c)' /\ ~Unacked(c)' /\ ~Rewriting(c)' /\ (\A q : ~On(c, q)') /\ Ready(c)'
  BY <1>3, <1>5 DEF Busied, Unacked, Rewriting, On, Ready
<1>7. /\ kept' \in [Ref -> BOOLEAN] /\ whole' \in [Ref -> Body \cup {0}]
      /\ ~kept'[r] /\ whole'[r] = 0
      /\ \A q \in Ref : q # r => kept'[q] = kept[q] /\ whole'[q] = whole[q]
  BY <1>0, <1>4 DEF Typed, GwTypeOK
<1>8. NoneAcked /\ Others(c)
  BY <1>5, <1>7, SameMarked DEF NoneAcked, GwInv, OverlapInv
<1>9. OverlapInv'
  BY <1>5, <1>6, <1>8, OverlapStay DEF GwInv, Advances
<1>10. MetaTopAt(c)' /\ MetaRowAt(c)' /\ ReadAt(c)'
  BY <1>3, <1>5, <1>6 DEF MetaTopAt, MetaRowAt, Exact, ReadAt, Quietly
<1>11. ManifestInv'
  BY <1>4, <1>6, <1>8, <1>10, ManifestStay DEF GwInv
<1>12. RowInv'
  <2>1. \A q \in Ref : q # r => RowSame(q)
    BY <1>4, <1>7, PutRowIs DEF RowSame
  <2>2. ~Finalized(r)'
    BY <1>2, <1>4, PutRowIs DEF Finalized
  <2>3. RowSound(r)'
    BY <2>2, <1>7 DEF RowSound, KeptRowAt, WholeRowAt, GateAt
  <2> QED
    BY <2>1, <2>3, <1>4, <1>8, <1>10, RowKeep DEF GwInv, Others, ListsPending
<1>13. ReadInv'
  <2>1. \A d \in Client : op[d].ref \in Ref
    BY <1>0, UnderWay
  <2> QED
    BY <2>1, <1>6, <1>7, <1>8, <1>10, ReadKeep DEF GwInv
<1>14. /\ DOMAIN refs' \subseteq Ref /\ \A q \in DOMAIN refs' : refs'[q] \in Row
       /\ \A q \in DOMAIN refs' : refs'[q].pending => refs'[q].slot \in 1 .. MaxSlot
  BY <1>0, <1>2, <1>4, RowsTyped DEF GwInv
<1>15. Typed'
  <2>1. \A d \in Client : op'[d].ref \in Ref /\ op'[d].row \in Row
    BY <1>5 DEF OpRec
  <2>2. PhaseOK(o)
    BY <1>3 DEF PhaseOK
  <2>3. \A d \in Client : PhaseOK(op'[d])
    BY <2>2, <1>0, <1>5 DEF Typed, OthersSame
  <2> QED
    BY <2>1, <2>3, <1>0, <1>1, <1>4, <1>5, <1>7, <1>14 DEF Typed, GwTypeOK
<1>16. Staged'
  <2>1. op'[c].pc # "store"
    BY <1>3, <1>5
  <2> QED
    BY <2>1, <1>6, <1>5, <1>14 DEF Staged, GwInv, OthersSame, Ready
<1>17. Starts(c, r)
  BY <1>3, <1>4, <1>5, <1>7, <1>8 DEF Starts, OthersSame, Untouched, Top
<1> QED
  BY <1>17, <1>9, <1>11, <1>12, <1>13, <1>15, <1>16 DEF GwInv

\* The object of c is acknowledged with the row that is written.
LEMMA AckKeeps ==
    ASSUME GwInv, NEW c \in Client, Unacked(c), NEW r \in Ref, op[c].ref = r,
           NEW row \in Row, ~row.pending, row.want # 0 => row.hash = row.want, PutRow(r, row),
           NEW b \in Body \cup {0}, Ack(c, r, b),
           op[c].raced = 0 /\ b # 0 => row.hash = b /\ op[c].body = b,
           OthersSame(c), op' \in [Client -> OpRec], PhaseOK(op'[c]),
           op'[c].kind = op[c].kind, op'[c].ref = r, op'[c].raced = op[c].raced,
           op'[c].row = op[c].row, op'[c].pc = "done" \/ (op'[c].pc = "clean" /\ op[c].kind = "fin"),
           UNCHANGED <<man, stage, gc, now, slots>>
    PROVE  GwInv'
<1>0. Typed /\ Others(c) /\ r \in Ref /\ Busied(c) /\ op[c].kind # "del" /\ op[c].kind # "get"
  <2>1. Typed /\ Others(c)
    BY SameMarked DEF GwInv
  <2>2. r \in Ref /\ Busied(c) /\ op[c].kind # "del"
    BY <2>1, UnderWay
  <2> QED
    BY <2>1, <2>2 DEF Busied, Mutator
<1>1. /\ kept' = [kept EXCEPT ![r] = op[c].raced < 2]
      /\ whole' = [whole EXCEPT ![r] = IF op[c].raced = 0 THEN b ELSE 0]
      /\ swept' = IF \E i \in gc : i.ref = r THEN swept \cup {r} ELSE swept \ {r}
  BY DEF Ack
<1>2. kept \in [Ref -> BOOLEAN] /\ whole \in [Ref -> Body \cup {0}] /\ op[c].raced \in {0, 1, 2}
      /\ swept \subseteq Ref
  BY <1>0 DEF Typed, GwTypeOK, OpRec
<1>3. /\ kept' \in [Ref -> BOOLEAN] /\ whole' \in [Ref -> Body \cup {0}] /\ swept' \subseteq Ref
      /\ \A q \in Ref : q # r => kept'[q] = kept[q] /\ whole'[q] = whole[q] /\ (q \in swept => q \in swept')
      /\ whole'[r] # 0 => op[c].raced = 0 /\ whole'[r] = b
  <2>1. kept' \in [Ref -> BOOLEAN] /\ \A q \in Ref : q # r => kept'[q] = kept[q] /\ whole'[q] = whole[q]
    BY SMT, <1>0, <1>1, <1>2
  <2>2. whole' \in [Ref -> Body \cup {0}]
    BY SMT, <1>0, <1>1, <1>2
  <2>3. whole'[r] = IF op[c].raced = 0 THEN b ELSE 0
    BY <1>0, <1>1, <1>2
  <2>4. swept' \subseteq Ref /\ \A q \in Ref : q # r => (q \in swept => q \in swept')
    BY <1>0, <1>1, <1>2
  <2> QED
    BY <2>1, <2>2, <2>3, <2>4
<1>4. (kept'[r] => op[c].raced # 2) /\ (op[c].raced = 0 => kept'[r])
  <2>1. kept'[r] = (op[c].raced < 2)
    BY <1>1, <1>2
  <2>2. ~(2 < 2) /\ 0 < 2
    BY SMT
  <2> QED
    BY <2>1, <2>2
<1>5. r \in swept' \/ \A i \in gc : i.ref # r
  BY <1>1
<1>6. Acks(c)
  BY <1>0, <1>3, <1>4 DEF Acks
<1>7. OverlapInv'
  BY <1>0, <1>6, OverlapAck DEF GwInv
<1>8. ~Rewriting(c)'
  BY <1>0 DEF Rewriting, Ready
<1>9. MetaTopAt(c)' /\ MetaRowAt(c)' /\ ReadAt(c)'
  BY <1>0, <1>8 DEF MetaTopAt, MetaRowAt, Exact, ReadAt, Quietly
<1>10. ManifestInv'
  <2>1. \A d \in Client : d # c => DistinctAt(c, d)
    BY DEF GwInv, OverlapInv
  <2>2. whole'[r] # 0 => whole'[r] = op[c].body
    BY <1>3
  <2> QED
    BY <2>1, <2>2, <1>0, <1>6, <1>9, ManifestAck DEF GwInv
<1>11. RowInv'
  <2>0. \A q : q # r => HasRow(q)' = HasRow(q) /\ (HasRow(q) => refs'[q] = refs[q])
    BY PutRowIs
  <2>1. \A q \in Ref : q # r => RowSame(q)
    BY <2>0, <1>3 DEF RowSame
  <2>2. HasRow(r)' /\ refs'[r] = row /\ Finalized(r)'
    <3>1. HasRow(r)' /\ refs'[r] = row
      BY PutRowIs
    <3> QED
      BY <3>1 DEF Finalized
  <2>3. KeptRowAt(r)'
    BY <2>2, <1>5 DEF KeptRowAt
  <2>4. WholeRowAt(r)'
    BY <2>2, <1>3 DEF WholeRowAt
  <2>5. GateAt(r)'
    BY <2>2 DEF GateAt
  <2>6. \A q \in Ref : RowSame(q) \/ RowSound(q)'
    BY <2>1, <2>3, <2>4, <2>5 DEF RowSound
  <2>7. \A d \in Client : Marked(d) \/ MetaRowAt(d)'
    BY <1>0, <1>9 DEF Others
  <2> QED
    BY <2>6, <2>7, RowKeep DEF GwInv, ListsPending
<1>12. ReadInv'
  <2>1. \A d \in Client : op[d].ref \in Ref
    BY <1>0, UnderWay
  <2>2. \A q \in Ref : On(c, q)' => On(c, q)
    BY <1>0 DEF On
  <2>3. \A q \in Ref : whole'[q] # 0 => whole'[q] = whole[q] \/ On(c, q)
    BY <1>0, <1>3 DEF On
  <2> QED
    BY <2>1, <2>2, <2>3, <1>0, <1>9, ReadKeep DEF GwInv
<1>13. /\ DOMAIN refs' \subseteq Ref /\ \A q \in DOMAIN refs' : refs'[q] \in Row
       /\ \A q \in DOMAIN refs' : refs'[q].pending => refs'[q].slot \in 1 .. MaxSlot
  BY <1>0, RowsTyped DEF GwInv
<1>14. \A d \in Client : d # c => op'[d] = op[d] /\ Ready(d)' = Ready(d)
  BY DEF OthersSame, Ready
<1>15. Typed'
  <2>1. \A d \in Client : op'[d].ref \in Ref /\ op'[d].row \in Row
    BY DEF OpRec
  <2>2. \A d \in Client : PhaseOK(op'[d])
    BY <1>0, <1>14 DEF Typed
  <2> QED
    BY <2>1, <2>2, <1>0, <1>3, <1>13 DEF Typed, GwTypeOK
<1>16. Staged'
  <2>1. op'[c].pc # "store"
    OBVIOUS
  <2>2. op'[c].kind = "fin" => op'[c].row.slot \in 1 .. MaxSlot
    BY <1>0 DEF GwInv, Staged, Busied
  <2> QED
    BY <2>1, <2>2, <1>13, <1>14 DEF Staged, GwInv
<1> QED
  BY <1>7, <1>10, <1>11, <1>12, <1>15, <1>16 DEF GwInv

\* A version goes: one that a delete listed, or the request's own.
LEMMA RemoveKeeps ==
    ASSUME GwInv, NEW c \in Client, Busied(c), op[c].pc # "clean", NEW r \in Ref, op[c].ref = r,
           NEW v, man' = Without(r, v), op[c].kind = "del" \/ (Unacked(c) /\ v = op[c].ver),
           OthersSame(c), op' \in [Client -> OpRec], PhaseOK(op'[c]),
           op'[c].kind = op[c].kind, op'[c].ref = r, op'[c].raced = op[c].raced,
           op'[c].pc \in {"versions", "done"}, stage' \in [1 .. MaxSlot -> Body \cup {0}],
           UNCHANGED <<refs, gc, now, slots, kept, whole, swept>>
    PROVE  GwInv'
<1>0. Typed /\ Others(c) /\ op[c].kind # "get"
  BY SameMarked DEF GwInv, Busied, Mutator
<1>1. ~Unacked(c)' /\ ~Rewriting(c)'
  BY DEF Unacked, Rewriting, Ready, PhaseOK
<1>2. NoneAcked
  BY DEF NoneAcked, GwInv, OverlapInv
<1>3. Advances(c)
  BY <1>1 DEF Advances, GoesOn
<1>4. OverlapInv'
  BY <1>2, <1>3, OverlapStay DEF GwInv
<1>5. MetaTopAt(c)' /\ MetaRowAt(c)' /\ ReadAt(c)'
  BY <1>0, <1>1 DEF MetaTopAt, MetaRowAt, Exact, ReadAt, Quietly
<1>6. ManifestInv'
  <2>1. \A d \in Client : Unacked(d) \/ Exact(d) => Busied(d) /\ op[d].kind # "del"
    BY <1>0, UnderWay
  <2> QED
    BY <2>1, <1>1, <1>2, <1>5, ManifestRemove DEF GwInv
<1>7. RowInv'
  <2>1. \A q \in Ref : RowSame(q)
    BY DEF RowSame, HasRow
  <2> QED
    BY <2>1, <1>0, <1>5, RowKeep DEF GwInv, Others, ListsPending
<1>8. ReadInv'
  <2>1. \A d \in Client : op[d].ref \in Ref
    BY <1>0, UnderWay
  <2>2. \A q \in Ref : On(c, q)' => On(c, q)
    BY DEF On
  <2> QED
    BY <2>1, <2>2, <1>0, <1>5, ReadKeep DEF GwInv
<1>9. \A d \in Client : d # c => op'[d] = op[d] /\ Ready(d)' = Ready(d)
  BY DEF OthersSame, Ready
<1>10. Typed'
  <2>1. \A d \in Client : op'[d].ref \in Ref /\ op'[d].row \in Row
    BY DEF OpRec
  <2>2. \A d \in Client : PhaseOK(op'[d])
    BY <1>0, <1>9 DEF Typed
  <2>3. man' \subseteq Manifest /\ \A m, n \in man' : m.ver = n.ver => m = n
    <3>1. man' \subseteq man
      BY DEF Without
    <3> QED
      BY <3>1, <1>0 DEF Typed, GwTypeOK
  <2> QED
    BY <2>1, <2>2, <2>3, <1>0 DEF Typed, GwTypeOK
<1>11. Staged'
  <2>1. op'[c].pc # "store" /\ (op'[c].kind = "fin" => Ready(c)')
    BY DEF PhaseOK, Ready
  <2> QED
    BY <2>1, <1>9 DEF Staged, GwInv
<1> QED
  BY <1>4, <1>6, <1>7, <1>8, <1>10, <1>11 DEF GwInv

\* A set of tags.
Tagging(tags) == tags \in SUBSET Tag

\* A request under way writes its manifest.
LEMMA WriteKeeps ==
    ASSUME GwInv, NEW c \in Client, Busied(c), op[c].pc \in {"store", "open"},
           NEW r \in Ref, op[c].ref = r, NEW b \in Body, NEW tags, Tagging(tags),
           Fresh # {}, man' = man \cup {Written(r, b, tags)},
           OthersSame(c), op' \in [Client -> OpRec], PhaseOK(op'[c]),
           op'[c].kind = op[c].kind, op'[c].ref = r, op'[c].raced = op[c].raced, op'[c].row = op[c].row,
           op'[c].was = op[c].was, op'[c].ver = NewVer, op'[c].body = b, op'[c].pc \in {"row", "check"},
           op[c].kind = "meta" => b = op[c].body,
           UNCHANGED <<refs, stage, gc, now, slots, kept, whole, swept>>
    PROVE  GwInv'
<1>t. tags \in SUBSET Tag
  BY DEF Tagging
<1>0. Typed /\ Others(c) /\ op[c].kind # "get"
  BY SameMarked DEF GwInv, Busied, Mutator
<1>1. Rewriting(c)' => Rewriting(c) /\ (Exact(c)' => Exact(c))
  BY DEF Rewriting, Ready, Exact
<1>2. NoneAcked
  BY DEF NoneAcked, GwInv, OverlapInv
<1>3. NewVer <= NewVer /\ (\A m \in man : m.ver <= NewVer /\ m.ver # NewVer)
      /\ (\A d \in Client : op[d].ver # NewVer)
  BY <1>0, FreshVersion
<1>4. Advances(c)
  BY <1>3 DEF Advances, GoesOn
<1>5. OverlapInv'
  BY <1>2, <1>4, OverlapStay DEF GwInv
<1>6. MetaTopAt(c)' /\ MetaRowAt(c)' /\ ReadAt(c)'
  <2>1. MetaTopAt(c) /\ MetaRowAt(c)
    BY DEF GwInv, ManifestInv, RowInv
  <2>2. MetaTopAt(c)'
    <3>1. Exact(c)' => Exact(c) /\ op[c].kind = "meta" /\ op[c].pc # "load" /\ op'[c].pc # "load"
      BY <1>1 DEF Exact, Rewriting
    <3> QED
      BY <3>1, <2>1 DEF MetaTopAt
  <2>3. MetaRowAt(c)'
    BY <2>1, <1>1 DEF MetaRowAt, Exact
  <2> QED
    BY <2>2, <2>3, <1>0 DEF ReadAt, Quietly
<1>7. ManifestInv'
  <2>1. LET w == Written(r, b, tags) IN w.ref = r /\ w.body = b /\ w.ver = NewVer
    BY SMT, <1>t, <1>0, WrittenIs
  <2>2. Writes(c, Written(r, b, tags))
    BY <2>1, <1>3 DEF Writes
  <2>3. whole'[r] = 0
    <3>1. QuietAt(c, r) /\ On(c, r) /\ op[c].pc # "clean"
      BY DEF GwInv, OverlapInv, On
    <3> QED
      BY <3>1 DEF QuietAt
  <2>4. \A d \in Client : d # c /\ On(d, r) => op'[d].raced # 0
    <3>1. \A d \in Client : AloneAt(d, c)
      BY DEF GwInv, OverlapInv
    <3> QED
      BY <3>1 DEF AloneAt, OthersSame
  <2>5. \A d \in Client : Unacked(d) \/ Exact(d) => Busied(d)
    BY <1>0, UnderWay
  <2> QED
    BY <2>2, <2>3, <2>4, <2>5, <1>0, <1>2, <1>6, ManifestWrite DEF GwInv
<1>8. RowInv'
  <2>1. \A q \in Ref : RowSame(q)
    BY DEF RowSame, HasRow
  <2> QED
    BY <2>1, <1>0, <1>6, RowKeep DEF GwInv, Others, ListsPending
<1>9. ReadInv'
  <2>1. \A d \in Client : op[d].ref \in Ref
    BY <1>0, UnderWay
  <2>2. \A q \in Ref : On(c, q)' => On(c, q)
    BY DEF On
  <2> QED
    BY <2>1, <2>2, <1>0, <1>6, ReadKeep DEF GwInv
<1>10. \A d \in Client : d # c => op'[d] = op[d] /\ Ready(d)' = Ready(d)
  BY DEF OthersSame, Ready
<1>11. Typed'
  <2>1. \A d \in Client : op'[d].ref \in Ref /\ op'[d].row \in Row
    BY DEF OpRec
  <2>2. \A d \in Client : PhaseOK(op'[d])
    BY <1>0, <1>10 DEF Typed
  <2>3. man' \subseteq Manifest /\ \A m, n \in man' : m.ver = n.ver => m = n
    BY <1>t, <1>0, WrittenTyped
  <2> QED
    BY <2>1, <2>2, <2>3, <1>0 DEF Typed, GwTypeOK
<1>12. Staged'
  <2>1. op'[c].pc # "store" /\ (op[c].kind = "fin" => op[c].row.slot \in 1 .. MaxSlot)
    BY DEF GwInv, Staged, Busied
  <2> QED
    BY <2>1, <1>10 DEF Staged, GwInv
<1> QED
  BY <1>5, <1>7, <1>8, <1>9, <1>11, <1>12 DEF GwInv

\* A request returns.
LEMMA ReturnIs ==
    ASSUME Typed, NEW c \in Client, NEW res \in Results, Return(c, res)
    PROVE  /\ op' \in [Client -> OpRec] /\ OthersSame(c) /\ PhaseOK(op'[c]) /\ Ready(c)'
           /\ op'[c].pc = "done" /\ op'[c].res = res
           /\ op'[c].kind = op[c].kind /\ op'[c].ref = op[c].ref /\ op'[c].raced = op[c].raced
           /\ op'[c].row = op[c].row /\ op'[c].body = op[c].body /\ op'[c].ver = op[c].ver
           /\ op'[c].was = op[c].was
<1>1. op \in [Client -> OpRec] /\ op[c] \in OpRec
  BY DEF Typed
<1>2. op' = [op EXCEPT ![c] = [[op[c] EXCEPT !.pc = "done"] EXCEPT !.res = res]]
  BY <1>1 DEF Return
<1>3. op'[c] = [[op[c] EXCEPT !.pc = "done"] EXCEPT !.res = res] /\ OthersSame(c)
  BY <1>1, <1>2 DEF OthersSame
<1>4. op'[c] \in OpRec
  BY <1>1, <1>3 DEF OpRec, Pcs
<1>5. /\ op'[c].pc = "done" /\ op'[c].res = res
      /\ op'[c].kind = op[c].kind /\ op'[c].ref = op[c].ref /\ op'[c].raced = op[c].raced
      /\ op'[c].row = op[c].row /\ op'[c].body = op[c].body /\ op'[c].ver = op[c].ver
      /\ op'[c].was = op[c].was
  BY <1>1, <1>3 DEF OpRec
<1>6. op' \in [Client -> OpRec]
  BY <1>1, <1>2, <1>3, <1>4
<1> QED
  BY <1>3, <1>5, <1>6 DEF PhaseOK, Ready

\* Put and RegisterRef write their row and are acknowledged.
LEMMA PutRowStepKeeps ==
    ASSUME GwInv, NEW c \in Client, PutRowStep(c)
    PROVE  GwInv'
<1>0. Typed /\ Unacked(c)
  BY DEF GwInv, PutRowStep, Unacked
<1>1. PICK r \in Ref : r = op[c].ref
  BY <1>0, UnderWay
<1>2. op[c].body \in Body \cup {0} /\ op[c].ver \in 0 .. MaxVer /\ now \in 0 .. MaxClock /\ 0 \in 0 .. MaxSlot
  <2>1. op[c] \in OpRec /\ now \in 0 .. MaxClock
    BY <1>0 DEF Typed
  <2>2. 0 \in 0 .. MaxSlot
    BY SMT, GatewayAssumption
  <2> QED
    BY <2>1, <2>2 DEF OpRec
<1>3. /\ FinalRow(c, 0) \in Row /\ FinalRow(c, 0).pending = FALSE /\ FinalRow(c, 0).want = 0
      /\ FinalRow(c, 0).hash = op[c].body
  BY <1>2 DEF FinalRow, Row
<1>4. /\ PutRow(r, FinalRow(c, 0)) /\ Ack(c, r, op[c].body) /\ Return(c, "ok")
      /\ UNCHANGED <<man, stage, gc, now, slots>>
  BY <1>1 DEF PutRowStep
<1>5. /\ op' \in [Client -> OpRec] /\ OthersSame(c) /\ PhaseOK(op'[c]) /\ op'[c].pc = "done"
      /\ op'[c].kind = op[c].kind /\ op'[c].ref = r /\ op'[c].raced = op[c].raced
      /\ op'[c].row = op[c].row
  BY <1>0, <1>1, <1>4, ReturnIs DEF Results
<1> QED
  BY <1>0, <1>1, <1>2, <1>3, <1>4, <1>5, AckKeeps

\* SetUserMeta writes the row over its new manifest.
LEMMA MetaRowKeeps ==
    ASSUME GwInv, NEW c \in Client, MetaRow(c)
    PROVE  GwInv'
<1>0. Typed /\ Unacked(c) /\ Rewriting(c) /\ op[c] \in OpRec
  BY DEF GwInv, MetaRow, Unacked, Rewriting, Ready, Typed
<1>1. PICK r \in Ref : r = op[c].ref
  BY <1>0, UnderWay
<1> DEFINE row == [op[c].row EXCEPT !.ver = op[c].ver]
<1>2. op[c].row \in Row /\ op[c].ver \in 0 .. MaxVer /\ op[c].was \in Body \cup {0}
  BY <1>0 DEF OpRec
<1>3. row \in Row /\ row.pending = op[c].row.pending /\ row.want = op[c].row.want /\ row.hash = op[c].row.hash
  BY <1>2 DEF Row
<1>4. /\ PutRow(r, row) /\ Ack(c, r, op[c].was) /\ Return(c, "ok")
      /\ UNCHANGED <<man, stage, gc, now, slots>>
  BY <1>1 DEF MetaRow
<1> HIDE DEF row
<1>5. /\ op' \in [Client -> OpRec] /\ OthersSame(c) /\ PhaseOK(op'[c]) /\ op'[c].pc = "done"
      /\ op'[c].kind = op[c].kind /\ op'[c].ref = r /\ op'[c].raced = op[c].raced
      /\ op'[c].row = op[c].row
  BY <1>0, <1>1, <1>4, ReturnIs DEF Results
<1>6. MetaRowAt(c) /\ MetaTopAt(c)
  BY DEF GwInv, RowInv, ManifestInv
<1>7. ~row.pending /\ (row.want # 0 => row.hash = row.want)
  BY <1>0, <1>3, <1>6 DEF MetaRowAt
<1>8. op[c].raced = 0 /\ op[c].was # 0 => row.hash = op[c].was /\ op[c].body = op[c].was
  BY <1>0, <1>3, <1>6 DEF MetaRowAt, MetaTopAt, Exact, MetaRow
<1> QED
  BY <1>0, <1>1, <1>2, <1>3, <1>4, <1>5, <1>7, <1>8, AckKeeps

\* Finalize writes the final row once the hash agrees.
LEMMA FinRowKeeps ==
    ASSUME GwInv, NEW c \in Client, FinRow(c)
    PROVE  GwInv'
<1>0. Typed /\ Unacked(c) /\ op[c] \in OpRec /\ op[c].kind = "fin" /\ op \in [Client -> OpRec]
  BY DEF GwInv, FinRow, Unacked, Typed
<1>1. PICK r \in Ref : r = op[c].ref
  BY <1>0, UnderWay
<1> DEFINE row == FinalRow(c, op[c].row.want)
<1>2. /\ op[c].body \in Body \cup {0} /\ op[c].ver \in 0 .. MaxVer /\ now \in 0 .. MaxClock
      /\ 0 \in 0 .. MaxSlot /\ op[c].row.want \in Body \cup {0}
  <2>1. op[c].row \in Row /\ now \in 0 .. MaxClock
    BY <1>0 DEF Typed, OpRec
  <2>2. 0 \in 0 .. MaxSlot
    BY SMT, GatewayAssumption
  <2> QED
    BY <2>1, <2>2, <1>0 DEF OpRec, Row
<1>3. row \in Row /\ row.pending = FALSE /\ row.want = op[c].row.want /\ row.hash = op[c].body
  BY <1>2 DEF FinalRow, Row
<1>4. /\ PutRow(r, row) /\ Ack(c, r, op[c].body) /\ Step(c, "clean") /\ ~Mismatch(c)
      /\ UNCHANGED <<man, stage, gc, now, slots>>
  BY <1>1 DEF FinRow
<1> HIDE DEF row
<1>5. op'[c] = [op[c] EXCEPT !.pc = "clean"] /\ OthersSame(c)
  BY <1>0, <1>4 DEF Step, OthersSame
<1>6. op'[c] \in OpRec
  BY <1>0, <1>5 DEF OpRec, Pcs
<1>7. /\ op'[c].pc = "clean" /\ op'[c].kind = op[c].kind /\ op'[c].ref = r /\ op'[c].raced = op[c].raced
      /\ op'[c].row = op[c].row
  BY <1>0, <1>1, <1>5 DEF OpRec
<1>8. op' \in [Client -> OpRec] /\ PhaseOK(op'[c])
  <2>1. op' = [op EXCEPT ![c] = [op[c] EXCEPT !.pc = "clean"]]
    BY <1>4 DEF Step
  <2> QED
    BY <2>1, <1>0, <1>5, <1>6, <1>7 DEF PhaseOK
<1>9. row.want # 0 => row.hash = row.want
  BY <1>3, <1>4 DEF Mismatch
<1> QED
  BY <1>0, <1>1, <1>2, <1>3, <1>4, <1>5, <1>7, <1>8, <1>9, AckKeeps

\* Finalize takes its manifest back when the hash does not agree.
LEMMA FinRejectKeeps ==
    ASSUME GwInv, NEW c \in Client, FinReject(c)
    PROVE  GwInv'
<1>0. Typed /\ Unacked(c) /\ op[c].pc = "check" /\ Return(c, "integrity")
  BY DEF GwInv, FinReject, Unacked
<1>1. PICK r \in Ref : r = op[c].ref
  BY <1>0, UnderWay
<1>2. Busied(c)
  BY <1>0, UnderWay
<1>3. /\ op' \in [Client -> OpRec] /\ OthersSame(c) /\ PhaseOK(op'[c]) /\ op'[c].pc = "done"
      /\ op'[c].kind = op[c].kind /\ op'[c].ref = r /\ op'[c].raced = op[c].raced
  BY <1>0, <1>1, ReturnIs DEF Results
<1>4. stage' \in [1 .. MaxSlot -> Body \cup {0}]
  BY <1>0 DEF FinReject, Typed, GwTypeOK
<1>5. man' = Without(r, op[c].ver) /\ UNCHANGED <<refs, gc, now, slots, kept, whole, swept>>
  BY <1>1 DEF FinReject, histVars
<1> QED
  BY <1>0, <1>1, <1>2, <1>3, <1>4, <1>5, RemoveKeeps

\* Delete removes one of the versions it listed.
LEMMA DeleteVersionKeeps ==
    ASSUME GwInv, NEW c \in Client, DeleteVersion(c)
    PROVE  GwInv'
<1> DEFINE v == CHOOSE v \in op[c].vers : \A w \in op[c].vers : w <= v
<1>0. Typed /\ op[c].kind = "del" /\ op[c].pc = "versions" /\ op \in [Client -> OpRec]
  BY DEF GwInv, DeleteVersion, Typed
<1>1. PICK r \in Ref : r = op[c].ref
  BY <1>0, UnderWay
<1>2. Busied(c)
  BY <1>0 DEF Busied, Ready, Mutator
<1>3. /\ op' = [op EXCEPT ![c].vers = @ \ {v}] /\ man' = Without(r, v)
      /\ UNCHANGED <<refs, stage, gc, now, slots, kept, whole, swept>>
  BY <1>1 DEF DeleteVersion, histVars
<1> HIDE DEF v
<1>4. op'[c] = [op[c] EXCEPT !.vers = @ \ {v}] /\ OthersSame(c) /\ op[c] \in OpRec
  BY <1>0, <1>3 DEF OthersSame
<1>5. op'[c] \in OpRec
  BY <1>4 DEF OpRec
<1>6. op'[c].pc = "versions" /\ op'[c].kind = op[c].kind /\ op'[c].ref = r /\ op'[c].raced = op[c].raced
  BY <1>0, <1>1, <1>4 DEF OpRec
<1>7. op' \in [Client -> OpRec] /\ PhaseOK(op'[c])
  BY <1>0, <1>3, <1>4, <1>5, <1>6 DEF PhaseOK
<1>8. stage' \in [1 .. MaxSlot -> Body \cup {0}]
  BY <1>0, <1>3 DEF Typed, GwTypeOK
<1> QED
  BY <1>0, <1>1, <1>2, <1>3, <1>4, <1>6, <1>7, <1>8, RemoveKeeps

\* A request returns a result that is not a read's.
LEMMA ReturnKeeps ==
    ASSUME GwInv, NEW c \in Client, NEW res \in Results, Return(c, res),
           op[c].kind = "get" => res # "ok" /\ op[c].pc # "done",
           stage' \in [1 .. MaxSlot -> Body \cup {0}],
           UNCHANGED <<refs, man, gc, now, slots, kept, whole, swept>>
    PROVE  GwInv'
<1>0. Typed /\ ReadAt(c)
  BY DEF GwInv, ReadInv
<1>1. /\ op' \in [Client -> OpRec] /\ OthersSame(c) /\ PhaseOK(op'[c]) /\ Ready(c)'
      /\ op'[c].pc = "done" /\ op'[c].res = res
      /\ op'[c].kind = op[c].kind /\ op'[c].ref = op[c].ref /\ op'[c].raced = op[c].raced
      /\ op'[c].row = op[c].row
  BY <1>0, ReturnIs
<1>2. ReadAt(c)'
  <2>1. \A e \in Client : Busied(e)' => Busied(e) /\ op'[e].ref = op[e].ref
    BY <1>1 DEF Busied, Ready, OthersSame
  <2>2. Quietly(c)' => Quietly(c) /\ op'[c].res # "ok"
    BY <1>1 DEF Quietly
  <2> QED
    BY <1>0, <1>1, <2>1, <2>2 DEF ReadAt, On
<1> QED
  BY <1>1, <1>2, EndKeeps

\* Finalize drops the staged object.
LEMMA FinCleanKeeps ==
    ASSUME GwInv, NEW c \in Client, FinClean(c)
    PROVE  GwInv'
<1>1. stage' \in [1 .. MaxSlot -> Body \cup {0}]
  BY DEF FinClean, GwInv, Typed, GwTypeOK
<1>2. /\ Return(c, "ok") /\ op[c].kind = "fin" /\ "ok" \in Results
      /\ UNCHANGED <<refs, man, gc, now, slots, kept, whole, swept>>
  BY DEF FinClean, histVars, Results
<1> QED
  BY <1>1, <1>2, ReturnKeeps

\* A backend call fails and the request returns the error.
LEMMA FailRequestKeeps ==
    ASSUME GwInv, NEW c \in Client, FailRequest(c)
    PROVE  GwInv'
<1>0. Typed /\ ~Ready(c) /\ Return(c, "error") /\ "error" \in Results /\ op[c].pc # "clean"
  BY DEF FailRequest, GwInv, Results
<1>1. /\ UNCHANGED <<refs, stage, gc, now, slots, kept, whole, swept>>
      /\ stage' \in [1 .. MaxSlot -> Body \cup {0}]
  BY <1>0 DEF FailRequest, histVars, Typed, GwTypeOK
<1>2. CASE man' = man
  BY <1>0, <1>1, <1>2, ReturnKeeps DEF Ready
<1>3. CASE op[c].kind = "reg" /\ man' = Without(op[c].ref, op[c].ver)
  <2>1. PICK r \in Ref : r = op[c].ref
    BY <1>0, UnderWay
  <2>2. op[c].pc = "row"
    BY <1>0, <1>3 DEF Typed, OpRec, Pcs, PhaseOK, Ready
  <2>3. Unacked(c) /\ Busied(c)
    BY <1>0, <2>2, UnderWay DEF Unacked
  <2>4. /\ op' \in [Client -> OpRec] /\ OthersSame(c) /\ PhaseOK(op'[c]) /\ op'[c].pc = "done"
        /\ op'[c].kind = op[c].kind /\ op'[c].ref = r /\ op'[c].raced = op[c].raced
    BY <1>0, <2>1, ReturnIs
  <2> QED
    BY <1>0, <1>1, <1>3, <2>1, <2>3, <2>4, RemoveKeeps
<1> QED
  BY <1>2, <1>3 DEF FailRequest

\* Get reads the latest manifest and checks it against the row.
LEMMA GetBodyKeeps ==
    ASSUME GwInv, NEW c \in Client, GetBody(c)
    PROVE  GwInv'
<1>0. Typed /\ ReadAt(c) /\ op[c].kind = "get" /\ op[c].pc = "body" /\ HasLast
  BY DEF GwInv, ReadInv, GetBody, ManifestInv
<1>1. PICK r \in Ref : r = op[c].ref
  BY <1>0, UnderWay
<1> DEFINE res == IF Versions(r) = {} THEN "notfound" ELSE "ok"
           b == IF Versions(r) = {} THEN 0 ELSE Latest(r).body
<1>2. op' = [op EXCEPT ![c] = [[[op[c] EXCEPT !.pc = "done"] EXCEPT !.res = res] EXCEPT !.body = b]]
  BY <1>0, <1>1 DEF GetBody, Typed
<1>3. res \in Results /\ b \in Body \cup {0}
  <2>1. CASE Versions(r) = {}
    BY <2>1 DEF Results
  <2>2. CASE Versions(r) # {}
    <3>1. Latest(r) \in man
      BY <1>0, <2>2, LatestIs
    <3>2. Latest(r).body \in Body
      BY <1>0, <3>1 DEF Typed, GwTypeOK, Manifest
    <3> QED
      BY <2>2, <3>2 DEF Results
  <2> QED
    BY <2>1, <2>2
<1>4. \A m : Top(r, m) => b = m.body
  <2> SUFFICES ASSUME NEW m, Top(r, m) PROVE b = m.body
    OBVIOUS
  <2>1. Versions(r) # {}
    BY DEF Top, Versions
  <2> QED
    BY <1>0, <2>1, LatestIs
<1> HIDE DEF res, b
<1>5. op \in [Client -> OpRec] /\ op[c] \in OpRec
  BY <1>0 DEF Typed
<1>6. op'[c] = [[[op[c] EXCEPT !.pc = "done"] EXCEPT !.res = res] EXCEPT !.body = b] /\ OthersSame(c)
  BY <1>2, <1>5 DEF OthersSame
<1>7. /\ op'[c].pc = "done" /\ op'[c].kind = "get" /\ op'[c].ref = r /\ op'[c].raced = op[c].raced
      /\ op'[c].row = op[c].row /\ op'[c].body = b
  <2>1. op'[c].pc = "done" /\ op'[c].kind = op[c].kind /\ op'[c].ref = op[c].ref /\ op'[c].body = b
    BY <1>5, <1>6 DEF OpRec
  <2>2. op'[c].raced = op[c].raced /\ op'[c].row = op[c].row
    BY <1>5, <1>6 DEF OpRec
  <2> QED
    BY <1>0, <1>1, <2>1, <2>2
<1>8. op'[c] \in OpRec
  BY <1>3, <1>5, <1>6 DEF OpRec, Pcs
<1>9. op' \in [Client -> OpRec] /\ PhaseOK(op'[c]) /\ Ready(c)'
  BY <1>2, <1>5, <1>6, <1>7, <1>8 DEF PhaseOK, Ready
<1>10. /\ UNCHANGED <<refs, man, gc, now, slots, kept, whole, swept>>
       /\ stage' \in [1 .. MaxSlot -> Body \cup {0}]
  BY <1>0 DEF GetBody, storeVars, histVars, Typed, GwTypeOK
<1>11. ReadAt(c)'
  <2>1. \A e \in Client : Busied(e)' => Busied(e) /\ op'[e].ref = op[e].ref
    BY <1>6, <1>7 DEF Busied, Ready, OthersSame, Mutator
  <2>2. Quietly(c)' => Quietly(c)
    BY <1>0, <1>7 DEF Quietly
  <2>3. whole[r] # 0 => b = whole[r]
    <3>1. WholeTopAt(r)
      BY DEF GwInv, ManifestInv
    <3> QED
      BY <3>1, <1>4 DEF WholeTopAt
  <2> QED
    BY <1>0, <1>1, <1>7, <1>10, <2>1, <2>2, <2>3 DEF ReadAt, On
<1> QED
  BY <1>6, <1>9, <1>10, <1>11, EndKeeps

\* SetUserMeta loads the latest manifest.
LEMMA MetaLoadKeeps ==
    ASSUME GwInv, NEW c \in Client, MetaLoad(c)
    PROVE  GwInv'
<1>0. /\ Typed /\ Staged /\ OverlapInv /\ ManifestInv /\ RowInv /\ ReadInv /\ HasLast
      /\ op[c].kind = "meta" /\ op[c].pc = "load"
      /\ UNCHANGED <<refs, man, stage, gc, now, slots, kept, whole, swept>>
  BY DEF GwInv, ManifestInv, MetaLoad, storeVars, histVars
<1>1. PICK r \in Ref : r = op[c].ref
  BY <1>0, UnderWay
<1>2. CASE Versions(r) = {}
  <2>1. Return(c, "notfound") /\ "notfound" \in Results /\ stage' \in [1 .. MaxSlot -> Body \cup {0}]
    BY <1>0, <1>1, <1>2 DEF MetaLoad, Results, Typed, GwTypeOK
  <2> QED
    BY <1>0, <2>1, ReturnKeeps
<1>3. CASE Versions(r) # {}
  <2> DEFINE m == Latest(r)
             tags == op[c].tags \cup (m.tags \ op[c].stale)
  <2>1. m \in man /\ (\A n : Top(r, n) => m = n)
    BY <1>0, <1>3, LatestIs
  <2>2. m.body \in Body /\ m.tags \in SUBSET Tag /\ 0 \notin Body
    BY <1>0, <2>1, GatewayAssumption DEF Typed, GwTypeOK, Manifest
  <2>3. op \in [Client -> OpRec] /\ op[c] \in OpRec
    BY <1>0 DEF Typed
  <2>4. op' = [op EXCEPT ![c] = [[[op[c] EXCEPT !.pc = "store"] EXCEPT !.body = m.body] EXCEPT !.tags = tags]]
    BY <1>0, <1>1, <1>3, <2>3 DEF MetaLoad
  <2>5. tags \in SUBSET Tag
    BY <2>2, <2>3 DEF OpRec
  <2> HIDE DEF m, tags
  <2>6. op'[c] = [[[op[c] EXCEPT !.pc = "store"] EXCEPT !.body = m.body] EXCEPT !.tags = tags] /\ OthersSame(c)
    BY <2>3, <2>4 DEF OthersSame
  <2>7. op'[c] \in OpRec
    BY <2>2, <2>3, <2>5, <2>6 DEF OpRec, Pcs
  <2>8. /\ op'[c].pc = "store" /\ op'[c].body = m.body /\ op'[c].kind = "meta" /\ op'[c].ref = op[c].ref
        /\ op'[c].row = op[c].row /\ op'[c].was = op[c].was /\ op'[c].raced = op[c].raced
    BY <1>0, <2>3, <2>6 DEF OpRec
  <2>9. op' \in [Client -> OpRec] /\ \A e \in Client : PhaseOK(op'[e])
    BY <1>0, <2>3, <2>4, <2>6, <2>7, <2>8 DEF PhaseOK, Typed, OthersSame
  <2>10. Typed'
    <3>1. \A e \in Client : op'[e].ref \in Ref /\ op'[e].row \in Row
      BY <2>9 DEF OpRec
    <3> QED
      BY <1>0, <2>9, <3>1 DEF Typed, GwTypeOK
  <2>11. Staged'
    <3>1. op'[c].body # 0 /\ op'[c].kind # "fin"
      BY <2>2, <2>8
    <3>2. \A e \in Client : op'[e].kind = "fin" /\ ~Ready(e)' => op'[e].row.slot \in 1 .. MaxSlot
      BY <1>0, <2>6, <3>1 DEF Staged, OthersSame, Ready
    <3>3. \A e \in Client : op'[e].pc = "store" => op'[e].body # 0
      BY <1>0, <2>6, <3>1 DEF Staged, OthersSame
    <3> QED
      BY <1>0, <3>2, <3>3 DEF Staged
  <2>12. Others(c) /\ NoneAcked
    <3>1. Others(c)
      BY <2>6, SameMarked
    <3>2. NoneAcked
      BY <1>0 DEF NoneAcked, OverlapInv
    <3> QED
      BY <3>1, <3>2
  <2>13. Advances(c) /\ ~Unacked(c)' /\ Busied(c)
    BY <1>0, <2>8 DEF Advances, GoesOn, Busied, Ready, Unacked, Mutator
  <2>14. OverlapInv'
    BY <1>0, <2>6, <2>12, <2>13, OverlapStay
  <2>15. MetaTopAt(c)'
    <3>1. Exact(c)' => Exact(c)
      BY <1>0, <2>8 DEF Exact, Rewriting, Ready
    <3>2. MetaTopAt(c)
      BY <1>0 DEF ManifestInv
    <3> QED
      BY <1>0, <1>1, <2>1, <2>8, <3>1, <3>2 DEF MetaTopAt
  <2>16. ManifestInv'
    BY <1>0, <2>12, <2>13, <2>15, ManifestStay
  <2>17. MetaRowAt(c)'
    <3>1. MetaRowAt(c)
      BY <1>0 DEF RowInv
    <3> QED
      BY <1>0, <2>8, <3>1 DEF MetaRowAt, Exact, Rewriting, Ready
  <2>18. RowInv'
    <3>1. \A q \in Ref : RowSame(q)
      BY <1>0 DEF RowSame, HasRow
    <3>2. ListsPending
      BY <1>0 DEF ListsPending
    <3> QED
      BY <1>0, <2>12, <2>17, <3>1, <3>2, RowKeep DEF Others
  <2>19. ReadInv'
    <3>1. ReadAt(c)'
      BY <2>8 DEF ReadAt, Quietly
    <3>2. \A q \in Ref : On(c, q)' => On(c, q)
      BY <2>8, <2>13 DEF On
    <3>3. \A e \in Client : op[e].ref \in Ref
      BY <1>0 DEF Typed, GwTypeOK
    <3> QED
      BY <1>0, <2>12, <3>1, <3>2, <3>3, ReadKeep
  <2> QED
    BY <2>10, <2>11, <2>14, <2>16, <2>18, <2>19 DEF GwInv
<1> QED
  BY <1>2, <1>3

\* SetUserMeta stores the manifest with the new tags.
LEMMA MetaStoreKeeps ==
    ASSUME GwInv, NEW c \in Client, MetaStore(c)
    PROVE  GwInv'
<1>0. /\ Typed /\ Staged /\ op[c].kind = "meta" /\ op[c].pc = "store" /\ Fresh # {}
      /\ op \in [Client -> OpRec] /\ op[c] \in OpRec
      /\ UNCHANGED <<refs, stage, gc, now, slots, kept, whole, swept>>
  BY DEF GwInv, Typed, MetaStore, histVars
<1>1. PICK r \in Ref : r = op[c].ref
  BY <1>0, UnderWay
<1>2. PICK b \in Body : b = op[c].body
  BY <1>0 DEF Staged, OpRec
<1>3. PICK tags : Tagging(tags) /\ tags = op[c].tags
  BY <1>0 DEF OpRec, Tagging
<1>4. NewVer \in 0 .. MaxVer
  BY <1>0, FreshVersion
<1>5. /\ man' = man \cup {Written(r, b, tags)}
      /\ op' = [op EXCEPT ![c] = [[op[c] EXCEPT !.pc = "row"] EXCEPT !.ver = NewVer]]
  BY <1>0, <1>1, <1>2, <1>3 DEF MetaStore
<1>6. op'[c] = [[op[c] EXCEPT !.pc = "row"] EXCEPT !.ver = NewVer] /\ OthersSame(c)
  BY <1>0, <1>5 DEF OthersSame
<1>7. op'[c] \in OpRec
  BY <1>0, <1>4, <1>6 DEF OpRec, Pcs
<1>8. /\ op'[c].pc = "row" /\ op'[c].body = b /\ op'[c].kind = "meta" /\ op'[c].ref = r
      /\ op'[c].row = op[c].row /\ op'[c].was = op[c].was /\ op'[c].raced = op[c].raced
      /\ op'[c].ver = NewVer
  BY <1>0, <1>1, <1>2, <1>6 DEF OpRec
<1>9. op' \in [Client -> OpRec] /\ PhaseOK(op'[c]) /\ Busied(c)
  BY <1>0, <1>5, <1>6, <1>7, <1>8 DEF PhaseOK, Busied, Ready, Mutator
<1> QED
  <2>1. op[c].pc \in {"store", "open"} /\ op[c].ref = r /\ op'[c].pc \in {"row", "check"}
    BY <1>0, <1>1, <1>8
  <2>2. b = op[c].body /\ op'[c].kind = op[c].kind
    BY <1>0, <1>2, <1>8
  <2>3. Fresh # {} /\ man' = man \cup {Written(r, b, tags)}
    BY <1>0, <1>5
  <2>4. UNCHANGED <<refs, stage, gc, now, slots, kept, whole, swept>>
    BY <1>0
  <2>5. /\ OthersSame(c) /\ op' \in [Client -> OpRec] /\ PhaseOK(op'[c]) /\ Busied(c)
        /\ op'[c].ref = r /\ op'[c].raced = op[c].raced /\ op'[c].row = op[c].row
        /\ op'[c].was = op[c].was /\ op'[c].ver = NewVer /\ op'[c].body = b
    BY <1>6, <1>8, <1>9
  <2> QED
    BY <1>3, <2>1, <2>2, <2>3, <2>4, <2>5, WriteKeeps

\* Finalize copies the staged body into the store.
LEMMA FinStoreKeeps ==
    ASSUME GwInv, NEW c \in Client, FinStore(c)
    PROVE  GwInv'
<1>0. /\ Typed /\ Staged /\ op[c].kind = "fin" /\ op[c].pc = "open"
      /\ op \in [Client -> OpRec] /\ op[c] \in OpRec
      /\ UNCHANGED <<refs, stage, gc, now, slots, kept, whole, swept>>
  BY DEF GwInv, Typed, FinStore, histVars
<1>1. PICK r \in Ref : r = op[c].ref
  BY <1>0, UnderWay
<1>2. stage \in [1 .. MaxSlot -> Body \cup {0}] /\ op[c].row.slot \in 1 .. MaxSlot
  BY <1>0 DEF Typed, GwTypeOK, Staged, Ready
<1>3. CASE stage[op[c].row.slot] = 0
  <2>1. Return(c, "error") /\ man' = man /\ "error" \in Results
    BY <1>3 DEF FinStore, Results
  <2> QED
    BY <1>0, <1>2, <2>1, ReturnKeeps
<1>4. CASE stage[op[c].row.slot] # 0
  <2>1. PICK b \in Body : b = stage[op[c].row.slot]
    BY <1>2, <1>4
  <2>2. PICK tags : Tagging(tags) /\ tags = {}
    BY DEF Tagging
  <2>3. /\ Fresh # {} /\ man' = man \cup {Written(r, b, tags)}
        /\ op' = [op EXCEPT ![c] = [[[op[c] EXCEPT !.pc = "check"] EXCEPT !.body = b] EXCEPT !.ver = NewVer]]
    BY <1>0, <1>1, <1>4, <2>1, <2>2 DEF FinStore
  <2>4. NewVer \in 0 .. MaxVer
    BY <1>0, <2>3, FreshVersion
  <2>6. op'[c] = [[[op[c] EXCEPT !.pc = "check"] EXCEPT !.body = b] EXCEPT !.ver = NewVer] /\ OthersSame(c)
    BY <1>0, <2>3 DEF OthersSame
  <2>7. op'[c] \in OpRec
    BY <1>0, <2>4, <2>6 DEF OpRec, Pcs
  <2>8. /\ op'[c].pc = "check" /\ op'[c].body = b /\ op'[c].kind = "fin" /\ op'[c].ref = r
        /\ op'[c].row = op[c].row /\ op'[c].was = op[c].was /\ op'[c].raced = op[c].raced
        /\ op'[c].ver = NewVer
    BY <1>0, <1>1, <2>6 DEF OpRec
  <2>9. op' \in [Client -> OpRec] /\ PhaseOK(op'[c]) /\ Busied(c)
    BY <1>0, <2>3, <2>6, <2>7, <2>8 DEF PhaseOK, Busied, Ready, Mutator
  <2> QED
    BY <1>0, <1>1, <2>3, <2>6, <2>2, <2>8, <2>9, WriteKeeps
<1> QED
  BY <1>3, <1>4

\* Deleting rows leaves well-formed ones.
LEMMA RowGone ==
    ASSUME Typed, Staged, NEW r, DeleteRow(r)
    PROVE  /\ DOMAIN refs' \subseteq Ref /\ \A q \in DOMAIN refs' : refs'[q] \in Row
           /\ \A q \in DOMAIN refs' : refs'[q].pending => refs'[q].slot \in 1 .. MaxSlot
<1>1. /\ DOMAIN refs' = DOMAIN refs \ {r}
      /\ \A q : q # r => HasRow(q)' = HasRow(q) /\ (HasRow(q) => refs'[q] = refs[q])
  BY DeleteRowIs
<1>2. \A q \in DOMAIN refs' : q \in DOMAIN refs /\ refs'[q] = refs[q]
  BY <1>1 DEF HasRow
<1> QED
  BY <1>2 DEF Typed, GwTypeOK, Staged

\* Delete removes the row last.
LEMMA DeleteRefRowKeeps ==
    ASSUME GwInv, NEW c \in Client, DeleteRefRow(c)
    PROVE  GwInv'
<1>0. /\ Typed /\ Staged /\ OverlapInv /\ ManifestInv /\ RowInv /\ ReadInv
      /\ op[c].kind = "del" /\ op[c].pc = "versions" /\ Return(c, "ok") /\ "ok" \in Results
      /\ UNCHANGED <<man, stage, gc, now, slots, kept, whole, swept>>
  BY DEF GwInv, DeleteRefRow, histVars, Results
<1>1. PICK r \in Ref : r = op[c].ref
  BY <1>0, UnderWay
<1>2. /\ op' \in [Client -> OpRec] /\ OthersSame(c) /\ PhaseOK(op'[c]) /\ Ready(c)'
      /\ op'[c].pc = "done" /\ op'[c].kind = "del"
  BY <1>0, ReturnIs
<1>3. DeleteRow(r)
  BY <1>1 DEF DeleteRefRow
<1>4. ~HasRow(r)' /\ \A q : q # r => HasRow(q)' = HasRow(q) /\ (HasRow(q) => refs'[q] = refs[q])
  BY <1>3, DeleteRowIs
<1>5. Typed'
  <2>1. \A e \in Client : op'[e].ref \in Ref /\ op'[e].row \in Row
    BY <1>2 DEF OpRec
  <2>2. \A e \in Client : PhaseOK(op'[e])
    BY <1>0, <1>2 DEF Typed, OthersSame
  <2>3. DOMAIN refs' \subseteq Ref /\ \A q \in DOMAIN refs' : refs'[q] \in Row
    BY <1>0, <1>3, RowGone
  <2> QED
    BY <1>0, <1>2, <2>1, <2>2, <2>3 DEF Typed, GwTypeOK
<1>6. Staged'
  <2>1. \A q \in DOMAIN refs' : refs'[q].pending => refs'[q].slot \in 1 .. MaxSlot
    BY <1>0, <1>3, RowGone
  <2>2. \A e \in Client : e # c => op'[e] = op[e] /\ Ready(e)' = Ready(e)
    BY <1>2 DEF OthersSame, Ready
  <2> QED
    BY <1>0, <1>2, <2>1, <2>2 DEF Staged
<1>7. Others(c)
  BY <1>2, SameMarked
<1>8. NoneAcked
  BY <1>0 DEF NoneAcked, OverlapInv
<1>9. ~Busied(c)' /\ ~Unacked(c)' /\ Busied(c)
  BY <1>0, <1>2 DEF Busied, Unacked, Ready, Mutator
<1>10. OverlapInv'
  BY <1>0, <1>2, <1>8, <1>9, OverlapStay DEF Advances
<1>11. MetaTopAt(c)' /\ MetaRowAt(c)' /\ ReadAt(c)'
  BY <1>2 DEF MetaTopAt, MetaRowAt, ReadAt, Exact, Rewriting, Quietly
<1>12. ManifestInv'
  BY <1>0, <1>7, <1>8, <1>9, <1>11, ManifestStay
<1>13. RowInv'
  <2>1. kept'[r] = FALSE /\ whole'[r] = 0
    <3>1. QuietAt(c, r) /\ On(c, r) /\ (whole[r] # 0 => kept[r]) /\ kept[r] \in BOOLEAN
      BY <1>0, <1>1, <1>9 DEF OverlapInv, On, Typed, GwTypeOK
    <3> QED
      BY <1>0, <3>1 DEF QuietAt
  <2>2. RowSound(r)'
    BY <1>4, <2>1 DEF RowSound, KeptRowAt, WholeRowAt, GateAt, Finalized
  <2>3. \A q \in Ref : q # r => RowSame(q)
    BY <1>0, <1>4 DEF RowSame
  <2>4. ListsPending
    BY <1>0 DEF ListsPending
  <2> QED
    BY <1>0, <1>7, <1>11, <2>2, <2>3, <2>4, RowKeep DEF Others
<1>14. ReadInv'
  <2>1. \A e \in Client : op[e].ref \in Ref
    BY <1>0 DEF Typed, GwTypeOK
  <2>2. \A q \in Ref : ~On(c, q)'
    BY <1>9 DEF On
  <2> QED
    BY <1>0, <1>7, <1>11, <2>1, <2>2, ReadKeep
<1> QED
  BY <1>5, <1>6, <1>10, <1>12, <1>13, <1>14 DEF GwInv

-----------------------------------------------------------------------------
(* Steps of no request.                                                     *)

\* A step that no request takes changes the staging slots, the clock, the
\* sweeper's list and rows that nothing is promised of.
LEMMA AsideKeeps ==
    ASSUME GwInv, UNCHANGED <<man, op, slots, kept, whole, swept>>,
           now' \in 0 .. MaxClock, stage' \in [1 .. MaxSlot -> Body \cup {0}],
           gc' \subseteq [ref : Ref, slot : 0 .. MaxSlot], ListsPending,
           DOMAIN refs' \subseteq Ref, \A q \in DOMAIN refs' : refs'[q] \in Row,
           \A q \in DOMAIN refs' : refs'[q].pending => refs'[q].slot \in 1 .. MaxSlot,
           \A q \in Ref : RowSame(q) \/ RowSound(q)'
    PROVE  GwInv'
<1>1. Typed'
  BY DEF GwInv, Typed, GwTypeOK
<1>2. Staged'
  BY DEF GwInv, Staged, Ready
<1>3. OverlapInv'
  BY DEF GwInv, OverlapInv, AloneAt, DistinctAt, QuietAt, On, Busied, Unacked, Ready
<1>4. ManifestInv'
  <2>1. HasLast'
    BY DEF GwInv, ManifestInv, HasLast
  <2>2. \A r, m : Top(r, m)' = Top(r, m)
    BY DEF Top
  <2>3. \A e \in Client : StoredAt(e)'
    BY DEF GwInv, ManifestInv, StoredAt, Unacked, Top
  <2>4. \A e \in Client : MetaTopAt(e)'
    <3> SUFFICES ASSUME NEW e \in Client PROVE MetaTopAt(e)'
      OBVIOUS
    <3>1. MetaTopAt(e) /\ Exact(e)' = Exact(e)
      BY DEF GwInv, ManifestInv, Exact, Rewriting, Ready
    <3>2. ASSUME NEW m, Top(op[e].ref, m) PROVE m \in man' /\ m.ref = op'[e].ref /\ \A n \in man' : n.ref = op'[e].ref => n.ver <= m.ver
      BY <3>2 DEF Top
    <3> QED
      BY <3>1, <3>2 DEF MetaTopAt, Top
  <2>5. \A r \in Ref : KeptBodyAt(r)' /\ WholeTopAt(r)'
    <3> SUFFICES ASSUME NEW r \in Ref PROVE KeptBodyAt(r)' /\ WholeTopAt(r)'
      OBVIOUS
    <3>1. KeptBodyAt(r) /\ WholeTopAt(r)
      BY DEF GwInv, ManifestInv
    <3>2. KeptBodyAt(r)'
      BY <3>1 DEF KeptBodyAt, Unacked
    <3>3. WholeTopAt(r)'
      BY <3>1, <2>2 DEF WholeTopAt
    <3> QED
      BY <3>2, <3>3
  <2> QED
    BY <2>1, <2>3, <2>4, <2>5 DEF ManifestInv
<1>5. RowInv'
  <2>1. \A e \in Client : Marked(e)
    BY DEF Marked
  <2> QED
    BY <2>1, RowKeep DEF GwInv
<1>6. ReadInv'
  BY DEF GwInv, ReadInv, ReadAt, Quietly, On, Busied, Ready
<1> QED
  BY <1>1, <1>2, <1>3, <1>4, <1>5, <1>6 DEF GwInv

\* Uploads, expiry, the clock and the staging sweep.
LEMMA BackgroundKeeps ==
    ASSUME GwInv, Background
    PROVE  GwInv'
<1>0. /\ Typed /\ Staged /\ RowInv /\ OverlapInv
      /\ stage \in [1 .. MaxSlot -> Body \cup {0}] /\ now \in 0 .. MaxClock
      /\ gc \subseteq [ref : Ref, slot : 0 .. MaxSlot]
      /\ DOMAIN refs \subseteq Ref /\ (\A q \in DOMAIN refs : refs[q] \in Row)
      /\ (\A q \in DOMAIN refs : refs[q].pending => refs[q].slot \in 1 .. MaxSlot)
  BY DEF GwInv, Typed, GwTypeOK, Staged
<1>1. ASSUME NEW s \in 1 .. MaxSlot, NEW b \in Body, Upload(s, b) PROVE GwInv'
  <2>1. /\ stage' \in [1 .. MaxSlot -> Body \cup {0}]
        /\ UNCHANGED <<refs, man, op, gc, now, slots, kept, whole, swept>>
    BY <1>0, <1>1 DEF Upload, histVars
  <2>2. ListsPending /\ \A q \in Ref : RowSame(q)
    BY <2>1 DEF ListsPending, RowSame, HasRow
  <2> QED
    BY <1>0, <2>1, <2>2, AsideKeeps
<1>2. ASSUME GcList PROVE GwInv'
  <2>1. gc' = ListStalePending(StagingTTL) /\ UNCHANGED <<refs, man, stage, op, now, slots, kept, whole, swept>>
    BY <1>2 DEF GcList, storeVars, histVars
  <2>2. ASSUME NEW i \in gc'
        PROVE  i \in [ref : Ref, slot : 0 .. MaxSlot] /\ ~Finalized(i.ref)
    <3>1. PICK q \in DOMAIN refs : i = [ref |-> q, slot |-> refs[q].slot] /\ refs[q].pending
      BY <2>1, <2>2 DEF ListStalePending
    <3>2. q \in Ref /\ refs[q].slot \in 0 .. MaxSlot
      BY <1>0 DEF Row
    <3>3. i \in [ref : Ref, slot : 0 .. MaxSlot] /\ i.ref = q
      BY <3>1, <3>2
    <3> QED
      BY <3>1, <3>3 DEF Finalized
  <2>3. ListsPending /\ \A q \in Ref : RowSame(q)
    BY <2>1, <2>2 DEF ListsPending, RowSame, HasRow
  <2> QED
    BY <1>0, <2>1, <2>2, <2>3, AsideKeeps
<1>3. ASSUME NEW i \in gc, GcReclaim(i) PROVE GwInv'
  <2>1. /\ UNCHANGED <<man, op, now, slots, kept, whole, swept>> /\ gc' \subseteq gc /\ DeleteRow(i.ref)
        /\ stage' \in [1 .. MaxSlot -> Body \cup {0}]
    BY <1>0, <1>3 DEF GcReclaim, histVars
  <2>2. PICK r \in Ref : r = i.ref
    BY <1>0
  <2>3. ~HasRow(r)' /\ \A q : q # r => HasRow(q)' = HasRow(q) /\ (HasRow(q) => refs'[q] = refs[q])
    BY <2>1, <2>2, DeleteRowIs
  <2>4. RowSound(r)'
    <3>1. KeptRowAt(r)
      BY <1>0 DEF RowInv
    <3>2. kept[r] => r \in swept
      BY <2>2, <3>1 DEF KeptRowAt
    <3> QED
      BY <2>1, <2>3, <3>2 DEF RowSound, KeptRowAt, WholeRowAt, GateAt, Finalized
  <2>5. \A q \in Ref : q # r => RowSame(q)
    BY <2>1, <2>3 DEF RowSame
  <2>6. /\ DOMAIN refs' \subseteq Ref /\ \A q \in DOMAIN refs' : refs'[q] \in Row
        /\ \A q \in DOMAIN refs' : refs'[q].pending => refs'[q].slot \in 1 .. MaxSlot
    BY <1>0, <2>1, RowGone
  <2>7. ListsPending /\ gc' \subseteq [ref : Ref, slot : 0 .. MaxSlot]
    BY <1>0, <2>1 DEF ListsPending
  <2> QED
    BY <1>0, <2>1, <2>4, <2>5, <2>6, <2>7, AsideKeeps
<1>4. ASSUME Tick PROVE GwInv'
  <2>1. now' \in 0 .. MaxClock
    BY SMT, <1>0, <1>4, GatewayAssumption DEF Tick
  <2>2. UNCHANGED <<refs, man, stage, op, gc, slots, kept, whole, swept>>
    BY <1>4 DEF Tick, storeVars, histVars
  <2>3. ListsPending /\ \A q \in Ref : RowSame(q)
    BY <2>2 DEF ListsPending, RowSame, HasRow
  <2> QED
    BY <1>0, <2>1, <2>2, <2>3, AsideKeeps
<1> QED
  BY <1>1, <1>2, <1>3, <1>4 DEF Background

\* Every step of a request in the gateway keeps the invariant.
LEMMA StepKeeps ==
    ASSUME GwInv, NEW c \in Client, GatewayStep(c)
    PROVE  GwInv'
  BY PutRowStepKeeps, MetaLoadKeeps, MetaStoreKeeps, MetaRowKeeps, GetBodyKeeps,
     DeleteVersionKeeps, DeleteRefRowKeeps, FinStoreKeeps, FinRejectKeeps, FinRowKeeps,
     FinCleanKeeps, FailRequestKeeps DEF GatewayStep

-----------------------------------------------------------------------------
(* What the front ends see of a step in the gateway.                        *)

\* A step of c in the gateway changes its own record only.
Goes(c) ==
    /\ OthersSame(c) /\ ~Ready(c)
    /\ op'[c].kind = op[c].kind /\ op'[c].ref = op[c].ref /\ op'[c].raced = op[c].raced
    /\ op'[c].was = op[c].was
\* It touches the reference it is on only.
TouchesOwn(c) == \A q \in Ref : ~On(c, q) => Untouched(q)

\* A request that returns keeps its kind and its reference.
LEMMA ReturnGoes ==
    ASSUME Typed, NEW c \in Client, NEW res \in Results, Return(c, res), ~Ready(c)
    PROVE  Goes(c) /\ op'[c].pc = "done" /\ op'[c].res = res
  BY ReturnIs DEF Goes

\* What is acknowledged of a reference leaves the others alone.
LEMMA AckTouches ==
    ASSUME Typed, NEW c \in Client, NEW r \in Ref, On(c, r), NEW b, Ack(c, r, b), man' = man
    PROVE  TouchesOwn(c)
<1> SUFFICES ASSUME NEW q \in Ref, ~On(c, q) PROVE Untouched(q)
  BY DEF TouchesOwn
<1>1. q # r
  OBVIOUS
<1>2. whole'[q] = whole[q]
  BY <1>1 DEF Ack, Typed, GwTypeOK
<1> QED
  BY <1>2 DEF Untouched, Top

\* A removed version leaves the other references alone.
LEMMA RemoveTouches ==
    ASSUME NEW c \in Client, NEW r \in Ref, On(c, r), NEW v, man' = Without(r, v), whole' = whole
    PROVE  TouchesOwn(c)
<1> SUFFICES ASSUME NEW q \in Ref, ~On(c, q) PROVE Untouched(q)
  BY DEF TouchesOwn
<1>1. q # r
  OBVIOUS
<1> QED
  BY <1>1 DEF Untouched, Top, Without

\* A written manifest leaves the others alone and is the latest of its own.
LEMMA WriteTouches ==
    ASSUME Typed, Fresh # {}, NEW c \in Client, NEW r \in Ref, On(c, r), NEW b \in Body,
           NEW tags, Tagging(tags), man' = man \cup {Written(r, b, tags)}, whole' = whole
    PROVE  TouchesOwn(c) /\ TopTags(r, tags)'
<1>1. tags \in SUBSET Tag
  BY DEF Tagging
<1>2. /\ \E w : Top(r, w)' /\ w.tags = tags
      /\ \A q : q # r => \A m : Top(q, m) => Top(q, m)'
  BY <1>1, WrittenTop
<1>3. \A q \in Ref : ~On(c, q) => q # r
  OBVIOUS
<1> QED
  BY <1>2, <1>3 DEF TouchesOwn, Untouched, TopTags, Top

\* No manifest, no acknowledgement: nothing is touched.
LEMMA NoneTouched ==
    ASSUME man' = man, whole' = whole
    PROVE  \A q : Untouched(q)
  BY DEF Untouched, Top

\* A request of the gateway touches its own reference and its own record.
LEMMA StepGoes ==
    ASSUME GwInv, NEW c \in Client, GatewayStep(c)
    PROVE  Goes(c) /\ TouchesOwn(c)
<1>0. Typed /\ Staged /\ op \in [Client -> OpRec] /\ op[c] \in OpRec
  BY DEF GwInv, Typed
<1>1. PICK r \in Ref : r = op[c].ref
  BY <1>0, UnderWay
<1>2. \A x \in {"ok", "error", "notfound", "integrity"} : x \in Results
  BY DEF Results
<1>3. op[c].kind \in Mutator /\ ~Ready(c) => On(c, r)
  BY <1>1 DEF On, Busied
<1>4. CASE PutRowStep(c)
  <2>1. Return(c, "ok") /\ ~Ready(c) /\ On(c, r) /\ Ack(c, r, op[c].body) /\ man' = man
    BY <1>1, <1>3, <1>4 DEF PutRowStep, Ready, Mutator
  <2> QED
    BY <1>0, <1>2, <2>1, ReturnGoes, AckTouches
<1>5. CASE MetaRow(c)
  <2>1. Return(c, "ok") /\ ~Ready(c) /\ On(c, r) /\ Ack(c, r, op[c].was) /\ man' = man
    BY <1>1, <1>3, <1>5 DEF MetaRow, Ready, Mutator
  <2> QED
    BY <1>0, <1>2, <2>1, ReturnGoes, AckTouches
<1>6. CASE FinRow(c)
  <2>1. Step(c, "clean") /\ ~Ready(c) /\ On(c, r) /\ Ack(c, r, op[c].body) /\ man' = man
    BY <1>1, <1>3, <1>6 DEF FinRow, Ready, Mutator
  <2>2. op'[c] = [op[c] EXCEPT !.pc = "clean"] /\ OthersSame(c)
    BY <1>0, <2>1 DEF Step, OthersSame
  <2>3. Goes(c)
    BY <1>0, <2>1, <2>2 DEF Goes, OpRec
  <2> QED
    BY <1>0, <2>1, <2>3, AckTouches
<1>7. CASE MetaLoad(c)
  <2>1. man' = man /\ whole' = whole /\ ~Ready(c)
    BY <1>7 DEF MetaLoad, storeVars, histVars, Ready
  <2>2. TouchesOwn(c)
    BY <2>1, NoneTouched DEF TouchesOwn
  <2>3. CASE Versions(op[c].ref) = {}
    BY <1>0, <1>2, <1>7, <2>1, <2>2, <2>3, ReturnGoes DEF MetaLoad
  <2>4. CASE Versions(op[c].ref) # {}
    <3> DEFINE b == Latest(op[c].ref).body
               t == op[c].tags \cup (Latest(op[c].ref).tags \ op[c].stale)
    <3>1. op' = [op EXCEPT ![c] = [[[op[c] EXCEPT !.pc = "store"] EXCEPT !.body = b] EXCEPT !.tags = t]]
      BY <1>0, <1>7, <2>4 DEF MetaLoad
    <3> HIDE DEF b, t
    <3>2. OthersSame(c) /\ op'[c] = [[[op[c] EXCEPT !.pc = "store"] EXCEPT !.body = b] EXCEPT !.tags = t]
      BY <1>0, <3>1 DEF OthersSame
    <3>3. Goes(c)
      BY <1>0, <2>1, <3>2 DEF Goes, OpRec
    <3> QED
      BY <2>2, <3>3
  <2> QED
    BY <2>3, <2>4
<1>8. CASE MetaStore(c)
  <2>1. /\ ~Ready(c) /\ On(c, r) /\ Fresh # {} /\ whole' = whole
        /\ op' = [op EXCEPT ![c] = [[op[c] EXCEPT !.pc = "row"] EXCEPT !.ver = NewVer]]
    BY <1>0, <1>3, <1>8 DEF MetaStore, Ready, Mutator, histVars
  <2>2. PICK b \in Body : b = op[c].body
    BY <1>0, <1>8 DEF Staged, OpRec, MetaStore
  <2>t. PICK tags : Tagging(tags) /\ tags = op[c].tags
    BY <1>0 DEF OpRec, Tagging
  <2>3. man' = man \cup {Written(r, b, tags)}
    BY <1>1, <1>8, <2>2, <2>t DEF MetaStore
  <2>4. OthersSame(c) /\ op'[c] = [[op[c] EXCEPT !.pc = "row"] EXCEPT !.ver = NewVer]
    BY <1>0, <2>1 DEF OthersSame
  <2>5. Goes(c)
    BY <1>0, <2>1, <2>4 DEF Goes, OpRec
  <2> QED
    BY <1>0, <2>1, <2>t, <2>3, <2>5, WriteTouches
<1>9. CASE GetBody(c)
  <2> DEFINE res == IF Versions(op[c].ref) = {} THEN "notfound" ELSE "ok"
             b == IF Versions(op[c].ref) = {} THEN 0 ELSE Latest(op[c].ref).body
  <2>1. /\ man' = man /\ whole' = whole /\ ~Ready(c)
        /\ op' = [op EXCEPT ![c] = [[[op[c] EXCEPT !.pc = "done"] EXCEPT !.res = res] EXCEPT !.body = b]]
    BY <1>0, <1>9 DEF GetBody, storeVars, histVars, Ready
  <2> HIDE DEF res, b
  <2>2. OthersSame(c) /\ op'[c] = [[[op[c] EXCEPT !.pc = "done"] EXCEPT !.res = res] EXCEPT !.body = b]
    BY <1>0, <2>1 DEF OthersSame
  <2>3. Goes(c)
    BY <1>0, <2>1, <2>2 DEF Goes, OpRec
  <2> QED
    BY <2>1, <2>3, NoneTouched DEF TouchesOwn
<1>10. CASE DeleteVersion(c)
  <2> DEFINE v == CHOOSE v \in op[c].vers : \A w \in op[c].vers : w <= v
  <2>1. /\ ~Ready(c) /\ On(c, r) /\ whole' = whole /\ man' = Without(r, v)
        /\ op' = [op EXCEPT ![c].vers = @ \ {v}]
    BY <1>1, <1>3, <1>10 DEF DeleteVersion, Ready, Mutator, histVars
  <2> HIDE DEF v
  <2>2. op'[c] = [op[c] EXCEPT !.vers = @ \ {v}] /\ OthersSame(c)
    BY <1>0, <2>1 DEF OthersSame
  <2>3. Goes(c)
    BY <1>0, <2>1, <2>2 DEF Goes, OpRec
  <2> QED
    BY <2>1, <2>3, RemoveTouches
<1>11. CASE DeleteRefRow(c)
  <2>1. Return(c, "ok") /\ ~Ready(c) /\ man' = man /\ whole' = whole
    BY <1>11 DEF DeleteRefRow, Ready, histVars
  <2> QED
    BY <1>0, <1>2, <2>1, ReturnGoes, NoneTouched DEF TouchesOwn
<1>12. CASE FinStore(c)
  <2>1. ~Ready(c) /\ On(c, r) /\ whole' = whole
    BY <1>3, <1>12 DEF FinStore, Ready, Mutator, histVars
  <2>2. CASE stage[op[c].row.slot] = 0
    <3>1. Return(c, "error") /\ man' = man
      BY <1>12, <2>2 DEF FinStore
    <3> QED
      BY <1>0, <1>2, <2>1, <3>1, ReturnGoes, NoneTouched DEF TouchesOwn
  <2>3. CASE stage[op[c].row.slot] # 0
    <3>1. stage \in [1 .. MaxSlot -> Body \cup {0}] /\ op[c].row.slot \in 1 .. MaxSlot
      <4>1. op[c].kind = "fin" /\ ~Ready(c)
        BY <1>12 DEF FinStore, Ready
      <4> QED
        BY <1>0, <4>1 DEF Typed, GwTypeOK, Staged
    <3>2. PICK b \in Body : b = stage[op[c].row.slot]
      BY <2>3, <3>1
    <3>t. PICK tags : Tagging(tags) /\ tags = {}
      <4>1. Tagging({})
        BY DEF Tagging
      <4> QED
        BY <4>1
    <3>3. /\ Fresh # {} /\ man' = man \cup {Written(r, b, tags)}
          /\ op' = [op EXCEPT ![c] = [[[op[c] EXCEPT !.pc = "check"] EXCEPT !.body = b] EXCEPT !.ver = NewVer]]
      BY <1>0, <1>1, <1>12, <2>3, <3>2, <3>t DEF FinStore
    <3>4. OthersSame(c) /\ op'[c] = [[[op[c] EXCEPT !.pc = "check"] EXCEPT !.body = b] EXCEPT !.ver = NewVer]
      BY <1>0, <3>3 DEF OthersSame
    <3>5. Goes(c)
      BY <1>0, <2>1, <3>4 DEF Goes, OpRec
    <3> QED
      BY <1>0, <2>1, <3>t, <3>3, <3>5, WriteTouches
  <2> QED
    BY <2>2, <2>3
<1>13. CASE FinReject(c)
  <2>1. Return(c, "integrity") /\ ~Ready(c) /\ On(c, r) /\ whole' = whole /\ man' = Without(r, op[c].ver)
    BY <1>1, <1>3, <1>13 DEF FinReject, Ready, Mutator, histVars
  <2> QED
    BY <1>0, <1>2, <2>1, ReturnGoes, RemoveTouches
<1>14. CASE FinClean(c)
  <2>1. Return(c, "ok") /\ ~Ready(c) /\ man' = man /\ whole' = whole
    BY <1>14 DEF FinClean, Ready, histVars
  <2> QED
    BY <1>0, <1>2, <2>1, ReturnGoes, NoneTouched DEF TouchesOwn
<1>15. CASE FailRequest(c)
  <2>1. Return(c, "error") /\ ~Ready(c) /\ whole' = whole
    BY <1>15 DEF FailRequest, histVars
  <2>2. CASE man' = man
    BY <1>0, <1>2, <2>1, <2>2, ReturnGoes, NoneTouched DEF TouchesOwn
  <2>3. CASE op[c].kind = "reg" /\ man' = Without(r, op[c].ver)
    BY <1>0, <1>2, <1>3, <2>1, <2>3, ReturnGoes, RemoveTouches DEF Mutator
  <2> QED
    BY <1>1, <1>15, <2>2, <2>3 DEF FailRequest
<1> QED
  BY <1>4, <1>5, <1>6, <1>7, <1>8, <1>9, <1>10, <1>11, <1>12, <1>13, <1>14, <1>15 DEF GatewayStep

-----------------------------------------------------------------------------
(* PutObject: the bytes, then the ETag.                                     *)

\* The tags of an untouched reference stay.
LEMMA TopStays ==
    ASSUME NEW r, Untouched(r), NEW tags, TopTags(r, tags)
    PROVE  TopTags(r, tags)'
  BY DEF Untouched, TopTags, Top

\* Steps elsewhere do not disturb a PutObject that runs alone.
LEMMA AloneStays ==
    ASSUME NEW c \in Client, NEW r, NEW b, op'[c] = op[c], Untouched(r)
    PROVE  /\ StoresAlone(c, r, b) => StoresAlone(c, r, b)'
           /\ BindsAlone(c, r, b) => BindsAlone(c, r, b)'
<1>1. whole'[r] = whole[r] /\ \A tags : TopTags(r, tags) => TopTags(r, tags)'
  BY TopStays DEF Untouched
<1>2. StoresAlone(c, r, b) => StoresAlone(c, r, b)'
  BY <1>1 DEF StoresAlone
<1>3. BindsAlone(c, r, b) => BindsAlone(c, r, b)'
  BY <1>1 DEF BindsAlone
<1> QED
  BY <1>2, <1>3

\* The store of a call that is alone goes on, and ends with its body.
LEMMA StoresOn ==
    ASSUME GwInv, NEW c \in Client, NEW r \in Ref, NEW b, StoresAlone(c, r, b), GatewayStep(c)
    PROVE  StoresAlone(c, r, b)'
<1>0. /\ Typed /\ op[c].kind = "put" /\ op[c].ref = r /\ op[c].body = b /\ b # 0 /\ op[c].raced = 0
      /\ (op[c].pc = "row" \/ op[c].res = "ok" => TopTags(r, {}))
      /\ "ok" \in Results /\ "error" \in Results
  BY DEF GwInv, StoresAlone, Results
<1>1. PutRowStep(c) \/ FailRequest(c)
  BY <1>0 DEF GatewayStep, MetaLoad, MetaStore, MetaRow, GetBody, DeleteVersion, DeleteRefRow,
              FinStore, FinReject, FinRow, FinClean
<1>2. CASE PutRowStep(c)
  <2>1. /\ Return(c, "ok") /\ man' = man /\ op[c].pc = "row" /\ Ack(c, r, b)
    BY <1>0, <1>2 DEF PutRowStep
  <2>2. /\ op'[c].pc = "done" /\ op'[c].res = "ok" /\ op'[c].kind = "put" /\ op'[c].ref = r
        /\ op'[c].body = b /\ op'[c].raced = 0
    BY <1>0, <2>1, ReturnIs
  <2>3. whole'[r] = b
    BY <1>0, <2>1 DEF Ack, Typed, GwTypeOK
  <2>4. TopTags(r, {})'
    BY <1>0, <2>1 DEF TopTags, Top
  <2> QED
    BY <1>0, <2>2, <2>3, <2>4 DEF StoresAlone
<1>3. CASE FailRequest(c)
  <2>1. Return(c, "error")
    BY <1>3 DEF FailRequest
  <2>2. /\ op'[c].pc = "done" /\ op'[c].res = "error" /\ op'[c].kind = "put" /\ op'[c].ref = r
        /\ op'[c].body = b /\ op'[c].raced = 0
    BY <1>0, <2>1, ReturnIs
  <2> QED
    BY <1>0, <2>2 DEF StoresAlone
<1> QED
  BY <1>1, <1>2, <1>3

\* The ETag write of a call that is alone goes on, and ends with its tag.
LEMMA BindsOn ==
    ASSUME GwInv, NEW c \in Client, NEW r \in Ref, NEW b, BindsAlone(c, r, b), GatewayStep(c)
    PROVE  BindsAlone(c, r, b)'
<1>0. Typed /\ HasLast /\ Staged /\ Goes(c) /\ op \in [Client -> OpRec] /\ op[c] \in OpRec
  BY StepGoes DEF GwInv, ManifestInv, Typed
<1>1. /\ op[c].kind = "meta" /\ op[c].ref = r /\ b # 0 /\ op[c].raced = 0 /\ op[c].was = b
      /\ (op[c].pc \in {"load", "store"} => op[c].tags = {b})
      /\ (op[c].pc = "load" => op[c].stale = {} /\ TopTags(r, {}))
      /\ (op[c].pc = "row" \/ op[c].res = "ok" => TopTags(r, {b}))
  BY <1>0 DEF BindsAlone, Goes, Ready
<1>2. /\ op'[c].kind = "meta" /\ op'[c].ref = r /\ op'[c].raced = 0 /\ op'[c].was = b
  BY <1>0, <1>1 DEF Goes
<1>3. MetaLoad(c) \/ MetaStore(c) \/ MetaRow(c) \/ FailRequest(c)
  BY <1>1 DEF GatewayStep, PutRowStep, GetBody, DeleteVersion, DeleteRefRow,
              FinStore, FinReject, FinRow, FinClean
<1>4. \A x \in {"ok", "error", "notfound"} : x \in Results
  BY DEF Results
<1>5. CASE MetaLoad(c)
  <2>1. man' = man /\ op[c].pc = "load"
    BY <1>5 DEF MetaLoad, storeVars
  <2>2. CASE Versions(r) = {}
    <3>1. Return(c, "notfound")
      BY <1>1, <1>5, <2>2 DEF MetaLoad
    <3>2. op'[c].pc = "done" /\ op'[c].res = "notfound"
      BY <1>0, <1>4, <3>1, ReturnIs
    <3> QED
      BY <1>1, <1>2, <3>2 DEF BindsAlone
  <2>3. CASE Versions(r) # {}
    <3> DEFINE x == Latest(r).body
               t == op[c].tags \cup (Latest(r).tags \ op[c].stale)
    <3>1. op' = [op EXCEPT ![c] = [[[op[c] EXCEPT !.pc = "store"] EXCEPT !.body = x] EXCEPT !.tags = t]]
      BY <1>0, <1>1, <1>5, <2>3 DEF MetaLoad
    <3>2. t = {b}
      <4>1. Latest(r).tags = {}
        BY <1>0, <1>1, <2>1, <2>3, LatestIs DEF TopTags
      <4> QED
        BY <1>1, <2>1, <4>1
    <3> HIDE DEF x, t
    <3>3. op'[c] = [[[op[c] EXCEPT !.pc = "store"] EXCEPT !.body = x] EXCEPT !.tags = t]
      BY <1>0, <3>1
    <3>4. op'[c].pc = "store" /\ op'[c].tags = {b} /\ op'[c].res = op[c].res
      BY <1>0, <3>2, <3>3 DEF OpRec
    <3>5. TopTags(r, {b}) => TopTags(r, {b})'
      BY <2>1 DEF TopTags, Top
    <3> QED
      BY <1>1, <1>2, <3>4, <3>5 DEF BindsAlone
  <2> QED
    BY <2>2, <2>3
<1>6. CASE MetaStore(c)
  <2>1. /\ op[c].pc = "store" /\ Fresh # {} /\ whole' = whole
        /\ op' = [op EXCEPT ![c] = [[op[c] EXCEPT !.pc = "row"] EXCEPT !.ver = NewVer]]
    BY <1>0, <1>6 DEF MetaStore, histVars
  <2>2. PICK x \in Body : x = op[c].body
    BY <1>0, <2>1 DEF Staged, OpRec
  <2>3. PICK tags : Tagging(tags) /\ tags = op[c].tags
    BY <1>0 DEF OpRec, Tagging
  <2>4. man' = man \cup {Written(r, x, tags)} /\ tags = {b}
    BY <1>1, <1>6, <2>1, <2>2, <2>3 DEF MetaStore
  <2>5. On(c, r)
    BY <1>0, <1>1 DEF On, Busied, Mutator, Goes
  <2>6. TopTags(r, tags)'
    BY <1>0, <2>1, <2>3, <2>4, <2>5, WriteTouches
  <2>7. TopTags(r, {b})'
    BY <2>4, <2>6 DEF TopTags
  <2>8. op'[c] = [[op[c] EXCEPT !.pc = "row"] EXCEPT !.ver = NewVer]
    BY <1>0, <2>1
  <2>9. op'[c].pc = "row"
    BY <1>0, <2>8 DEF OpRec
  <2> QED
    BY <1>1, <1>2, <2>7, <2>9 DEF BindsAlone
<1>7. CASE MetaRow(c)
  <2>1. Return(c, "ok") /\ man' = man /\ op[c].pc = "row" /\ Ack(c, r, b)
    BY <1>1, <1>7 DEF MetaRow
  <2>2. op'[c].pc = "done" /\ op'[c].res = "ok"
    BY <1>0, <1>4, <2>1, ReturnIs
  <2>3. whole'[r] = b
    BY <1>0, <1>1, <2>1 DEF Ack, Typed, GwTypeOK
  <2>4. TopTags(r, {b})'
    BY <1>1, <2>1 DEF TopTags, Top
  <2> QED
    BY <1>1, <1>2, <2>2, <2>3, <2>4 DEF BindsAlone
<1>8. CASE FailRequest(c)
  <2>1. Return(c, "error")
    BY <1>8 DEF FailRequest
  <2>2. op'[c].pc = "done" /\ op'[c].res = "error"
    BY <1>0, <1>4, <2>1, ReturnIs
  <2> QED
    BY <1>1, <1>2, <2>2 DEF BindsAlone
<1> QED
  BY <1>3, <1>5, <1>6, <1>7, <1>8

-----------------------------------------------------------------------------
(* The edge.                                                                *)

\* A step of the gateway's clients that changes nothing there.
LEMMA GwSame ==
    ASSUME GwInv, UNCHANGED <<refs, man, stage, op, gc, now, slots, kept, whole, swept>>
    PROVE  GwInv'
<1>1. /\ stage \in [1 .. MaxSlot -> Body \cup {0}] /\ now \in 0 .. MaxClock
      /\ gc \subseteq [ref : Ref, slot : 0 .. MaxSlot]
      /\ DOMAIN refs \subseteq Ref /\ (\A q \in DOMAIN refs : refs[q] \in Row)
      /\ (\A q \in DOMAIN refs : refs[q].pending => refs[q].slot \in 1 .. MaxSlot)
  BY DEF GwInv, Typed, GwTypeOK, Staged
<1>2. ListsPending /\ \A q \in Ref : RowSame(q)
  BY DEF ListsPending, RowSame, HasRow
<1> QED
  BY <1>1, <1>2, AsideKeeps

\* c's request at the edge moves on, the others' stay but for their mark.
EdgeMoves(c) ==
    /\ edge' \in [Client -> EdgeRec]
    /\ \A d \in Client : d # c => edge'[d].kind = edge[d].kind /\ edge'[d].ref = edge[d].ref
    /\ edge'[c].kind # "none" => edge'[c].ref \in Ref
\* The counters stay counters.
Counted == bytes' \in Nat /\ count' \in Nat /\ slack' \in Nat /\ reqs' \in 0 .. MaxReq

\* The edge admits a request.
LEMMA AdmitMoves ==
    ASSUME EdgeInv, NEW c \in Client, NEW kind \in EdgeKinds, NEW r \in Ref,
           NEW want \in Claim \cup {0}, NEW size \in Nat, Admit(c, kind, r, want, size)
    PROVE  /\ EdgeMoves(c) /\ edge'[c].kind = kind /\ edge[c].kind = "none"
           /\ reqs' \in 0 .. MaxReq
<1> DEFINE others == {d \in Client \ {c} : edge[d].kind # "none" /\ edge[d].ref = r}
           rec == [kind |-> kind, ref |-> r, want |-> want, size |-> size, raced |-> others # {}]
<1>1. /\ edge' = [d \in Client |-> IF d = c THEN rec
                                   ELSE IF d \in others THEN [edge[d] EXCEPT !.raced = TRUE] ELSE edge[d]]
      /\ edge[c].kind = "none" /\ reqs < MaxReq /\ reqs' = reqs + 1
  BY DEF Admit
<1>2. rec \in EdgeRec /\ rec.kind = kind /\ rec.ref = r
  BY DEF EdgeRec
<1> HIDE DEF rec, others
<1>3. \A d \in Client : edge[d] \in EdgeRec
  BY DEF EdgeInv
<1>4. ASSUME NEW d \in Client, d # c
      PROVE  edge'[d] \in EdgeRec /\ edge'[d].kind = edge[d].kind /\ edge'[d].ref = edge[d].ref
  <2>1. CASE d \in others
    <3>1. edge'[d] = [edge[d] EXCEPT !.raced = TRUE]
      BY <1>1, <1>4, <2>1
    <3> QED
      BY <1>3, <3>1 DEF EdgeRec
  <2>2. CASE d \notin others
    BY <1>1, <1>3, <1>4, <2>2
  <2> QED
    BY <2>1, <2>2
<1>5. edge'[c] = rec
  BY <1>1
<1>6. edge' \in [Client -> EdgeRec]
  <2>1. \A d \in Client : edge'[d] \in EdgeRec
    BY <1>2, <1>4, <1>5
  <2>2. edge' = [d \in Client |-> edge'[d]]
    BY <1>1
  <2> QED
    BY <2>1, <2>2
<1>7. reqs' \in 0 .. MaxReq
  BY SMT, <1>1, EdgeAssumption DEF EdgeInv
<1> QED
  BY <1>1, <1>2, <1>4, <1>5, <1>6, <1>7 DEF EdgeMoves

\* The request of c becomes the record e.
LEMMA RecordMoves ==
    ASSUME EdgeInv, NEW c \in Client, NEW e \in EdgeRec, edge' = [edge EXCEPT ![c] = e],
           e.kind # "none" => e.ref \in Ref
    PROVE  EdgeMoves(c) /\ edge'[c] = e
  BY DEF EdgeInv, EdgeMoves

\* The edge is done with a request.
LEMMA FinishMoves ==
    ASSUME EdgeInv, NEW c \in Client, Finish(c)
    PROVE  EdgeMoves(c) /\ edge'[c].kind = "none"
<1>1. NoReq \in EdgeRec /\ NoReq.kind = "none"
  <2>1. 0 \in Nat
    BY SMT
  <2> QED
    BY <2>1 DEF NoReq, EdgeRec, EdgeKinds
<1> QED
  BY <1>1, RecordMoves DEF Finish

\* The edge goes on to the next phase of a request.
LEMMA PhaseMoves ==
    ASSUME EdgeInv, NEW c \in Client, NEW kind \in EdgeKinds, Phase(c, kind), edge[c].kind # "none"
    PROVE  EdgeMoves(c) /\ edge'[c].kind = kind
<1> DEFINE e == [edge[c] EXCEPT !.kind = kind]
<1>1. edge[c] \in EdgeRec /\ edge[c].ref \in Ref
  BY DEF EdgeInv, Admitted
<1>2. e \in EdgeRec /\ e.kind = kind /\ e.ref = edge[c].ref
  BY <1>1 DEF EdgeRec
<1>3. edge' = [edge EXCEPT ![c] = e]
  BY DEF Phase
<1> HIDE DEF e
<1> QED
  BY <1>1, <1>2, <1>3, RecordMoves

\* The others keep the kinds of their requests.
KindsStay(c) == \A d \in Client : d # c => op'[d].kind = op[d].kind

\* Requests at the edge stay admitted.
LEMMA EdgeKeeps ==
    ASSUME EdgeInv, NEW c \in Client, EdgeMoves(c), Counted,
           KindsStay(c),
           edge'[c].kind = "get" => op'[c].kind = "get"
    PROVE  EdgeInv'
<1>1. \A d \in Client : Admitted(d)'
  BY DEF EdgeInv, EdgeMoves, Admitted, KindsStay
<1> QED
  BY <1>1 DEF EdgeInv, EdgeMoves, Counted

\* The invariant of the gateway and its front ends.
Inv == GwInv /\ EdgeInv /\ CallInv /\ SideInv /\ TagInv

-----------------------------------------------------------------------------
(* The front ends.                                                          *)

\* A request that the edge is done with.
LEMMA ForgetKeeps ==
    ASSUME GwInv, NEW c \in Client, op' = [op EXCEPT ![c] = Idle(op[c].ref)],
           UNCHANGED <<refs, man, stage, gc, now, slots, kept, whole, swept>>
    PROVE  GwInv' /\ Starts(c, op[c].ref) /\ op'[c].kind = "none" /\ OthersSame(c) /\ Ready(c)'
<1>0. Typed /\ op \in [Client -> OpRec]
  BY DEF GwInv, Typed
<1>1. PICK r \in Ref : r = op[c].ref
  BY <1>0, UnderWay
<1>2. PICK o \in OpRec : /\ o = Idle(r) /\ PhaseOK(o) /\ o.ref = r /\ o.kind = "none"
                         /\ o.pc = "idle"
  BY IdleTyped
<1>3. op' = [op EXCEPT ![c] = o] /\ o.pc \in {"idle", "done"} /\ o.kind # "get"
  BY <1>1, <1>2
<1>4. stage' \in [1 .. MaxSlot -> Body \cup {0}]
  BY <1>0 DEF Typed, GwTypeOK
<1>u. UNCHANGED <<refs, man, gc, now, slots, kept, whole, swept>>
  OBVIOUS
<1>5. GwInv' /\ Starts(c, o.ref) /\ op'[c] = o
  BY <1>u, <1>2, <1>3, <1>4, ResetKeeps
<1>6. OthersSame(c)
  BY <1>0, <1>3 DEF OthersSame
<1> QED
  BY <1>1, <1>2, <1>5, <1>6 DEF Ready

\* A request that starts leaves the kinds of the others.
LEMMA StartsKinds ==
    ASSUME NEW c, NEW r, Starts(c, r)
    PROVE  KindsStay(c)
  BY DEF Starts, Others, Marked, KindsStay

\* Records that did not change keep their kinds.
LEMMA SameKinds ==
    ASSUME NEW c, OthersSame(c)
    PROVE  KindsStay(c)
  BY DEF OthersSame, KindsStay

\* The sizes the edge meters are natural numbers.
LEMMA SizesNat ==
    ASSUME Typed, NEW c \in Client
    PROVE  op[c].body \in Nat /\ \A r \in Ref : HasRow(r) => refs[r].hash \in Nat
<1>1. op[c].body \in Body \cup {0} /\ \A r \in Ref : HasRow(r) => refs[r].hash \in Body \cup {0}
  BY DEF Typed, GwTypeOK, OpRec, HasRow, Row
<1>2. Body \cup {0} \subseteq Nat
  BY SMT, GatewayAssumption
<1> QED
  BY <1>1, <1>2

\* RecordPut keeps the counters naturals.
LEMMA RecordPutCounted ==
    ASSUME EdgeInv, NEW size \in Nat, RecordPut(size), reqs' = reqs
    PROVE  Counted
  BY SMT DEF EdgeInv, RecordPut, Counted

\* RecordDelete clamps at zero.
LEMMA RecordDeleteCounted ==
    ASSUME EdgeInv, NEW size \in Nat, NEW excused, RecordDelete(size, excused), reqs' = reqs
    PROVE  Counted
  BY SMT DEF EdgeInv, RecordDelete, Counted

\* Counters that stay are counters.
LEMMA SameCounted ==
    ASSUME EdgeInv, UNCHANGED quotaVars, reqs' \in 0 .. MaxReq
    PROVE  Counted
  BY DEF EdgeInv, quotaVars, Counted

\* The edge charges a write that succeeded.
LEMMA ChargeKeeps ==
    ASSUME GwInv, EdgeInv, NEW c \in Client, Charge(c)
    PROVE  GwInv' /\ EdgeInv'
<1>1. /\ GwInv' /\ op'[c].kind = "none" /\ OthersSame(c)
  BY ForgetKeeps DEF Charge, storeVars, histVars
<1>2. EdgeMoves(c) /\ edge'[c].kind = "none"
  BY FinishMoves DEF Charge
<1>3. Counted
  BY SizesNat, RecordPutCounted DEF Charge, GwInv
<1> QED
  BY <1>1, <1>2, <1>3, SameKinds, EdgeKeeps

\* The edge refuses a write over the quota.
LEMMA RefuseKeeps ==
    ASSUME GwInv, EdgeInv, NEW c \in Client, Refuse(c)
    PROVE  GwInv' /\ EdgeInv'
<1>1. /\ GwInv' /\ op'[c].kind = "none" /\ OthersSame(c)
  BY ForgetKeeps DEF Refuse, storeVars, histVars
<1>2. EdgeMoves(c) /\ edge'[c].kind = "none"
  BY FinishMoves DEF Refuse
<1>3. Counted
  BY SameCounted DEF Refuse, EdgeInv
<1> QED
  BY <1>1, <1>2, <1>3, SameKinds, EdgeKeeps

\* The edge deletes what it had stored before the charge failed.
LEMMA UndoKeeps ==
    ASSUME GwInv, EdgeInv, NEW c \in Client, Undo(c), edge[c].kind # "none"
    PROVE  GwInv' /\ EdgeInv'
<1>0. edge[c] \in EdgeRec /\ edge[c].ref \in Ref /\ Typed
  BY DEF EdgeInv, Admitted, GwInv
<1>1. GwInv' /\ Starts(c, edge[c].ref)
  BY <1>0, DeleteListKeeps DEF Undo
<1> DEFINE e == [[edge[c] EXCEPT !.kind = "undo"] EXCEPT !.size = op[c].body]
<1>2. edge' = [edge EXCEPT ![c] = e]
  BY DEF Undo, EdgeInv
<1>3. e \in EdgeRec /\ e.kind = "undo" /\ e.ref = edge[c].ref
  BY <1>0, SizesNat DEF EdgeRec, EdgeKinds
<1> HIDE DEF e
<1>4. EdgeMoves(c) /\ edge'[c].kind = "undo"
  BY <1>0, <1>2, <1>3, RecordMoves
<1>5. Counted
  BY SameCounted DEF Undo, EdgeInv
<1> QED
  BY <1>1, <1>4, <1>5, StartsKinds, EdgeKeeps

\* The compensating delete is over.
LEMMA EdgeUndoneKeeps ==
    ASSUME GwInv, EdgeInv, NEW c \in Client, EdgeUndone(c)
    PROVE  GwInv' /\ EdgeInv'
<1>1. /\ GwInv' /\ op'[c].kind = "none" /\ OthersSame(c)
  BY ForgetKeeps DEF EdgeUndone, storeVars, histVars
<1>2. EdgeMoves(c) /\ edge'[c].kind = "none"
  BY FinishMoves DEF EdgeUndone
<1>3. Counted
  <2>1. edge[c].size \in Nat
    BY DEF EdgeInv, EdgeRec
  <2>2. slack' = slack \/ slack' = slack + edge[c].size
    BY DEF EdgeUndone
  <2>3. slack' \in Nat
    BY SMT, <2>1, <2>2 DEF EdgeInv
  <2> QED
    BY <2>3 DEF EdgeInv, EdgeUndone, Counted
<1> QED
  BY <1>1, <1>2, <1>3, SameKinds, EdgeKeeps

\* The edge answers a delete and credits its bytes.
LEMMA EdgeDeleteDoneKeeps ==
    ASSUME GwInv, EdgeInv, NEW c \in Client, EdgeDeleteDone(c)
    PROVE  GwInv' /\ EdgeInv'
<1>1. /\ GwInv' /\ op'[c].kind = "none" /\ OthersSame(c)
  BY ForgetKeeps DEF EdgeDeleteDone, storeVars, histVars
<1>2. EdgeMoves(c) /\ edge'[c].kind = "none"
  BY FinishMoves DEF EdgeDeleteDone
<1>3. Counted
  <2>1. edge[c].size \in Nat /\ reqs' = reqs /\ reqs \in 0 .. MaxReq
    BY DEF EdgeInv, EdgeRec, EdgeDeleteDone
  <2>2. CASE op[c].res = "ok"
    BY <2>1, <2>2, RecordDeleteCounted DEF EdgeDeleteDone
  <2>3. CASE op[c].res # "ok"
    BY <2>1, <2>3, SameCounted DEF EdgeDeleteDone
  <2> QED
    BY <2>2, <2>3
<1> QED
  BY <1>1, <1>2, <1>3, SameKinds, EdgeKeeps

\* A request arrives at the edge.
LEMMA EdgeStartKeeps ==
    ASSUME GwInv, EdgeInv, NEW c \in Client, EdgeStart(c)
    PROVE  GwInv' /\ EdgeInv'
<1>0. Typed /\ 0 \in Nat /\ reqs \in 0 .. MaxReq
  <2>1. 0 \in Nat
    BY SMT
  <2> QED
    BY <2>1 DEF GwInv, EdgeInv
<1>w. \A w \in Claim : w \in Claim \cup {0} /\ w \in Body \cup {0}
  BY EdgeAssumption
<1>k. \A k \in {"put", "head", "finalize", "get"} : k \in EdgeKinds
  BY DEF EdgeKinds
<1>1. ASSUME NEW r \in Ref, NEW w \in Claim, EdgePut(c, r, w) PROVE GwInv' /\ EdgeInv'
  <2>1. UNCHANGED <<refs, man, stage, op, gc, now, slots, kept, whole, swept>> /\ UNCHANGED quotaVars
    BY <1>1 DEF EdgePut, gwVars, storeVars, histVars
  <2>2. EdgeMoves(c) /\ edge'[c].kind = "put" /\ reqs' \in 0 .. MaxReq
    BY <1>0, <1>1, <1>w, <1>k, AdmitMoves DEF EdgePut
  <2>3. Counted /\ GwInv'
    BY <2>1, <2>2, SameCounted, GwSame
  <2> QED
    BY <2>1, <2>2, <2>3, EdgeKeeps DEF KindsStay
<1>2. ASSUME NEW r \in Ref, NEW w \in Claim, EdgeStage(c, r, w) PROVE GwInv' /\ EdgeInv'
  <2>1. GwInv' /\ Starts(c, r)
    BY <1>2, <1>w, MintRefKeeps DEF EdgeStage
  <2>2. edge' = edge /\ UNCHANGED quotaVars /\ edge[c].kind = "none"
    BY <1>2 DEF EdgeStage
  <2>3. reqs' \in 0 .. MaxReq
    BY SMT, <1>0, <1>2, EdgeAssumption DEF EdgeStage
  <2>4. EdgeMoves(c) /\ edge'[c].kind # "get"
    BY <2>2 DEF EdgeMoves, EdgeInv
  <2> QED
    BY <2>1, <2>2, <2>3, <2>4, SameCounted, StartsKinds, EdgeKeeps
<1>3. ASSUME NEW r \in Ref, NEW w \in Claim, EdgeFinalize(c, r, w) PROVE GwInv' /\ EdgeInv'
  <2>1. GwInv' /\ Starts(c, r) /\ UNCHANGED quotaVars
    BY <1>3, FinalizeKeeps DEF EdgeFinalize
  <2>2. EdgeMoves(c) /\ edge'[c].kind = "finalize" /\ reqs' \in 0 .. MaxReq
    BY <1>0, <1>3, <1>w, <1>k, AdmitMoves DEF EdgeFinalize
  <2> QED
    BY <2>1, <2>2, SameCounted, StartsKinds, EdgeKeeps
<1>4. ASSUME NEW r \in Ref, EdgeDelete(c, r) PROVE GwInv' /\ EdgeInv'
  <2>1. UNCHANGED <<refs, man, stage, op, gc, now, slots, kept, whole, swept>> /\ UNCHANGED quotaVars
    BY <1>4 DEF EdgeDelete, gwVars, storeVars, histVars
  <2>2. PICK size \in Nat : Admit(c, "head", r, 0, size)
    <3>1. CASE Readable(r)
      <4>1. refs[r].hash \in Nat
        BY <1>0, <3>1, SizesNat DEF Readable, Finalized
      <4> QED
        BY <1>4, <3>1, <4>1 DEF EdgeDelete
    <3>2. CASE ~Readable(r)
      BY <1>0, <1>4, <3>2 DEF EdgeDelete
    <3> QED
      BY <3>1, <3>2
  <2>3. EdgeMoves(c) /\ edge'[c].kind = "head" /\ reqs' \in 0 .. MaxReq
    BY <1>k, <2>2, AdmitMoves
  <2>4. Counted /\ GwInv'
    BY <2>1, <2>3, SameCounted, GwSame
  <2> QED
    BY <2>1, <2>3, <2>4, EdgeKeeps DEF KindsStay
<1>5. ASSUME NEW r \in Ref, NEW w \in Claim, EdgeGet(c, r, w) PROVE GwInv' /\ EdgeInv'
  <2>1. GwInv' /\ Starts(c, r) /\ op'[c].kind = "get" /\ UNCHANGED quotaVars
    BY <1>5, GetRowKeeps DEF EdgeGet
  <2>2. EdgeMoves(c) /\ reqs' \in 0 .. MaxReq
    BY <1>0, <1>5, <1>w, <1>k, AdmitMoves DEF EdgeGet
  <2> QED
    BY <2>1, <2>2, SameCounted, StartsKinds, EdgeKeeps
<1> QED
  BY <1>1, <1>2, <1>3, <1>4, <1>5 DEF EdgeStart

\* The edge moves a request of its own on.
LEMMA EdgeOwnKeeps ==
    ASSUME GwInv, EdgeInv, NEW c \in Client, EdgeOwn(c)
    PROVE  GwInv' /\ EdgeInv'
<1>0. reqs \in 0 .. MaxReq /\ \A k \in {"body", "delete"} : k \in EdgeKinds
  BY DEF EdgeInv, EdgeKinds
<1>1. ASSUME NEW b \in Body, EdgePutBody(c, b) PROVE GwInv' /\ EdgeInv'
  <2>1. edge[c].kind = "put" /\ edge[c].ref \in Ref /\ UNCHANGED quotaVars /\ reqs' = reqs
    BY <1>1 DEF EdgePutBody, EdgeInv, Admitted
  <2>2. PICK r \in Ref : r = edge[c].ref
    BY <2>1
  <2>3. PutStore(c, r, b, {})
    BY <1>1, <2>2 DEF EdgePutBody
  <2>4. GwInv' /\ Starts(c, r)
    BY SMT, <2>3, PutStoreKeeps
  <2>5. EdgeMoves(c) /\ edge'[c].kind = "body"
    BY <1>0, <1>1, <2>1, PhaseMoves DEF EdgePutBody
  <2> QED
    BY <1>0, <2>1, <2>4, <2>5, SameCounted, StartsKinds, EdgeKeeps
<1>2. ASSUME EdgePutBroken(c) PROVE GwInv' /\ EdgeInv'
  <2>1. /\ UNCHANGED <<refs, man, stage, op, gc, now, slots, kept, whole, swept>> /\ UNCHANGED quotaVars
        /\ reqs' = reqs
    BY <1>2 DEF EdgePutBroken, gwVars, storeVars, histVars
  <2>2. EdgeMoves(c) /\ edge'[c].kind = "none"
    BY <1>2, FinishMoves DEF EdgePutBroken
  <2>3. Counted /\ GwInv'
    BY <1>0, <2>1, SameCounted, GwSame
  <2> QED
    BY <2>1, <2>2, <2>3, EdgeKeeps DEF KindsStay
<1>3. ASSUME EdgePutDone(c) PROVE GwInv' /\ EdgeInv'
  <2>1. edge[c].kind # "none" /\ (Charge(c) \/ Undo(c) \/ Refuse(c))
    BY <1>3 DEF EdgePutDone, Returned
  <2> QED
    BY <2>1, ChargeKeeps, UndoKeeps, RefuseKeeps
<1>4. ASSUME EdgeFinalizeDone(c) PROVE GwInv' /\ EdgeInv'
  <2>1. edge[c].kind # "none" /\ (Charge(c) \/ Undo(c) \/ Refuse(c))
    BY <1>4 DEF EdgeFinalizeDone, Returned
  <2> QED
    BY <2>1, ChargeKeeps, UndoKeeps, RefuseKeeps
<1>5. ASSUME EdgeDeleteRun(c) PROVE GwInv' /\ EdgeInv'
  <2>1. edge[c].kind = "head" /\ edge[c].ref \in Ref /\ UNCHANGED quotaVars /\ reqs' = reqs
    BY <1>5 DEF EdgeDeleteRun, EdgeInv, Admitted
  <2>2. GwInv' /\ Starts(c, edge[c].ref)
    BY <1>5, <2>1, DeleteListKeeps DEF EdgeDeleteRun
  <2>3. EdgeMoves(c) /\ edge'[c].kind = "delete"
    BY <1>0, <1>5, <2>1, PhaseMoves DEF EdgeDeleteRun
  <2> QED
    BY <1>0, <2>1, <2>2, <2>3, SameCounted, StartsKinds, EdgeKeeps
<1> QED
  BY <1>1, <1>2, <1>3, <1>4, <1>5, EdgeUndoneKeeps, EdgeDeleteDoneKeeps, RefuseKeeps
     DEF EdgeOwn, EdgeGetDone

\* The background touches no request and no manifest.
LEMMA BackgroundOps ==
    ASSUME Background
    PROVE  UNCHANGED <<op, man, whole>>
  BY DEF Background, Upload, GcList, GcReclaim, Tick, storeVars, histVars

\* The edge and the gateway behind it.
LEMMA EdgeNextKeeps ==
    ASSUME GwInv, EdgeInv, EdgeNext
    PROVE  GwInv' /\ EdgeInv'
<1>1. ASSUME Background, UNCHANGED edgeVars PROVE GwInv' /\ EdgeInv'
  <2>1. EdgeInv'
    BY <1>1, BackgroundOps DEF EdgeInv, Admitted, edgeVars, quotaVars
  <2> QED
    BY <1>1, <2>1, BackgroundKeeps
<1>2. ASSUME NEW c \in Client, GatewayStep(c), UNCHANGED edgeVars PROVE GwInv' /\ EdgeInv'
  <2>1. Goes(c)
    BY <1>2, StepGoes
  <2>2. \A d \in Client : op'[d].kind = op[d].kind
    BY <2>1 DEF Goes, OthersSame
  <2>3. EdgeInv'
    BY <1>2, <2>2 DEF EdgeInv, Admitted, edgeVars, quotaVars
  <2> QED
    BY <1>2, <2>3, StepKeeps
<1> QED
  BY <1>1, <1>2, EdgeStartKeeps, EdgeOwnKeeps DEF EdgeNext

-----------------------------------------------------------------------------
(* The open front ends.                                                     *)

\* What the open front end keeps.
OpenInv ==
    /\ CallInv /\ TagInv /\ (\A c \in Client : ServesCall(c))

\* What accepting a call does to the calls.
Accepts(c, kind, r, b) ==
    /\ ~Calling(c) /\ call'[c].kind = kind /\ call'[c].ref = r /\ call'[c].body = b
    /\ call'[c].alone => \A d \in Client : d # c /\ Calling(d) => call[d].ref # r
    /\ \A d \in Client : d # c =>
          /\ call'[d].kind = call[d].kind /\ call'[d].ref = call[d].ref /\ call'[d].body = call[d].body
          /\ call'[d].alone => call[d].alone /\ (Calling(d) => call[d].ref # r)
    /\ tagged'[r] = 0 /\ \A q \in Ref : q # r => tagged'[q] = tagged[q]

\* The open front end accepts a call.
LEMMA AcceptIs ==
    ASSUME CallInv, NEW c \in Client, NEW kind \in {"object", "plain"}, NEW r \in Ref,
           NEW b \in Body \cup {0}, kind = "object" => b \in Body, Accept(c, kind, r, b)
    PROVE  Accepts(c, kind, r, b) /\ CallInv'
<1> DEFINE others == {d \in Client \ {c} : call[d].kind # "none" /\ call[d].ref = r}
           rec == [kind |-> kind, ref |-> r, body |-> b, alone |-> others = {}]
<1>1. /\ call' = [d \in Client |-> IF d = c THEN rec
                                   ELSE IF d \in others THEN [call[d] EXCEPT !.alone = FALSE] ELSE call[d]]
      /\ call[c].kind = "none" /\ calls < MaxCalls /\ calls' = calls + 1
      /\ tagged' = [tagged EXCEPT ![r] = 0]
  BY DEF Accept
<1>2. rec \in CallRec /\ rec.kind = kind /\ rec.ref = r /\ rec.body = b
      /\ (rec.alone => \A d \in Client : d # c /\ Calling(d) => call[d].ref # r)
  BY DEF CallRec, Calling
<1>o. \A d \in Client : d \in others <=> d # c /\ Calling(d) /\ call[d].ref = r
  BY DEF Calling
<1> HIDE DEF rec, others
<1>3. \A d \in Client : call[d] \in CallRec
  BY DEF CallInv
<1>4. ASSUME NEW d \in Client, d # c
      PROVE  /\ call'[d] \in CallRec
             /\ call'[d].kind = call[d].kind /\ call'[d].ref = call[d].ref /\ call'[d].body = call[d].body
             /\ call'[d].alone => call[d].alone /\ (Calling(d) => call[d].ref # r)
  <2>1. CASE d \in others
    <3>1. call'[d] = [call[d] EXCEPT !.alone = FALSE]
      BY <1>1, <1>4, <2>1
    <3> QED
      BY <1>3, <3>1 DEF CallRec
  <2>2. CASE d \notin others
    BY <1>1, <1>3, <1>4, <1>o, <2>2
  <2> QED
    BY <2>1, <2>2
<1>5. call'[c] = rec
  BY <1>1
<1>6. call' \in [Client -> CallRec]
  <2>1. \A d \in Client : call'[d] \in CallRec
    BY <1>2, <1>4, <1>5
  <2>2. call' = [d \in Client |-> call'[d]]
    BY <1>1
  <2> QED
    BY <2>1, <2>2
<1>7. calls' \in 0 .. MaxCalls
  BY SMT, <1>1, FrontAssumption DEF CallInv
<1>8. /\ tagged' \in [Ref -> Body \cup {0}] /\ tagged'[r] = 0
      /\ \A q \in Ref : q # r => tagged'[q] = tagged[q]
  BY <1>1 DEF CallInv
<1>9. Accepts(c, kind, r, b)
  BY <1>1, <1>2, <1>4, <1>5, <1>8 DEF Accepts, Calling
<1>10. ASSUME NEW d \in Client PROVE Accepted(d)'
  <2>0. Accepted(d)
    BY DEF CallInv
  <2>1. CASE d = c
    BY <1>9, <2>1 DEF Accepted, Accepts
  <2>2. CASE d # c
    BY <1>9, <2>0, <2>2 DEF Accepted, Accepts, Calling
  <2> QED
    BY <2>1, <2>2
<1>11. ASSUME NEW d \in Client, NEW e \in Client PROVE KnownAt(d, e)'
  <2>0. KnownAt(d, e)
    BY DEF CallInv
  <2>1. CASE d = c /\ e # c
    BY <1>9, <2>1 DEF KnownAt, Accepts, Calling
  <2>2. CASE d # c /\ e = c
    BY <1>9, <2>2 DEF KnownAt, Accepts, Calling
  <2>3. CASE d # c /\ e # c
    BY <1>9, <2>0, <2>3 DEF KnownAt, Accepts, Calling
  <2> QED
    BY <2>1, <2>2, <2>3 DEF KnownAt
<1> QED
  BY <1>6, <1>7, <1>8, <1>9, <1>10, <1>11 DEF CallInv

\* A PutObject names the reference it works on.
LEMMA AloneRef ==
    ASSUME NEW c, NEW r, NEW b, StoresAlone(c, r, b) \/ BindsAlone(c, r, b)
    PROVE  op[c].ref = r
  BY DEF StoresAlone, BindsAlone

\* A request that starts leaves the others where they are.
LEMMA StartsOthers ==
    ASSUME NEW c, NEW r, Starts(c, r)
    PROVE  \A d \in Client : d # c => Busied(d)' = Busied(d) /\ op'[d].ref = op[d].ref
<1> SUFFICES ASSUME NEW d \in Client, d # c PROVE Busied(d)' = Busied(d) /\ op'[d].ref = op[d].ref
  OBVIOUS
<1>1. Marked(d)
  BY DEF Starts, Others
<1>2. Busied(d)' = Busied(d)
  BY <1>1, OthersStay
<1> QED
  BY <1>1, <1>2 DEF Marked

\* A call starts on r.
LEMMA StartKeepsOpen ==
    ASSUME OpenInv, CallInv', NEW c \in Client, NEW kind \in {"object", "plain"}, NEW r \in Ref, NEW b,
           Starts(c, r), Accepts(c, kind, r, b),
           kind = "object" /\ call'[c].alone => StoresAlone(c, r, b)'
    PROVE  OpenInv'
<1>1. ASSUME NEW d \in Client PROVE ServesCall(d)'
  <2>0. ServesCall(d)
    BY DEF OpenInv
  <2>1. CASE d = c
    BY <2>1 DEF ServesCall, Accepts, Calling, Starts
  <2>2. CASE d # c
    <3>1. Busied(d)' = Busied(d) /\ op'[d].ref = op[d].ref
      BY SMT, <2>2, StartsOthers
    <3> QED
      BY <2>0, <2>2, <3>1 DEF ServesCall, Accepts, Calling
  <2> QED
    BY <2>1, <2>2
<1>2. ASSUME NEW q \in Ref PROVE TaggedAt(q)'
  <2>0. TaggedAt(q)
    BY DEF OpenInv, TagInv
  <2>1. CASE q = r
    BY <2>1 DEF TaggedAt, Accepts
  <2>2. CASE q # r
    <3>1. Untouched(q) /\ tagged'[q] = tagged[q]
      BY <2>2 DEF Starts, Accepts
    <3>2. \A d \in Client : Calling(d)' /\ call'[d].ref = q => Calling(d) /\ call[d].ref = q
      BY <2>2 DEF Accepts, Calling
    <3>3. TopTags(q, {tagged[q]}) => TopTags(q, {tagged[q]})'
      BY <3>1, TopStays
    <3> QED
      BY <2>0, <3>1, <3>2, <3>3 DEF TaggedAt, Untouched, TopTags
  <2> QED
    BY <2>1, <2>2
<1>3. ASSUME NEW d \in Client PROVE PutAt(d)'
  <2>0. PutAt(d) /\ Accepted(d)
    BY DEF OpenInv, TagInv, CallInv
  <2>1. CASE d = c
    BY <2>1 DEF PutAt, Accepts, StoresAlone, TopTags
  <2>2. CASE d # c
    <3> SUFFICES ASSUME call'[d].alone, call'[d].kind \in {"object", "meta"} PROVE PutAt(d)'
      BY DEF PutAt
    <3>1. PICK q \in Ref : q = call[d].ref
      BY <2>0, <2>2 DEF Accepted, Accepts, Calling
    <3>2. PICK x : x = call[d].body
      OBVIOUS
    <3>3. /\ call'[d].kind = call[d].kind /\ call'[d].ref = q /\ call'[d].body = x
          /\ call[d].alone /\ q # r
      BY <2>2, <3>1, <3>2 DEF Accepts, Calling
    <3>4. /\ call[d].kind = "object" => StoresAlone(d, q, x)
          /\ call[d].kind = "meta" => BindsAlone(d, q, x)
      BY <2>0, <3>1, <3>2, <3>3 DEF PutAt
    <3>5. op[d].ref = q
      BY <3>3, <3>4, AloneRef
    <3>6. op'[d] = op[d] /\ Untouched(q)
      BY <2>2, <3>3, <3>5 DEF Starts
    <3>7. /\ call[d].kind = "object" => StoresAlone(d, q, x)'
          /\ call[d].kind = "meta" => BindsAlone(d, q, x)'
      BY <3>4, <3>6, AloneStays
    <3> QED
      BY <3>3, <3>7 DEF PutAt, StoresAlone, BindsAlone, TopTags
  <2> QED
    BY <2>1, <2>2
<1> QED
  BY <1>1, <1>2, <1>3 DEF OpenInv, TagInv

\* A call that is the only one on its reference meets no mutator there.
LEMMA AloneMeets ==
    ASSUME OpenInv, NEW c \in Client, NEW r,
           \A d \in Client : d # c /\ Calling(d) => call[d].ref # r
    PROVE  \A d \in Client : d # c => ~On(d, r)
  BY DEF OpenInv, ServesCall, On

\* PutObject hands the body to Put.
LEMMA PutObjectKeeps ==
    ASSUME GwInv, OpenInv, NEW c \in Client, NEW r \in Ref, NEW b \in Body, PutObject(c, r, b)
    PROVE  GwInv' /\ OpenInv'
<1>0. Typed /\ CallInv /\ 0 \notin Body /\ PutStore(c, r, b, {}) /\ Fresh # {}
  BY GatewayAssumption DEF GwInv, OpenInv, PutObject, PutStore
<1>1. /\ GwInv' /\ Starts(c, r) /\ Begun(c, "put", r, Opened(r, b, {}))
      /\ \E w : Top(r, w)' /\ w.tags = {}
  BY SMT, <1>0, PutStoreKeeps
<1>2. Accepts(c, "object", r, b) /\ CallInv'
  BY <1>0, AcceptIs DEF PutObject
<1>3. /\ Opened(r, b, {}).pc = "row" /\ Opened(r, b, {}).body = b
  BY SMT, <1>0, OpenedTyped
<1>4. ASSUME call'[c].alone PROVE StoresAlone(c, r, b)'
  <2>1. \A d \in Client : d # c => ~On(d, r)
    BY <1>2, <1>4, AloneMeets DEF Accepts
  <2>2. /\ op'[c].kind = "put" /\ op'[c].ref = r /\ op'[c].body = b /\ op'[c].pc = "row" /\ op'[c].raced = 0
    BY <1>1, <1>3, <2>1 DEF Begun
  <2>3. TopTags(r, {})'
    BY <1>1 DEF TopTags, Top
  <2> QED
    BY <1>0, <2>2, <2>3 DEF StoresAlone
<1> QED
  BY <1>1, <1>2, <1>4, StartKeepsOpen

\* Calls that store no object.
LEMMA PlainKeeps ==
    ASSUME OpenInv, NEW c \in Client, NEW r \in Ref, Starts(c, r), Plain(c, r)
    PROVE  OpenInv'
<1>1. Accepts(c, "plain", r, 0) /\ CallInv'
  BY AcceptIs DEF Plain, OpenInv
<1> QED
  BY <1>1, StartKeepsOpen

\* A call arrives at the open front end.
LEMMA FrontStartKeeps ==
    ASSUME GwInv, OpenInv, NEW c \in Client, FrontStart(c)
    PROVE  GwInv' /\ OpenInv'
<1>1. ASSUME NEW r \in Ref, NEW b \in Known, BridgeRegister(c, r, b) PROVE GwInv' /\ OpenInv'
  BY <1>1, FrontAssumption, RegisterRefKeeps, PlainKeeps DEF BridgeRegister
<1>2. ASSUME NEW r \in Ref, NEW b \in Known, ServerMint(c, r, b) PROVE GwInv' /\ OpenInv'
  BY <1>2, FrontAssumption, MintRefKeeps, PlainKeeps DEF ServerMint
<1>3. ASSUME NEW r \in Ref, ServerDelete(c, r) PROVE GwInv' /\ OpenInv'
  BY <1>3, DeleteListKeeps, PlainKeeps DEF ServerDelete
<1>4. ASSUME NEW r \in Ref, ServerFinalize(c, r) PROVE GwInv' /\ OpenInv'
  BY <1>4, FinalizeKeeps, PlainKeeps DEF ServerFinalize
<1> QED
  BY <1>1, <1>2, <1>3, <1>4, PutObjectKeeps DEF FrontStart

\* PutObject binds the ETag once Put has returned.
LEMMA PutObjectMetaKeeps ==
    ASSUME GwInv, OpenInv, NEW c \in Client, PutObjectMeta(c)
    PROVE  GwInv' /\ OpenInv'
<1>0. /\ Typed /\ HasLast /\ CallInv /\ call[c] \in CallRec /\ call \in [Client -> CallRec] /\ Accepted(c) /\ PutAt(c)
      /\ call[c].kind = "object" /\ op[c].pc = "done" /\ op[c].res = "ok"
  BY DEF GwInv, ManifestInv, OpenInv, CallInv, PutObjectMeta, TagInv
<1>1. PICK r \in Ref : r = call[c].ref
  BY <1>0 DEF Accepted, Calling
<1>2. PICK b \in Body : b = call[c].body
  BY <1>0 DEF Accepted
<1>3. /\ SetUserMeta(c, r, {b}) /\ call' = [call EXCEPT ![c].kind = "meta"] /\ UNCHANGED <<calls, tagged>>
      /\ man' = man
  BY <1>1, <1>2 DEF PutObjectMeta, SetUserMeta, storeVars
<1>4. GwInv' /\ Starts(c, r) /\ MetaStarts(c, r, {b})
  <2>1. PICK tags : tags \in SUBSET Tag /\ tags = {b}
    BY <1>2, FrontAssumption
  <2>2. SetUserMeta(c, r, tags)
    BY <1>3, <2>1
  <2>3. GwInv' /\ Starts(c, r) /\ MetaStarts(c, r, tags)
    BY SMT, <2>1, <2>2, SetUserMetaKeeps
  <2> QED
    BY <2>1, <2>3
<1>5. call'[c] = [call[c] EXCEPT !.kind = "meta"] /\ \A d \in Client : d # c => call'[d] = call[d]
  BY <1>0, <1>3
<1>6. /\ call'[c] \in CallRec /\ call'[c].kind = "meta" /\ call'[c].ref = r /\ call'[c].body = b
      /\ call'[c].alone = call[c].alone
  BY <1>0, <1>1, <1>2, <1>5 DEF CallRec
<1>7. \A d \in Client : /\ Calling(d)' = Calling(d) /\ call'[d].ref = call[d].ref /\ call'[d].alone = call[d].alone
  BY <1>0, <1>1, <1>5, <1>6 DEF Calling
<1>8. CallInv'
  <2>1. \A d \in Client : Accepted(d)'
    BY <1>0, <1>1, <1>5, <1>6 DEF CallInv, Accepted, Calling
  <2>2. \A d, e \in Client : KnownAt(d, e)'
    BY <1>0, <1>7 DEF CallInv, KnownAt
  <2>3. call' \in [Client -> CallRec]
    BY <1>0, <1>3, <1>5, <1>6
  <2> QED
    BY <1>0, <1>3, <2>1, <2>2, <2>3 DEF CallInv
<1>9. ASSUME NEW d \in Client PROVE ServesCall(d)'
  <2>0. ServesCall(d)
    BY DEF OpenInv
  <2>1. CASE d = c
    BY <1>1, <1>4, <1>6, <2>1 DEF ServesCall, Calling, Starts
  <2>2. CASE d # c
    <3>1. Busied(d)' = Busied(d) /\ op'[d].ref = op[d].ref
      BY SMT, <1>4, <2>2, StartsOthers
    <3> QED
      BY <1>7, <2>0, <3>1 DEF ServesCall
  <2> QED
    BY <2>1, <2>2
<1>10. ASSUME NEW q \in Ref PROVE TaggedAt(q)'
  <2>0. TaggedAt(q)
    BY DEF OpenInv, TagInv
  <2>1. tagged[q] # 0 => q # r
    BY <1>0, <1>1, <2>0 DEF TaggedAt, Calling
  <2>2. q # r => Untouched(q)
    BY <1>4 DEF Starts
  <2>3. q # r /\ TopTags(q, {tagged[q]}) => TopTags(q, {tagged[q]})'
    BY <2>2, <1>3 DEF TopTags, Untouched
  <2> QED
    BY <1>3, <1>7, <2>0, <2>1, <2>2, <2>3 DEF TaggedAt, Untouched, TopTags
<1>11. ASSUME NEW d \in Client PROVE PutAt(d)'
  <2>0. PutAt(d) /\ Accepted(d) /\ KnownAt(d, c) /\ \A e \in Client : KnownAt(c, e)
    BY DEF OpenInv, TagInv, CallInv
  <2>1. CASE d = c
    <3> SUFFICES ASSUME call[c].alone PROVE BindsAlone(c, r, b)'
      BY <1>6, <2>1 DEF PutAt, BindsAlone, TopTags
    <3>1. StoresAlone(c, r, b)
      BY <1>0, <1>1, <1>2 DEF PutAt
    <3>2. whole[r] = b /\ TopTags(r, {}) /\ b # 0
      BY <1>0, <3>1 DEF StoresAlone
    <3>3. \A e \in Client : e # c => ~On(e, r)
      <4>1. \A e \in Client : e # c /\ Calling(e) => call[e].ref # r
        BY <1>0, <1>1, <2>0 DEF KnownAt, Calling
      <4> QED
        BY <4>1, AloneMeets
    <3>4. Latest(r).tags = {}
      <4>1. Versions(r) # {}
        BY <3>2 DEF TopTags, Top, Versions
      <4> QED
        BY <1>0, <3>2, <4>1, LatestIs DEF TopTags
    <3>5. TopTags(r, {})'
      BY <1>3, <3>2 DEF TopTags, Top
    <3>6. op'[c].ref = r
      BY <1>4 DEF Starts
    <3>7. CASE op'[c].kind = "none" /\ op'[c].pc = "done" /\ op'[c].res = "notfound"
      BY <3>2, <3>6, <3>7 DEF BindsAlone
    <3>8. CASE /\ op'[c].kind = "meta" /\ op'[c].pc = "load" /\ op'[c].res = "none"
               /\ op'[c].was = b /\ op'[c].tags = {b} /\ op'[c].stale = {} /\ op'[c].raced = 0
      BY <3>2, <3>5, <3>6, <3>8 DEF BindsAlone
    <3>9. {} \ {b} = {}
      OBVIOUS
    <3> QED
      BY <1>4, <3>2, <3>3, <3>4, <3>7, <3>8, <3>9 DEF MetaStarts
  <2>2. CASE d # c
    <3> SUFFICES ASSUME call[d].alone, call[d].kind \in {"object", "meta"} PROVE PutAt(d)'
      BY <1>5, <2>2 DEF PutAt
    <3>1. PICK q \in Ref : q = call[d].ref
      BY <2>0 DEF Accepted, Calling
    <3>2. PICK x : x = call[d].body
      OBVIOUS
    <3>3. q # r
      BY <1>0, <1>1, <2>0, <2>2, <3>1 DEF KnownAt, Calling
    <3>4. /\ call[d].kind = "object" => StoresAlone(d, q, x)
          /\ call[d].kind = "meta" => BindsAlone(d, q, x)
      BY <2>0, <3>1, <3>2 DEF PutAt
    <3>5. op[d].ref = q
      BY <3>4, AloneRef
    <3>6. op'[d] = op[d] /\ Untouched(q)
      BY <1>4, <2>2, <3>3, <3>5 DEF Starts
    <3>7. /\ call[d].kind = "object" => StoresAlone(d, q, x)'
          /\ call[d].kind = "meta" => BindsAlone(d, q, x)'
      BY <3>4, <3>6, AloneStays
    <3> QED
      BY <1>5, <2>2, <3>1, <3>2, <3>7 DEF PutAt, StoresAlone, BindsAlone, TopTags
  <2> QED
    BY <2>1, <2>2
<1> QED
  BY <1>4, <1>8, <1>9, <1>10, <1>11 DEF OpenInv, TagInv

\* The front end answers, and a call that was alone leaves its tag.
LEMMA ReplyKeeps ==
    ASSUME GwInv, OpenInv, NEW c \in Client, Reply(c)
    PROVE  GwInv' /\ OpenInv'
<1>0. /\ CallInv /\ call \in [Client -> CallRec] /\ Accepted(c) /\ PutAt(c) /\ Calling(c)
      /\ tagged \in [Ref -> Body \cup {0}] /\ op[c].pc = "done"
      /\ \A e \in Client : KnownAt(c, e)
  BY DEF OpenInv, CallInv, Reply, TagInv, Calling
<1>1. PICK r \in Ref : r = call[c].ref
  BY <1>0 DEF Accepted
<1>2. GwInv' /\ OthersSame(c) /\ Ready(c)' /\ man' = man /\ whole' = whole
  BY ForgetKeeps DEF Reply, storeVars, histVars
<1>3. \A q : Untouched(q)
  BY <1>2, NoneTouched
<1> DEFINE bound == call[c].kind = "meta" /\ op[c].res = "ok" /\ call[c].alone
<1>4. /\ call' = [call EXCEPT ![c] = NoFrontCall] /\ calls' = calls
      /\ tagged' = [tagged EXCEPT ![r] = IF bound THEN call[c].body ELSE tagged[r]]
  BY <1>0, <1>1 DEF Reply
<1> HIDE DEF bound
<1>5. NoFrontCall \in CallRec /\ NoFrontCall.kind = "none"
  BY DEF NoFrontCall, CallRec
<1>6. /\ call' \in [Client -> CallRec] /\ call'[c] = NoFrontCall /\ ~Calling(c)'
      /\ \A d \in Client : d # c => call'[d] = call[d] /\ Calling(d)' = Calling(d)
  BY <1>0, <1>4, <1>5 DEF Calling
<1>7. /\ tagged' \in [Ref -> Body \cup {0}] /\ (\A q \in Ref : q # r => tagged'[q] = tagged[q])
      /\ (bound => tagged'[r] = call[c].body) /\ (~bound => tagged'[r] = tagged[r])
  <2>1. call[c].body \in Body \cup {0}
    BY <1>0 DEF CallRec
  <2> QED
    BY <1>0, <1>4, <2>1
<1>8. CallInv'
  <2>1. \A d \in Client : Accepted(d)'
    BY <1>0, <1>5, <1>6 DEF CallInv, Accepted
  <2>2. \A d, e \in Client : KnownAt(d, e)'
    BY <1>0, <1>6 DEF CallInv, KnownAt
  <2> QED
    BY <1>0, <1>4, <1>6, <1>7, <2>1, <2>2 DEF CallInv
<1>9. ASSUME NEW d \in Client PROVE ServesCall(d)'
  <2>0. ServesCall(d)
    BY DEF OpenInv
  <2>1. CASE d = c
    BY <1>2, <2>1 DEF ServesCall, Busied
  <2>2. CASE d # c
    BY <1>2, <1>6, <2>0, <2>2 DEF ServesCall, Busied, Ready, OthersSame
  <2> QED
    BY <2>1, <2>2
<1>10. ASSUME NEW q \in Ref PROVE TaggedAt(q)'
  <2>0. TaggedAt(q)
    BY DEF OpenInv, TagInv
  <2>1. CASE q = r /\ bound
    <3>1. PICK b : b = call[c].body
      OBVIOUS
    <3>2. BindsAlone(c, r, b)
      BY <1>0, <1>1, <2>1, <3>1 DEF PutAt, bound
    <3>3. whole[r] = b /\ TopTags(r, {b})
      BY <1>0, <2>1, <3>2 DEF BindsAlone, bound
    <3>4. \A d \in Client : Calling(d)' => call'[d].ref # r
      BY <1>0, <1>1, <1>6, <2>1 DEF KnownAt, bound
    <3>5. TopTags(r, {b})'
      BY <1>2, <3>3 DEF TopTags, Top
    <3>6. tagged'[q] = b /\ whole'[q] = b
      BY <1>2, <1>7, <2>1, <3>1, <3>3
    <3> QED
      BY <2>1, <3>4, <3>5, <3>6 DEF TaggedAt, TopTags
  <2>2. CASE ~(q = r /\ bound)
    <3>1. tagged'[q] = tagged[q]
      BY <1>7, <2>2
    <3>2. TopTags(q, {tagged[q]}) => TopTags(q, {tagged[q]})'
      BY <1>2, <3>1 DEF TopTags, Top
    <3>3. \A d \in Client : Calling(d)' => Calling(d) /\ call'[d].ref = call[d].ref
      BY <1>6
    <3> QED
      BY <1>2, <2>0, <3>1, <3>2, <3>3 DEF TaggedAt, TopTags
  <2> QED
    BY <2>1, <2>2
<1>11. ASSUME NEW d \in Client PROVE PutAt(d)'
  <2>0. PutAt(d)
    BY DEF OpenInv, TagInv
  <2>1. CASE d = c
    BY <1>5, <1>6, <2>1 DEF PutAt
  <2>2. CASE d # c
    <3>1. PICK q : q = call[d].ref
      OBVIOUS
    <3>2. PICK x : x = call[d].body
      OBVIOUS
    <3>3. op'[d] = op[d] /\ Untouched(q)
      BY <1>2, <1>3, <2>2 DEF OthersSame
    <3>4. /\ StoresAlone(d, q, x) => StoresAlone(d, q, x)'
          /\ BindsAlone(d, q, x) => BindsAlone(d, q, x)'
      BY <3>3, AloneStays
    <3> QED
      BY <1>6, <2>0, <2>2, <3>1, <3>2, <3>4 DEF PutAt, StoresAlone, BindsAlone, TopTags
  <2> QED
    BY <2>1, <2>2
<1> QED
  BY <1>2, <1>8, <1>9, <1>10, <1>11 DEF OpenInv, TagInv

\* A step in the gateway behind the open front ends.
LEMMA OpenStepKeeps ==
    ASSUME GwInv, OpenInv, NEW c \in Client, GatewayStep(c), UNCHANGED frontVars
    PROVE  OpenInv'
<1>0. /\ call' = call /\ tagged' = tagged /\ calls' = calls /\ Goes(c) /\ TouchesOwn(c)
      /\ op[c].ref \in Ref /\ ServesCall(c)
  BY StepGoes DEF frontVars, OpenInv, GwInv, Typed, GwTypeOK
<1>1. CallInv'
  BY <1>0 DEF OpenInv, CallInv, Accepted, KnownAt, Calling
<1>2. ASSUME NEW d \in Client PROVE ServesCall(d)'
  <2>0. ServesCall(d)
    BY DEF OpenInv
  <2>1. Busied(d)' => Busied(d) /\ op'[d].ref = op[d].ref
    BY <1>0 DEF Goes, Busied, Ready, OthersSame
  <2> QED
    BY <1>0, <2>0, <2>1 DEF ServesCall, Calling
<1>3. ASSUME NEW q \in Ref, On(c, q) PROVE Calling(c) /\ call[c].ref = q
  BY <1>0, <1>3 DEF ServesCall, On
<1>4. ASSUME NEW q \in Ref PROVE TaggedAt(q)'
  <2>0. TaggedAt(q)
    BY DEF OpenInv, TagInv
  <2>1. tagged[q] # 0 => Untouched(q)
    BY <1>0, <1>3, <2>0 DEF TaggedAt, TouchesOwn
  <2>2. tagged[q] # 0 /\ TopTags(q, {tagged[q]}) => TopTags(q, {tagged[q]})'
    BY <1>0, <2>1, TopStays
  <2> QED
    BY <1>0, <2>0, <2>1, <2>2 DEF TaggedAt, Untouched, TopTags, Calling
<1>5. ASSUME NEW d \in Client PROVE PutAt(d)'
  <2>0. PutAt(d) /\ Accepted(d) /\ KnownAt(d, c)
    BY DEF OpenInv, TagInv, CallInv
  <2> SUFFICES ASSUME call[d].alone, call[d].kind \in {"object", "meta"} PROVE PutAt(d)'
    BY <1>0 DEF PutAt
  <2>1. PICK q \in Ref : q = call[d].ref
    BY <2>0 DEF Accepted, Calling
  <2>2. PICK x : x = call[d].body
    OBVIOUS
  <2>3. /\ call[d].kind = "object" => StoresAlone(d, q, x)
        /\ call[d].kind = "meta" => BindsAlone(d, q, x)
    BY <2>0, <2>1, <2>2 DEF PutAt
  <2>4. CASE d = c
    <3>1. /\ call[d].kind = "object" => StoresAlone(d, q, x)'
          /\ call[d].kind = "meta" => BindsAlone(d, q, x)'
      BY <2>3, <2>4, StoresOn, BindsOn
    <3> QED
      BY <1>0, <2>1, <2>2, <3>1 DEF PutAt, StoresAlone, BindsAlone, TopTags
  <2>5. CASE d # c
    <3>1. ~On(c, q)
      BY <1>3, <2>0, <2>1, <2>5 DEF KnownAt, Calling
    <3>2. op'[d] = op[d] /\ Untouched(q)
      BY <1>0, <2>5, <3>1 DEF Goes, OthersSame, TouchesOwn
    <3>3. /\ call[d].kind = "object" => StoresAlone(d, q, x)'
          /\ call[d].kind = "meta" => BindsAlone(d, q, x)'
      BY <2>3, <3>2, AloneStays
    <3> QED
      BY <1>0, <2>1, <2>2, <3>3 DEF PutAt, StoresAlone, BindsAlone, TopTags
  <2> QED
    BY <2>4, <2>5
<1> QED
  BY <1>1, <1>2, <1>4, <1>5 DEF OpenInv, TagInv

\* Calls and tags stay where nothing they read changes.
LEMMA CallsSame ==
    ASSUME CallInv, TagInv, UNCHANGED <<op, man, whole>>, UNCHANGED frontVars
    PROVE  CallInv' /\ TagInv'
<1>0. call' = call /\ tagged' = tagged /\ calls' = calls
  BY DEF frontVars
<1>1. CallInv'
  BY <1>0 DEF CallInv, Accepted, KnownAt, Calling
<1>2. \A q, tags : TopTags(q, tags)' = TopTags(q, tags)
  BY DEF TopTags, Top
<1>3. \A q \in Ref : TaggedAt(q)'
  BY <1>0, <1>2 DEF TagInv, TaggedAt, Calling
<1>4. \A c \in Client : PutAt(c)'
  <2>1. \A c, q, b : StoresAlone(c, q, b) => StoresAlone(c, q, b)'
    BY <1>2 DEF StoresAlone
  <2>2. \A c, q, b : BindsAlone(c, q, b) => BindsAlone(c, q, b)'
    <3> SUFFICES ASSUME NEW c, NEW q, NEW b, BindsAlone(c, q, b)
                 PROVE  BindsAlone(c, q, b)'
      OBVIOUS
    <3>1. TopTags(q, {})' = TopTags(q, {}) /\ TopTags(q, {b})' = TopTags(q, {b})
      BY <1>2
    <3> QED
      BY <3>1 DEF BindsAlone
  <2> QED
    BY <2>1, <2>2, <1>0 DEF TagInv, PutAt
<1> QED
  BY <1>1, <1>3, <1>4 DEF TagInv

\* So does what the open front end keeps.
LEMMA OpenSame ==
    ASSUME OpenInv, UNCHANGED <<op, man, whole>>, UNCHANGED frontVars
    PROVE  OpenInv'
<1>1. CallInv' /\ TagInv'
  BY CallsSame DEF OpenInv
<1>2. \A c \in Client : ServesCall(c)'
  BY DEF OpenInv, ServesCall, Busied, Ready, Calling, frontVars
<1> QED
  BY <1>1, <1>2 DEF OpenInv

\* The open front ends and the gateway behind them.
LEMMA FrontNextKeeps ==
    ASSUME GwInv, OpenInv, FrontNext
    PROVE  GwInv' /\ OpenInv'
<1>1. ASSUME Background, UNCHANGED frontVars PROVE GwInv' /\ OpenInv'
  BY <1>1, BackgroundKeeps, BackgroundOps, OpenSame
<1>2. ASSUME NEW c \in Client, GatewayStep(c), UNCHANGED frontVars PROVE GwInv' /\ OpenInv'
  BY <1>2, StepKeeps, OpenStepKeeps
<1> QED
  BY <1>1, <1>2, FrontStartKeeps, PutObjectMetaKeeps, ReplyKeeps DEF FrontNext

-----------------------------------------------------------------------------
(* The gateway behind one front end or the other.                           *)

\* The invariant holds in an empty gateway.
LEMMA GatewayStarts == GatewayInit => Inv
<1> SUFFICES ASSUME GatewayInit PROVE Inv
  OBVIOUS
<1>4. 0 \in 0 .. MaxClock /\ 0 \in 0 .. MaxSlot /\ 0 \in 0 .. MaxReq /\ 0 \in 0 .. MaxCalls /\ 0 \in Nat
  <2>1. MaxClock \in Nat /\ MaxSlot \in Nat /\ MaxReq \in Nat /\ MaxCalls \in Nat
    BY GatewayAssumption, EdgeAssumption, FrontAssumption
  <2>2. \A n \in Nat : 0 \in 0 .. n
    BY SMT
  <2>3. 0 \in Nat
    BY SMT
  <2> QED
    BY <2>1, <2>2, <2>3
<1> USE DEF GatewayInit, EdgeInit, GwInit, FrontInit
<1>0. PICK r0 \in Ref : r0 = CHOOSE r \in Ref : TRUE
  BY GatewayAssumption
<1>1. /\ Idle(r0) \in OpRec /\ PhaseOK(Idle(r0)) /\ Idle(r0).ref = r0 /\ Idle(r0).kind = "none"
      /\ Idle(r0).pc = "idle" /\ Idle(r0).row \in Row
  BY IdleTyped DEF OpRec
<1>2. \A c \in Client : op[c] = Idle(r0)
  BY <1>0
<1>3. DOMAIN refs = {}
  OBVIOUS
<1>5. Typed
  <2>1. op \in [Client -> OpRec] /\ \A c \in Client : PhaseOK(op[c])
    BY <1>0, <1>1, <1>2
  <2> QED
    BY <1>1, <1>2, <1>3, <1>4, <2>1 DEF Typed, GwTypeOK
<1>6. Staged
  BY <1>1, <1>2, <1>3 DEF Staged
<1>7. \A c \in Client : ~Busied(c) /\ ~Unacked(c) /\ ~Rewriting(c) /\ ~Quietly(c)
  BY <1>1, <1>2 DEF Busied, Unacked, Rewriting, Quietly, Ready
<1>8. \A r \in Ref : ~kept[r] /\ whole[r] = 0 /\ tagged[r] = 0 /\ ~HasRow(r)
  BY <1>3 DEF HasRow
<1>9. OverlapInv
  BY <1>7, <1>8 DEF OverlapInv, AloneAt, DistinctAt, QuietAt, On
<1>10. ManifestInv
  BY <1>7, <1>8 DEF ManifestInv, HasLast, StoredAt, MetaTopAt, KeptBodyAt, WholeTopAt, Exact
<1>11. RowInv
  BY <1>7, <1>8 DEF RowInv, KeptRowAt, WholeRowAt, GateAt, MetaRowAt, Exact, Finalized
<1>12. ReadInv
  BY <1>7 DEF ReadInv, ReadAt
<1>13. \A c \in Client : edge[c] = NoReq /\ call[c] = NoFrontCall
  OBVIOUS
<1>14. NoReq \in EdgeRec /\ NoReq.kind = "none" /\ NoFrontCall \in CallRec /\ NoFrontCall.kind = "none"
  BY <1>4 DEF NoReq, EdgeRec, EdgeKinds, NoFrontCall, CallRec
<1>15. EdgeInv
  BY <1>4, <1>13, <1>14 DEF EdgeInv, Admitted
<1>16. \A c \in Client : ~Calling(c)
  BY <1>13, <1>14 DEF Calling
<1>17. CallInv
  <2>1. \A c \in Client : Accepted(c)
    BY <1>13, <1>14, <1>16 DEF Accepted
  <2>2. \A c, d \in Client : KnownAt(c, d)
    BY <1>16 DEF KnownAt
  <2> QED
    BY <1>4, <1>13, <1>14, <2>1, <2>2 DEF CallInv
<1>18. SideInv
  BY <1>7, <1>8, <1>13, <1>14, <1>16 DEF SideInv, ServesCall
<1>19. TagInv
  BY <1>8, <1>13, <1>14 DEF TagInv, TaggedAt, PutAt
<1> QED
  BY <1>5, <1>6, <1>9, <1>10, <1>11, <1>12, <1>15, <1>17, <1>18, <1>19 DEF Inv, GwInv

\* Every step of the gateway and of its front ends keeps the invariant.
LEMMA GatewayKeeps == Inv /\ [GatewayNext]_gatewayVars => Inv'
<1> SUFFICES ASSUME Inv, [GatewayNext]_gatewayVars PROVE Inv'
  OBVIOUS
<1>0. GwInv /\ EdgeInv /\ CallInv /\ SideInv /\ TagInv
  BY DEF Inv
<1>1. CASE front = "edge" /\ EdgeNext /\ UNCHANGED <<frontVars, front>>
  <2>1. GwInv' /\ EdgeInv'
    BY <1>0, <1>1, EdgeNextKeeps
  <2>2. call' = call /\ tagged' = tagged /\ calls' = calls /\ front' = "edge"
    BY <1>1 DEF frontVars
  <2>3. CallInv'
    BY <1>0, <2>2 DEF CallInv, Accepted, KnownAt, Calling
  <2>4. (\A c \in Client : ~Calling(c)) /\ \A r \in Ref : tagged[r] = 0
    BY <1>0, <1>1 DEF SideInv
  <2>5. SideInv'
    BY <2>2, <2>4 DEF SideInv, Calling
  <2>6. TagInv'
    BY <2>2, <2>4 DEF TagInv, TaggedAt, PutAt, Calling
  <2> QED
    BY <2>1, <2>3, <2>5, <2>6 DEF Inv
<1>2. CASE front = "open" /\ FrontNext /\ UNCHANGED <<edgeVars, front>>
  <2>1. OpenInv
    BY <1>0, <1>2 DEF OpenInv, SideInv
  <2>2. GwInv' /\ OpenInv'
    BY <1>0, <1>2, <2>1, FrontNextKeeps
  <2>3. edge' = edge /\ bytes' = bytes /\ count' = count /\ slack' = slack /\ reqs' = reqs /\ front' = "open"
    BY <1>2 DEF edgeVars, quotaVars
  <2>4. \A c \in Client : edge[c].kind = "none"
    BY <1>0, <1>2 DEF SideInv
  <2>5. EdgeInv'
    BY <1>0, <2>3, <2>4 DEF EdgeInv, Admitted
  <2>6. SideInv'
    BY <2>2, <2>3, <2>4 DEF SideInv, OpenInv
  <2> QED
    BY <2>2, <2>5, <2>6 DEF Inv, OpenInv
<1>3. CASE UNCHANGED gatewayVars
  <2>1. /\ UNCHANGED <<refs, man, stage, op, gc, now, slots, kept, whole, swept>>
        /\ UNCHANGED <<edge, bytes, count, slack, reqs, front>> /\ UNCHANGED frontVars
    BY <1>3 DEF gatewayVars, vars, gwVars, edgeVars, quotaVars, storeVars, histVars, frontVars
  <2>2. GwInv'
    BY <1>0, <2>1, GwSame
  <2>3. EdgeInv'
    BY <1>0, <2>1 DEF EdgeInv, Admitted
  <2>4. CallInv' /\ TagInv'
    BY <1>0, <2>1, CallsSame
  <2>5. SideInv'
    BY <1>0, <2>1 DEF SideInv, ServesCall, Busied, Ready, Calling, frontVars
  <2> QED
    BY <2>2, <2>3, <2>4, <2>5 DEF Inv
<1> QED
  BY <1>1, <1>2, <1>3 DEF GatewayNext

\* The invariant gives what the runs check.
LEMMA InvHolds == Inv => AckedHolds
<1> SUFFICES ASSUME Inv PROVE AckedHolds
  OBVIOUS
<1>0. /\ GwInv /\ EdgeInv /\ CallInv /\ SideInv /\ TagInv /\ Typed /\ OverlapInv /\ HasLast
      /\ ManifestInv /\ RowInv /\ ReadInv
  BY DEF Inv, GwInv, ManifestInv
<1>1. EdgeTypeOK
  BY <1>0 DEF EdgeTypeOK, Typed, EdgeInv, EdgeRec, EdgeKinds
<1>2. FrontTypeOK
  BY <1>0 DEF FrontTypeOK, CallInv, CallRec
<1>3. ASSUME NEW r \in Ref, kept[r], r \notin swept PROVE Readable(r)
  <2>1. Finalized(r)
    BY <1>0, <1>3 DEF RowInv, KeptRowAt
  <2>2. Versions(r) # {}
    BY <1>0, <1>3 DEF ManifestInv, KeptBodyAt, Versions
  <2> QED
    BY <2>1, <2>2 DEF Readable
<1>4. AckedKept
  BY <1>3 DEF AckedKept
<1>5. ASSUME NEW r \in Ref, whole[r] # 0, r \notin swept
      PROVE  Readable(r) /\ refs[r].hash = whole[r] /\ Latest(r).body = whole[r]
  <2>1. Readable(r)
    BY <1>0, <1>3, <1>5 DEF OverlapInv
  <2>2. refs[r].hash = whole[r]
    BY <1>0, <1>5, <2>1 DEF RowInv, WholeRowAt, Readable, Finalized
  <2>3. Latest(r).body = whole[r]
    BY <1>0, <1>5, <2>1, LatestIs DEF ManifestInv, WholeTopAt, Readable
  <2> QED
    BY <2>1, <2>2, <2>3
<1>6. AckedExact
  BY <1>5 DEF AckedExact
<1>7. EtagExact
  <2> SUFFICES ASSUME NEW r \in Ref, tagged[r] # 0, r \notin swept
               PROVE  Readable(r) /\ Latest(r).body = tagged[r] /\ Latest(r).tags = {tagged[r]}
    BY DEF EtagExact
  <2>1. whole[r] = tagged[r] /\ TopTags(r, {tagged[r]})
    BY <1>0 DEF TagInv, TaggedAt
  <2>2. Readable(r) /\ Latest(r).body = tagged[r]
    BY <1>5, <2>1
  <2>3. Latest(r).tags = {tagged[r]}
    BY <1>0, <2>1, <2>2, LatestIs DEF TopTags, Readable
  <2> QED
    BY <2>2, <2>3
<1>8. IntegrityGate
  BY <1>0 DEF IntegrityGate, RowInv, GateAt
<1>9. QuietReads
  <2> SUFFICES ASSUME NEW c \in Client, Streamed(c), edge[c].want # 0, op[c].raced = 0,
                      whole[op[c].ref] # 0
               PROVE  op[c].body = edge[c].want
    BY DEF QuietReads
  <2>1. op[c].kind = "get" /\ op[c].pc = "done" /\ op[c].res = "ok" /\ op[c].row.hash = edge[c].want
    BY <1>0 DEF Streamed, Returned, EdgeInv, Admitted
  <2>2. ReadAt(c)
    BY <1>0 DEF ReadInv
  <2> QED
    BY <2>1, <2>2 DEF ReadAt, Quietly
<1> QED
  BY <1>1, <1>2, <1>4, <1>6, <1>7, <1>8, <1>9 DEF AckedHolds

\* Whatever the requests, faults and sweeps, what the gateway acknowledged is held:
\* an acknowledged reference keeps a manifest and, unless a sweep listed it while it
\* was pending, its finalized row; what no other request overlapped is the latest
\* version and what a quiet Get returns; a tag that PutObject returned is the
\* tag of the stored bytes (gateway.go Put, Finalize, SetUserMeta, Delete, Get;
\* edge and open front ends).
THEOREM AckedStaysHeld == GatewaySpec => []AckedHolds
<1>1. GatewayInit => Inv
  BY GatewayStarts
<1>2. Inv /\ [GatewayNext]_gatewayVars => Inv'
  BY GatewayKeeps
<1>3. Inv => AckedHolds
  BY InvHolds
<1> QED
  BY <1>1, <1>2, <1>3, PTL DEF GatewaySpec

=============================================================================
