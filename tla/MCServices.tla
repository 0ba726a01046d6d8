---------------------------- MODULE MCServices ----------------------------
(***************************************************************************)
(* The services around the object stores, each on its own: multipart       *)
(* uploads, buckets, listings and bodies of the S3 front end, capability   *)
(* tokens and rate limits of the edge, snapshot stores and their cache,    *)
(* tenant stores and tenant files, the readers of packs, the backfill of   *)
(* pack associations, and a node's presigned URLs over the tenant's        *)
(* credentials.  They share no other state; the first state picks the one  *)
(* a behaviour is about.                                                   *)
(***************************************************************************)
EXTENDS S3Objects, S3Wire, EdgePolicy, Snapshots, Tenants, PackRead, Backfill, PresignCache

CONSTANT ServicePart   \* the services a configuration is about

VARIABLE part

vars == <<part, mpVars, bkVars, lsVars, sbVars, cpVars, rlVars, snVars, scVars, tnVars, tcVars, prVars, bfVars, nodeVars>>

\* Keys 3 and 4 have the common prefix 2.
MCFolder == [k \in Key |-> IF k \in {3, 4} THEN 2 ELSE 0]
\* Fractions of a second that RFC3339Nano prints with different lengths.
MCStamp == <<<<1, 2>>, <<2, 0>>, <<2, 3>>>>
MCPrefix == {<<"a", "ab">>}
\* A pack of three chunks, a pack of one, and a chunk stored by itself; an
\* object reads the first in order, another all three out of order.
MCLayout == [P |-> <<"A", "B", "C">>, S |-> <<"T">>, V |-> <<"D">>]
MCSize == [A |-> 2, B |-> 1, C |-> 2, D |-> 2, T |-> 1]
MCZSize == [c \in {"A", "B", "C", "D", "T"} |-> 1]
MCObjects == <<<<<<"P", 1>>, <<"P", 2>>, <<"P", 3>>>>,
               <<<<"P", 3>>, <<"P", 1>>, <<"V", 1>>, <<"S", 1>>, <<"P", 2>>>>>>
\* Two objects from before associations share a pack; b is tagged with group g.
MCLegacy == [a |-> {"P", "Q"}, b |-> {"Q"}]
MCOwnerContext == [k \in BfKey |-> IF k = "b" THEN "g" ELSE k]

Init ==
    /\ part \in ServicePart
    /\ MpInit /\ BkInit /\ SbInit /\ CpInit /\ ScInit /\ TnInit /\ PcInit
    /\ LsInit /\ (part # "listing" => keys = {})
    /\ RlInit /\ (part # "rate" => backing = CHOOSE b \in Backing : TRUE)
    /\ SnInit /\ (part # "snapshots" => snBackend = CHOOSE b \in SnBackend : TRUE)
    /\ TcInit /\ (part # "config" => files = 1 /\ cfg = CHOOSE c \in [TcFile -> Content] : Loads(c))
    /\ PrInit /\ (part # "packs" => strict /\ live = {})
    /\ BfInit /\ (part # "backfill" => streams)

Step ==
    \/ part = "multipart" /\ MpNext
       /\ UNCHANGED <<bkVars, lsVars, sbVars, cpVars, rlVars, snVars, scVars, tnVars, tcVars, prVars, bfVars, nodeVars>>
    \/ part = "buckets" /\ BkNext
       /\ UNCHANGED <<mpVars, lsVars, sbVars, cpVars, rlVars, snVars, scVars, tnVars, tcVars, prVars, bfVars, nodeVars>>
    \/ part = "listing" /\ LsNext
       /\ UNCHANGED <<mpVars, bkVars, sbVars, cpVars, rlVars, snVars, scVars, tnVars, tcVars, prVars, bfVars, nodeVars>>
    \/ part = "body" /\ SbNext
       /\ UNCHANGED <<mpVars, bkVars, lsVars, cpVars, rlVars, snVars, scVars, tnVars, tcVars, prVars, bfVars, nodeVars>>
    \/ part = "capability" /\ CpNext
       /\ UNCHANGED <<mpVars, bkVars, lsVars, sbVars, rlVars, snVars, scVars, tnVars, tcVars, prVars, bfVars, nodeVars>>
    \/ part = "rate" /\ RlNext
       /\ UNCHANGED <<mpVars, bkVars, lsVars, sbVars, cpVars, snVars, scVars, tnVars, tcVars, prVars, bfVars, nodeVars>>
    \/ part = "snapshots" /\ SnNext
       /\ UNCHANGED <<mpVars, bkVars, lsVars, sbVars, cpVars, rlVars, scVars, tnVars, tcVars, prVars, bfVars, nodeVars>>
    \/ part = "cache" /\ ScNext
       /\ UNCHANGED <<mpVars, bkVars, lsVars, sbVars, cpVars, rlVars, snVars, tnVars, tcVars, prVars, bfVars, nodeVars>>
    \/ part = "tenancy" /\ TnNext
       /\ UNCHANGED <<mpVars, bkVars, lsVars, sbVars, cpVars, rlVars, snVars, scVars, tcVars, prVars, bfVars, nodeVars>>
    \/ part = "config" /\ TcNext
       /\ UNCHANGED <<mpVars, bkVars, lsVars, sbVars, cpVars, rlVars, snVars, scVars, tnVars, prVars, bfVars, nodeVars>>
    \/ part = "packs" /\ PrNext
       /\ UNCHANGED <<mpVars, bkVars, lsVars, sbVars, cpVars, rlVars, snVars, scVars, tnVars, tcVars, bfVars, nodeVars>>
    \/ part = "backfill" /\ BfNext
       /\ UNCHANGED <<mpVars, bkVars, lsVars, sbVars, cpVars, rlVars, snVars, scVars, tnVars, tcVars, prVars, nodeVars>>
    \/ part = "presign" /\ PcNext
       /\ UNCHANGED <<mpVars, bkVars, lsVars, sbVars, cpVars, rlVars, snVars, scVars, tcVars, prVars, bfVars>>
Next == Step /\ UNCHANGED part

Spec == Init /\ [][Next]_vars
=============================================================================
