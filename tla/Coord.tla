-------------------------------- MODULE Coord -------------------------------
(***************************************************************************)
(* Coordination between the nodes of mlfs: the maintenance leader, lock    *)
(* sessions and the change feed.                                           *)
(***************************************************************************)
EXTENDS Integers, FiniteSets, FiniteSetsExt

-----------------------------------------------------------------------------
(***************************************************************************)
(* The election of the maintenance leader over a JetStream key-value entry   *)
(* that expires: the leader of mlfs's maintenance loop, and the gateway's    *)
(* identical one for its collector.  Ages stand for time: an entry of age    *)
(* Ttl has expired and is gone.                                              *)
(***************************************************************************)

CONSTANTS ElNode,  \* nodes
          Ttl,     \* lifetime of an entry, in ticks
          MaxRev   \* bound on writes of the leader key

ASSUME ElectionAssumption == {Ttl, MaxRev} \subseteq Nat

VARIABLES key,      \* the leader key: [node, rev, age]
          rev,      \* revisions used
          camp,     \* camp[n]: the campaign step in progress: what Get returned
          isLeader, \* the flag the singletons consult
          won,      \* won[n]: ticks since n's last successful write of the key
          snatched  \* history: a release deleted the key of another node

elVars == <<key, rev, camp, isLeader, won, snatched>>

NoLeader == [node |-> "none", rev |-> 0, age |-> Ttl]
AtRest == [pc |-> "idle", seen |-> NoLeader]

ElTypeOK ==
  /\ key.rev \in 0 .. rev /\ key.age \in 0 .. Ttl /\ rev \in 0 .. MaxRev
  /\ \A n \in ElNode : camp[n].pc \in {"idle", "got"}
  /\ isLeader \in [ElNode -> BOOLEAN] /\ won \in [ElNode -> 0 .. Ttl] /\ snatched \in BOOLEAN

ElInit ==
  /\ key = NoLeader /\ rev = 0
  /\ camp = [n \in ElNode |-> AtRest]
  /\ isLeader = [n \in ElNode |-> FALSE] /\ won = [n \in ElNode |-> Ttl]
  /\ snatched = FALSE

Gone(e) == e.age = Ttl
Older(a) == IF a < Ttl THEN a + 1 ELSE a

CampaignGet(n) ==
  /\ camp[n].pc = "idle"
  /\ camp' = [camp EXCEPT ![n] = [pc |-> "got", seen |-> IF Gone(key) THEN NoLeader ELSE key]]
  /\ UNCHANGED <<key, rev, isLeader, won, snatched>>

Wins_NoCas(n) ==
  LET s == camp[n].seen IN \/ Gone(s) /\ Gone(key)
                           \/ ~Gone(s) /\ s.node = n

(* Create needs the key absent; Update needs the revision that Get returned. *)
Wins(n) ==
  LET s == camp[n].seen IN \/ Gone(s) /\ Gone(key)
                           \/ ~Gone(s) /\ s.node = n /\ ~Gone(key) /\ key.rev = s.rev

CampaignWins(n) ==
  /\ camp[n].pc = "got" /\ Wins(n) /\ rev < MaxRev
  /\ rev' = rev + 1
  /\ key' = [node |-> n, rev |-> rev + 1, age |-> 0]
  /\ isLeader' = [isLeader EXCEPT ![n] = TRUE]
  /\ won' = [won EXCEPT ![n] = 0]
  /\ camp' = [camp EXCEPT ![n] = AtRest]
  /\ UNCHANGED snatched

(* The key is another's, the write lost its race, or the store failed. *)
StandDown(n) ==
  /\ camp[n].pc = "got"
  /\ isLeader' = [isLeader EXCEPT ![n] = FALSE]
  /\ camp' = [camp EXCEPT ![n] = AtRest]
  /\ UNCHANGED <<key, rev, won, snatched>>

(* On exit a leader deletes the key, whoever holds it by then. *)
RunEnds(n) ==
  /\ key' = IF isLeader[n] THEN NoLeader ELSE key
  /\ snatched' = (snatched \/ (isLeader[n] /\ ~Gone(key) /\ key.node # n))
  /\ isLeader' = [isLeader EXCEPT ![n] = FALSE]
  /\ camp' = [camp EXCEPT ![n] = AtRest]
  /\ UNCHANGED <<rev, won>>

(* A crashed node starts again with the flag down; its key stays to expire. *)
ElCrash(n) ==
  /\ isLeader' = [isLeader EXCEPT ![n] = FALSE]
  /\ camp' = [camp EXCEPT ![n] = AtRest]
  /\ UNCHANGED <<key, rev, won, snatched>>

ElTick ==
  /\ key' = [key EXCEPT !.age = Older(@)]
  /\ won' = [n \in ElNode |-> Older(won[n])]
  /\ UNCHANGED <<rev, camp, isLeader, snatched>>

ElNext ==
  \/ ElTick
  \/ \E n \in ElNode : CampaignGet(n) \/ CampaignWins(n) \/ StandDown(n) \/ RunEnds(n) \/ ElCrash(n)

ElSpec == ElInit /\ [][ElNext]_elVars

-----------------------------------------------------------------------------
(* Properties *)

Sure == {n \in ElNode : isLeader[n] /\ won[n] < Ttl}

\* At most one node believes in a leadership it claimed or renewed within the
\* lease, unless a departing stale leader deleted the key of its successor
\* (campaign's Create and compare-and-set Update).
OneFreshLeader == Cardinality(Sure) > 1 => snatched

\* Leader election: well formed, and at most one leader within a lease.
LeaderSound == ElTypeOK /\ OneFreshLeader

\* The election's "Exactly one live node holds the key at a time", without that
\* exception.
\* Refuted (no run checks it): a leader whose key expired stops, and deletes
\* the key another node has taken since.
OneLeader == Cardinality(Sure) <= 1

-----------------------------------------------------------------------------
(***************************************************************************)
(* Lock sessions of mounts: each process draws a session id, heartbeats it   *)
(* into a registry whose entries expire, and the maintenance leader clears   *)
(* the lock rows of sessions that are not in the registry.  Two leaders may  *)
(* overlap (see above), so any   serving node may run a pass.               *)
(***************************************************************************)

CONSTANTS LrNode,     \* nodes
          LrTtl,      \* lifetime of a registry entry, in ticks
          MaxSession  \* bound on sessions (every start draws a new id)

ASSUME ReaperAssumption == {LrTtl, MaxSession} \subseteq Nat

VARIABLES serving,  \* nodes that serve
          sid,      \* sid[n]: lock session of the current incarnation
          sessions, \* sessions drawn
          beat,     \* beat[n]: registry entry [sid, age]
          lockSids, \* sessions with rows in the lock tables
          reap,     \* reap[n]: the reaper pass of n
          steady,   \* history: steady[n]: sessions announced ever since n's pass read the registry
          lost      \* history: sessions that lost their rows while steady

lrVars == <<serving, sid, sessions, beat, lockSids, reap, steady, lost>>

Sid == 1 .. MaxSession
NoPass == [pc |-> "idle", live |-> {}, todo |-> {}]

LrTypeOK ==
  /\ serving \in SUBSET LrNode /\ sid \in [LrNode -> 0 .. MaxSession] /\ sessions \in 0 .. MaxSession
  /\ beat \in [LrNode -> [sid : 0 .. MaxSession, age : 0 .. LrTtl]]
  /\ lockSids \in SUBSET Sid /\ lost \in SUBSET Sid /\ steady \in [LrNode -> SUBSET Sid]
  /\ reap \in [LrNode -> [pc : {"idle", "live", "clear"}, live : SUBSET (0 .. MaxSession), todo : SUBSET Sid]]

LrInit ==
  /\ serving = {} /\ sid = [n \in LrNode |-> 0] /\ sessions = 0
  /\ beat = [n \in LrNode |-> [sid |-> 0, age |-> LrTtl]]
  /\ lockSids = {} /\ reap = [n \in LrNode |-> NoPass]
  /\ steady = [n \in LrNode |-> {}] /\ lost = {}

LiveSIDs(n) == {beat[m].sid : m \in {m \in LrNode : beat[m].age < LrTtl}}

Announced == {sid[n] : n \in {n \in serving : beat[n].sid = sid[n] /\ beat[n].age < LrTtl}}

(* A new process clears the rows of the id it drew and serves; its first
   heartbeat follows later. *)
Start(n) ==
  /\ n \notin serving /\ sessions < MaxSession
  /\ sessions' = sessions + 1
  /\ sid' = [sid EXCEPT ![n] = sessions + 1]
  /\ lockSids' = lockSids \ {sessions + 1}
  /\ serving' = serving \cup {n}
  /\ UNCHANGED <<beat, reap, steady, lost>>

Heartbeat(n) ==
  /\ n \in serving
  /\ beat' = [beat EXCEPT ![n] = [sid |-> sid[n], age |-> 0]]
  /\ UNCHANGED <<serving, sid, sessions, lockSids, reap, steady, lost>>

TakeLock(n) ==
  /\ n \in serving /\ sid[n] \notin lockSids
  /\ lockSids' = lockSids \cup {sid[n]}
  /\ UNCHANGED <<serving, sid, sessions, beat, reap, steady, lost>>

(* Shutdown removes the registry entry, a crash leaves it to expire; neither
   touches the lock rows. *)
Stop(n) ==
  /\ n \in serving
  /\ serving' = serving \ {n}
  /\ reap' = [reap EXCEPT ![n] = NoPass]
  /\ beat' \in {beat, [beat EXCEPT ![n].age = LrTtl]}
  /\ steady' = [m \in LrNode |-> steady[m] \ {sid[n]}]
  /\ UNCHANGED <<sid, sessions, lockSids, lost>>

(* One pass: the live sessions, then the sessions with locks, then the deletes. *)
ReapLive(n) ==
  /\ n \in serving /\ reap[n].pc = "idle"
  /\ reap' = [reap EXCEPT ![n] = [pc |-> "live", live |-> LiveSIDs(n), todo |-> {}]]
  /\ steady' = [steady EXCEPT ![n] = Announced]
  /\ UNCHANGED <<serving, sid, sessions, beat, lockSids, lost>>

ListLockSIDs(n) ==
  /\ reap[n].pc = "live"
  /\ reap' = [reap EXCEPT ![n] = [pc |-> "clear", live |-> {}, todo |-> lockSids \ @.live]]
  /\ UNCHANGED <<serving, sid, sessions, beat, lockSids, steady, lost>>

ClearLocksForSID(n) ==
  /\ reap[n].pc = "clear"
  /\ \E s \in reap[n].todo :
       /\ lockSids' = lockSids \ {s}
       /\ lost' = lost \cup ({s} \cap lockSids \cap steady[n])
       /\ reap' = [reap EXCEPT ![n].todo = @ \ {s}]
  /\ UNCHANGED <<serving, sid, sessions, beat, steady>>

(* Everything is cleared, or a call failed: the next tick starts over. *)
ReapEnds(n) ==
  /\ reap[n].pc # "idle"
  /\ reap' = [reap EXCEPT ![n] = NoPass]
  /\ steady' = [steady EXCEPT ![n] = {}]
  /\ UNCHANGED <<serving, sid, sessions, beat, lockSids, lost>>

LrTick ==
  /\ beat' = [n \in LrNode |-> [beat[n] EXCEPT !.age = IF @ < LrTtl THEN @ + 1 ELSE @]]
  /\ UNCHANGED <<serving, sid, sessions, lockSids, reap, lost>>
  /\ steady' = [n \in LrNode |-> steady[n] \cap Announced']

LrNext ==
  \/ LrTick
  \/ \E n \in LrNode :
       \/ Start(n) \/ Heartbeat(n) \/ TakeLock(n) \/ Stop(n)
       \/ ReapLive(n) \/ ListLockSIDs(n) \/ ClearLocksForSID(n) \/ ReapEnds(n)

LrSpec == LrInit /\ [][LrNext]_lrVars

-----------------------------------------------------------------------------
(* Properties *)

\* A session whose heartbeat was in the registry when a pass read it, and has
\* not lapsed since, keeps its locks through that pass (ReapDeadLocks).
SteadyKeepLocks == lost = {}

\* "Reap only THIS node's stale locks (a crashed prior incarnation shares our
\* sid)": a node that serves has no rows of its earlier incarnations.
\* Refuted (no run checks it): the session id of a mount holds a random byte,
\* so a restart has another one.
OwnStaleCleared ==
  \A n \in serving, s \in lockSids : s < sid[n] => \E m \in serving : sid[m] = s

-----------------------------------------------------------------------------
(***************************************************************************)
(* The change feed between mounts.  A metadata transaction appends its       *)
(* change to fs_changelog; its number is drawn when the row is inserted and  *)
(* becomes visible when the transaction commits.  The publisher of each node *)
(* follows the log while that node is the maintenance leader and broadcasts  *)
(* what it reads; every mount invalidates its kernel caches.  The log is     *)
(* trimmed by age.                                                           *)
(***************************************************************************)

CONSTANTS CfNode,   \* nodes
          MaxLsn    \* bound on changelog rows

ASSUME FeedAssumption == MaxLsn \in Nat

Lsn == 1 .. MaxLsn
ChangeOp == {"write", "create", "link", "unlink", "rename"}

VARIABLES lsn,      \* numbers drawn
          row,      \* row[l]: "none", "open", "committed" or "aborted" or "trimmed"
          op,       \* op[l]: the kind of change
          leading,  \* the node that believes to lead, or none
          running,  \* nodes whose publisher has read its start position
          cursor,   \* cursor[n]: last number the publisher of n has seen
          begun,    \* history: rows visible when the publisher of n started
          sent,     \* rows broadcast
          passed,   \* history: rows some publisher's cursor passed before they committed
          cached    \* cached[l]: kernel items of an observing mount the change made stale

cfVars == <<lsn, row, op, leading, running, cursor, begun, sent, passed, cached>>

CfTypeOK ==
  /\ lsn \in 0 .. MaxLsn
  /\ row \in [Lsn -> {"none", "open", "committed", "aborted", "trimmed"}]
  /\ op \in [Lsn -> ChangeOp]
  /\ leading \in SUBSET CfNode /\ running \in SUBSET CfNode
  /\ cursor \in [CfNode -> 0 .. MaxLsn] /\ begun \in [CfNode -> SUBSET Lsn]
  /\ sent \in SUBSET Lsn /\ passed \in SUBSET Lsn
  /\ cached \in [Lsn -> SUBSET {"name", "dir", "inode", "target"}]

CfInit ==
  /\ lsn = 0 /\ row = [l \in Lsn |-> "none"] /\ op = [l \in Lsn |-> "write"]
  /\ leading = {} /\ running = {} /\ cursor = [n \in CfNode |-> 0]
  /\ begun = [n \in CfNode |-> {}] /\ sent = {} /\ passed = {}
  /\ cached = [l \in Lsn |-> {}]

Visible == {l \in Lsn : row[l] = "committed"}

(* What a change makes stale in another mount's kernel: the directory entries,
   the attributes of the directories, of the inode, of a replaced target. *)
Touches(o) ==
  CASE o = "write"  -> {"inode"}
    [] o = "create" -> {"name", "dir"}
    [] o = "link"   -> {"name", "dir", "inode"}
    [] o = "unlink" -> {"name", "dir", "inode"}
    [] o = "rename" -> {"name", "dir", "inode", "target"}

(* ApplyChange: the notifications sent to the kernel. *)
Notified(o) ==
  CASE o = "write"  -> {"inode"}
    [] o = "create" -> {"name", "dir"}
    [] o = "link"   -> {"name", "dir"}
    [] o = "unlink" -> {"name", "dir", "inode"}
    [] o = "rename" -> {"name", "dir"}

-----------------------------------------------------------------------------
(* The log *)

AppendChangelog ==
  /\ lsn < MaxLsn
  /\ lsn' = lsn + 1
  /\ row' = [row EXCEPT ![lsn + 1] = "open"]
  /\ \E o \in ChangeOp : op' = [op EXCEPT ![lsn + 1] = o]
  /\ UNCHANGED <<leading, running, cursor, begun, sent, passed, cached>>

CfCommit(l) ==
  /\ row[l] = "open"
  /\ row' = [row EXCEPT ![l] = "committed"]
  /\ passed' = IF \E n \in running : cursor[n] >= l THEN passed \cup {l} ELSE passed
  /\ cached' = [cached EXCEPT ![l] = Touches(op[l])]
  /\ UNCHANGED <<lsn, op, leading, running, cursor, begun, sent>>

CfAbort(l) ==
  /\ row[l] = "open"
  /\ row' = [row EXCEPT ![l] = "aborted"]
  /\ UNCHANGED <<lsn, op, leading, running, cursor, begun, sent, passed, cached>>

(* TrimChangelogOlderThan: the oldest visible rows go, published or not. *)
TrimChangelog ==
  \E l \in Visible :
    /\ \A k \in Visible : k >= l
    /\ row' = [row EXCEPT ![l] = "trimmed"]
    /\ UNCHANGED <<lsn, op, leading, running, cursor, begun, sent, passed, cached>>

-----------------------------------------------------------------------------
(* Publishers *)

TailLog == IF Visible = {} THEN 0 ELSE Max(Visible)

(* "Start at the current tail: don't replay history on boot." *)
PublisherStarts(n) ==
  /\ n \notin running
  /\ running' = running \cup {n}
  /\ cursor' = [cursor EXCEPT ![n] = TailLog]
  /\ begun' = [begun EXCEPT ![n] = Visible]
  /\ passed' = passed \cup {l \in Lsn : row[l] = "open" /\ l < TailLog}
  /\ UNCHANGED <<lsn, row, op, leading, sent, cached>>

LeaderMoves ==
  /\ \E n \in CfNode : leading' \in {leading \cup {n}, leading \ {n}} /\ leading' # leading
  /\ UNCHANGED <<lsn, row, op, running, cursor, begun, sent, passed, cached>>

Fresh3(n) == {l \in Visible : l > cursor[n]}

Deliver(ls) == [l \in Lsn |-> IF l \in ls THEN cached[l] \ Notified(op[l]) ELSE cached[l]]

PublishTick_Unled(n) ==
  \/ /\ n \in running \ leading /\ Fresh3(n) # {}
     /\ cursor' = [cursor EXCEPT ![n] = Max(Fresh3(n))]
     /\ UNCHANGED <<lsn, row, op, leading, running, begun, sent, passed, cached>>
  \/ /\ n \in running \cap leading /\ Fresh3(n) # {}
     /\ sent' = sent \cup Fresh3(n)
     /\ cached' = Deliver(Fresh3(n))
     /\ cursor' = [cursor EXCEPT ![n] = Max(Fresh3(n))]
     /\ UNCHANGED <<lsn, row, op, leading, running, begun, passed>>

(* One tick of the leader: one statement reads every visible row after the
   cursor, each is broadcast, and the cursor ends at the highest. *)
PublishTick(n) ==
  /\ n \in running \cap leading /\ Fresh3(n) # {}
  /\ sent' = sent \cup Fresh3(n)
  /\ cached' = Deliver(Fresh3(n))
  /\ cursor' = [cursor EXCEPT ![n] = Max(Fresh3(n))]
  /\ UNCHANGED <<lsn, row, op, leading, running, begun, passed>>

CfNext ==
  \/ AppendChangelog \/ TrimChangelog \/ LeaderMoves
  \/ \E l \in Lsn : CfCommit(l) \/ CfAbort(l)
  \/ \E n \in CfNode : PublisherStarts(n) \/ PublishTick(n)

CfSpec == CfInit /\ [][CfNext]_cfVars

-----------------------------------------------------------------------------
(* Properties *)

\* A committed change that a publisher's cursor has passed was broadcast by some
\* node, was there before that publisher started, or committed after a higher
\* number had been read: a change of leader loses nothing (RunPublisher keeps a
\* follower's cursor where it is).
InOrderSent ==
  \A n \in running, l \in Visible : l <= cursor[n] => l \in sent \cup begun[n] \cup passed

\* "fans each entry out": every committed change a publisher's cursor has passed
\* was broadcast or was there before that publisher started.
\* Refuted (no run checks it): a change with a lower number commits after the
\* cursor passed a higher one.
EveryChangeSent ==
  \A n \in running, l \in Visible : l <= cursor[n] => l \in sent \cup begun[n]

\* Once a change was broadcast no mount keeps the directory entries or directory
\* attributes it made stale (ApplyChange).
NamesInvalidated == \A l \in sent : cached[l] \cap {"name", "dir"} = {}

\* "invalidates the kernel caches affected by a peer's change so the next access
\* on this mount re-reads fresh state": nothing stale is kept.
\* Refuted (no run checks it): a link or an unlink is sent as its name, and
\* the cached attributes of the inode stay.
CachesInvalidated == \A l \in sent : cached[l] = {}

\* The reaper and the change feed over a registry whose entries lapse and a
\* leadership that moves: no live session loses its locks, no change in order
\* is lost, and what was broadcast is no longer cached (nodes.go, changefeed.go).
NodesSound == LrTypeOK /\ SteadyKeepLocks /\ CfTypeOK /\ InOrderSent /\ NamesInvalidated

=============================================================================
