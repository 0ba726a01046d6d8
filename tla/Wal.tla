-------------------------------- MODULE Wal --------------------------------
(***************************************************************************)
(* mlfs's write-ahead log (mlfs/internal/wal): segments of framed records. *)
(* A frame is its sequence number, or Torn where a write was cut short.    *)
(***************************************************************************)
EXTENDS Naturals, Sequences, FiniteSets, SequencesExt, FiniteSetsExt

CONSTANTS
    SegmentSize,          \* frames at which a segment rolls
    MaxSeq, MaxTorn, MaxOpen   \* bounds: records, failed writes, restarts

ASSUME WalAssumption == SegmentSize \in Nat \ {0} /\ {MaxSeq, MaxTorn, MaxOpen} \subseteq Nat

VARIABLES
    segs,     \* the segment files, oldest first: [start, frames]
    opened,   \* the log is open
    seq,      \* in memory: last sequence number
    maxSeq,   \* in memory: highest sequence number of each segment
    curLen,   \* in memory: frames counted in the current segment
    torn, opens,
    \* History.
    logged,   \* sequence numbers whose Append returned
    dropped,  \* ... and that a checkpoint covered
    hurt      \* an Append failed half-way and the log was used on

walVars == <<segs, opened, seq, maxSeq, curLen, torn, opens, logged, dropped, hurt>>

Torn == 0
Segment == [start : Nat \ {0}, frames : Seq(Nat)]

WalTypeOK ==
    /\ segs \in Seq(Segment) /\ opened \in BOOLEAN
    /\ seq \in 0 .. MaxSeq /\ curLen \in Nat
    /\ opened => Len(maxSeq) = Len(segs) /\ segs # <<>>
    /\ logged \subseteq 1 .. MaxSeq

\* An empty directory: Open creates the first segment.
WalInit ==
    /\ segs = <<[start |-> 1, frames |-> <<>>]>> /\ opened = TRUE
    /\ seq = 0 /\ maxSeq = <<0>> /\ curLen = 0
    /\ torn = 0 /\ opens = 0 /\ logged = {} /\ dropped = {} /\ hurt = FALSE

\* The records a scan of a segment reads: up to the first bad frame.
Valid(frames) ==
    LET bad == {i \in DOMAIN frames : frames[i] = Torn}
    IN IF bad = {} THEN frames ELSE SubSeq(frames, 1, Min(bad) - 1)

HighestSeq(frames) == Max({0} \cup Range(Valid(frames)))

\* Replay: every valid record, segment by segment.
Replayed == FlattenSeq([i \in DOMAIN segs |-> Valid(segs[i].frames)])

----------------------------------------------------------------------------
\* rollLocked, when the current segment is full.
Rolled == IF curLen < SegmentSize THEN segs
          ELSE Append(segs, [start |-> seq + 1, frames |-> <<>>])
RolledMax == IF curLen < SegmentSize THEN maxSeq ELSE Append(maxSeq, 0)
RolledLen == IF curLen < SegmentSize THEN curLen ELSE 0

Put(frame) == segs' = [Rolled EXCEPT ![Len(Rolled)].frames = Append(@, frame)]

AppendRecord ==
    /\ opened /\ seq < MaxSeq
    /\ seq' = seq + 1
    /\ Put(seq + 1)
    /\ maxSeq' = [RolledMax EXCEPT ![Len(RolledMax)] = seq + 1]
    /\ curLen' = RolledLen + 1
    /\ logged' = logged \cup {seq + 1}
    /\ UNCHANGED <<opened, torn, opens, dropped, hurt>>

\* The write or the sync fails: the frame is cut short, or whole but not
\* acknowledged.  The number is spent and the caller gets the error.
AppendFails ==
    /\ opened /\ seq < MaxSeq /\ torn < MaxTorn
    /\ torn' = torn + 1
    /\ seq' = seq + 1
    /\ \/ Put(Torn) /\ hurt' = TRUE
       \/ Put(seq + 1) /\ UNCHANGED hurt
    /\ maxSeq' = RolledMax /\ curLen' = RolledLen
    /\ UNCHANGED <<opened, opens, logged, dropped>>

\* The process dies, possibly inside an Append.
Die ==
    /\ opened
    /\ opened' = FALSE
    /\ \/ UNCHANGED <<segs, torn>>
       \/ torn < MaxTorn /\ torn' = torn + 1 /\ Put(Torn)
    /\ UNCHANGED <<seq, maxSeq, curLen, opens, logged, dropped, hurt>>

Truncate_Keep(s) == s

\* load: scan every segment, truncate the torn tail of the last one.
Truncate(s) == [s EXCEPT ![Len(s)].frames = Valid(@)]

Open ==
    /\ ~opened /\ opens < MaxOpen
    /\ opens' = opens + 1
    /\ opened' = TRUE
    /\ segs' = Truncate(segs)
    /\ maxSeq' = [i \in DOMAIN segs |-> HighestSeq(segs[i].frames)]
    /\ seq' = Max({HighestSeq(segs[i].frames) : i \in DOMAIN segs} \cup {0})
    /\ curLen' = Len(segs'[Len(segs)].frames)
    /\ UNCHANGED <<torn, logged, dropped, hurt>>

\* A clean stop: everything is committed, so segments but the current one go.
CanDrop(i, upTo) == i < Len(segs) /\ maxSeq[i] # 0 /\ maxSeq[i] <= upTo

Checkpoint(upTo) ==
    LET keep == SetToSortSeq({i \in DOMAIN segs : ~CanDrop(i, upTo)}, <)
    IN /\ opened
       /\ segs' = [k \in DOMAIN keep |-> segs[keep[k]]]
       /\ maxSeq' = [k \in DOMAIN keep |-> maxSeq[keep[k]]]
       /\ dropped' = dropped \cup {n \in logged : n <= upTo}
       /\ opened' = FALSE
       /\ UNCHANGED <<seq, curLen, torn, opens, logged, hurt>>

WalNext ==
    \/ AppendRecord \/ AppendFails \/ Die \/ Open
    \/ Checkpoint(seq)

----------------------------------------------------------------------------
\* A record is durable when Append returns: a replay finds it, until a
\* checkpoint covers it.
\* Refuted (no run checks it): a failed append leaves a torn frame in the
\* segment, and the records after it are not read back.
LoggedReplayed == logged \ dropped \subseteq Range(Replayed)

\* The same for a log no Append failed half-way in, across crashes inside
\* Append, torn tails, rolls and checkpoints.
CleanLogReplayed == ~hurt => LoggedReplayed

\* Replay visits the records in order and none twice, although sequence
\* numbers are handed out again after a crash.
ReplayOrdered == \A i, j \in DOMAIN Replayed : i < j => Replayed[i] < Replayed[j]

\* The write-ahead log after any number of crashes: complete and in order.
LogSound == WalTypeOK /\ CleanLogReplayed /\ ReplayOrdered

=============================================================================
