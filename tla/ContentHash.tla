---------------------------- MODULE ContentHash ----------------------------
(***************************************************************************)
(* The whole-file content hash of mlfs (fuse/contenthash.go and the FUSE   *)
(* handlers of bridge.go that feed it): a running digest per inode, kept   *)
(* beside the data by Write, dropped to a recompute by anything else, and  *)
(* stamped on the inode by Flush and Release.                              *)
(*                                                                         *)
(* One inode on one mount.  A digest is the byte sequence it was computed  *)
(* over; 0 is the byte of a hole.  The kernel's inode lock lets one        *)
(* Write, SetAttr or CopyFileRange of the file run at a time; Flush and    *)
(* Release take no such lock.                                              *)
(***************************************************************************)
EXTENDS Naturals, Sequences

CONSTANTS
    Closer,      \* concurrent Flush and Release requests
    FileMax,     \* bound on the file's length
    WriteLens,   \* lengths of the writes issued
    MaxHashOps,  \* bound on data operations
    MaxCloses    \* bound on Flush and Release requests

VARIABLES
    content,   \* the file's bytes
    stamped,   \* node.content_hash
    tracker,   \* hashStates[ino]
    writer,    \* the data operation in progress
    closer,    \* the Flush and Release requests in progress
    missed,    \* history: a failed write changed bytes the tracker had absorbed
    spent      \* data operations and closes issued

chVars == <<content, stamped, tracker, writer, closer, missed, spent>>

Unset == [set |-> FALSE, of |-> <<>>]
Stamp(b) == [set |-> TRUE, of |-> b]
Untracked == [on |-> FALSE, valid |-> TRUE, running |-> <<>>]
NewState == [Untracked EXCEPT !.on = TRUE]
NoWriter == [pc |-> "idle", at |-> 0, bytes |-> <<>>]
NoCloser == [pc |-> "idle", drop |-> FALSE, digest |-> <<>>, fast |-> FALSE, calm |-> TRUE]

\* The file after bytes land at an offset; a gap before it is a hole.
Patched(at, bytes) ==
    [i \in 1 .. (IF at + Len(bytes) > Len(content) THEN at + Len(bytes) ELSE Len(content)) |->
        IF i > at /\ i <= at + Len(bytes) THEN bytes[i - at]
        ELSE IF i <= Len(content) THEN content[i] ELSE 0]

Resized(n) == [i \in 1 .. n |-> IF i <= Len(content) THEN content[i] ELSE 0]

\* hashState.note: only a write at the watermark extends the digest.
Noted_AnyBehind(t, at, bytes) ==
    IF ~t.valid THEN t
    ELSE IF at = Len(t.running) THEN [t EXCEPT !.running = @ \o bytes]
    ELSE [t EXCEPT !.valid = at < Len(t.running)]

Noted(t, at, bytes) ==
    IF ~t.valid THEN t
    ELSE IF at = Len(t.running) THEN [t EXCEPT !.running = @ \o bytes]
    ELSE [t EXCEPT !.valid = FALSE]

\* A close that was under way saw the file in between.
Disturbed == [c \in Closer |-> IF closer[c].pc = "idle" THEN closer[c] ELSE [closer[c] EXCEPT !.calm = FALSE]]

ChInit ==
    /\ \E old \in {<<>>, <<1, 1>>} : content = old /\ stamped = IF old = <<>> THEN Unset ELSE Stamp(old)
    /\ tracker = Untracked /\ writer = NoWriter
    /\ closer = [c \in Closer |-> NoCloser]
    /\ missed = FALSE /\ spent = [ops |-> 0, closes |-> 0]

Issue == writer.pc = "idle" /\ spent.ops < MaxHashOps /\ spent' = [spent EXCEPT !.ops = @ + 1]

\* Bridge.Write: the data lands, then noteWriteHash folds it in.  The bytes
\* of a write are its number, so that no two writes are confused.
Write(at, n) ==
    LET bytes == [i \in 1 .. n |-> spent.ops + 2] IN
    /\ Issue /\ at + n <= FileMax
    /\ content' = Patched(at, bytes)
    /\ writer' = [pc |-> "note", at |-> at, bytes |-> bytes]
    /\ closer' = Disturbed
    /\ UNCHANGED <<stamped, tracker, missed>>

NoteWriteHash ==
    /\ writer.pc = "note"
    /\ tracker' = Noted(IF tracker.on THEN tracker ELSE NewState, writer.at, writer.bytes)
    /\ writer' = NoWriter
    /\ closer' = Disturbed
    /\ UNCHANGED <<content, stamped, missed, spent>>

\* Files.Write, or CopyFileRange, fails after its first chunk landed: EIO,
\* nothing is noted or invalidated.
WriteFails(at) ==
    /\ Issue /\ at + 1 <= FileMax
    /\ content' = Patched(at, <<spent.ops + 2>>)
    /\ missed' = (missed \/ tracker.on)
    /\ closer' = Disturbed
    /\ UNCHANGED <<stamped, tracker, writer>>

\* SetAttr with a size, and CopyFileRange into the file: the bytes change,
\* then invalidateHash.
Truncate(n) ==
    /\ Issue /\ n # Len(content)
    /\ content' = Resized(n)
    /\ writer' = [NoWriter EXCEPT !.pc = "invalidate"]
    /\ closer' = Disturbed
    /\ UNCHANGED <<stamped, tracker, missed>>

CopyFileRange(at) ==
    /\ Issue /\ at + 1 <= FileMax
    /\ content' = Patched(at, <<spent.ops + 2>>)
    /\ writer' = [NoWriter EXCEPT !.pc = "invalidate"]
    /\ closer' = Disturbed
    /\ UNCHANGED <<stamped, tracker, missed>>

\* invalidateHash: an untracked inode is left alone.
InvalidateHash ==
    /\ writer.pc = "invalidate"
    /\ tracker' = IF tracker.on THEN [tracker EXCEPT !.valid = FALSE] ELSE tracker
    /\ writer' = NoWriter
    /\ closer' = Disturbed
    /\ UNCHANGED <<content, stamped, missed, spent>>

----------------------------------------------------------------------------
(* Flush and Release: finalizeHash, then for Release the eviction.          *)

\* Flush or Release arrives and reads the running digest.
Finalize(c, drop) ==
    /\ closer[c].pc = "idle" /\ spent.closes < MaxCloses
    /\ spent' = [spent EXCEPT !.closes = @ + 1]
    /\ closer' = [closer EXCEPT ![c] =
          [pc |-> IF tracker.on THEN "length" ELSE "done", drop |-> drop,
           digest |-> tracker.running, fast |-> tracker.valid, calm |-> writer.pc = "idle"]]
    /\ UNCHANGED <<content, stamped, tracker, writer, missed>>

\* The running digest is used only if it covers the whole file.
Usable(c) == closer[c].fast /\ Len(closer[c].digest) = Len(content)

CheckLength(c) ==
    /\ closer[c].pc = "length"
    /\ closer' = [closer EXCEPT ![c].pc = IF Usable(c) THEN "stamp" ELSE "hash"]
    /\ UNCHANGED <<content, stamped, tracker, writer, missed, spent>>

HashFile(c) ==
    /\ closer[c].pc = "hash"
    /\ closer' = [closer EXCEPT ![c].pc = "stamp", ![c].digest = content]
    /\ UNCHANGED <<content, stamped, tracker, writer, missed, spent>>

\* Reading the file or storing the hash fails: only logged.
HashFails(c) ==
    /\ closer[c].pc \in {"hash", "stamp"}
    /\ closer' = [closer EXCEPT ![c].pc = "done", ![c].calm = FALSE]
    /\ UNCHANGED <<content, stamped, tracker, writer, missed, spent>>

SetContentHash(c) ==
    /\ closer[c].pc = "stamp"
    /\ stamped' = Stamp(closer[c].digest)
    /\ closer' = [Disturbed EXCEPT ![c] = [closer[c] EXCEPT !.pc = "done"]]
    /\ UNCHANGED <<content, tracker, writer, missed, spent>>

\* Release evicts the inode's state, whoever else uses it.
EndClose(c) ==
    /\ closer[c].pc = "done"
    /\ tracker' = IF closer[c].drop THEN Untracked ELSE tracker
    /\ missed' = (missed /\ ~closer[c].drop)
    /\ closer' = [(IF closer[c].drop THEN Disturbed ELSE closer) EXCEPT ![c] = NoCloser]
    /\ UNCHANGED <<content, stamped, writer, spent>>

ChNext ==
    \/ \E at \in 0 .. FileMax, n \in WriteLens : Write(at, n)
    \/ \E at \in 0 .. FileMax : WriteFails(at) \/ CopyFileRange(at)
    \/ \E n \in 0 .. FileMax : Truncate(n)
    \/ NoteWriteHash \/ InvalidateHash
    \/ \E c \in Closer, drop \in BOOLEAN : Finalize(c, drop)
    \/ \E c \in Closer : CheckLength(c) \/ HashFile(c) \/ HashFails(c) \/ SetContentHash(c) \/ EndClose(c)

----------------------------------------------------------------------------
\* A valid digest never runs past the operations that fed it.
ChTypeOK ==
    /\ Len(content) <= FileMax /\ tracker.on \in BOOLEAN /\ missed \in BOOLEAN
    /\ ~tracker.on => tracker = Untracked
    /\ writer.pc \in {"idle", "note", "invalidate"}
    /\ \A c \in Closer : closer[c].pc \in {"idle", "length", "hash", "stamp", "done"}

\* After a Flush or Release that overlapped no other request, of a file
\* written through this mount, the stamped hash is that of the file's bytes,
\* after any mix of appends, overwrites, gaps, truncations, copies and
\* evictions; a failed write that left bytes behind is the exception.
StampExact ==
    \A c \in Closer :
        closer[c].pc = "done" /\ closer[c].calm /\ tracker.on /\ ~missed =>
            stamped = Stamp(content)

\* The comment on invalidateHash: an untracked inode "recomputes on
\* finalize".  After a quiet close the stamp, if there is one, is right.
\* Refuted (no run checks it): a truncation leaves the stored hash, and a file
\* with no state is not recomputed at its close.
UntrackedRecomputed ==
    \A c \in Closer :
        closer[c].pc = "done" /\ closer[c].calm /\ ~missed /\ stamped.set => stamped = Stamp(content)

\* The whole-file hash of a mount: well formed, and right at a quiet close.
HashSound == ChTypeOK /\ StampExact

=============================================================================
