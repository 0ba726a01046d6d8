----------------------------- MODULE Namespace -----------------------------
(***************************************************************************)
(* The namespace of one mlfs mount: the node, edge and slice_ref rows of   *)
(* the metadata engine, its operations (create, Unlink, Rmdir, Link,       *)
(* Rename, renameExchange) and the open handles that keep an unlinked      *)
(* inode until the last Close.                                             *)
(*                                                                         *)
(* An operation on names is one transaction, and the kernel holds the      *)
(* directories and the victim it changes locked for the whole call, so     *)
(* that two such operations on the same names never overlap.  Open and     *)
(* Release take no such lock: they interleave with the steps of Unlink.    *)
(***************************************************************************)
EXTENDS Integers, FiniteSets, Folds

CONSTANTS
    MaxIno,   \* bound on inodes allocated
    Name,     \* entry names
    MaxRefs   \* bound on open handles

ASSUME BoundsAssumption == MaxIno \in Nat \ {0} /\ MaxRefs \in Nat \ {0}

Root == 1
NoIno == 0
Ino == 1 .. MaxIno
Slot == Ino \X Name

VARIABLES
    typ,        \* node.type, "none" for an inode with no node row
    nlink,      \* node.nlink
    parent,     \* node.parent
    edge,       \* edge: <<parent, name>> -> inode
    next,       \* nextInode: inodes allocated so far (never reused)
    slices,     \* inodes with slice_ref rows
    openRefs,   \* Engine.openRefs
    sustained,  \* Engine.sustained
    opening,    \* inodes between GetAttr and OpenRef of an Open
    unlinking,  \* the Unlink in progress
    closing,    \* inodes between the decision and the transaction of a Close
    history     \* pairs <<what, inode>>: see the properties

rowVars == <<typ, nlink, parent, edge, slices>>
handleVars == <<openRefs, sustained, opening, closing>>
nsVars == <<typ, nlink, parent, edge, next, slices, openRefs, sustained, opening,
          unlinking, closing, history>>

\* Handles open, or about to be.
Handles == MapThenFoldSet(+, Cardinality(opening), LAMBDA i : openRefs[i], LAMBDA S : CHOOSE i \in S : TRUE, Ino)

NoUnlink == [step |-> "none", at |-> <<NoIno, NoIno>>, ino |-> NoIno, keep |-> FALSE]

Edges(i) == {s \in Slot : edge[s] = i}
Subdirs(p) == {n \in Name : edge[<<p, n>>] # NoIno /\ typ[edge[<<p, n>>]] = "dir"}
Empty(d) == \A n \in Name : edge[<<d, n>>] = NoIno

NsTypeOK ==
    /\ typ \in [Ino -> {"none", "dir", "file"}]
    /\ nlink \in [Ino -> Nat]
    /\ parent \in [Ino -> Ino \union {NoIno}]
    /\ edge \in [Slot -> Ino \union {NoIno}]
    /\ next \in Ino /\ \A i \in Ino : i > next => typ[i] = "none"
    /\ slices \subseteq Ino /\ sustained \subseteq Ino
    /\ opening \subseteq Ino /\ closing \subseteq Ino
    /\ openRefs \in [Ino -> 0 .. MaxRefs]
    /\ unlinking.step \in {"none", "checked", "committed"}
    /\ history \subseteq {"replaced", "raced", "crashed"} \X Ino

\* bootstrap: the root directory.
NsInit ==
    /\ typ = [i \in Ino |-> IF i = Root THEN "dir" ELSE "none"]
    /\ nlink = [i \in Ino |-> IF i = Root THEN 2 ELSE 0]
    /\ parent = [i \in Ino |-> IF i = Root THEN Root ELSE NoIno]
    /\ edge = [s \in Slot |-> NoIno]
    /\ next = Root /\ slices = {} /\ sustained = {} /\ opening = {} /\ closing = {}
    /\ openRefs = [i \in Ino |-> 0]
    /\ unlinking = NoUnlink /\ history = {}

\* The kernel's locks: no operation on names while an Unlink is in progress.
Quiet == unlinking = NoUnlink

----------------------------------------------------------------------------
(* Creating.                                                                *)

\* create: a fresh inode under a free name of an existing directory.  A file
\* created by Create is open when the call returns; Mknod's is not.
Create(p, n, t, open) ==
    /\ Quiet /\ next < MaxIno
    /\ typ[p] = "dir" /\ edge[<<p, n>>] = NoIno
    /\ open => t = "file" /\ Handles < MaxRefs
    /\ next' = next + 1
    /\ typ' = [typ EXCEPT ![next + 1] = t]
    /\ nlink' = [nlink EXCEPT ![next + 1] = IF t = "dir" THEN 2 ELSE 1,
                              ![p] = IF t = "dir" THEN @ + 1 ELSE @]
    /\ parent' = [parent EXCEPT ![next + 1] = p]
    /\ edge' = [edge EXCEPT ![<<p, n>>] = next + 1]
    /\ openRefs' = [openRefs EXCEPT ![next + 1] = IF open THEN 1 ELSE 0]
    /\ UNCHANGED <<slices, sustained, opening, unlinking, closing, history>>

\* Link: another name for a file that has one (the kernel refuses nlink 0).
Link(i, p, n) ==
    /\ Quiet
    /\ typ[i] = "file" /\ nlink[i] > 0
    /\ typ[p] = "dir" /\ edge[<<p, n>>] = NoIno
    /\ edge' = [edge EXCEPT ![<<p, n>>] = i]
    /\ nlink' = [nlink EXCEPT ![i] = @ + 1]
    /\ UNCHANGED <<typ, parent, next, slices, handleVars, unlinking, history>>

\* A write through an open handle gives the file slice_ref rows.
Write(i) ==
    /\ openRefs[i] > 0 /\ typ[i] = "file"
    /\ slices' = slices \union {i}
    /\ UNCHANGED <<typ, nlink, parent, edge, next, handleVars, unlinking, history>>

----------------------------------------------------------------------------
(* Open handles.                                                            *)

\* Open: the inode exists ...
OpenGetAttr(i) ==
    /\ typ[i] = "file" /\ i \notin opening /\ Handles < MaxRefs
    /\ opening' = opening \union {i}
    /\ UNCHANGED <<rowVars, next, openRefs, sustained, unlinking, closing, history>>

\* ... and later the handle is registered.  It comes too late for an Unlink
\* that has already looked at the handles of the inode.
OpenRef(i) ==
    /\ i \in opening
    /\ opening' = opening \ {i}
    /\ openRefs' = [openRefs EXCEPT ![i] = @ + 1]
    /\ history' = IF typ[i] = "none" \/ (unlinking.ino = i /\ ~unlinking.keep) \/ i \in closing
                  THEN history \union {<<"raced", i>>} ELSE history
    /\ UNCHANGED <<rowVars, next, sustained, unlinking, closing>>

\* Close: the last handle of a sustained inode deletes it ...
LastOfSustained_AnyHandle(i) == i \in sustained
LastOfSustained(i) == openRefs[i] = 1 /\ i \in sustained

CloseRef(i) ==
    /\ openRefs[i] > 0
    /\ openRefs' = [openRefs EXCEPT ![i] = @ - 1]
    /\ IF LastOfSustained(i)
       THEN /\ sustained' = sustained \ {i}
            /\ closing' = closing \union {i}
            /\ UNCHANGED history
       ELSE /\ UNCHANGED <<sustained, closing>>
            \* A Close between the commit of Unlink and markSustained.
            /\ history' = IF openRefs[i] = 1 /\ unlinking.ino = i /\ unlinking.keep /\ nlink[i] < 2
                          THEN history \union {<<"raced", i>>} ELSE history
    /\ UNCHANGED <<rowVars, next, opening, unlinking>>

\* deleteInodeRows: the node and every row of its data.
Deleted(i) ==
    /\ typ' = [typ EXCEPT ![i] = "none"]
    /\ parent' = [parent EXCEPT ![i] = NoIno]
    /\ slices' = slices \ {i}

\* ... in a transaction of its own.
CloseDelete(i) ==
    /\ i \in closing
    /\ closing' = closing \ {i}
    /\ Deleted(i)
    /\ nlink' = [nlink EXCEPT ![i] = 0]
    /\ UNCHANGED <<edge, next, openRefs, sustained, opening, unlinking, history>>

----------------------------------------------------------------------------
(* Unlink.                                                                  *)

\* In the transaction: the last link of an inode with handles is kept.
UnlinkCheck(p, n) ==
    LET i == edge[<<p, n>>] IN
    /\ Quiet
    /\ i # NoIno /\ typ[i] # "dir"
    /\ unlinking' = [step |-> "checked", at |-> <<p, n>>, ino |-> i,
                     keep |-> nlink[i] > 1 \/ openRefs[i] > 0]
    /\ UNCHANGED <<rowVars, next, handleVars, history>>

\* The transaction commits.
UnlinkCommit ==
    LET i == unlinking.ino IN
    /\ unlinking.step = "checked"
    /\ edge' = [edge EXCEPT ![unlinking.at] = NoIno]
    /\ nlink' = [nlink EXCEPT ![i] = @ - 1]
    /\ IF unlinking.keep THEN UNCHANGED <<typ, parent, slices>> ELSE Deleted(i)
    /\ unlinking' = IF unlinking.keep /\ nlink[i] = 1
                    THEN [unlinking EXCEPT !.step = "committed"] ELSE NoUnlink
    /\ UNCHANGED <<next, handleVars, history>>

\* markSustained: the last Close will delete the inode.
MarkSustained ==
    /\ unlinking.step = "committed"
    /\ sustained' = sustained \union {unlinking.ino}
    /\ unlinking' = NoUnlink
    /\ UNCHANGED <<rowVars, next, openRefs, opening, closing, history>>

RmdirAllowed(d) == typ[d] = "dir" /\ Empty(d)

Rmdir(p, n) ==
    LET d == edge[<<p, n>>] IN
    /\ Quiet
    /\ d # NoIno /\ RmdirAllowed(d)
    /\ edge' = [edge EXCEPT ![<<p, n>>] = NoIno]
    /\ typ' = [typ EXCEPT ![d] = "none"]
    /\ parent' = [parent EXCEPT ![d] = NoIno]
    /\ nlink' = [nlink EXCEPT ![d] = 0, ![p] = @ - 1]
    /\ UNCHANGED <<next, slices, handleVars, unlinking, history>>

----------------------------------------------------------------------------
(* Rename.                                                                  *)

\* p is d or a directory below it.
Below(p, d) ==
    \E S \in SUBSET Ino : {p, d} \subseteq S /\ \A s \in S \ {d} : s # Root /\ parent[s] \in S

Gains_NoArrival(q, x, from, to) ==
    IF typ[x] = "dir" /\ from # to /\ q = from THEN -1 ELSE 0

\* Subdirectories q gains (or loses) when x moves between two parents.
Gains(q, x, from, to) ==
    IF typ[x] = "dir" /\ from # to
    THEN (IF q = to THEN 1 ELSE 0) - (IF q = from THEN 1 ELSE 0) ELSE 0

\* The kernel keeps a directory out of its own subtree.
RenameAllowed(s, d) ==
    LET x == edge[s]
        y == edge[d]
    IN  /\ s # d /\ x # NoIno /\ x # y
        /\ typ[d[1]] = "dir"
        /\ typ[x] = "dir" => ~Below(d[1], x)
        /\ y # NoIno => /\ typ[x] = typ[y]
                        /\ typ[y] = "dir" => Empty(y)

\* An existing destination goes: an empty directory, or one link of a file,
\* whose node is deleted at zero without a look at its handles or slice_ref rows.
Replaces(y) == y # NoIno /\ (typ[y] = "dir" \/ nlink[y] = 1)

Rename(s, d) ==
    LET x == edge[s]
        y == edge[d]
        lost(i) == IF i = y THEN (IF typ[y] = "dir" THEN nlink[y] ELSE 1) ELSE 0
        gone(p) == IF p = d[1] /\ y # NoIno /\ typ[y] = "dir" THEN 1 ELSE 0
    IN  /\ Quiet
        /\ RenameAllowed(s, d)
        /\ edge' = [edge EXCEPT ![s] = NoIno, ![d] = x]
        /\ typ' = [i \in Ino |-> IF i = y /\ Replaces(y) THEN "none" ELSE typ[i]]
        /\ parent' = [i \in Ino |-> IF i = x THEN d[1]
                                    ELSE IF i = y /\ Replaces(y) THEN NoIno ELSE parent[i]]
        /\ nlink' = [i \in Ino |-> nlink[i] + Gains(i, x, s[1], d[1]) - gone(i) - lost(i)]
        /\ history' = IF y # NoIno /\ typ[y] = "file" /\ nlink[y] = 1
                      THEN history \union {<<"replaced", y>>} ELSE history
        /\ UNCHANGED <<next, slices, handleVars, unlinking>>

\* renameExchange swaps two entries.
Exchange(s, d) ==
    LET x == edge[s]
        y == edge[d]
    IN  /\ Quiet
        /\ s # d /\ x # NoIno /\ y # NoIno /\ x # y
        /\ typ[x] = "dir" => ~Below(d[1], x)
        /\ typ[y] = "dir" => ~Below(s[1], y)
        /\ edge' = [edge EXCEPT ![s] = y, ![d] = x]
        /\ parent' = [parent EXCEPT ![x] = d[1], ![y] = s[1]]
        /\ nlink' = [i \in Ino |-> nlink[i] + Gains(i, x, s[1], d[1]) + Gains(i, y, d[1], s[1])]
        /\ UNCHANGED <<typ, next, slices, handleVars, unlinking, history>>

----------------------------------------------------------------------------
(* Crash and repair.                                                        *)

\* The daemon dies: its handles and its in-memory marks are gone.
NsCrash ==
    /\ history' = history \union ({"crashed"} \X {i \in Ino : typ[i] = "file" /\ nlink[i] = 0})
    /\ openRefs' = [i \in Ino |-> 0]
    /\ sustained' = {} /\ opening' = {} /\ closing' = {} /\ unlinking' = NoUnlink
    /\ UNCHANGED <<rowVars, next>>

\* ReapOrphanedInodes (mlfs-admin fsck), on a file system with no mount.
Zombies == {i \in Ino : typ[i] # "none" /\ nlink[i] = 0 /\ i # Root /\ Edges(i) = {}}

Reap ==
    /\ Quiet /\ opening = {} /\ closing = {} /\ \A i \in Ino : openRefs[i] = 0
    /\ typ' = [i \in Ino |-> IF i \in Zombies THEN "none" ELSE typ[i]]
    /\ parent' = [i \in Ino |-> IF i \in Zombies THEN NoIno ELSE parent[i]]
    /\ slices' = slices \ Zombies
    /\ UNCHANGED <<nlink, edge, next, handleVars, unlinking, history>>

NsNext ==
    \/ \E p \in {p \in Ino : typ[p] = "dir"}, n \in Name :
          \/ \E t \in {"dir", "file"}, open \in BOOLEAN : Create(p, n, t, open)
          \/ \E i \in Ino : Link(i, p, n)
          \/ UnlinkCheck(p, n) \/ Rmdir(p, n)
    \/ UnlinkCommit \/ MarkSustained
    \/ \E i \in Ino : Write(i) \/ OpenGetAttr(i) \/ OpenRef(i) \/ CloseRef(i) \/ CloseDelete(i)
    \/ \E s, d \in {s \in Slot : typ[s[1]] = "dir"} : Rename(s, d) \/ Exchange(s, d)
    \/ NsCrash \/ Reap

NsSpec == NsInit /\ [][NsNext]_nsVars

----------------------------------------------------------------------------
(* Properties.                                                              *)

\* The tree: every entry names a node under a directory, every directory but the
\* root has one entry, that of its parent, and the root is above all of them.
\* Rename and renameExchange keep it so in one transaction.
Tree ==
    /\ \A s \in Slot : edge[s] # NoIno => typ[s[1]] = "dir" /\ typ[edge[s]] # "none"
    /\ \A d \in Ino \ {Root} : typ[d] = "dir" =>
          \E n \in Name : Edges(d) = {<<parent[d], n>>}
    /\ \A S \in SUBSET {d \in Ino \ {Root} : typ[d] = "dir"} :
          S # {} => \E d \in S : parent[d] \notin S

\* The link counts the operations maintain by increments agree with the entries:
\* a file's nlink is the number of its names, a directory's is two and one for
\* each subdirectory.
LinkCounts ==
    \A i \in Ino :
        /\ typ[i] = "file" => nlink[i] = Cardinality(Edges(i))
        /\ typ[i] = "dir" => nlink[i] = 2 + Cardinality(Subdirs(i))

\* What Unlink, Open and Close promise: an open inode keeps its node until the
\* last handle is closed, unless a rename replaced it or an Open raced an Unlink.
HandlesKeepNodes ==
    \A i \in Ino : openRefs[i] > 0 => typ[i] # "none" \/ <<"replaced", i>> \in history
                                                      \/ <<"raced", i>> \in history

\* The same with no exception: docs/data-model.md, "Open-unlinked".
\* Refuted (no run checks it): a rename deletes the node it replaces without a
\* look at its handles.
OpenNodesKept == \A i \in Ino : openRefs[i] > 0 => typ[i] # "none"

\* An inode without a name is about to be deleted: its last Close will do it,
\* unless the daemon crashed or a Close overtook markSustained.
NamelessAreHeld ==
    \A i \in Ino : typ[i] = "file" /\ nlink[i] = 0 =>
        \/ openRefs[i] > 0 /\ (i \in sustained \/ unlinking.ino = i)
        \/ i \in closing
        \/ <<"crashed", i>> \in history \/ <<"raced", i>> \in history

\* slice_ref rows belong to a node, so that the chunks of a deleted file become
\* garbage, unless a rename deleted the node alone.
RowsHaveNodes == \A i \in slices : typ[i] # "none" \/ <<"replaced", i>> \in history

\* The namespace tables agree with each other after every operation: one tree,
\* exact link counts, no rows of deleted nodes (ops.go, rename.go).
NamespaceSound == NsTypeOK /\ Tree /\ LinkCounts /\ RowsHaveNodes

\* Open handles and the nodes they hold: none is deleted under a handle, none
\* without a name is left behind (Unlink, Open, Close).
HandlesSound == HandlesKeepNodes /\ NamelessAreHeld

=============================================================================
