------------------------------ MODULE Overlay ------------------------------
(***************************************************************************)
(* Slice overlay resolution of mlfs (fileio.go: resolve, subtract,         *)
(* addCovered): which bytes of which slice a read of a chunk returns.      *)
(* Intervals are half-open; slices are in write order, the newest last.    *)
(***************************************************************************)
EXTENDS Integers, Sequences, SequencesExt

\* seg.id of a hole.
NoSlice == 0

Larger(a, b) == IF a < b THEN b ELSE a
Smaller(a, b) == IF a < b THEN a ELSE b

\* subtract: the parts of [a,b) in no covered interval.
Subtract(a, b, covered) ==
    LET cut(st, c) ==
            IF c.b <= st.cur \/ c.a >= b THEN st
            ELSE [cur |-> Larger(c.b, st.cur),
                  res |-> IF c.a > st.cur
                          THEN Append(st.res, [a |-> st.cur, b |-> Smaller(c.a, b)])
                          ELSE st.res]
        last == FoldLeft(cut, [cur |-> a, res |-> <<>>], covered)
    IN  IF last.cur < b THEN Append(last.res, [a |-> last.cur, b |-> b]) ELSE last.res

\* addCovered: insert [a,b), sort by the left end and merge what touches.
AddCovered(covered, g) ==
    LET merge(m, c) ==
            IF m # <<>> /\ c.a <= Last(m).b
            THEN [m EXCEPT ![Len(m)].b = Larger(@, c.b)]
            ELSE Append(m, c)
    IN  FoldLeft(merge, <<>>, SortSeq(Append(covered, g), LAMBDA x, y : x.a < y.a))

\* One slice of resolve's loop: its uncovered parts within [lo,hi) are visible.
AddSlice(st, s, lo, hi) ==
    LET a == Larger(s.pos, lo)
        b == Smaller(s.pos + s.len, hi)
        part(t, g) ==
            [covered |-> AddCovered(t.covered, g),
             out |-> Append(t.out, [start |-> g.a, end |-> g.b, id |-> s.sid,
                                    srcOff |-> s.off + (g.a - s.pos)])]
    IN  IF a >= b THEN st ELSE FoldLeft(part, st, Subtract(a, b, st.covered))

\* resolve: newest first, then the holes, in order.
Resolve(slices, lo, hi) ==
    LET st == FoldLeft(LAMBDA t, s : AddSlice(t, s, lo, hi),
                       [covered |-> <<>>, out |-> <<>>], Reverse(slices))
        hole(out, g) == Append(out, [start |-> g.a, end |-> g.b, id |-> NoSlice, srcOff |-> 0])
        all == FoldLeft(hole, st.out, Subtract(lo, hi, st.covered))
    IN  SortSeq(all, LAMBDA x, y : x.start < y.start)

=============================================================================
