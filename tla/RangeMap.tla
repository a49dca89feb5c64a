------------------------------ MODULE RangeMap ------------------------------
(***************************************************************************)
(* include/runtime/collections/rangemap.h: a map whose keys are the        *)
(* half-open ranges [start, end), kept in a red-black tree ordered by      *)
(* Range::operator<.  Key values are integers: only their order is used.   *)
(***************************************************************************)
EXTENDS Integers, SequencesExt

Rng(s, e) == [start |-> s, end |-> e]

RangeLess(a, b) == IF a.start = b.start THEN a.end < b.end ELSE a.start < b.start

Tree == INSTANCE RBTree WITH Less <- RangeLess

EmptyRange(r) == r.start >= r.end
RangeContains(r, k) == k >= r.start /\ k < r.end
RangeOverlaps(a, b) == ~(b.end <= a.start) /\ ~(a.end <= b.start)

\* get_key_value: the entry whose range holds k, as a sequence of at most one.
RECURSIVE get_key_value(_, _)
get_key_value(t, k) ==
  IF Tree!Empty(t) THEN <<>>
  ELSE IF RangeContains(t.key, k) THEN <<[key |-> t.key, val |-> t.val]>>
  ELSE IF k < t.key.start THEN get_key_value(t.lft, k)
  ELSE get_key_value(t.rgt, k)

\* Mutant: ranges that only touch count as overlapping.
overlaps_Touching(t, r) ==
  \E i \in 1..t.s : LET k == Tree!Entries(t)[i].key IN k.end >= r.start /\ r.end >= k.start

RECURSIVE overlaps(_, _)
overlaps(t, r) ==
  IF Tree!Empty(t) THEN FALSE
  ELSE IF t.key.end <= r.start THEN overlaps(t.rgt, r)
  ELSE IF r.end <= t.key.start THEN overlaps(t.lft, r)
  ELSE TRUE

RECURSIVE overlapping_ranges(_, _)
overlapping_ranges(t, r) ==
  LET k == t.key
      here == <<[key |-> k, val |-> t.val]>>
      L == overlapping_ranges(t.lft, r)
      R == overlapping_ranges(t.rgt, r)
  IN  IF Tree!Empty(t) THEN <<>>
      ELSE IF k.end <= r.start THEN R
      ELSE IF r.end <= k.start THEN L
      ELSE IF r.start < k.start /\ k.end < r.end THEN L \o here \o R
      ELSE IF k.start <= r.start /\ r.end <= k.end THEN here
      ELSE IF k.start <= r.start THEN here \o R
      ELSE L \o here

\* Mutant: neighbours that share a bound are not looked for.
overlapping_or_adjacent_Overlapping(t, r) == overlapping_ranges(t, r)

\* The entries that overlap r or share a bound with it, in order; which
\* subtrees are searched is decided as the code decides it.
RECURSIVE overlapping_or_adjacent(_, _)
overlapping_or_adjacent(t, r) ==
  LET k == t.key
      here == <<[key |-> k, val |-> t.val]>>
      L == overlapping_or_adjacent(t.lft, r)
      R == overlapping_or_adjacent(t.rgt, r)
  IN  IF Tree!Empty(t) THEN <<>>
      ELSE IF k.end < r.start THEN R
      ELSE IF r.end < k.start THEN L
      ELSE IF r.start <= k.start /\ k.end <= r.end THEN L \o here \o R
      ELSE IF k.start < r.start /\ r.end < k.end THEN here
      ELSE IF k.start < r.start THEN here \o R
      ELSE L \o here

\* Mutant: the parts of a cut range that stick out are dropped.
PutIf_Never(t, s, e, v) == t

\* tmpmap = tmpmap.inserted([s, e), v), when the range is not empty
PutIf(t, s, e, v) == IF s < e THEN Tree!inserted(t, Rng(s, e), v) ELSE t

\* The loop of inserted over the relevant ranges: the bounds of the inserted
\* range grow over neighbours with the same value, other overlapped ranges
\* keep what sticks out.
RECURSIVE InsertLoop(_, _, _, _, _, _)
InsertLoop(t, ranges, is, ie, r, v) ==
  IF ranges = <<>> THEN Tree!inserted(t, Rng(is, ie), v)
  ELSE LET rr == Head(ranges).key
           rv == Head(ranges).val
           rest == Tail(ranges)
           gone == Tree!deleted(t, rr)
       IN  IF v = rv
           THEN InsertLoop(gone, rest, IF rr.start < is THEN rr.start ELSE is,
                           IF rr.end > ie THEN rr.end ELSE ie, r, v)
           ELSE IF RangeOverlaps(r, rr)
           THEN InsertLoop(PutIf(PutIf(gone, rr.start, is, rv), ie, rr.end, rv),
                           rest, is, ie, r, v)
           ELSE InsertLoop(t, rest, is, ie, r, v)

inserted(t, r, v) ==
  InsertLoop(t, overlapping_or_adjacent(t, r), r.start, r.end, r, v)

RECURSIVE DeleteLoop(_, _, _)
DeleteLoop(t, ranges, r) ==
  IF ranges = <<>> THEN t
  ELSE LET rr == Head(ranges).key
           rv == Head(ranges).val
       IN  DeleteLoop(PutIf(PutIf(Tree!deleted(t, rr), rr.start, r.start, rv),
                            r.end, rr.end, rv),
                      Tail(ranges), r)

deleted(t, r) == DeleteLoop(t, overlapping_ranges(t, r), r)

\* get_intersection_ranges: two cursors over the entries of both maps.
RECURSIVE Intersect(_, _)
Intersect(r1, r2) ==
  IF r1 = <<>> \/ r2 = <<>> THEN <<>>
  ELSE LET a == Head(r1)
           b == Head(r2)
           s == IF a.key.start > b.key.start THEN a.key.start ELSE b.key.start
           e == IF a.key.end < b.key.end THEN a.key.end ELSE b.key.end
           now == IF s < e /\ a.val = b.val THEN <<Rng(s, e)>> ELSE <<>>
       IN  now \o (IF a.key.end < b.key.end THEN Intersect(Tail(r1), r2)
                                            ELSE Intersect(r1, Tail(r2)))

intersection_ranges(t, m) == Intersect(Tree!Entries(t), Tree!Entries(m))

\* concat: <<>> stands for the invalid argument error.
RECURSIVE ConcatLoop(_, _, _)
ConcatLoop(t, res, es) ==
  IF es = <<>> THEN <<res>>
  ELSE IF overlaps(t, Head(es).key) THEN <<>>
  ELSE ConcatLoop(t, inserted(res, Head(es).key, Head(es).val), Tail(es))

concat(t, m) == ConcatLoop(t, t, Tree!Entries(m))

RECURSIVE DeleteAll(_, _)
DeleteAll(t, rs) == IF rs = <<>> THEN t ELSE DeleteAll(deleted(t, Head(rs)), Tail(rs))

difference(t, m) == DeleteAll(t, intersection_ranges(t, m))

\* Mutant: only the number of ranges is compared.
inclusion_Count(t, m) == Len(intersection_ranges(t, m)) = t.s

\* inclusion: this map's ranges are, one by one, the intersection's.
inclusion(t, m) ==
  intersection_ranges(t, m) = [i \in 1..t.s |-> Tree!Entries(t)[i].key]

RECURSIVE InsertAll(_, _)
InsertAll(t, es) ==
  IF es = <<>> THEN t ELSE InsertAll(inserted(t, Head(es).key, Head(es).val), Tail(es))

\* AbstractRangeMapIterator: a stack of subtrees, the leftmost on top.
RECURSIVE update_stack_state(_, _)
update_stack_state(stack, t) ==
  IF Tree!Empty(t) THEN stack ELSE update_stack_state(<<t>> \o stack, t.lft)
Begin(t) == update_stack_state(<<>>, t)
Advance(stack) == update_stack_state(Tail(stack), Head(stack).rgt)
has_next(stack) == stack # <<>>

RECURSIVE Iterate(_)
Iterate(stack) ==
  IF ~has_next(stack) THEN <<>>
  ELSE <<[key |-> Head(stack).key, val |-> Head(stack).val]>> \o Iterate(Advance(stack))
=============================================================================
