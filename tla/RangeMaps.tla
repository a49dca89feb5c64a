----------------------------- MODULE RangeMaps ------------------------------
(***************************************************************************)
(* The RANGEMAP hooks of runtime/collections/rangemaps.cpp as a program    *)
(* that keeps one range map and replaces it with what a hook returns.  The *)
(* second argument of the hooks on two maps is a map the program has built *)
(* from one or two ranges (Operands).  A hook given an argument it rejects *)
(* ends the run (KLLVM_HOOK_INVALID_ARGUMENT): no step.                    *)
(***************************************************************************)
EXTENDS RangeMap

CONSTANTS
  Keys,           \* the key values, integers 0 .. n
  Vals,           \* the mapped values
  None,           \* stands for a key without a value
  OperandRanges   \* the ranges the second operands are built from

ASSUME RangeMapsAssumption ==
  /\ Keys \subseteq Nat /\ IsFiniteSet(Keys)
  /\ None \notin Vals
  /\ \A r \in OperandRanges : r.start < r.end

VARIABLE map

Ranges == {Rng(s, e) : s \in Keys, e \in Keys}
Proper == {r \in Ranges : ~EmptyRange(r)}

hook_RANGEMAP_unit == Tree!Leaf("B")
hook_RANGEMAP_element(r, v) == inserted(hook_RANGEMAP_unit, r, v)

Operands ==
  LET one == {hook_RANGEMAP_element(r, v) : r \in OperandRanges, v \in Vals}
  IN  one \cup {inserted(m, r, v) : m \in one, r \in OperandRanges, v \in Vals}

hook_RANGEMAP_update(m, r, v) == inserted(m, r, v)
hook_RANGEMAP_remove(m, r) == deleted(m, r)

\* The larger map takes the entries of the smaller; <<>> is the error.
hook_RANGEMAP_concat(m1, m2) == IF m1.s >= m2.s THEN concat(m1, m2) ELSE concat(m2, m1)

hook_RANGEMAP_difference(m1, m2) == difference(m1, m2)
hook_RANGEMAP_inclusion(m1, m2) == inclusion(m1, m2)
hook_RANGEMAP_updateAll(m1, m2) == InsertAll(m1, Iterate(Begin(m2)))

hook_RANGEMAP_lookup_null(m, k) ==
  LET e == get_key_value(m, k) IN IF e = <<>> THEN None ELSE e[1].val
hook_RANGEMAP_in_keys(m, k) == get_key_value(m, k) # <<>>
hook_RANGEMAP_lookupOrDefault(m, k, d) ==
  LET v == hook_RANGEMAP_lookup_null(m, k) IN IF v = None THEN d ELSE v
hook_RANGEMAP_find_range(m, k) == get_key_value(m, k)[1].key

hook_RANGEMAP_keys_list(m) == [i \in 1..Len(Iterate(Begin(m))) |-> Iterate(Begin(m))[i].key]
hook_RANGEMAP_keys(m) == ToSet(hook_RANGEMAP_keys_list(m))
hook_RANGEMAP_values(m) == [i \in 1..Len(Iterate(Begin(m))) |-> Iterate(Begin(m))[i].val]
hook_RANGEMAP_size(m) == m.s
hook_RANGEMAP_choice(m) == m.key.start
hook_RANGEMAP_choiceRng(m) == m.key

\* removeAll takes a set of ranges and meets them in the set's order.
hook_RANGEMAP_removeAll(m, rs) == DeleteAll(m, SetToSeq(rs))

\* Both iterators advance together; equal only when both end.
RECURSIVE SameEntries(_, _)
SameEntries(it1, it2) ==
  IF ~has_next(it1) \/ ~has_next(it2) THEN ~(has_next(it1) \/ has_next(it2))
  ELSE /\ Head(it1).key = Head(it2).key /\ Head(it1).val = Head(it2).val
       /\ SameEntries(Advance(it1), Advance(it2))
hook_RANGEMAP_eq(m1, m2) == SameEntries(Begin(m1), Begin(m2))

\* rangemap_map: every entry of the old map is inserted with its new value.
rangemap_map(m, process) ==
  InsertAll(m, [i \in 1..m.s |-> LET e == Iterate(Begin(m))[i]
                                 IN  [key |-> e.key, val |-> process[e.val]]])
-----------------------------------------------------------------------------
Init == map = hook_RANGEMAP_unit

UpdateRange(r, v) == map' = hook_RANGEMAP_update(map, r, v)
RemoveRange(r) == map' = hook_RANGEMAP_remove(map, r)
RemoveAll(r) ==
  /\ \E q \in ToSet(hook_RANGEMAP_keys_list(map)) :
       map' = hook_RANGEMAP_removeAll(map, {r, q})
Concat(m) ==
  LET c == hook_RANGEMAP_concat(map, m) IN c # <<>> /\ map' = c[1]
Difference(m) == map' = hook_RANGEMAP_difference(map, m)
UpdateAll(m) == map' = hook_RANGEMAP_updateAll(map, m)
MapValues(process) == map' = rangemap_map(map, process)

Next ==
  \/ \E r \in Proper : RemoveRange(r) \/ RemoveAll(r) \/ \E v \in Vals : UpdateRange(r, v)
  \/ \E m \in Operands : Concat(m) \/ Difference(m) \/ UpdateAll(m)
  \/ \E process \in [Vals -> Vals] : MapValues(process)

Spec == Init /\ [][Next]_map
-----------------------------------------------------------------------------
\* The partial map a tree stands for, read off its entries.
Value(m, k) ==
  LET es == {i \in 1..m.s : RangeContains(Tree!Entries(m)[i].key, k)}
  IN  IF es = {} THEN None ELSE Tree!Entries(m)[CHOOSE i \in es : TRUE].val
Denotes(m) == [k \in Keys |-> Value(m, k)]

\* The trees keep the shape the header promises: keys in order, no red node
\* with a red child, no double black left over, the same number of black
\* nodes on every path, the stored sizes right (assert_red_invariant,
\* assert_black_invariant, assert_BST_invariant).
BalancedTree ==
  /\ Tree!red_invariant(map)
  /\ Tree!black_length(map) >= 0
  /\ Tree!BST_invariant(map)
  /\ map.s = Len(Tree!Entries(map))

\* Ranges of the map are non-empty and disjoint, and two that touch have
\* different values: neighbours with one value are coalesced.  hook_RANGEMAP_eq
\* and inclusion compare ranges one by one and rely on it.
Coalesced ==
  \A i \in 1..map.s : LET a == Tree!Entries(map)[i] IN
    /\ ~EmptyRange(a.key)
    /\ i < map.s => LET b == Tree!Entries(map)[i + 1]
                    IN  \/ a.key.end < b.key.start
                        \/ a.key.end = b.key.start /\ a.val # b.val

\* Inserting and deleting a range change exactly its keys, whichever ranges
\* it cuts, covers or joins; a deletion and an insertion undo nothing else.
RangeUpdates ==
  \A r \in Proper :
    /\ Denotes(hook_RANGEMAP_remove(map, r))
         = [k \in Keys |-> IF RangeContains(r, k) THEN None ELSE Value(map, k)]
    /\ \A v \in Vals : Denotes(hook_RANGEMAP_update(map, r, v))
         = [k \in Keys |-> IF RangeContains(r, k) THEN v ELSE Value(map, k)]

\* Searches that prune subtrees find what a scan of all entries finds: the
\* lookups, and the overlap test concat decides by.
SearchesComplete ==
  /\ \A k \in Keys :
       /\ hook_RANGEMAP_lookup_null(map, k) = Value(map, k)
       /\ hook_RANGEMAP_in_keys(map, k) <=> Value(map, k) # None
       /\ hook_RANGEMAP_in_keys(map, k) =>
            hook_RANGEMAP_find_range(map, k) \in hook_RANGEMAP_keys(map)
  /\ \A r \in Proper : overlaps(map, r) <=>
       \E i \in 1..map.s : RangeOverlaps(Tree!Entries(map)[i].key, r)
  /\ Iterate(Begin(map)) = Tree!Entries(map)

\* The hooks on two maps: concat joins disjoint maps and refuses others in
\* either order of its arguments, difference drops the pairs both have,
\* updateAll lets the second map win; equality and inclusion, which compare
\* lists of ranges, decide equality and inclusion of the maps as sets of
\* key-value pairs.
TwoMapHooks ==
  \A m \in Operands :
    LET f == Denotes(map)
        g == Denotes(m)
        both == {k \in Keys : f[k] # None /\ g[k] # None}
        over == [k \in Keys |-> IF g[k] = None THEN f[k] ELSE g[k]]
    IN  /\ IF both # {} THEN hook_RANGEMAP_concat(map, m) = <<>>
           ELSE \A c \in {hook_RANGEMAP_concat(map, m), hook_RANGEMAP_concat(m, map)} :
                  c # <<>> /\ Denotes(c[1]) = over
        /\ Denotes(hook_RANGEMAP_difference(map, m))
             = [k \in Keys |-> IF f[k] = g[k] THEN None ELSE f[k]]
        /\ Denotes(hook_RANGEMAP_updateAll(map, m)) = over
        /\ hook_RANGEMAP_eq(map, m) <=> f = g
        /\ hook_RANGEMAP_inclusion(map, m) <=> \A k \in Keys : f[k] \in {None, g[k]}
        /\ hook_RANGEMAP_inclusion(m, map) <=> \A k \in Keys : g[k] \in {None, f[k]}
=============================================================================
