------------------------------- MODULE RBTree -------------------------------
(***************************************************************************)
(* The ordered map on a red-black tree of                                  *)
(* include/runtime/collections/RBTree.h (insertion after Okasaki, deletion *)
(* after Germane and Might).  Trees are immutable: every operation returns *)
(* a new one.  A tree is a record: a leaf has a colour and size 0, an      *)
(* internal node has a colour, two subtrees, a key, a value and the size   *)
(* the constructor computes.  Less is the template's operator < on keys.   *)
(***************************************************************************)
EXTENDS Integers, Sequences

CONSTANT Less(_, _)

Leaf(c) == [c |-> c, s |-> 0]

Node(c, lft, key, val, rgt) ==
  [c |-> c, lft |-> lft, key |-> key, val |-> val, rgt |-> rgt,
   s |-> 1 + lft.s + rgt.s]

Empty(t) == t.s = 0

\* R, B and BB (double black) of enum class Color.
minus_one_color(c) == IF c = "BB" THEN "B" ELSE "R"

empty_c(t, c) == Empty(t) /\ t.c = c
non_empty(t, c) == ~Empty(t) /\ t.c = c
singleton(t, c) == non_empty(t, c) /\ empty_c(t.lft, "B") /\ empty_c(t.rgt, "B")
only_left_child(t, p, c) == non_empty(t, p) /\ non_empty(t.lft, c) /\ empty_c(t.rgt, "B")
only_right_child(t, p, c) == non_empty(t, p) /\ empty_c(t.lft, "B") /\ non_empty(t.rgt, c)
doubled_left(t) == non_empty(t, "R") /\ non_empty(t.lft, "R")
doubled_right(t) == non_empty(t, "R") /\ non_empty(t.rgt, "R")

paint(t, c) == Node(c, t.lft, t.key, t.val, t.rgt)

blacken(t) == IF doubled_left(t) \/ doubled_right(t) THEN paint(t, "B") ELSE t

redden(t) ==
  IF \/ non_empty(t, "B") /\ non_empty(t.lft, "B") /\ non_empty(t.rgt, "B")
     \/ singleton(t, "B")
  THEN paint(t, "R")
  ELSE t

\* Mutant: a red right child with a red right child is overlooked.
balance_NoRightRight(c, lft, x, v, rgt) ==
  LET d == minus_one_color(c) IN
  IF doubled_left(lft)
  THEN Node(d, paint(lft.lft, "B"), lft.key, lft.val, Node("B", lft.rgt, x, v, rgt))
  ELSE IF doubled_left(rgt)
  THEN Node(d, Node("B", lft, x, v, rgt.lft.lft), rgt.lft.key, rgt.lft.val,
            Node("B", rgt.lft.rgt, rgt.key, rgt.val, rgt.rgt))
  ELSE Node(c, lft, x, v, rgt)

\* Called only when the parent is B or BB.
balance(c, lft, x, v, rgt) ==
  LET d == minus_one_color(c) IN
  IF doubled_left(lft)
  THEN Node(d, paint(lft.lft, "B"), lft.key, lft.val, Node("B", lft.rgt, x, v, rgt))
  ELSE IF doubled_right(lft)
  THEN Node(d, Node("B", lft.lft, lft.key, lft.val, lft.rgt.lft),
            lft.rgt.key, lft.rgt.val, Node("B", lft.rgt.rgt, x, v, rgt))
  ELSE IF doubled_left(rgt)
  THEN Node(d, Node("B", lft, x, v, rgt.lft.lft), rgt.lft.key, rgt.lft.val,
            Node("B", rgt.lft.rgt, rgt.key, rgt.val, rgt.rgt))
  ELSE IF doubled_right(rgt)
  THEN Node(d, Node("B", lft, x, v, rgt.lft), rgt.key, rgt.val, paint(rgt.rgt, "B"))
  ELSE Node(c, lft, x, v, rgt)

\* Take one black off a double-black subtree: lft.paint(B), or RBTree().
Single(t) == IF Empty(t) THEN Leaf("B") ELSE paint(t, "B")

\* A red and a black parent differ in the colour balance is given; a black
\* parent has two more cases, where the sibling is red.
rotate(c, lft, x, v, rgt) ==
  LET d == IF c = "R" THEN "B" ELSE "BB" IN
  CASE c \in {"R", "B"} /\ lft.c = "BB" /\ non_empty(rgt, "B") ->
         balance(d, Node("R", Single(lft), x, v, rgt.lft), rgt.key, rgt.val, rgt.rgt)
    [] c \in {"R", "B"} /\ non_empty(lft, "B") /\ rgt.c = "BB" ->
         balance(d, lft.lft, lft.key, lft.val, Node("R", lft.rgt, x, v, Single(rgt)))
    [] c = "B" /\ lft.c = "BB" /\ non_empty(rgt, "R") /\ non_empty(rgt.lft, "B") ->
         Node("B", balance("B", Node("R", Single(lft), x, v, rgt.lft.lft),
                           rgt.lft.key, rgt.lft.val, rgt.lft.rgt),
              rgt.key, rgt.val, rgt.rgt)
    [] c = "B" /\ non_empty(lft, "R") /\ non_empty(lft.rgt, "B") /\ rgt.c = "BB" ->
         Node("B", lft.lft, lft.key, lft.val,
              balance("B", lft.rgt.lft, lft.rgt.key, lft.rgt.val,
                      Node("R", lft.rgt.rgt, x, v, Single(rgt))))
    [] OTHER -> Node(c, lft, x, v, rgt)

RECURSIVE ins(_, _, _)
ins(t, x, v) ==
  LET Up(lft, rgt) == IF t.c = "B" THEN balance("B", lft, t.key, t.val, rgt)
                                   ELSE Node("R", lft, t.key, t.val, rgt)
  IN  IF Empty(t) THEN Node("R", Leaf("B"), x, v, Leaf("B"))
      ELSE IF Less(x, t.key) THEN Up(ins(t.lft, x, v), t.rgt)
      ELSE IF Less(t.key, x) THEN Up(t.lft, ins(t.rgt, x, v))
      ELSE Node(t.c, t.lft, x, v, t.rgt)

\* The tree without its least entry; the entry itself is MinEntry(t).
RECURSIVE MinEntry(_)
MinEntry(t) == IF Empty(t.lft) THEN t ELSE MinEntry(t.lft)

RECURSIVE min_delete(_)
min_delete(t) ==
  CASE singleton(t, "R") -> Leaf("B")
    [] singleton(t, "B") -> Leaf("BB")
    [] only_right_child(t, "B", "R") -> paint(t.rgt, "B")
    [] OTHER -> rotate(t.c, min_delete(t.lft), t.key, t.val, t.rgt)

RECURSIVE del(_, _)
del(t, x) ==
  LET lt == Less(x, t.key)
      gt == Less(t.key, x)
  IN  CASE Empty(t) -> Leaf("B")
        [] singleton(t, "R") -> IF lt \/ gt THEN t ELSE Leaf("B")
        [] singleton(t, "B") -> IF lt \/ gt THEN t ELSE Leaf("BB")
        [] only_left_child(t, "B", "R") ->
             IF gt THEN t
             ELSE IF lt THEN Node("B", del(t.lft, x), t.key, t.val, Leaf("B"))
             ELSE paint(t.lft, "B")
        [] OTHER ->
             IF gt THEN rotate(t.c, t.lft, t.key, t.val, del(t.rgt, x))
             ELSE IF lt THEN rotate(t.c, del(t.lft, x), t.key, t.val, t.rgt)
             ELSE LET m == MinEntry(t.rgt)
                  IN  rotate(t.c, t.lft, m.key, m.val, min_delete(t.rgt))

inserted(t, x, v) == blacken(ins(t, x, v))
deleted(t, x) == del(redden(t), x)

\* for_each: the entries in order.
RECURSIVE Entries(_)
Entries(t) == IF Empty(t) THEN <<>>
              ELSE Entries(t.lft) \o <<[key |-> t.key, val |-> t.val]>> \o Entries(t.rgt)

RECURSIVE red_invariant(_)
red_invariant(t) ==
  IF Empty(t) THEN t.c = "B"
  ELSE /\ t.c # "BB"
       /\ t.c = "R" => ~non_empty(t.lft, "R") /\ ~non_empty(t.rgt, "R")
       /\ red_invariant(t.lft) /\ red_invariant(t.rgt)

\* The number of black nodes on every path to a leaf, or -1.
RECURSIVE black_length(_)
black_length(t) ==
  IF Empty(t) THEN 0
  ELSE LET l == black_length(t.lft)
           r == black_length(t.rgt)
       IN  IF l # r \/ l = -1 THEN -1 ELSE IF t.c = "B" THEN l + 1 ELSE l

BST_invariant(t) ==
  \A i \in 1..(t.s - 1) : Less(Entries(t)[i].key, Entries(t)[i + 1].key)
=============================================================================
