-------------------------------- MODULE Gc --------------------------------
(*************************************************************************)
(* The copying collector of runtime/collect together with the operations *)
(* of the generated code that it must not disturb.                       *)
(*************************************************************************)
EXTENDS GcMutator, GcCollect

Init ==
  /\ kind = [a \in Addr |-> IF SpaceOf(a) = "R" /\ Index(a) <= NRoots THEN "root" ELSE "free"]
  /\ id = [a \in Addr |-> 0]
  /\ old = {} /\ age = {} /\ fwd = {}
  /\ fst = [a \in Addr |-> Nil] /\ snd = [a \in Addr |-> Nil]
  /\ ytop = 0 /\ otop = 0
  /\ yid = "Y0" /\ oid = "O0"
  /\ phase = "run"
  /\ collect_old = FALSE /\ only_young = 0 /\ oprev = 0
  /\ scan = 1 /\ fld = 1
  /\ trav = {}
  /\ iter = Nil
  /\ size = 0
  /\ nkind = [n \in 1..MaxNodes |-> "free"]
  /\ nfst = [n \in 1..MaxNodes |-> Nil] /\ nsnd = [n \in 1..MaxNodes |-> Nil]

Next == Mutator \/ Collect \/ FreeAll \/ Collector
Spec == Init /\ [][Next]_vars

\* kore_collect is a function call: once begun it runs to its end.
FairSpec == Spec /\ WF_vars(Collector)

---------------------------------------------------------------------------
(* Properties.                                                           *)

Live == {a \in Addr : Allocated(a)}

\* Tokens hold bytes, not pointers; a payload left behind by its owner may hold the
\* owner's forwarding address for ever.
Pointing == {a \in Live : kind[a] # "tok"}

\* Outside a collection no object points to a younger one: kore_collect scans the young
\* generation before the old one and a young collection does not look at the old generation
\* at all, so a young child of an old block would be lost.  Payloads are moved with their
\* owner whatever their header says, but those of an old owner must not be in youngspace.
GenerationalOrder ==
  phase = "run" =>
    \A a \in Pointing : \A i \in 1..2 :
      LET p == Field(a, i) IN
      IF kind[a] \in {"int", "buf"} /\ i = 1
      THEN a \in old => SpaceOf(p) = oid
      ELSE Rank(p) >= Rank(a)

\* Outside a collection every pointer in a root or in an allocated object leads to an
\* allocated object of the kind its slot is laid out for, and none to a semispace that the
\* next arena_swap_and_clear hands out again.
NoDanglingPointer ==
  phase = "run" =>
    \A a \in Pointing \cup {RootSlot(r) : r \in Register} : \A i \in 1..2 :
      LET p == Field(a, i) IN
      /\ p \in Const \cup Live
      /\ KindAt(p) \in ChildKinds(kind[a], i)
      /\ p \in Addr => p \notin fwd

\* The forwarding address makes every copy unique: a term that was shared before a collection
\* is shared after it, and memory does not grow by copies (migrate, line 61: hasForwardingAddress).
SharingPreserved ==
  phase = "run" =>
    \A a, b \in Pointing : id[a] = id[b] => a = b

\* Once the young generation is scanned nothing is copied into it any more: what the scan of
\* the old generation put there would keep pointers into the semispace about to be reused.
YoungScanIsFinal == [][phase = "old" /\ phase' = "old" => ytop' = ytop]_vars

\* Every collection ends, though copying appends to the very spaces it scans and shared
\* collection nodes are traversed again and again.
CollectionEnds == phase # "run" ~> phase = "run"
===========================================================================
