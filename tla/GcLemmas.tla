----------------------------- MODULE GcLemmas -----------------------------
(* Addresses, names and allocation: the facts that the proofs about Gc rest on. *)
EXTENDS GcInv, TLAPS

---------------------------------------------------------------------------
(* Addresses.  At, SpaceOf and Index stay opaque in the proofs below.      *)

\* An address is a space and an index below the capacity.
LEMMA AtFacts ==
  /\ \A s \in Space, n \in 1..Cap : At(s, n) \in Addr
  /\ \A s, n : SpaceOf(At(s, n)) = s /\ Index(At(s, n)) = n
  /\ \A a \in Addr : SpaceOf(a) \in Space /\ Index(a) \in 1..Cap /\ a = At(SpaceOf(a), Index(a))
BY DEF At, SpaceOf, Index, Addr

\* The semispaces: two of each generation, none of them gc_roots.
LEMMA SpaceFacts ==
  /\ \A s \in YoungSpace : s \in Space /\ s \notin OldSpace /\ s # "R"
  /\ \A s \in OldSpace : s \in Space /\ s \notin YoungSpace /\ s # "R"
  /\ \A s \in YoungSpace : Other(s) \in YoungSpace /\ Other(s) # s /\ Other(Other(s)) = s
  /\ \A s \in OldSpace : Other(s) \in OldSpace /\ Other(s) # s /\ Other(Other(s)) = s
BY Zenon DEF Other, YoungSpace, OldSpace, Space

\* Root slots are addresses of gc_roots.
LEMMA RootFacts ==
  ASSUME NEW r \in Register
  PROVE  RootSlot(r) \in Addr /\ SpaceOf(RootSlot(r)) = "R" /\ Index(RootSlot(r)) = r
<1>1. "R" \in Space /\ r \in 1..Cap
  BY RootAssumption, CapAssumption DEF Space, Register
<1> QED BY Zenon, <1>1, AtFacts DEF RootSlot

\* Pointers are constants or addresses, never both.
LEMMA PtrFacts ==
  /\ Nil \in Const /\ Nil \in Ptr
  /\ \A p \in Ptr : p \in Const <=> p \notin Addr
  /\ \A p : p \in Addr => p \in Ptr /\ p \notin Const
BY Zenon, ConstAssumption, ConstNotAddr DEF Ptr

---------------------------------------------------------------------------
(* Allocation. *)

\* Where the next objects of each generation are allocated.
LEMMA YoungFacts ==
  ASSUME TypeOK, NEW i \in 1..3, ytop + i <= Cap
  PROVE  Young(i) \in Addr /\ SpaceOf(Young(i)) = yid /\ Index(Young(i)) = ytop + i
<1>1. yid \in Space /\ ytop + i \in 1..Cap
  BY SpaceFacts, CapAssumption DEF TypeOK, ControlType, MemoryType
<1> QED BY Zenon, <1>1, AtFacts DEF Young

\* The same for oldspace.
LEMMA OldFacts ==
  ASSUME TypeOK, NEW i \in 1..3, otop + i <= Cap
  PROVE  Old(i) \in Addr /\ SpaceOf(Old(i)) = oid /\ Index(Old(i)) = otop + i
<1>1. oid \in Space /\ otop + i \in 1..Cap
  BY SpaceFacts, CapAssumption DEF TypeOK, ControlType, MemoryType
<1> QED BY Zenon, <1>1, AtFacts DEF Old

\* Names of nodes being built are new.
LEMMA NameFacts ==
  ASSUME TypeOK, NEW i \in 1..3, size + i <= MaxNodes
  PROVE  Name(i) \in 1..MaxNodes /\ Name(i) = size + i
BY BoundAssumption DEF Name, TypeOK, NodeType

\* Outside a collection there are no copies to tell from other objects and no forwarding.
LEMMA RunFacts ==
  ASSUME TypeOK, phase = "run", oprev = 0
  PROVE  \A a \in Addr : ~From(a) /\ ~Kept(a) /\ (Copy(a) <=> Allocated(a)) /\ (Heap(a) <=> Allocated(a))
<1>1. \A a \in Addr : Index(a) \in Nat /\ Index(a) > 0
  BY AtFacts, CapAssumption
<1> QED BY <1>1 DEF From, FromSpace, Collecting, Kept, Copy, Heap, Allocated, TypeOK, MemoryType

\* Which addresses are allocated after the allocation pointers have moved.
LEMMA TopsAfter ==
  ASSUME TypeOK, NEW y \in 0..3, NEW o \in 0..3, yid' = yid, oid' = oid, ytop' = ytop + y, otop' = otop + o,
         NEW a \in Addr
  PROVE  /\ Allocated(a)' <=> \/ Allocated(a)
                              \/ \E i \in 1..y : a = Young(i)
                              \/ \E i \in 1..o : a = Old(i)
         /\ \A i \in 1..3 : a = Young(i) => ~Allocated(a)
         /\ \A i \in 1..3 : a = Old(i) => ~Allocated(a)
<1>2. yid # oid /\ ytop \in Nat /\ otop \in Nat /\ Index(a) \in Nat
  BY SpaceFacts, AtFacts, CapAssumption DEF TypeOK, ControlType, MemoryType
<1>3. \A i \in 1..3 : a = Young(i) <=> SpaceOf(a) = yid /\ Index(a) = ytop + i
  BY Zenon, AtFacts DEF Young
<1>4. \A i \in 1..3 : a = Old(i) <=> SpaceOf(a) = oid /\ Index(a) = otop + i
  BY Zenon, AtFacts DEF Old
<1>5. \A i \in 1..3 : (a = Young(i) \/ a = Old(i)) => ~Allocated(a)
  BY <1>2, <1>3, <1>4 DEF Allocated
<1>6. (SpaceOf(a) = yid /\ Index(a) <= ytop + y) <=>
      (SpaceOf(a) = yid /\ Index(a) <= ytop) \/ \E i \in 1..y : a = Young(i)
  <2>1. ASSUME SpaceOf(a) = yid, Index(a) <= ytop + y, ~(Index(a) <= ytop)
        PROVE  \E i \in 1..y : a = Young(i)
    <3>1. Index(a) - ytop \in 1..y /\ ytop + (Index(a) - ytop) = Index(a)
      BY <1>2, <2>1
    <3> QED BY <1>3, <2>1, <3>1
  <2> QED BY <1>2, <1>3, <2>1
<1>7. (SpaceOf(a) = oid /\ Index(a) <= otop + o) <=>
      (SpaceOf(a) = oid /\ Index(a) <= otop) \/ \E i \in 1..o : a = Old(i)
  <2>1. ASSUME SpaceOf(a) = oid, Index(a) <= otop + o, ~(Index(a) <= otop)
        PROVE  \E i \in 1..o : a = Old(i)
    <3>1. Index(a) - otop \in 1..o /\ otop + (Index(a) - otop) = Index(a)
      BY <1>2, <2>1
    <3> QED BY <1>4, <2>1, <3>1
  <2> QED BY <1>2, <1>4, <2>1
<1>8. Allocated(a)' <=> (SpaceOf(a) = yid /\ Index(a) <= ytop + y) \/ (SpaceOf(a) = oid /\ Index(a) <= otop + o)
  BY Zenon DEF Allocated
<1>9. Allocated(a) <=> (SpaceOf(a) = yid /\ Index(a) <= ytop) \/ (SpaceOf(a) = oid /\ Index(a) <= otop)
  BY Zenon DEF Allocated
<1> QED BY Zenon, <1>5, <1>6, <1>7, <1>8, <1>9

TermKind == {"const", "sym", "coll", "str", "int", "buf"}
CollectionNodeKind == {"const", "inner", "leaf"}

\* The two fields of an object.
LEMMA FieldIndex == 1 \in 1..2 /\ 2 \in 1..2 /\ \A i \in 1..2 : i = 1 \/ i = 2
OBVIOUS

\* What each field of each kind of object may lead to.
LEMMA ChildKindFacts ==
  /\ \A i \in 1..2 : ChildKinds("sym", i) = TermKind
  /\ ChildKinds("root", 1) = TermKind /\ ChildKinds("root", 2) = {"const"}
  /\ ChildKinds("coll", 1) = CollectionNodeKind /\ ChildKinds("coll", 2) = TermKind
  /\ \A i \in 1..2 : ChildKinds("inner", i) = CollectionNodeKind /\ ChildKinds("leaf", i) = Items
  /\ ChildKinds("int", 1) = {"tok"} /\ ChildKinds("int", 2) = {"const"}
  /\ ChildKinds("buf", 1) = {"tok"} /\ ChildKinds("buf", 2) = {"const"}
  /\ \A i \in 1..2 : ChildKinds("str", i) = {"const"} /\ ChildKinds("free", i) = {"const"}
BY DEF ChildKinds, TermKind, CollectionNodeKind, Items

---------------------------------------------------------------------------
\* Outside a collection the loop invariant says that the heap is a well-formed graph.
LEMMA RunInvFromIInv ==
  ASSUME IInv, phase = "run"
  PROVE  RunInv
<1>1. TypeOK /\ oprev = 0 /\ ~Collecting
  BY Zenon DEF IInv, Control, Collecting
<1>2. \A a \in Addr : ~From(a) /\ ~Kept(a) /\ (Copy(a) <=> Allocated(a)) /\ (Heap(a) <=> Allocated(a))
  BY Zenon, <1>1, RunFacts
<1>3. fwd = {}
  <2>1. \A a \in fwd : a \in Addr /\ From(a)
    BY Zenon, <1>1 DEF IInv, Forwarding, TypeOK, MemoryType
  <2> QED BY Zenon, <1>2, <2>1
<1>4. RunLayout
  BY Zenon, <1>1 DEF IInv, Layout, RunLayout, FromSpace
<1>5. RunHeaders
  BY Zenon DEF IInv, Headers, RunHeaders
<1>6. RunFields
  <2> SUFFICES ASSUME NEW a \in Addr, Allocated(a) \/ IsRoot(a), kind[a] # "tok", NEW i \in 1..2
               PROVE  RunField(a, i)
    BY Zenon DEF RunFields
  <2>1. Readable(a)
    BY Zenon, <1>2, <1>3 DEF Readable
  <2>2. Faithful(a, i) /\ (Heap(a) => Ranked(a, i))
    BY Zenon, <2>1 DEF IInv, Fields
  <2>3. Field(a, i) \in Ptr
    BY Zenon, <1>1 DEF Field, TypeOK, MemoryType
  <2>4. Field(a, i) \in Const \/ (Field(a, i) \in Addr /\ Allocated(Field(a, i)))
    BY Zenon, <2>2, <2>3, <1>2, PtrFacts DEF Faithful
  <2>5. Allocated(a) => Ranked(a, i)
    BY Zenon, <2>2, <1>2
  <2>6. RankAfter(Field(a, i)) = Rank(Field(a, i))
    BY Zenon, <2>4, <1>2 DEF RankAfter, Rank
  <2> QED BY Zenon, <1>2, <2>2, <2>4, <2>5, <2>6 DEF RunField, Faithful, Ranked
<1>7. RunNames
  BY Zenon, <1>2, <1>3 DEF IInv, Names, RunNames
<1>8. RunPayloads
  BY Zenon, <1>3 DEF IInv, Payloads, RunPayloads, OwnsPayload, OwnerKind
<1>9. RunControl
  <2>1. iter \in Const \/ iter \in Addr
    BY Zenon, <1>1, PtrFacts DEF TypeOK, ControlType
  <2>2. oprev = 0 /\ scan = 1 /\ fld = 1 /\ trav = {} /\ ~collect_old
    BY Zenon, <1>1 DEF IInv, Control
  <2>3. iter \in Const \/ (Allocated(iter) /\ kind[iter] \in NodeKind)
    BY Zenon DEF IInv, Control
  <2> QED BY Zenon, <1>3, <2>1, <2>2, <2>3 DEF RunControl
<1> QED BY Zenon, <1>1, <1>4, <1>5, <1>6, <1>7, <1>8, <1>9 DEF RunInv

\* And conversely.
LEMMA IInvFromRunInv == RunInv => IInv
<1> SUFFICES ASSUME RunInv PROVE IInv
  BY Zenon
<1>1. TypeOK /\ phase = "run" /\ oprev = 0 /\ ~Collecting /\ fwd = {} /\ scan = 1 /\ fld = 1 /\ trav = {}
      /\ ~collect_old
  BY Zenon DEF RunInv, RunControl, Collecting
<1>2. \A a \in Addr : ~From(a) /\ ~Kept(a) /\ (Copy(a) <=> Allocated(a)) /\ (Heap(a) <=> Allocated(a))
  BY Zenon, <1>1, RunFacts
<1>3. Layout
  BY Zenon, <1>1 DEF RunInv, Layout, RunLayout, FromSpace
<1>4. Headers
  BY Zenon, <1>1 DEF RunInv, Headers, RunHeaders
<1>5. Forwarding
  BY Zenon, <1>1 DEF Forwarding
<1>6. Fields /\ Progress
  <2> SUFFICES ASSUME NEW a \in Addr, Readable(a), NEW i \in 1..2
               PROVE  Faithful(a, i) /\ Reached(a, i) /\ Scanned(a, i) /\ (Heap(a) => Ranked(a, i))
    BY Zenon DEF Fields, Progress
  <2>1. RunField(a, i)
    BY Zenon, <1>2 DEF RunInv, RunFields, Readable
  <2>2. RankAfter(Field(a, i)) = Rank(Field(a, i))
    BY Zenon, <1>2, <2>1 DEF RankAfter, Rank, RunField
  <2>3. Faithful(a, i) /\ Reached(a, i)
    BY Zenon, <1>2, <2>1 DEF RunField, Faithful, Reached
  <2>4. Scanned(a, i)
    BY Zenon, <1>1, <1>2, <2>1 DEF RunField, Scanned, Todo, Settled
  <2>5. Heap(a) => Ranked(a, i)
    BY Zenon, <1>2, <2>1, <2>2 DEF RunField, Ranked
  <2> QED BY Zenon, <2>3, <2>4, <2>5
<1>7. Names
  BY Zenon, <1>1, <1>2 DEF RunInv, Names, RunNames
<1>8. Payloads
  BY Zenon, <1>1 DEF RunInv, Payloads, RunPayloads, OwnsPayload, OwnerKind
<1>9. Control
  BY <1>1 DEF RunInv, RunControl, Control, TypeOK, MemoryType
<1> QED BY Zenon, <1>1, <1>3, <1>4, <1>5, <1>6, <1>7, <1>8, <1>9 DEF IInv

\* The same in the next state.
LEMMA IInvFromRunInvNext == (RunInv => IInv)'
BY IInvFromRunInv, PTL

---------------------------------------------------------------------------
(* Classes of objects during a collection.                                 *)

\* Copies and the old objects left alone are what is allocated; the collected objects are not.
LEMMA CopyFacts ==
  ASSUME IInv, NEW b \in Addr
  PROVE  /\ Allocated(b) <=> (Copy(b) \/ Kept(b))
         /\ ~(Copy(b) /\ Kept(b))
         /\ From(b) => ~Allocated(b)
         /\ SpaceOf(b) \in {yid, oid} => ~From(b)
         /\ Heap(b) => SpaceOf(b) # "R" /\ kind[b] \notin {"free", "root"}
         /\ IsRoot(b) => kind[b] = "root" /\ ~Heap(b)
<1>1. /\ yid \in YoungSpace /\ oid \in OldSpace /\ Index(b) \in Nat /\ oprev \in Nat /\ otop \in Nat /\ ytop \in Nat
      /\ oprev <= otop
  BY AtFacts, CapAssumption DEF IInv, Control, TypeOK, MemoryType, ControlType
<1>2. yid # oid /\ yid # "R" /\ oid # "R" /\ Other(yid) # yid /\ Other(yid) # oid /\ Other(oid) # oid /\ Other(oid) # yid
      /\ Other(yid) # "R" /\ Other(oid) # "R"
  BY Zenon, <1>1, SpaceFacts
<1>3. (Allocated(b) <=> (Copy(b) \/ Kept(b))) /\ ~(Copy(b) /\ Kept(b))
  BY <1>1, <1>2 DEF Allocated, Copy, Kept
<1>4. (From(b) => ~Allocated(b)) /\ (SpaceOf(b) \in {yid, oid} => ~From(b))
  BY Zenon, <1>2 DEF From, FromSpace, Allocated
<1>5. Heap(b) => SpaceOf(b) # "R"
  BY Zenon, <1>2 DEF Heap, From, FromSpace, Copy, Kept
<1>6. Heap(b) => kind[b] # "free" /\ kind[b] # "root"
  <2>1. CASE From(b)
    BY Zenon, <2>1, <1>5 DEF From, Heap, IInv, Layout
  <2>2. CASE Allocated(b)
    <3>1. SpaceOf(b) # "R" /\ ~FromSpace(SpaceOf(b))
      BY Zenon, <1>2, <2>2 DEF Allocated, FromSpace
    <3> QED BY Zenon, <2>2, <3>1 DEF IInv, Layout
  <2> QED BY Zenon, <1>3, <2>1, <2>2 DEF Heap
<1>7. IsRoot(b) => kind[b] = "root" /\ ~Heap(b)
  BY Zenon, <1>5 DEF IsRoot, IInv, Layout
<1> QED BY Zenon, <1>3, <1>4, <1>5, <1>6, <1>7

\* Forwarded objects are not in the space of the copies.
LEMMA FwdFacts ==
  ASSUME IInv, NEW b \in fwd
  PROVE  b \in Addr /\ ~Allocated(b) /\ SpaceOf(b) \notin {yid, oid}
BY Zenon, CopyFacts DEF IInv, Forwarding, TypeOK, MemoryType

\* Copies and roots are not forwarded, so their fields can be read.
LEMMA ReadableSlot ==
  ASSUME IInv, NEW a \in Addr, Copy(a) \/ Kept(a) \/ IsRoot(a), kind[a] # "tok"
  PROVE  Readable(a) /\ ~From(a) /\ a \notin fwd
<1>1. ~From(a)
  BY Zenon, CopyFacts DEF Heap
<1>2. a \notin fwd
  BY Zenon, <1>1 DEF IInv, Forwarding
<1> QED BY Zenon, <1>1, <1>2 DEF Readable, Heap
===========================================================================
