-------------------------- MODULE GcMigrateProofs --------------------------
(***************************************************************************)
(* The migrate functions preserve the part of the invariant that speaks of *)
(* the object graph: a call redirects one pointer from an object to the    *)
(* copy that replaces it, and no object loses its name or its children.    *)
(***************************************************************************)
EXTENDS GcLemmas, GcMigrate

\* The part of the invariant that does not depend on how far the scan is.
Graph == MemoryType /\ Layout /\ Headers /\ Forwarding /\ Fields /\ Names /\ Payloads

\* What the collector leaves alone between its first and its last step.
SameCycle ==
  /\ yid' = yid /\ oid' = oid /\ oprev' = oprev
  /\ phase' = "run" <=> phase = "run"
  /\ collect_old' = collect_old /\ only_young' = only_young
  /\ size' = size /\ nkind' = nkind /\ nfst' = nfst /\ nsnd' = nsnd

\* The objects of N are new copies; the others keep their headers, kinds and names.
Moved(N) ==
  /\ \A b \in Addr : Allocated(b)' <=> (Allocated(b) \/ b \in N)
  /\ \A b \in N : ~Allocated(b) /\ SpaceOf(b) \in {yid, oid}
  /\ \A b \in Addr \ N : /\ kind'[b] = kind[b] /\ id'[b] = id[b]
                         /\ b \in old' <=> b \in old
                         /\ b \in age' <=> b \in age

\* New copies are Copies; every other object is in the class it was in.
LEMMA MovedFacts ==
  ASSUME IInv, SameCycle, NEW N \in SUBSET Addr, Moved(N), NEW b \in Addr
  PROVE  /\ b \notin N => (From(b)' <=> From(b)) /\ (Kept(b)' <=> Kept(b)) /\ (Copy(b)' <=> Copy(b))
                          /\ (Heap(b)' <=> Heap(b))
         /\ b \in N => Copy(b)' /\ ~From(b)' /\ ~Kept(b)' /\ ~Heap(b) /\ Heap(b)'
         /\ \A s : FromSpace(s)' <=> FromSpace(s)
<1>1. /\ yid \in YoungSpace /\ oid \in OldSpace /\ Index(b) \in Nat /\ oprev \in Nat /\ otop \in Nat /\ ytop \in Nat
      /\ oprev <= otop
  BY AtFacts, CapAssumption DEF IInv, Control, TypeOK, MemoryType, ControlType
<1>2. yid # oid
  BY Zenon, <1>1, SpaceFacts
<1>3. \A s : FromSpace(s)' <=> FromSpace(s)
  BY Zenon DEF SameCycle, FromSpace, Collecting
<1>4. Kept(b)' <=> Kept(b)
  BY Zenon DEF SameCycle, Kept
<1>5. (Copy(b)' /\ ~Kept(b)) <=> (Allocated(b)' /\ ~Kept(b))
  BY <1>1, <1>2, <1>4 DEF SameCycle, Copy, Allocated, Kept
<1>6. Copy(b)' /\ Kept(b) => FALSE
  BY <1>1, <1>2 DEF SameCycle, Copy, Kept
<1>7. (Allocated(b) <=> (Copy(b) \/ Kept(b))) /\ ~(Copy(b) /\ Kept(b)) /\ (From(b) => ~Allocated(b))
      /\ (SpaceOf(b) \in {yid, oid} => ~From(b))
  BY Zenon, CopyFacts
<1>8. CASE b \notin N
  <2>1. From(b)' <=> From(b)
    BY Zenon, <1>3, <1>8 DEF From, Moved
  <2>2. Copy(b)' <=> Copy(b)
    BY Zenon, <1>5, <1>6, <1>7, <1>8 DEF Moved
  <2> QED BY Zenon, <1>3, <1>4, <1>8, <2>1, <2>2 DEF Heap
<1>9. CASE b \in N
  <2>1. ~Kept(b) /\ ~Copy(b) /\ ~From(b) /\ Allocated(b)' /\ SpaceOf(b) \in {yid, oid}
    BY Zenon, <1>7, <1>9 DEF Moved
  <2>2. ~FromSpace(SpaceOf(b))
    BY Zenon, <1>1, <2>1, SpaceFacts DEF FromSpace
  <2>3. ~From(b)'
    BY Zenon, <1>3, <2>2 DEF From
  <2> QED BY Zenon, <1>3, <1>4, <1>5, <1>9, <2>1, <2>3 DEF Heap
<1> QED BY Zenon, <1>8, <1>9

\* A pointer that was good is as good as it was.
LEMMA PtrKept ==
  ASSUME IInv, SameCycle, NEW N \in SUBSET Addr, Moved(N), NEW x \in Ptr, x \in Const \/ Heap(x)
  PROVE  /\ x \notin N /\ (x \in Const \/ (x \in Addr /\ Heap(x)'))
         /\ KindAt(x)' = KindAt(x) /\ Id(x)' = Id(x)
         /\ Rank(x)' = Rank(x) /\ RankAfter(x)' = RankAfter(x)
         /\ Pending(x)' <=> Pending(x)
         /\ Settled(x)' <=> Settled(x)
<1>1. CASE x \in Const
  <2>1. x \notin Addr
    BY Zenon, <1>1, PtrFacts
  <2> QED BY Zenon, <1>1, <2>1 DEF KindAt, Id, Rank, RankAfter, Pending, Settled
<1>2. CASE x \notin Const
  <2>1. x \in Addr /\ Heap(x) /\ x \notin N
    BY Zenon, <1>2, PtrFacts, MovedFacts
  <2>2. (From(x)' <=> From(x)) /\ (Kept(x)' <=> Kept(x)) /\ (Copy(x)' <=> Copy(x)) /\ Heap(x)'
    BY Zenon, <2>1, MovedFacts
  <2>3. kind'[x] = kind[x] /\ id'[x] = id[x] /\ (x \in old' <=> x \in old) /\ (x \in age' <=> x \in age)
    BY Zenon, <2>1 DEF Moved
  <2> QED BY Zenon, <1>2, <2>1, <2>2, <2>3 DEF KindAt, Id, Rank, RankAfter, Pending, Settled
<1> QED BY Zenon, <1>1, <1>2

\* A field that is not written stays what it was.
LEMMA FieldKept ==
  ASSUME IInv, SameCycle, NEW N \in SUBSET Addr, Moved(N), NEW b \in Addr, b \notin N, Readable(b),
         NEW j \in 1..2, Field(b, j)' = Field(b, j)
  PROVE  Faithful(b, j)' /\ Reached(b, j)' /\ (Heap(b)' => Ranked(b, j)')
<1>1. PICK x : x = Field(b, j)
  BY Zenon
<1>2. x \in Ptr /\ Field(b, j)' = x
  BY Zenon, <1>1 DEF IInv, TypeOK, MemoryType, Field
<1>3. Faithful(b, j) /\ Reached(b, j) /\ (Heap(b) => Ranked(b, j))
  BY Zenon DEF IInv, Fields
<1>4. x \in Const \/ Heap(x)
  BY Zenon, <1>1, <1>3 DEF Faithful
<1>5. /\ x \notin N /\ (x \in Const \/ (x \in Addr /\ Heap(x)'))
      /\ KindAt(x)' = KindAt(x) /\ Id(x)' = Id(x)
      /\ Rank(x)' = Rank(x) /\ RankAfter(x)' = RankAfter(x)
      /\ Pending(x)' <=> Pending(x)
  BY Zenon, <1>2, <1>4, PtrKept
<1>6. /\ (From(b)' <=> From(b)) /\ (Kept(b)' <=> Kept(b)) /\ (Heap(b)' <=> Heap(b))
      /\ kind'[b] = kind[b] /\ id'[b] = id[b] /\ (b \in old' <=> b \in old) /\ (b \in age' <=> b \in age)
  BY Zenon, MovedFacts DEF Moved
<1>7. Rank(b)' = Rank(b)
  BY Zenon, <1>6 DEF Rank
<1>8. NodeField(id[b], j)' = NodeField(id[b], j)
  BY Zenon, <1>6 DEF NodeField, SameCycle
<1>9. Faithful(b, j)'
  BY Zenon, <1>1, <1>2, <1>3, <1>5, <1>6, <1>8 DEF Faithful
<1>10. x \in Const \/ (Kept(x)' <=> Kept(x))
  BY Zenon, <1>5, MovedFacts
<1>11. Reached(b, j)'
  BY Zenon, <1>1, <1>2, <1>3, <1>5, <1>6, <1>10 DEF Reached
<1>12. Heap(b)' => Ranked(b, j)'
  BY Zenon, <1>1, <1>2, <1>3, <1>5, <1>6, <1>7 DEF Ranked
<1> QED BY Zenon, <1>9, <1>11, <1>12

---------------------------------------------------------------------------
(* The pointer that is migrated.                                           *)

\* Fields that the collector migrates: roots, and the fields of blocks and collection nodes.
Slot(a, i) ==
  /\ Readable(a) /\ ~From(a)
  /\ kind[a] \in BlockKind \cup NodeKind \/ (kind[a] = "root" /\ i = 1)

\* Field i of a, which held p, now holds q, which stands for the same node.
Redirected(a, i, p, q) ==
  /\ Field(a, i)' = q
  /\ q \in Const \/ (q \in Addr /\ Heap(q)')
  /\ KindAt(q)' = KindAt(p) /\ Id(q)' = Id(p) /\ RankAfter(q)' = RankAfter(p)
  /\ Settled(q)'
  /\ p \in Const \/ Kept(p) => q = p

\* What such a field can hold, and what its header tells the migrate functions to do.
LEMMA SlotTarget ==
  ASSUME IInv, NEW a \in Addr, NEW i \in 1..2, Slot(a, i), NEW p, p = Field(a, i)
  PROVE  /\ p \in Ptr /\ (p \in Const \/ (p \in Addr /\ Heap(p)))
         /\ p \in Addr => kind[p] \notin {"free", "root", "tok"} /\ (p \in old <=> SpaceOf(p) \in OldSpace)
                          /\ (p \in old => p \in age)
         /\ p \in Addr /\ From(p) => MustMigrate(p) /\ (ToOldSpace(p) <=> (p \in old \/ p \in age))
         /\ p \in Addr /\ Kept(p) => ~MustMigrate(p)
<1>1. p \in Ptr
  BY Zenon DEF IInv, TypeOK, MemoryType, Field
<1>2. Faithful(a, i)
  BY Zenon DEF IInv, Fields, Slot
<1>3. p \in Const \/ (p \in Addr /\ Heap(p))
  BY Zenon, <1>1, <1>2, PtrFacts DEF Faithful
<1>4. p \in Addr => kind[p] \notin {"free", "root", "tok"}
  <2> SUFFICES ASSUME p \in Addr PROVE kind[p] \notin {"free", "root", "tok"}
    BY Zenon
  <2>1. kind[p] \in ChildKinds(kind[a], i)
    BY Zenon, <1>2, PtrFacts DEF Faithful, KindAt
  <2>2. kind[a] \in {"sym", "coll", "inner", "leaf"} \/ (kind[a] = "root" /\ i = 1)
    BY Zenon DEF Slot, BlockKind, NodeKind
  <2> QED BY <2>1, <2>2, ChildKindFacts DEF TermKind, CollectionNodeKind, Items
<1>5. p \in Addr => (p \in old <=> SpaceOf(p) \in OldSpace) /\ (p \in old => p \in age)
  BY Zenon, <1>4 DEF IInv, Headers
<1>6. ASSUME p \in Addr, From(p)
      PROVE  MustMigrate(p) /\ (ToOldSpace(p) <=> (p \in old \/ p \in age))
  <2>1. SpaceOf(p) = Other(yid) \/ (collect_old /\ SpaceOf(p) = Other(oid))
    BY Zenon, <1>6 DEF From, FromSpace
  <2>2. CASE SpaceOf(p) = Other(yid)
    <3>1. p \notin old
      BY Zenon, <1>5, <1>6, <2>2, SpaceFacts DEF IInv, TypeOK, ControlType
    <3> QED BY Zenon, <3>1 DEF MustMigrate, ToOldSpace, shouldPromote, is_in_young_gen_hdr, is_in_old_gen_hdr
  <2>3. CASE collect_old /\ SpaceOf(p) = Other(oid)
    <3>1. p \in old /\ p \in age
      BY Zenon, <1>5, <1>6, <2>3, SpaceFacts DEF IInv, TypeOK, ControlType
    <3> QED BY Zenon, <2>3, <3>1 DEF MustMigrate, ToOldSpace, is_in_old_gen_hdr
  <2> QED BY Zenon, <2>1, <2>2, <2>3
<1>7. ASSUME p \in Addr, Kept(p)
      PROVE  ~MustMigrate(p)
  <2>1. p \in old
    BY Zenon, <1>5, <1>7 DEF Kept, IInv, TypeOK, ControlType
  <2>2. Index(p) \in Nat /\ Index(p) > 0 /\ oprev \in Nat
    BY <1>7, AtFacts, CapAssumption DEF IInv, TypeOK, ControlType
  <2>3. ~collect_old
    BY <1>7, <2>2 DEF Kept, IInv, Control
  <2> QED BY Zenon, <2>1, <2>3 DEF MustMigrate, is_in_young_gen_hdr, is_in_old_gen_hdr
<1> QED BY Zenon, <1>1, <1>3, <1>4, <1>5, <1>6, <1>7

\* The field that is written is as good as it was.
LEMMA FieldRedirected ==
  ASSUME IInv, SameCycle, NEW N \in SUBSET Addr, Moved(N), NEW a \in Addr, NEW i \in 1..2, Slot(a, i),
         NEW p, p = Field(a, i), NEW q, Redirected(a, i, p, q)
  PROVE  Faithful(a, i)' /\ Reached(a, i)' /\ (Heap(a)' => Ranked(a, i)')
<1>1. Readable(a) /\ ~From(a) /\ kind[a] \notin OwnerKind
  BY Zenon DEF Slot, BlockKind, NodeKind, OwnerKind
<1>2. Faithful(a, i) /\ Reached(a, i) /\ (Heap(a) => Ranked(a, i))
  BY Zenon, <1>1 DEF IInv, Fields
<1>3. a \notin N
  <2>1. Heap(a) \/ IsRoot(a)
    BY Zenon, <1>1 DEF Readable
  <2>2. yid # "R" /\ oid # "R"
    BY Zenon, SpaceFacts DEF IInv, TypeOK, ControlType
  <2> QED BY Zenon, <2>1, <2>2, MovedFacts DEF IsRoot, Moved
<1>4. /\ (From(a)' <=> From(a)) /\ (Kept(a)' <=> Kept(a)) /\ (Heap(a)' <=> Heap(a))
      /\ kind'[a] = kind[a] /\ id'[a] = id[a] /\ (a \in old' <=> a \in old) /\ (a \in age' <=> a \in age)
  BY Zenon, <1>3, MovedFacts DEF Moved
<1>5. Rank(a)' = Rank(a) /\ NodeField(id[a], i)' = NodeField(id[a], i)
  BY Zenon, <1>4 DEF Rank, NodeField, SameCycle
<1>6. Field(a, i)' = q
  BY Zenon DEF Redirected
<1>7. Faithful(a, i)'
  BY Zenon, <1>2, <1>4, <1>5, <1>6 DEF Faithful, Redirected
<1>8. Kept(a) => q \in Const \/ Kept(q)'
  <2> HAVE Kept(a)
  <2>1. p \in Const \/ Kept(p)
    BY Zenon, <1>2 DEF Reached
  <2>2. q = p
    BY Zenon, <2>1 DEF Redirected
  <2> QED BY Zenon, <2>1, <2>2 DEF Kept, SameCycle
<1>9. Reached(a, i)'
  BY Zenon, <1>1, <1>4, <1>6, <1>8 DEF Reached
<1>10. Heap(a)' => Ranked(a, i)'
  BY Zenon, <1>1, <1>2, <1>4, <1>5, <1>6 DEF Ranked, Redirected
<1> QED BY Zenon, <1>7, <1>9, <1>10

\* What a call of a migrate function does: it redirects field i of a from p to q and leaves every
\* other field that can be read alone.  If it made a copy (N is not empty), that is q, and its
\* fields are still to be migrated or, for an integer, a buffer and a string, need not be.
Outcome(a, i, p, q, N) ==
  /\ Moved(N)
  /\ Redirected(a, i, p, q)
  /\ \A b \in Addr : Readable(b)' => Readable(b) \/ b \in N
  /\ \A b \in Addr \ N : \A j \in 1..2 : Readable(b)' /\ ~(b = a /\ j = i) => Field(b, j)' = Field(b, j)
  /\ \A b \in N : Readable(b)' =>
       /\ b = q /\ kind'[b] = KindAt(p) /\ From(p)
       /\ \A j \in 1..2 : /\ kind'[b] \notin OwnerKind => Pending(Field(b, j))'
                          /\ kind'[b] \in OwnerKind \cup {"str"} => Settled(Field(b, j))'

\* All fields are as good as they were, provided those of the new copies are good.
LEMMA FieldsAfter ==
  ASSUME IInv, SameCycle, NEW a \in Addr, NEW i \in 1..2, Slot(a, i), NEW p, p = Field(a, i), NEW q,
         NEW N \in SUBSET Addr, Outcome(a, i, p, q, N),
         \A b \in N : Readable(b)' => \A j \in 1..2 : Faithful(b, j)' /\ Ranked(b, j)'
  PROVE  Fields'
<1> SUFFICES ASSUME NEW b \in Addr, Readable(b)', NEW j \in 1..2
             PROVE  Faithful(b, j)' /\ Reached(b, j)' /\ (Heap(b)' => Ranked(b, j)')
  BY Zenon DEF Fields
<1>0. Moved(N) /\ Redirected(a, i, p, q)
  BY Zenon DEF Outcome
<1>1. CASE b \in N
  <2>1. Copy(b)' /\ ~From(b)' /\ ~Kept(b)'
    BY Zenon, <1>0, <1>1, MovedFacts
  <2> QED BY Zenon, <1>1, <2>1 DEF Reached
<1>2. CASE b = a /\ j = i
  BY Zenon, <1>0, <1>2, FieldRedirected
<1>3. CASE b \notin N /\ ~(b = a /\ j = i)
  <2>1. Readable(b) /\ Field(b, j)' = Field(b, j)
    BY Zenon, <1>3 DEF Outcome
  <2> QED BY Zenon, <1>0, <1>3, <2>1, FieldKept
<1> QED BY Zenon, <1>1, <1>2, <1>3

\* What Forwarding says of one object.
ForwardedOK(c) ==
  LET d == Forwarded(c) IN
  /\ From(c) /\ kind[c] # "tok"
  /\ d \in Addr /\ Copy(d)
  /\ kind[d] = kind[c] /\ id[d] = id[c]
  /\ d \in old <=> (c \in old \/ c \in age)

\* A forwarding address that is not written stays right.
LEMMA ForwardKept ==
  ASSUME IInv, SameCycle, NEW N \in SUBSET Addr, Moved(N), NEW c \in fwd, Forwarded(c)' = Forwarded(c)
  PROVE  ForwardedOK(c)'
<1>1. PICK d : d = Forwarded(c)
  BY Zenon
<1>2. c \in Addr /\ From(c) /\ kind[c] # "tok" /\ d \in Addr /\ Copy(d) /\ kind[d] = kind[c] /\ id[d] = id[c]
      /\ (d \in old <=> (c \in old \/ c \in age))
  BY Zenon, <1>1 DEF IInv, Forwarding, TypeOK, MemoryType
<1>3. c \notin N /\ d \notin N
  BY Zenon, <1>2, MovedFacts DEF Heap
<1>4. From(c)' /\ Copy(d)'
  BY Zenon, <1>2, <1>3, MovedFacts
<1>5. /\ kind'[c] = kind[c] /\ id'[c] = id[c] /\ (c \in old' <=> c \in old) /\ (c \in age' <=> c \in age)
      /\ kind'[d] = kind[d] /\ id'[d] = id[d] /\ (d \in old' <=> d \in old)
  BY Zenon, <1>2, <1>3 DEF Moved
<1> QED BY Zenon, <1>1, <1>2, <1>4, <1>5 DEF ForwardedOK

\* A step of the collector that writes nothing preserves the object graph.
LEMMA StillGraph ==
  ASSUME IInv, SameCycle, UNCHANGED <<memVars, topVars>>
  PROVE  /\ Graph'
         /\ \A b \in Addr : /\ Readable(b)' <=> Readable(b)
                            /\ (From(b)' <=> From(b)) /\ (Copy(b)' <=> Copy(b)) /\ (Kept(b)' <=> Kept(b))
         /\ \A b \in Addr, j \in 1..2 : /\ Field(b, j)' = Field(b, j)
                                        /\ Readable(b) => /\ Pending(Field(b, j))' <=> Pending(Field(b, j))
                                                          /\ Settled(Field(b, j))' <=> Settled(Field(b, j))
<1>1. /\ kind' = kind /\ id' = id /\ old' = old /\ age' = age /\ fwd' = fwd /\ fst' = fst /\ snd' = snd
      /\ ytop' = ytop /\ otop' = otop
  BY Zenon DEF memVars, hdrVars, topVars
<1>2. Moved({})
  BY Zenon, <1>1 DEF Moved, Allocated, SameCycle
<1>3. \A b \in Addr : /\ Readable(b)' <=> Readable(b)
                      /\ (From(b)' <=> From(b)) /\ (Copy(b)' <=> Copy(b)) /\ (Kept(b)' <=> Kept(b))
                      /\ (Heap(b)' <=> Heap(b)) /\ (Allocated(b)' <=> Allocated(b))
  <2> TAKE b \in Addr
  <2>1. (From(b)' <=> From(b)) /\ (Copy(b)' <=> Copy(b)) /\ (Heap(b)' <=> Heap(b)) /\ (Kept(b)' <=> Kept(b))
    BY <1>2, MovedFacts
  <2>2. Allocated(b)' <=> Allocated(b)
    BY Zenon, <1>2 DEF Moved
  <2> QED BY Zenon, <1>1, <2>1, <2>2 DEF Readable, IsRoot
<1>4. \A b, j : Field(b, j)' = Field(b, j)
  BY Zenon, <1>1 DEF Field
<1>5. ASSUME NEW b \in Addr, NEW j \in 1..2, Readable(b)
      PROVE  /\ Pending(Field(b, j))' <=> Pending(Field(b, j))
             /\ Settled(Field(b, j))' <=> Settled(Field(b, j))
  <2>1. PICK x : x = Field(b, j)
    BY Zenon
  <2>2. x \in Ptr /\ Field(b, j)' = x
    BY Zenon, <1>4, <2>1 DEF IInv, TypeOK, MemoryType, Field
  <2>3. x \in Const \/ Heap(x)
    BY Zenon, <1>5, <2>1 DEF IInv, Fields, Faithful
  <2>4. (Pending(x)' <=> Pending(x)) /\ (Settled(x)' <=> Settled(x))
    BY Zenon, <1>2, <2>2, <2>3, PtrKept
  <2> QED BY Zenon, <2>1, <2>2, <2>4
<1>6. Fields'
  <2>1. ASSUME NEW b \in Addr, Readable(b), NEW j \in 1..2
        PROVE  Faithful(b, j)' /\ Reached(b, j)' /\ (Heap(b)' => Ranked(b, j)')
    BY <1>2, <1>4, <2>1, FieldKept
  <2> QED BY Zenon, <1>3, <2>1 DEF Fields
<1>7. MemoryType'
  BY Zenon, <1>1 DEF IInv, TypeOK, MemoryType
<1>8. Layout'
  <2>1. \A s : FromSpace(s)' <=> FromSpace(s)
    BY Zenon DEF SameCycle, FromSpace, Collecting
  <2> QED BY Zenon, <1>1, <1>3, <2>1 DEF IInv, Layout
<1>9. Headers'
  BY Zenon, <1>1, <1>3 DEF IInv, Headers, SameCycle, Collecting
<1>10. Forwarding'
  <2>1. \A c \in fwd : Forwarded(c)' = Forwarded(c)
    BY Zenon, <1>1 DEF Forwarded
  <2>2. \A c \in fwd : ForwardedOK(c)'
    BY Zenon, <1>2, <2>1, ForwardKept
  <2> QED BY Zenon, <1>1, <2>2 DEF Forwarding, ForwardedOK
<1>11. Names'
  BY Zenon, <1>1, <1>3 DEF IInv, Names, SameCycle
<1>12. Payloads'
  BY Zenon, <1>1 DEF IInv, Payloads, OwnsPayload
<1> QED BY Zenon, <1>3, <1>4, <1>5, <1>6, <1>7, <1>8, <1>9, <1>10, <1>11, <1>12 DEF Graph

\* A field that stays: the constants, and in a young collection the old generation.
LEMMA StayOutcome ==
  ASSUME IInv, SameCycle, NEW a \in Addr, NEW i \in 1..2, Slot(a, i), NEW p, p = Field(a, i),
         Settled(p), UNCHANGED <<memVars, topVars>>
  PROVE  Outcome(a, i, p, p, {}) /\ Graph'
<1>1. /\ kind' = kind /\ id' = id /\ old' = old /\ age' = age /\ fwd' = fwd /\ fst' = fst /\ snd' = snd
      /\ ytop' = ytop /\ otop' = otop
  BY Zenon DEF memVars, hdrVars, topVars
<1>2. Moved({})
  BY Zenon, <1>1 DEF Moved, Allocated, SameCycle
<1>3. p \in Ptr /\ (p \in Const \/ (p \in Addr /\ Heap(p)))
  BY Zenon, SlotTarget
<1>4. /\ p \in Const \/ (p \in Addr /\ Heap(p)')
      /\ KindAt(p)' = KindAt(p) /\ Id(p)' = Id(p) /\ RankAfter(p)' = RankAfter(p)
      /\ Settled(p)'
  BY Zenon, <1>2, <1>3, PtrKept
<1>5. \A b, j : Field(b, j)' = Field(b, j)
  BY Zenon, <1>1 DEF Field
<1>6. Redirected(a, i, p, p)
  BY Zenon, <1>4, <1>5 DEF Redirected
<1>7. \A b \in Addr : /\ Readable(b)' <=> Readable(b)
                      /\ (From(b)' <=> From(b)) /\ (Copy(b)' <=> Copy(b)) /\ (Heap(b)' <=> Heap(b))
                      /\ (Allocated(b)' <=> Allocated(b))
  <2> TAKE b \in Addr
  <2>1. (From(b)' <=> From(b)) /\ (Copy(b)' <=> Copy(b)) /\ (Heap(b)' <=> Heap(b))
    BY <1>2, MovedFacts
  <2>2. Allocated(b)' <=> Allocated(b)
    BY Zenon, <1>2 DEF Moved
  <2> QED BY Zenon, <1>1, <2>1, <2>2 DEF Readable, IsRoot
<1>8. Outcome(a, i, p, p, {})
  BY Zenon, <1>2, <1>5, <1>6, <1>7 DEF Outcome
<1> QED BY Zenon, <1>8, StillGraph

\* Objects that own a payload are not the ones the collector writes to.
LEMMA OwnerFacts ==
  ASSUME IInv, NEW c \in Addr, OwnsPayload(c)
  PROVE  /\ kind[c] \in OwnerKind
         /\ fst[c] \in Addr /\ kind[fst[c]] = "tok"
         /\ \A b \in Addr : OwnsPayload(b) /\ fst[b] = fst[c] => b = c
BY Zenon DEF IInv, Payloads, OwnsPayload, OwnerKind

\* A field whose object was already copied: it follows the forwarding address.
LEMMA FollowOutcome ==
  ASSUME IInv, SameCycle, NEW a \in Addr, NEW i \in 1..2, Slot(a, i), NEW p, p = Field(a, i),
         p \in fwd, FollowForward(a, i, p)
  PROVE  Outcome(a, i, p, Forwarded(p), {}) /\ Graph'
<1>q. PICK q : q = Forwarded(p)
  BY Zenon
<1>1. /\ kind' = kind /\ id' = id /\ old' = old /\ age' = age /\ fwd' = fwd
      /\ fst' = IF i = 1 THEN [fst EXCEPT ![a] = q] ELSE fst
      /\ snd' = IF i = 2 THEN [snd EXCEPT ![a] = q] ELSE snd
      /\ ytop' = ytop /\ otop' = otop
  BY Zenon, <1>q DEF FollowForward, hdrVars, topVars
<1>2. Moved({})
  BY Zenon, <1>1 DEF Moved, Allocated, SameCycle
<1>3. /\ p \in Addr /\ From(p) /\ q \in Addr /\ Copy(q) /\ kind[q] = kind[p] /\ id[q] = id[p]
      /\ q \in old <=> (p \in old \/ p \in age)
  BY Zenon, <1>q DEF IInv, Forwarding, TypeOK, MemoryType
<1>4. kind[p] \notin {"free", "root", "tok"}
  BY Zenon, <1>3, SlotTarget
<1>5. q \in age /\ ~From(q)
  BY Zenon, <1>3, <1>4, CopyFacts DEF IInv, Headers, From, FromSpace
<1>6. MemoryType'
  <2>1. fst' \in [Addr -> Ptr] /\ snd' \in [Addr -> Ptr]
    BY Zenon, <1>1, <1>3, PtrFacts DEF IInv, TypeOK, MemoryType
  <2> QED BY Zenon, <1>1, <2>1 DEF IInv, TypeOK, MemoryType
<1>7. /\ Field(a, i)' = q
      /\ \A b \in Addr, j \in 1..2 : ~(b = a /\ j = i) => Field(b, j)' = Field(b, j)
      /\ \A b \in Addr : b # a => fst'[b] = fst[b]
  BY <1>1 DEF Field, IInv, TypeOK, MemoryType
<1>8. Redirected(a, i, p, q)
  <2>1. /\ q \in Const \/ (q \in Addr /\ Heap(q)')
        /\ KindAt(q)' = KindAt(q) /\ Id(q)' = Id(q) /\ RankAfter(q)' = RankAfter(q)
        /\ Settled(q)'
    BY Zenon, <1>2, <1>3, PtrKept, PtrFacts DEF Heap, Settled
  <2>2. KindAt(q) = KindAt(p) /\ Id(q) = Id(p)
    BY Zenon, <1>3, PtrFacts DEF KindAt, Id
  <2>3. RankAfter(q) = RankAfter(p)
    BY Zenon, <1>3, <1>5, PtrFacts DEF RankAfter, Rank
  <2>4. p \notin Const /\ ~Kept(p)
    BY Zenon, <1>3, PtrFacts, CopyFacts
  <2> QED BY Zenon, <1>7, <2>1, <2>2, <2>3, <2>4 DEF Redirected
<1>9. \A b \in Addr : /\ Readable(b)' <=> Readable(b)
                      /\ (From(b)' <=> From(b)) /\ (Copy(b)' <=> Copy(b)) /\ (Heap(b)' <=> Heap(b))
                      /\ (Allocated(b)' <=> Allocated(b))
  <2> TAKE b \in Addr
  <2>1. (From(b)' <=> From(b)) /\ (Copy(b)' <=> Copy(b)) /\ (Heap(b)' <=> Heap(b))
    BY <1>2, MovedFacts
  <2>2. Allocated(b)' <=> Allocated(b)
    BY Zenon, <1>2 DEF Moved
  <2> QED BY Zenon, <1>1, <2>1, <2>2 DEF Readable, IsRoot
<1>10. Outcome(a, i, p, q, {})
  BY Zenon, <1>2, <1>7, <1>8, <1>9 DEF Outcome
<1>11. Fields'
  BY <1>10, FieldsAfter
<1>12. Layout'
  <2>1. \A s : FromSpace(s)' <=> FromSpace(s)
    BY Zenon, <1>2, MovedFacts
  <2> QED BY Zenon, <1>1, <1>9, <2>1 DEF IInv, Layout
<1>13. Headers'
  BY Zenon, <1>1, <1>9 DEF IInv, Headers, SameCycle, Collecting
<1>14. kind[a] # "tok" /\ kind[a] \notin OwnerKind /\ ~From(a)
  BY Zenon DEF Slot, BlockKind, NodeKind, OwnerKind
<1>15. Forwarding'
  <2>1. ASSUME NEW c \in fwd PROVE Forwarded(c)' = Forwarded(c)
    <3>1. c \in Addr /\ c # a
      BY Zenon, <1>14 DEF IInv, Forwarding, TypeOK, MemoryType
    <3>2. CASE kind[c] = "buf"
      <4>1. fst[c] \in Addr /\ fst[c] # a
        BY Zenon, <1>14, <3>1, <3>2, OwnerFacts DEF OwnsPayload
      <4> QED BY Zenon, <1>1, <1>7, <3>1, <3>2, <4>1 DEF Forwarded
    <3>3. CASE kind[c] # "buf"
      BY Zenon, <1>1, <1>7, <3>1, <3>3 DEF Forwarded
    <3> QED BY Zenon, <3>2, <3>3
  <2>2. \A c \in fwd : ForwardedOK(c)'
    BY Zenon, <1>2, <2>1, ForwardKept
  <2> QED BY Zenon, <1>1, <2>2 DEF Forwarding, ForwardedOK
<1>16. Names'
  BY Zenon, <1>1, <1>9 DEF IInv, Names, SameCycle
<1>17. Payloads'
  <2>1. \A b \in Addr : OwnsPayload(b)' <=> OwnsPayload(b)
    BY Zenon, <1>1 DEF OwnsPayload
  <2>2. \A b \in Addr : OwnsPayload(b) => fst'[b] = fst[b]
    BY Zenon, <1>7, <1>14, OwnerFacts
  <2> QED BY Zenon, <1>1, <2>1, <2>2 DEF IInv, Payloads
<1> QED BY Zenon, <1>q, <1>6, <1>10, <1>11, <1>12, <1>13, <1>15, <1>16, <1>17 DEF Graph

---------------------------------------------------------------------------
(* Copying.  w is the word that receives the forwarding address.           *)

Copied(a, i, p, d, N, w) ==
  /\ Moved(N) /\ d \in N
  /\ fwd' = fwd \cup {p}
  /\ \A b \in Addr \ N : /\ ~(b = a /\ i = 1) /\ b # w => fst'[b] = fst[b]
                         /\ ~(b = a /\ i = 2) => snd'[b] = snd[b]
  /\ Field(a, i)' = d
  /\ fst'[w] = d
  /\ kind'[d] = kind[p] /\ id'[d] = id[p] /\ snd'[d] = snd[p]
  /\ d \in age'
  /\ d \in old' <=> (p \in old \/ p \in age)
  /\ d \in old' <=> SpaceOf(d) \in OldSpace

\* migrate and migrate_collection_node copy one object,
CopiedAlone(p, d, N, w) ==
  /\ kind[p] \notin OwnerKind
  /\ N = {d} /\ w = p
  /\ fst'[d] = fst[p]

\* migrate_mpz, migrate_floating and migrate_string_buffer copy its payload too, to e.
CopiedWith(p, d, e, N, w) ==
  /\ kind[p] \in OwnerKind
  /\ N = {d, e} /\ e # d
  /\ w = IF kind[p] = "buf" THEN fst[p] ELSE p
  /\ fst'[d] = e /\ kind'[e] = "tok" /\ id'[e] = id[fst[p]]
  /\ d \in old' => SpaceOf(e) \in OldSpace

CopiedShape(p, d, N, w) == CopiedAlone(p, d, N, w) \/ \E e : CopiedWith(p, d, e, N, w)

\* The addresses involved in a copy are different from each other.
LEMMA CopiedFacts ==
  ASSUME IInv, NEW a \in Addr, NEW i \in 1..2, Slot(a, i), NEW p \in Addr, p = Field(a, i), From(p), p \notin fwd,
         NEW d, NEW N \in SUBSET Addr, NEW w, SameCycle, Copied(a, i, p, d, N, w),
         CopiedShape(p, d, N, w)
  PROVE  /\ p \notin N /\ a \notin N /\ w \in Addr /\ w \notin N /\ a # p /\ a # w
         /\ kind[p] \notin {"free", "root", "tok"} /\ Readable(p)
         /\ kind[a] # "tok" /\ kind[a] \notin OwnerKind /\ a \notin fwd
         /\ w = p \/ kind[w] = "tok"
         /\ kind[p] = "buf" <=> w # p
         /\ kind[p] = "buf" => w = fst[p]
         /\ kind[p] \in OwnerKind => fst[p] \in Addr /\ kind[fst[p]] = "tok" /\ Heap(fst[p])
<1>1. kind[p] \notin {"free", "root", "tok"}
  BY Zenon, SlotTarget
<1>2. Readable(p) /\ ~IsRoot(p) /\ Heap(p)
  BY Zenon, <1>1, CopyFacts DEF Readable, Heap
<1>3. Readable(a) /\ ~From(a) /\ kind[a] # "tok" /\ kind[a] \notin OwnerKind /\ a # p /\ a \notin fwd
  BY Zenon DEF Slot, BlockKind, NodeKind, OwnerKind, Readable
<1>4. a \notin N
  <2>1. Heap(a) \/ IsRoot(a)
    BY Zenon, <1>3 DEF Readable
  <2>2. yid # "R" /\ oid # "R"
    BY Zenon, SpaceFacts DEF IInv, TypeOK, ControlType
  <2> QED BY Zenon, <2>1, <2>2, MovedFacts DEF IsRoot, Moved, Copied
<1>5. p \notin N
  BY Zenon, <1>2, MovedFacts DEF Copied
<1>6. kind[p] \in OwnerKind => fst[p] \in Addr /\ kind[fst[p]] = "tok" /\ Heap(fst[p])
  <2> HAVE kind[p] \in OwnerKind
  <2>1. fst[p] \in Addr /\ kind[fst[p]] = "tok"
    BY Zenon, OwnerFacts DEF OwnsPayload, OwnerKind
  <2>2. Faithful(p, 1)
    BY <1>2 DEF IInv, Fields
  <2> QED BY Zenon, <2>1, <2>2, PtrFacts DEF Faithful, Field
<1>7. kind[p] \in OwnerKind => fst[p] \notin N
  BY Zenon, <1>6, MovedFacts DEF Copied
<1>8. CASE CopiedAlone(p, d, N, w)
  <2>1. w = p /\ kind[p] # "buf" /\ kind[p] \notin OwnerKind
    BY Zenon, <1>8 DEF CopiedAlone, OwnerKind
  <2> QED BY Zenon, <1>1, <1>2, <1>3, <1>4, <1>5, <2>1
<1>9. ASSUME NEW e, CopiedWith(p, d, e, N, w)
      PROVE  /\ w = p \/ kind[w] = "tok"
             /\ kind[p] = "buf" <=> w # p
             /\ kind[p] = "buf" => w = fst[p]
             /\ w \in Addr /\ w \notin N
  BY Zenon, <1>1, <1>5, <1>6, <1>7, <1>9 DEF CopiedWith, OwnerKind
<1> QED BY Zenon, <1>1, <1>2, <1>3, <1>4, <1>5, <1>6, <1>8, <1>9 DEF CopiedShape

CopyEffect(a, i, p, d, N) ==
  /\ Moved(N) /\ Redirected(a, i, p, d)
  /\ \A b \in Addr : Readable(b)' => Readable(b) \/ b \in N
  /\ \A b \in Addr \ N : \A j \in 1..2 : Readable(b)' /\ ~(b = a /\ j = i) => Field(b, j)' = Field(b, j)
  /\ \A b \in N : Readable(b)' => b = d

\* Copying redirects one field to the copy and leaves the other readable fields alone.
LEMMA CopiedOutcome ==
  ASSUME IInv, NEW a \in Addr, NEW i \in 1..2, Slot(a, i), NEW p \in Addr, p = Field(a, i), From(p), p \notin fwd,
         NEW d, NEW N \in SUBSET Addr, NEW w, SameCycle, Copied(a, i, p, d, N, w),
         CopiedShape(p, d, N, w)
  PROVE  CopyEffect(a, i, p, d, N)
<1>1. /\ p \notin N /\ a \notin N /\ w \in Addr /\ w \notin N /\ a # p /\ a # w
      /\ kind[p] \notin {"free", "root", "tok"} /\ Readable(p)
      /\ w = p \/ kind[w] = "tok"
  BY CopiedFacts
<1>2. Moved(N) /\ d \in N /\ d \in Addr /\ fwd' = fwd \cup {p}
  BY Zenon DEF Copied
<1>3. Redirected(a, i, p, d)
  <2>1. Copy(d)' /\ Heap(d)' /\ ~From(d)'
    BY Zenon, <1>2, MovedFacts
  <2>2. Field(a, i)' = d /\ KindAt(d)' = KindAt(p) /\ Id(d)' = Id(p)
    BY Zenon, <1>2, PtrFacts DEF Copied, KindAt, Id
  <2>3. RankAfter(d)' = RankAfter(p)
    BY Zenon, <1>2, <2>1, PtrFacts DEF Copied, RankAfter, Rank
  <2>4. Settled(d)' /\ p \notin Const /\ ~Kept(p)
    BY Zenon, <1>2, <2>1, PtrFacts, CopyFacts DEF Settled
  <2> QED BY Zenon, <1>2, <2>1, <2>2, <2>3, <2>4 DEF Redirected
<1>4. \A b \in Addr : Readable(b)' => Readable(b) \/ b \in N
  <2> SUFFICES ASSUME NEW b \in Addr, Readable(b)', b \notin N
               PROVE  Readable(b)
    BY Zenon
  <2>1. (Heap(b)' <=> Heap(b)) /\ kind'[b] = kind[b]
    BY Zenon, <1>2, MovedFacts DEF Moved
  <2> QED BY Zenon, <1>2, <2>1 DEF Readable, IsRoot
<1>5. ASSUME NEW b \in Addr \ N, NEW j \in 1..2, Readable(b)', ~(b = a /\ j = i)
      PROVE  Field(b, j)' = Field(b, j)
  <2>1. b # w
    <3>1. kind'[b] = kind[b] /\ kind'[b] # "tok" /\ b \notin fwd'
      BY Zenon, <1>2, <1>5 DEF Moved, Readable
    <3> QED BY Zenon, <1>1, <1>2, <3>1
  <2>2. (~(b = a /\ i = 1) => fst'[b] = fst[b]) /\ (~(b = a /\ i = 2) => snd'[b] = snd[b])
    BY Zenon, <2>1 DEF Copied
  <2> QED BY <1>5, <2>2 DEF Field
<1>6. \A b \in N : Readable(b)' => b = d
  BY Zenon DEF CopiedShape, CopiedAlone, CopiedWith, Readable
<1> QED BY Zenon, <1>2, <1>3, <1>4, <1>5, <1>6 DEF CopyEffect

\* The children of the copy are those of the original, and none is younger than the copy.
LEMMA CopiedFields ==
  ASSUME IInv, NEW a \in Addr, NEW i \in 1..2, Slot(a, i), NEW p \in Addr, p = Field(a, i), From(p), p \notin fwd,
         NEW d, NEW N \in SUBSET Addr, NEW w, SameCycle, Copied(a, i, p, d, N, w),
         CopiedShape(p, d, N, w)
  PROVE  \A j \in 1..2 :
           /\ Faithful(d, j)' /\ Ranked(d, j)'
           /\ kind'[d] \notin OwnerKind => Pending(Field(d, j))'
           /\ kind'[d] \in OwnerKind \cup {"str"} => Settled(Field(d, j))'
<1>1. /\ kind[p] \notin {"free", "root", "tok"} /\ Readable(p)
      /\ kind[p] \in OwnerKind => fst[p] \in Addr /\ kind[fst[p]] = "tok" /\ Heap(fst[p])
  BY CopiedFacts
<1>2. /\ Moved(N) /\ d \in N /\ d \in Addr /\ kind'[d] = kind[p] /\ id'[d] = id[p] /\ snd'[d] = snd[p]
      /\ d \in age' /\ (d \in old' <=> (p \in old \/ p \in age))
  BY Zenon DEF Copied
<1>3. Copy(d)' /\ ~From(d)'
  BY Zenon, <1>2, MovedFacts
<1>4. d \notin Const /\ p \notin Const
  BY Zenon, <1>2, PtrFacts
<1>5. Rank(d)' = IF p \in old \/ p \in age THEN 2 ELSE 1
  BY Zenon, <1>2, <1>4 DEF Rank
<1>6. ASSUME NEW j \in 1..2, Field(d, j)' = Field(p, j), ~(kind[p] \in OwnerKind /\ j = 1)
      PROVE  /\ Faithful(d, j)' /\ Ranked(d, j)' /\ Pending(Field(d, j))'
             /\ kind'[d] \in OwnerKind \cup {"str"} => Settled(Field(d, j))'
  <2>1. PICK x : x = Field(p, j)
    BY Zenon
  <2>2. x \in Ptr /\ Field(d, j)' = x
    BY Zenon, <1>6, <2>1 DEF IInv, TypeOK, MemoryType, Field
  <2>3. Faithful(p, j) /\ Reached(p, j) /\ Ranked(p, j)
    BY Zenon, <1>1 DEF IInv, Fields, Heap
  <2>4. x \in Const \/ Heap(x)
    BY Zenon, <2>1, <2>3 DEF Faithful
  <2>5. /\ x \in Const \/ (x \in Addr /\ Heap(x)')
        /\ KindAt(x)' = KindAt(x) /\ Id(x)' = Id(x) /\ RankAfter(x)' = RankAfter(x)
        /\ Pending(x)' <=> Pending(x)
        /\ Settled(x)' <=> Settled(x)
    BY Zenon, <1>2, <2>2, <2>4, PtrKept
  <2>6. Pending(x)
    BY Zenon, <2>1, <2>3 DEF Reached
  <2>7. NodeField(id[d], j)' = NodeField(id[p], j)
    BY Zenon, <1>2 DEF NodeField, SameCycle
  <2>8. Faithful(d, j)'
    BY Zenon, <1>1, <1>2, <2>1, <2>2, <2>3, <2>5, <2>7 DEF Faithful
  <2>9. RankAfter(x) >= (IF p \in old \/ p \in age THEN 2 ELSE 1)
    <3>1. Rank(x) >= Rank(p)
      BY Zenon, <1>6, <2>1, <2>3 DEF Ranked
    <3>2. CASE x \in Const
      BY <3>2 DEF RankAfter
    <3>3. CASE x \notin Const /\ From(x)
      BY <1>4, <3>1, <3>3 DEF RankAfter, Rank
    <3>4. CASE x \notin Const /\ Kept(x)
      <4>1. x \in Addr /\ Heap(x) /\ ~From(x)
        BY Zenon, <2>2, <3>4, PtrFacts, CopyFacts DEF Heap
      <4>2. kind[x] # "tok"
        <5>1. kind[x] \in ChildKinds(kind[p], j)
          BY Zenon, <2>1, <2>3, <3>4 DEF Faithful, KindAt
        <5>2. kind[p] \in {"sym", "coll", "str", "inner", "leaf", "int", "buf"}
          BY Zenon, <1>1 DEF IInv, TypeOK, MemoryType, Kind
        <5> QED BY <1>6, <5>1, <5>2, ChildKindFacts DEF TermKind, CollectionNodeKind, Items, OwnerKind
      <4>3. kind[x] \notin {"free", "root", "tok"}
        BY Zenon, <4>1, <4>2, CopyFacts
      <4>4. x \in old
        BY Zenon, <3>4, <4>1, <4>3 DEF IInv, Headers, Kept, TypeOK, ControlType
      <4> QED BY <3>4, <4>1, <4>4 DEF RankAfter, Rank
    <3> QED BY Zenon, <2>6, <3>2, <3>3, <3>4 DEF Pending
  <2>10. Ranked(d, j)'
    BY Zenon, <1>2, <1>3, <1>5, <1>6, <2>2, <2>5, <2>9 DEF Ranked
  <2>11. kind'[d] \in OwnerKind \cup {"str"} => Settled(x)'
    <3> HAVE kind'[d] \in OwnerKind \cup {"str"}
    <3>1. KindAt(x) \in {"const"}
      <4>1. KindAt(x) \in ChildKinds(kind[p], j)
        BY Zenon, <2>1, <2>3 DEF Faithful
      <4> QED BY <1>2, <1>6, <4>1, ChildKindFacts DEF OwnerKind
    <3>2. x \in Const
      BY Zenon, <2>2, <3>1, PtrFacts DEF KindAt, IInv, TypeOK, MemoryType, Kind
    <3> QED BY Zenon, <3>2 DEF Settled
  <2> QED BY Zenon, <2>2, <2>5, <2>6, <2>8, <2>10, <2>11
<1>7. Field(d, 2)' = Field(p, 2)
  BY <1>2 DEF Field
<1>8. CASE CopiedAlone(p, d, N, w)
  <2>1. Field(d, 1)' = Field(p, 1) /\ kind[p] \notin OwnerKind
    BY Zenon, <1>8 DEF CopiedAlone, Field
  <2> QED BY <1>6, <1>7, <2>1
<1>9. ASSUME NEW e, CopiedWith(p, d, e, N, w)
      PROVE  Faithful(d, 1)' /\ Ranked(d, 1)' /\ Settled(Field(d, 1))' /\ kind[p] \in OwnerKind
  <2>1. /\ kind[p] \in OwnerKind /\ e \in N /\ e \in Addr
        /\ fst'[d] = e /\ kind'[e] = "tok" /\ id'[e] = id[fst[p]]
        /\ d \in old' => SpaceOf(e) \in OldSpace
    BY Zenon, <1>9 DEF CopiedWith
  <2>2. Field(d, 1)' = e /\ KindAt(e)' = "tok" /\ Id(e)' = id[fst[p]]
    BY Zenon, <2>1, PtrFacts DEF Field, KindAt, Id
  <2>3. Copy(e)' /\ Heap(e)'
    BY Zenon, <1>2, <2>1, MovedFacts
  <2>4. Faithful(p, 1)
    BY <1>1 DEF IInv, Fields
  <2>5. id[fst[p]] = NodeField(id[p], 1)
    BY Zenon, <1>1, <2>1, <2>4, PtrFacts DEF Faithful, Field, Id
  <2>6. NodeField(id[d], 1)' = NodeField(id[p], 1)
    BY Zenon, <1>2 DEF NodeField, SameCycle
  <2>7. "tok" \in ChildKinds(kind[p], 1)
    BY Zenon, <2>1, ChildKindFacts DEF OwnerKind
  <2>8. Faithful(d, 1)'
    BY Zenon, <1>2, <2>2, <2>3, <2>5, <2>6, <2>7 DEF Faithful
  <2>9. Ranked(d, 1)'
    BY Zenon, <1>2, <2>1, <2>2 DEF Ranked
  <2> QED BY Zenon, <2>1, <2>2, <2>3, <2>8, <2>9 DEF Settled
<1>10. ASSUME NEW e, CopiedWith(p, d, e, N, w), NEW j \in 1..2
       PROVE  /\ Faithful(d, j)' /\ Ranked(d, j)'
              /\ kind'[d] \notin OwnerKind => Pending(Field(d, j))'
              /\ kind'[d] \in OwnerKind \cup {"str"} => Settled(Field(d, j))'
  <2>1. CASE j = 1
    BY Zenon, <1>2, <1>9, <1>10, <2>1
  <2>2. CASE j = 2
    BY <1>6, <1>7, <2>2
  <2> QED BY <2>1, <2>2
<1> QED BY Zenon, <1>8, <1>10 DEF CopiedShape

\* Old forwarding addresses stay, and the original leads to the copy.
LEMMA CopiedForwarding ==
  ASSUME IInv, NEW a \in Addr, NEW i \in 1..2, Slot(a, i), NEW p \in Addr, p = Field(a, i), From(p), p \notin fwd,
         NEW d, NEW N \in SUBSET Addr, NEW w, SameCycle, Copied(a, i, p, d, N, w),
         CopiedShape(p, d, N, w)
  PROVE  Forwarding'
<1>1. /\ p \notin N /\ a \notin N /\ w \in Addr /\ w \notin N /\ a # p /\ a # w
      /\ kind[p] \notin {"free", "root", "tok"}
      /\ kind[a] # "tok" /\ kind[a] \notin OwnerKind /\ a \notin fwd
      /\ w = p \/ kind[w] = "tok"
      /\ kind[p] = "buf" <=> w # p
      /\ kind[p] = "buf" => w = fst[p]
  BY CopiedFacts
<1>2. /\ Moved(N) /\ d \in N /\ d \in Addr /\ fwd' = fwd \cup {p}
      /\ \A b \in Addr \ N : b # a /\ b # w => fst'[b] = fst[b]
      /\ fst'[w] = d /\ kind'[d] = kind[p] /\ id'[d] = id[p] /\ (d \in old' <=> (p \in old \/ p \in age))
  BY Zenon DEF Copied
<1>3. \A b \in Addr : kind[b] = "tok" => b \notin N
  <2> SUFFICES ASSUME NEW b \in N PROVE kind[b] = "free"
    BY Zenon
  <2>1. ~Allocated(b) /\ SpaceOf(b) \in {yid, oid} /\ b \in Addr
    BY Zenon, <1>2 DEF Moved
  <2>2. ~FromSpace(SpaceOf(b)) /\ SpaceOf(b) # "R"
    BY Zenon, <2>1, SpaceFacts DEF FromSpace, IInv, TypeOK, ControlType
  <2> QED BY Zenon, <2>1, <2>2 DEF IInv, Layout
<1>4. ASSUME NEW c \in fwd PROVE ForwardedOK(c)'
  <2>1. c \in Addr /\ c # a /\ c # p /\ c # w /\ c \notin N /\ kind'[c] = kind[c]
    <3>1. c \in Addr /\ From(c) /\ kind[c] # "tok"
      BY Zenon DEF IInv, Forwarding, TypeOK, MemoryType
    <3>2. c \notin N
      BY Zenon, <1>2, <3>1, MovedFacts DEF Heap
    <3> QED BY Zenon, <1>1, <1>2, <3>1, <3>2 DEF Moved
  <2>2. fst'[c] = fst[c]
    BY Zenon, <1>2, <2>1
  <2>3. CASE kind[c] = "buf"
    <3>1. fst[c] \in Addr /\ kind[fst[c]] = "tok" /\ fst[c] # a /\ fst[c] \notin N
      BY Zenon, <1>1, <1>3, <2>1, <2>3, OwnerFacts DEF OwnsPayload
    <3>2. fst[c] # w
      <4>1. CASE kind[p] = "buf"
        BY Zenon, <1>1, <2>1, <2>3, <4>1, OwnerFacts DEF OwnsPayload
      <4>2. CASE kind[p] # "buf"
        BY Zenon, <1>1, <3>1, <4>2
      <4> QED BY Zenon, <4>1, <4>2
    <3>3. Forwarded(c)' = Forwarded(c)
      BY Zenon, <1>2, <2>1, <2>2, <2>3, <3>1, <3>2 DEF Forwarded
    <3> QED BY Zenon, <1>2, <3>3, ForwardKept
  <2>4. CASE kind[c] # "buf"
    <3>1. Forwarded(c)' = Forwarded(c)
      BY Zenon, <2>1, <2>2, <2>4 DEF Forwarded
    <3> QED BY Zenon, <1>2, <3>1, ForwardKept
  <2> QED BY Zenon, <2>3, <2>4
<1>5. ForwardedOK(p)'
  <2>1. kind'[p] = kind[p] /\ id'[p] = id[p] /\ (p \in old' <=> p \in old) /\ (p \in age' <=> p \in age)
    BY Zenon, <1>1, <1>2 DEF Moved
  <2>2. Forwarded(p)' = d
    <3>1. CASE kind[p] = "buf"
      <4>1. fst'[p] = fst[p] /\ fst[p] = w
        BY Zenon, <1>1, <1>2, <3>1
      <4> QED BY Zenon, <1>2, <2>1, <3>1, <4>1 DEF Forwarded
    <3>2. CASE kind[p] # "buf"
      BY Zenon, <1>1, <1>2, <2>1, <3>2 DEF Forwarded
    <3> QED BY Zenon, <3>1, <3>2
  <2>3. From(p)' /\ Copy(d)'
    BY Zenon, <1>1, <1>2, MovedFacts
  <2> QED BY Zenon, <1>1, <1>2, <2>1, <2>2, <2>3 DEF ForwardedOK
<1> QED BY Zenon, <1>2, <1>4, <1>5 DEF Forwarding, ForwardedOK

\* The copy has the original's name, which the original gives up.
LEMMA CopiedNames ==
  ASSUME IInv, NEW a \in Addr, NEW i \in 1..2, Slot(a, i), NEW p \in Addr, p = Field(a, i), From(p), p \notin fwd,
         NEW d, NEW N \in SUBSET Addr, NEW w, SameCycle, Copied(a, i, p, d, N, w),
         CopiedShape(p, d, N, w)
  PROVE  Names'
<1>1. /\ p \notin N /\ kind[p] \notin {"free", "root", "tok"} /\ Heap(p)
      /\ kind[p] \in OwnerKind => fst[p] \in Addr /\ kind[fst[p]] = "tok" /\ Heap(fst[p])
  BY CopiedFacts DEF Heap
<1>2. /\ Moved(N) /\ d \in N /\ d \in Addr /\ fwd' = fwd \cup {p} /\ kind'[d] = kind[p] /\ id'[d] = id[p]
  BY Zenon DEF Copied
<1>3. ASSUME NEW b \in N, b # d
      PROVE  kind'[b] = "tok" /\ \E c \in Addr : Heap(c) /\ kind[c] = "tok" /\ id'[b] = id[c]
  <2>1. PICK e : CopiedWith(p, d, e, N, w)
    BY Zenon, <1>3 DEF CopiedShape, CopiedAlone
  <2>2. b = e /\ kind[p] \in OwnerKind /\ kind'[e] = "tok" /\ id'[e] = id[fst[p]]
    BY Zenon, <1>3, <2>1 DEF CopiedWith
  <2> QED BY Zenon, <1>1, <2>2
<1>4. \A b \in Addr : b \notin N => kind'[b] = kind[b] /\ id'[b] = id[b] /\ (Heap(b)' <=> Heap(b))
  BY Zenon, <1>2, MovedFacts DEF Moved
<1>5. ASSUME NEW b \in Addr, Heap(b)'
      PROVE  id'[b] \in 1..size /\ nkind[id'[b]] = kind'[b]
  <2>1. CASE b \notin N
    BY Zenon, <1>4, <1>5, <2>1 DEF IInv, Names
  <2>2. CASE b = d
    BY Zenon, <1>1, <1>2, <2>2 DEF IInv, Names
  <2>3. CASE b \in N /\ b # d
    BY <1>3, <2>3 DEF IInv, Names
  <2> QED BY Zenon, <2>1, <2>2, <2>3
<1>6. ASSUME NEW b \in Addr, NEW c \in Addr, Heap(b)', Heap(c)', kind'[b] # "tok", b \notin fwd', c \notin fwd',
             id'[b] = id'[c]
      PROVE  b = c
  <2>1. kind'[b] = kind'[c]
    BY Zenon, <1>5, <1>6
  <2>2. \A x \in {b, c} : x \in N => x = d
    BY Zenon, <1>3, <1>6, <2>1
  <2>3. \A x \in {b, c} : x \notin N => /\ kind[x] # "tok" /\ id'[x] = id[x] /\ Heap(x) /\ x \notin fwd
                                        /\ id[x] # id[p]
    <3> SUFFICES ASSUME NEW x \in {b, c}, x \notin N
                 PROVE  /\ kind[x] # "tok" /\ id'[x] = id[x] /\ Heap(x) /\ x \notin fwd
                        /\ id[x] # id[p]
      BY Zenon
    <3>1. x \in Addr /\ Heap(x) /\ kind[x] # "tok" /\ id'[x] = id[x] /\ x \notin fwd /\ x # p
      BY Zenon, <1>2, <1>4, <1>6, <2>1
    <3>2. id[x] # id[p]
      BY Zenon, <1>1, <3>1 DEF IInv, Names
    <3> QED BY Zenon, <3>1, <3>2
  <2>4. CASE b \notin N /\ c \notin N
    BY Zenon, <1>6, <2>3, <2>4 DEF IInv, Names
  <2>5. CASE b \in N /\ c \in N
    BY Zenon, <2>2, <2>5
  <2>6. CASE (b \in N /\ c \notin N) \/ (b \notin N /\ c \in N)
    BY Zenon, <1>2, <1>6, <2>2, <2>3, <2>6
  <2> QED BY Zenon, <2>4, <2>5, <2>6
<1>7. size' = size /\ nkind' = nkind
  BY Zenon DEF SameCycle
<1> QED BY Zenon, <1>5, <1>6, <1>7 DEF Names

\* A copied owner has a payload of its own.
LEMMA CopiedPayloads ==
  ASSUME IInv, NEW a \in Addr, NEW i \in 1..2, Slot(a, i), NEW p \in Addr, p = Field(a, i), From(p), p \notin fwd,
         NEW d, NEW N \in SUBSET Addr, NEW w, SameCycle, Copied(a, i, p, d, N, w),
         CopiedShape(p, d, N, w)
  PROVE  Payloads'
<1>1. /\ p \notin N /\ a \notin N /\ w \in Addr /\ w \notin N
      /\ kind[a] \notin OwnerKind
      /\ w = p \/ kind[w] = "tok"
      /\ kind[p] = "buf" <=> w # p
  BY CopiedFacts
<1>2. /\ Moved(N) /\ d \in N /\ d \in Addr /\ fwd' = fwd \cup {p} /\ kind'[d] = kind[p]
      /\ \A b \in Addr \ N : b # a /\ b # w => fst'[b] = fst[b]
  BY Zenon DEF Copied
<1>3. \A b \in N : kind[b] = "free"
  <2> SUFFICES ASSUME NEW b \in N PROVE kind[b] = "free"
    BY Zenon
  <2>1. ~Allocated(b) /\ SpaceOf(b) \in {yid, oid} /\ b \in Addr
    BY Zenon, <1>2 DEF Moved
  <2>2. ~FromSpace(SpaceOf(b)) /\ SpaceOf(b) # "R"
    BY Zenon, <2>1, SpaceFacts DEF FromSpace, IInv, TypeOK, ControlType
  <2> QED BY Zenon, <2>1, <2>2 DEF IInv, Layout
<1>4. ASSUME NEW b \in Addr, OwnsPayload(b)', b \notin N
      PROVE  /\ OwnsPayload(b) /\ fst'[b] = fst[b]
             /\ fst'[b] \in Addr /\ kind'[fst'[b]] = "tok" /\ fst'[b] \notin N
  <2>1. OwnsPayload(b) /\ kind[b] \in OwnerKind /\ ~(kind[b] = "int" /\ b = p)
    BY Zenon, <1>2, <1>4 DEF OwnsPayload, Moved, OwnerKind
  <2>2. b # a /\ b # w
    BY Zenon, <1>1, <2>1 DEF OwnerKind
  <2>3. fst'[b] = fst[b] /\ fst[b] \in Addr /\ kind[fst[b]] = "tok"
    BY Zenon, <1>2, <1>4, <2>1, <2>2, OwnerFacts
  <2>4. fst[b] \notin N
    BY Zenon, <1>3, <2>3
  <2> QED BY Zenon, <1>2, <2>1, <2>3, <2>4 DEF Moved
<1>5. ASSUME NEW b \in Addr, OwnsPayload(b)', b \in N
      PROVE  b = d /\ fst'[b] \in N /\ kind'[fst'[b]] = "tok"
  <2>1. CASE CopiedAlone(p, d, N, w)
    <3>1. b = d /\ kind'[b] \notin OwnerKind
      BY Zenon, <1>2, <1>5, <2>1 DEF CopiedAlone
    <3> QED BY Zenon, <1>5, <3>1 DEF OwnsPayload, OwnerKind
  <2>2. ASSUME NEW e, CopiedWith(p, d, e, N, w)
        PROVE  b = d /\ fst'[b] \in N /\ kind'[fst'[b]] = "tok"
    BY Zenon, <1>5, <2>2 DEF CopiedWith, OwnsPayload
  <2> QED BY Zenon, <2>1, <2>2 DEF CopiedShape
<1> QED BY <1>4, <1>5, OwnerFacts DEF Payloads

\* Copying preserves the object graph.
LEMMA CopiedGraph ==
  ASSUME IInv, NEW a \in Addr, NEW i \in 1..2, Slot(a, i), NEW p \in Addr, p = Field(a, i), From(p), p \notin fwd,
         NEW d, NEW N \in SUBSET Addr, NEW w, SameCycle, Copied(a, i, p, d, N, w),
         CopiedShape(p, d, N, w), MemoryType'
  PROVE  Outcome(a, i, p, d, N) /\ Graph'
<1>1. /\ p \notin N /\ a \notin N /\ kind[p] \notin {"free", "root", "tok"}
  BY CopiedFacts
<1>2. /\ Moved(N) /\ d \in N /\ d \in Addr /\ kind'[d] = kind[p]
      /\ d \in age' /\ (d \in old' <=> SpaceOf(d) \in OldSpace)
  BY Zenon DEF Copied
<1>3. Outcome(a, i, p, d, N)
  <2>1. CopyEffect(a, i, p, d, N)
    BY Zenon, CopiedOutcome
  <2>2. \A j \in 1..2 : /\ kind'[d] \notin OwnerKind => Pending(Field(d, j))'
                        /\ kind'[d] \in OwnerKind \cup {"str"} => Settled(Field(d, j))'
    BY Zenon, CopiedFields
  <2>3. kind'[d] = KindAt(p)
    BY Zenon, <1>2, PtrFacts DEF KindAt
  <2> QED BY Zenon, <2>1, <2>2, <2>3 DEF Outcome, CopyEffect
<1>4. Fields'
  <2>1. \A j \in 1..2 : Faithful(d, j)' /\ Ranked(d, j)'
    BY Zenon, CopiedFields
  <2>2. \A b \in N : Readable(b)' => b = d
    BY Zenon, <1>3 DEF Outcome
  <2> QED BY Zenon, <1>3, <2>1, <2>2, FieldsAfter
<1>5. \A b \in N : kind'[b] \notin {"free", "root"} /\ (kind'[b] # "tok" => b = d)
  BY Zenon, <1>1, <1>2 DEF CopiedShape, CopiedAlone, CopiedWith
<1>6. Layout'
  <2> SUFFICES ASSUME NEW b \in Addr
               PROVE  /\ SpaceOf(b) = "R" => kind'[b] = (IF Index(b) <= NRoots THEN "root" ELSE "free")
                      /\ SpaceOf(b) # "R" => kind'[b] # "root"
                      /\ SpaceOf(b) # "R" /\ ~FromSpace(SpaceOf(b))' => (kind'[b] = "free" <=> ~Allocated(b)')
    BY Zenon DEF Layout
  <2>1. \A s : FromSpace(s)' <=> FromSpace(s)
    BY Zenon, <1>2, MovedFacts
  <2>2. CASE b \in N
    <3>1. SpaceOf(b) # "R"
      BY Zenon, <1>2, <2>2, SpaceFacts DEF Moved, IInv, TypeOK, ControlType
    <3> QED BY Zenon, <1>2, <1>5, <2>2, <3>1 DEF Moved
  <2>3. CASE b \notin N
    BY Zenon, <1>2, <2>1, <2>3 DEF Moved, IInv, Layout
  <2> QED BY Zenon, <2>2, <2>3
<1>7. Headers'
  <2> SUFFICES ASSUME NEW b \in Addr, kind'[b] \notin {"free", "root", "tok"}
               PROVE  /\ b \in old' <=> SpaceOf(b) \in OldSpace
                      /\ b \in old' => b \in age'
                      /\ Collecting' /\ Copy(b)' => b \in age'
    BY Zenon DEF Headers
  <2>1. CASE b \in N
    BY Zenon, <1>2, <1>5, <2>1
  <2>2. CASE b \notin N
    <3>1. /\ kind'[b] = kind[b] /\ (b \in old' <=> b \in old) /\ (b \in age' <=> b \in age)
          /\ (Copy(b)' <=> Copy(b)) /\ (Collecting' <=> Collecting)
      BY Zenon, <1>2, <2>2, MovedFacts DEF Moved, SameCycle, Collecting
    <3> QED BY Zenon, <3>1 DEF IInv, Headers
  <2> QED BY Zenon, <2>1, <2>2
<1>8. Forwarding' /\ Names' /\ Payloads'
  BY Zenon, CopiedForwarding, CopiedNames, CopiedPayloads
<1> QED BY Zenon, <1>3, <1>4, <1>6, <1>7, <1>8 DEF Graph

---------------------------------------------------------------------------
(* The copying functions.                                                  *)

\* Where the copy goes is where its header says it is.
LEMMA TargetFacts ==
  ASSUME IInv, NEW p \in Addr, From(p), ToOldSpace(p) <=> (p \in old \/ p \in age),
         IF ToOldSpace(p) THEN otop < Cap ELSE ytop < Cap
  PROVE  /\ Target(p) \in Addr /\ SpaceOf(Target(p)) = IF ToOldSpace(p) THEN oid ELSE yid
         /\ SpaceOf(Target(p)) \in OldSpace <=> (p \in old \/ p \in age)
<1>1. TypeOK /\ ytop \in Nat /\ otop \in Nat /\ yid \notin OldSpace /\ oid \in OldSpace
  BY SpaceFacts, CapAssumption DEF IInv, TypeOK, MemoryType, ControlType
<1>2. CASE ToOldSpace(p)
  <2>1. otop + 1 <= Cap /\ Target(p) = Old(1)
    BY <1>1, <1>2, CapAssumption DEF Target
  <2> QED BY <1>1, <1>2, <2>1, OldFacts
<1>3. CASE ~ToOldSpace(p)
  <2>1. ytop + 1 <= Cap /\ Target(p) = Young(1)
    BY <1>1, <1>3, CapAssumption DEF Target
  <2> QED BY <1>1, <1>3, <2>1, YoungFacts
<1> QED BY Zenon, <1>2, <1>3

\* migrate, migrate_collection_node.
LEMMA CopyBlockGraph ==
  ASSUME IInv, SameCycle, NEW a \in Addr, NEW i \in 1..2, Slot(a, i), NEW p \in Addr, p = Field(a, i),
         From(p), p \notin fwd, kind[p] \notin OwnerKind, CopyBlock(a, i, p)
  PROVE  Outcome(a, i, p, Target(p), {Target(p)}) /\ Graph'
<1>1. PICK d : d = Target(p)
  BY Zenon
<1>2. /\ IF ToOldSpace(p) THEN otop < Cap ELSE ytop < Cap
      /\ otop' = IF ToOldSpace(p) THEN otop + 1 ELSE otop
      /\ ytop' = IF ToOldSpace(p) THEN ytop ELSE ytop + 1
      /\ kind' = [kind EXCEPT ![d] = kind[p]]
      /\ id' = [id EXCEPT ![d] = id[p]]
      /\ old' = MigratedOld(p, d)
      /\ age' = MigratedAge(p, d)
      /\ fwd' = (fwd \ {d}) \cup {p}
      /\ fst' = [fst EXCEPT ![d] = fst[p], ![p] = d, ![a] = IF i = 1 THEN d ELSE @]
      /\ snd' = [snd EXCEPT ![d] = snd[p], ![a] = IF i = 2 THEN d ELSE @]
  BY Zenon, <1>1 DEF CopyBlock
<1>3. ToOldSpace(p) <=> (p \in old \/ p \in age)
  BY Zenon, SlotTarget
<1>4. /\ d \in Addr /\ SpaceOf(d) = IF ToOldSpace(p) THEN oid ELSE yid
      /\ SpaceOf(d) \in OldSpace <=> (p \in old \/ p \in age)
  BY Zenon, <1>1, <1>2, <1>3, TargetFacts
<1>5. TypeOK
  BY Zenon DEF IInv
<1>6. \A b \in Addr : (Allocated(b)' <=> (Allocated(b) \/ b = d)) /\ (b = d => ~Allocated(b))
  <2>1. yid' = yid /\ oid' = oid /\ ytop \in Nat /\ otop \in Nat
    BY <1>5, CapAssumption DEF SameCycle, TypeOK, MemoryType
  <2>2. CASE ToOldSpace(p)
    <3>1. d = Old(1) /\ otop' = otop + 1 /\ ytop' = ytop + 0
      BY <1>1, <1>2, <2>1, <2>2 DEF Target
    <3> QED BY <1>5, <2>1, <3>1, TopsAfter
  <2>3. CASE ~ToOldSpace(p)
    <3>1. d = Young(1) /\ otop' = otop + 0 /\ ytop' = ytop + 1
      BY <1>1, <1>2, <2>1, <2>3 DEF Target
    <3> QED BY <1>5, <2>1, <3>1, TopsAfter
  <2> QED BY Zenon, <2>2, <2>3
<1>7. p # d /\ a # d /\ a # p
  <2>1. ~Allocated(p) /\ ~From(d) /\ ~Heap(d)
    BY Zenon, <1>4, <1>6, CopyFacts DEF Heap
  <2>2. Readable(a) /\ ~From(a)
    BY Zenon DEF Slot
  <2>3. SpaceOf(d) # "R"
    BY Zenon, <1>4, SpaceFacts DEF IInv, TypeOK, ControlType
  <2> QED BY Zenon, <2>1, <2>2, <2>3 DEF Readable, IsRoot
<1>8. MemoryType'
  <2>1. kind' \in [Addr -> Kind] /\ id' \in [Addr -> 0..MaxNodes]
    BY Zenon, <1>2, <1>4, <1>5 DEF TypeOK, MemoryType
  <2>2. fst' \in [Addr -> Ptr] /\ snd' \in [Addr -> Ptr]
    BY <1>2, <1>4, <1>5, PtrFacts DEF TypeOK, MemoryType
  <2>3. old' \in SUBSET Addr /\ age' \in SUBSET Addr /\ fwd' \in SUBSET Addr
    BY Zenon, <1>2, <1>4, <1>5 DEF TypeOK, MemoryType, MigratedOld, MigratedAge, SetBit
  <2>4. ytop' \in 0..Cap /\ otop' \in 0..Cap
    BY <1>2, <1>5, CapAssumption DEF TypeOK, MemoryType
  <2> QED BY Zenon, <2>1, <2>2, <2>3, <2>4 DEF MemoryType
<1> DEFINE N == {d}
<1>9. /\ \A b \in Addr \ N : kind'[b] = kind[b] /\ id'[b] = id[b]
      /\ kind'[d] = kind[p] /\ id'[d] = id[p]
  BY Zenon, <1>2, <1>4, <1>5 DEF TypeOK, MemoryType
<1>10. /\ \A b \in Addr \ N : (b \in old' <=> b \in old) /\ (b \in age' <=> b \in age)
       /\ d \in old' <=> (p \in old \/ p \in age)
       /\ d \in age'
  BY Zenon, <1>2, <1>4 DEF MigratedOld, MigratedAge, SetBit, shouldPromote, is_in_young_gen_hdr
<1>11. Moved(N)
  BY Zenon, <1>4, <1>6, <1>9, <1>10 DEF Moved
<1>12. fwd' = fwd \cup {p}
  BY Zenon, <1>2, <1>4, FwdFacts
<1>13. /\ \A b \in Addr \ N : ~(b = a /\ i = 1) /\ b # p => fst'[b] = fst[b]
       /\ fst'[d] = fst[p] /\ fst'[p] = d /\ (i = 1 => fst'[a] = d)
  BY Zenon, <1>2, <1>4, <1>5, <1>7 DEF TypeOK, MemoryType
<1>14. /\ \A b \in Addr \ N : ~(b = a /\ i = 2) => snd'[b] = snd[b]
       /\ snd'[d] = snd[p] /\ (i = 2 => snd'[a] = d)
  BY Zenon, <1>2, <1>4, <1>5, <1>7 DEF TypeOK, MemoryType
<1>15. Field(a, i)' = d
  BY <1>13, <1>14 DEF Field
<1>16. Copied(a, i, p, d, N, p)
  BY Zenon, <1>4, <1>9, <1>10, <1>11, <1>12, <1>13, <1>14, <1>15 DEF Copied
<1>17. CopiedShape(p, d, N, p)
  BY Zenon, <1>13 DEF CopiedShape, CopiedAlone
<1>18. N \in SUBSET Addr
  BY Zenon, <1>4
<1> HIDE DEF N
<1>19. Outcome(a, i, p, d, N) /\ Graph'
  BY Zenon, <1>8, <1>16, <1>17, <1>18, CopiedGraph
<1> QED BY Zenon, <1>1, <1>19 DEF N

\* Where the copy of a payload goes.
PayloadTarget(p) == IF ToOldSpace(p) THEN Old(2) ELSE IF fst[p] \in old THEN Old(1) ELSE Young(2)

\* The copies of an owner and of its payload are two new objects.
LEMMA OwnerTargets ==
  ASSUME IInv, SameCycle, NEW a \in Addr, NEW i \in 1..2, NEW p \in Addr, From(p),
         ToOldSpace(p) <=> (p \in old \/ p \in age), CopyOwner(a, i, p), NEW d, NEW e,
         d = Target(p), e = PayloadTarget(p)
  PROVE  /\ d \in Addr /\ e \in Addr /\ d # e
         /\ SpaceOf(d) \in {yid, oid} /\ SpaceOf(e) \in {yid, oid}
         /\ SpaceOf(d) \in OldSpace <=> (p \in old \/ p \in age)
         /\ ToOldSpace(p) => SpaceOf(e) \in OldSpace
         /\ \A b \in Addr : Allocated(b)' <=> (Allocated(b) \/ b \in {d, e})
         /\ ~Allocated(d) /\ ~Allocated(e)
         /\ ytop' \in 0..Cap /\ otop' \in 0..Cap
<1>1. /\ TypeOK /\ yid' = yid /\ oid' = oid /\ ytop \in Nat /\ otop \in Nat /\ yid # oid
      /\ yid \notin OldSpace /\ oid \in OldSpace
  BY SpaceFacts, CapAssumption DEF IInv, SameCycle, TypeOK, MemoryType, ControlType
<1>2. /\ ytop + 2 <= Cap /\ otop + 2 <= Cap
      /\ otop' = IF ToOldSpace(p) THEN otop + 2 ELSE IF fst[p] \in old THEN otop + 1 ELSE otop
      /\ ytop' = IF ToOldSpace(p) THEN ytop ELSE IF fst[p] \in old THEN ytop + 1 ELSE ytop + 2
  BY Zenon DEF CopyOwner
<1>3. ytop + 1 <= Cap /\ otop + 1 <= Cap
  BY <1>1, <1>2, CapAssumption
<1>4. /\ Young(1) \in Addr /\ SpaceOf(Young(1)) = yid /\ Index(Young(1)) = ytop + 1
      /\ Young(2) \in Addr /\ SpaceOf(Young(2)) = yid /\ Index(Young(2)) = ytop + 2
      /\ Old(1) \in Addr /\ SpaceOf(Old(1)) = oid /\ Index(Old(1)) = otop + 1
      /\ Old(2) \in Addr /\ SpaceOf(Old(2)) = oid /\ Index(Old(2)) = otop + 2
  BY <1>1, <1>2, <1>3, YoungFacts, OldFacts
<1>5. /\ Young(1) # Young(2) /\ Old(1) # Old(2) /\ Young(1) # Old(1)
  BY <1>1, <1>4
<1>6. ytop' \in 0..Cap /\ otop' \in 0..Cap
  BY <1>1, <1>2, <1>3, CapAssumption
<1>7. CASE ToOldSpace(p)
  <2>1. d = Old(1) /\ e = Old(2) /\ otop' = otop + 2 /\ ytop' = ytop + 0
    BY <1>1, <1>2, <1>7 DEF Target, PayloadTarget
  <2>2. \A b \in Addr : /\ Allocated(b)' <=> (Allocated(b) \/ \E k \in 1..2 : b = Old(k))
                        /\ \A k \in 1..3 : b = Old(k) => ~Allocated(b)
    BY <1>1, <2>1, TopsAfter
  <2>3. \A b \in Addr : Allocated(b)' <=> (Allocated(b) \/ b \in {d, e})
    BY <2>1, <2>2
  <2> QED BY <1>1, <1>4, <1>5, <1>6, <1>7, <2>1, <2>2, <2>3
<1>8. CASE ~ToOldSpace(p) /\ fst[p] \in old
  <2>1. d = Young(1) /\ e = Old(1) /\ otop' = otop + 1 /\ ytop' = ytop + 1
    BY Zenon, <1>1, <1>2, <1>8 DEF Target, PayloadTarget
  <2>2. \A b \in Addr : /\ Allocated(b)' <=> (Allocated(b) \/ (\E k \in 1..1 : b = Young(k)) \/ \E k \in 1..1 : b = Old(k))
                        /\ \A k \in 1..3 : b = Old(k) => ~Allocated(b)
                        /\ \A k \in 1..3 : b = Young(k) => ~Allocated(b)
    BY <1>1, <2>1, TopsAfter
  <2>3. \A b \in Addr : Allocated(b)' <=> (Allocated(b) \/ b \in {d, e})
    BY SMTT(30), <2>1, <2>2
  <2> QED BY <1>1, <1>4, <1>5, <1>6, <1>8, <2>1, <2>2, <2>3
<1>9. CASE ~ToOldSpace(p) /\ fst[p] \notin old
  <2>1. d = Young(1) /\ e = Young(2) /\ otop' = otop + 0 /\ ytop' = ytop + 2
    BY <1>1, <1>2, <1>9 DEF Target, PayloadTarget
  <2>2. \A b \in Addr : /\ Allocated(b)' <=> (Allocated(b) \/ \E k \in 1..2 : b = Young(k))
                        /\ \A k \in 1..3 : b = Young(k) => ~Allocated(b)
    BY <1>1, <2>1, TopsAfter
  <2>3. \A b \in Addr : Allocated(b)' <=> (Allocated(b) \/ b \in {d, e})
    BY <2>1, <2>2
  <2> QED BY SMTT(30), <1>1, <1>4, <1>5, <1>6, <1>9, <2>1, <2>2, <2>3
<1> QED BY Zenon, <1>7, <1>8, <1>9

\* migrate_mpz, migrate_floating, migrate_string_buffer.
LEMMA CopyOwnerGraph ==
  ASSUME IInv, SameCycle, NEW a \in Addr, NEW i \in 1..2, Slot(a, i), NEW p \in Addr, p = Field(a, i),
         From(p), p \notin fwd, kind[p] \in OwnerKind, CopyOwner(a, i, p)
  PROVE  Outcome(a, i, p, Target(p), {Target(p), PayloadTarget(p)}) /\ Graph'
<1>1. PICK d, e, c, w : d = Target(p) /\ e = PayloadTarget(p) /\ c = fst[p] /\ w = IF kind[p] = "buf" THEN c ELSE p
  BY Zenon
<1>2. /\ kind' = [kind EXCEPT ![d] = kind[p], ![e] = kind[c]]
      /\ id' = [id EXCEPT ![d] = id[p], ![e] = id[c]]
      /\ old' = SetBit(MigratedOld(p, d), e, c \in old)
      /\ age' = SetBit(MigratedAge(p, d), e, c \in age)
      /\ fwd' = (fwd \ {d, e}) \cup {p}
      /\ fst' = [fst EXCEPT ![d] = e, ![e] = fst[c], ![w] = d, ![a] = IF i = 1 THEN d ELSE @]
      /\ snd' = [snd EXCEPT ![d] = snd[p], ![e] = snd[c], ![a] = IF i = 2 THEN d ELSE @]
  BY Zenon, <1>1 DEF CopyOwner, PayloadTarget
<1>3. (ToOldSpace(p) <=> (p \in old \/ p \in age)) /\ kind[p] # "tok"
  BY Zenon, SlotTarget
<1>4. /\ d \in Addr /\ e \in Addr /\ d # e
      /\ SpaceOf(d) \in {yid, oid} /\ SpaceOf(e) \in {yid, oid}
      /\ SpaceOf(d) \in OldSpace <=> (p \in old \/ p \in age)
      /\ ToOldSpace(p) => SpaceOf(e) \in OldSpace
      /\ \A b \in Addr : Allocated(b)' <=> (Allocated(b) \/ b \in {d, e})
      /\ ~Allocated(d) /\ ~Allocated(e)
      /\ ytop' \in 0..Cap /\ otop' \in 0..Cap
  BY <1>1, <1>3, OwnerTargets
<1>5. TypeOK
  BY Zenon DEF IInv
<1>6. c \in Addr /\ kind[c] = "tok" /\ Heap(c)
  <2>1. Readable(p)
    BY Zenon, <1>3 DEF Readable, Heap
  <2>2. Faithful(p, 1)
    BY <2>1 DEF IInv, Fields
  <2>3. c \in Addr /\ kind[c] = "tok"
    BY Zenon, <1>1, OwnerFacts DEF OwnsPayload, OwnerKind
  <2> QED BY Zenon, <1>1, <2>2, <2>3, PtrFacts DEF Faithful, Field
<1>7. /\ w \in Addr /\ w \notin {d, e, a} /\ p \notin {d, e, a} /\ c \notin {d, e, a} /\ a \notin {d, e}
  <2>1. ~Allocated(p) /\ ~From(d) /\ ~Heap(d) /\ ~From(e) /\ ~Heap(e) /\ Heap(p)
    BY Zenon, <1>4, CopyFacts DEF Heap
  <2>2. Readable(a) /\ ~From(a) /\ kind[a] # "tok"
    BY Zenon DEF Slot, BlockKind, NodeKind
  <2>3. SpaceOf(d) # "R" /\ SpaceOf(e) # "R"
    BY Zenon, <1>4, SpaceFacts DEF IInv, TypeOK, ControlType
  <2> QED BY Zenon, <1>1, <1>6, <2>1, <2>2, <2>3 DEF Readable, IsRoot
<1>8. MemoryType'
  <2>1. kind' \in [Addr -> Kind] /\ id' \in [Addr -> 0..MaxNodes]
    BY Zenon, <1>2, <1>4, <1>5, <1>6 DEF TypeOK, MemoryType
  <2>2. fst' \in [Addr -> Ptr] /\ snd' \in [Addr -> Ptr]
    BY <1>2, <1>4, <1>5, <1>6, <1>7, PtrFacts DEF TypeOK, MemoryType
  <2>3. old' \in SUBSET Addr /\ age' \in SUBSET Addr /\ fwd' \in SUBSET Addr
    BY Zenon, <1>2, <1>4, <1>5 DEF TypeOK, MemoryType, MigratedOld, MigratedAge, SetBit
  <2> QED BY Zenon, <1>4, <2>1, <2>2, <2>3 DEF MemoryType
<1> DEFINE N == {d, e}
<1>9. /\ \A b \in Addr \ N : kind'[b] = kind[b] /\ id'[b] = id[b]
      /\ kind'[d] = kind[p] /\ id'[d] = id[p]
      /\ kind'[e] = "tok" /\ id'[e] = id[c]
  BY Zenon, <1>2, <1>4, <1>5, <1>6, <1>7 DEF TypeOK, MemoryType
<1>10. /\ \A b \in Addr \ N : (b \in old' <=> b \in old) /\ (b \in age' <=> b \in age)
       /\ d \in old' <=> (p \in old \/ p \in age)
       /\ d \in age'
  BY Zenon, <1>2, <1>4 DEF MigratedOld, MigratedAge, SetBit, shouldPromote, is_in_young_gen_hdr
<1>11. Moved(N)
  BY Zenon, <1>4, <1>9, <1>10 DEF Moved
<1>12. fwd' = fwd \cup {p}
  BY Zenon, <1>2, <1>4, FwdFacts
<1>13. /\ \A b \in Addr \ N : ~(b = a /\ i = 1) /\ b # w => fst'[b] = fst[b]
       /\ fst'[d] = e /\ fst'[w] = d /\ (i = 1 => fst'[a] = d)
  BY Zenon, <1>2, <1>4, <1>5, <1>7 DEF TypeOK, MemoryType
<1>14. /\ \A b \in Addr \ N : ~(b = a /\ i = 2) => snd'[b] = snd[b]
       /\ snd'[d] = snd[p] /\ (i = 2 => snd'[a] = d)
  BY Zenon, <1>2, <1>4, <1>5, <1>7 DEF TypeOK, MemoryType
<1>15. Field(a, i)' = d
  BY <1>13, <1>14 DEF Field
<1>16. Copied(a, i, p, d, N, w)
  BY Zenon, <1>4, <1>9, <1>10, <1>11, <1>12, <1>13, <1>14, <1>15 DEF Copied
<1>17. CopiedShape(p, d, N, w)
  <2>1. CopiedWith(p, d, e, N, w)
    BY Zenon, <1>1, <1>3, <1>4, <1>9, <1>10, <1>13 DEF CopiedWith
  <2> QED BY Zenon, <2>1 DEF CopiedShape
<1>18. N \in SUBSET Addr
  BY Zenon, <1>4
<1> HIDE DEF N
<1>19. Outcome(a, i, p, d, N) /\ Graph'
  BY Zenon, <1>8, <1>16, <1>17, <1>18, CopiedGraph
<1> QED BY Zenon, <1>1, <1>19 DEF N

---------------------------------------------------------------------------
\* A migrate function called on a field that is a constant, an object to be collected or an old
\* object of a young collection redirects it and preserves the object graph.
LEMMA MigrateGraph ==
  ASSUME IInv, SameCycle, NEW a \in Addr, NEW i \in 1..2, Slot(a, i), Pending(Field(a, i)), Migrate(a, i)
  PROVE  \E N \in SUBSET Addr : Outcome(a, i, Field(a, i), NewPtr(Field(a, i)), N) /\ Graph'
<1>1. PICK p : p = Field(a, i)
  BY Zenon
<1>2. /\ p \in Ptr /\ (p \in Const \/ (p \in Addr /\ Heap(p)))
      /\ p \in Addr /\ From(p) => MustMigrate(p)
      /\ p \in Addr /\ Kept(p) => ~MustMigrate(p)
  BY Zenon, <1>1, SlotTarget
<1>3. p \in Const <=> p \notin Addr
  BY Zenon, <1>2, PtrFacts
<1>4. Stays(p) <=> ~(p \in Addr /\ From(p))
  BY Zenon, <1>1, <1>2, <1>3, CopyFacts DEF Stays, Pending
<1>5. CASE Stays(p)
  <2>1. UNCHANGED <<memVars, topVars>> /\ NewPtr(p) = p
    BY Zenon, <1>1, <1>5 DEF Migrate, NewPtr
  <2>2. Settled(p)
    BY Zenon, <1>1, <1>3, <1>4, <1>5 DEF Pending, Settled
  <2>3. Outcome(a, i, p, p, {}) /\ Graph'
    BY Zenon, <1>1, <2>1, <2>2, StayOutcome
  <2> QED BY <1>1, <2>1, <2>3
<1>6. CASE ~Stays(p) /\ p \in fwd
  <2>1. FollowForward(a, i, p) /\ NewPtr(p) = Forwarded(p)
    BY Zenon, <1>1, <1>6 DEF Migrate, NewPtr
  <2>2. Outcome(a, i, p, Forwarded(p), {}) /\ Graph'
    BY Zenon, <1>1, <1>6, <2>1, FollowOutcome
  <2> QED BY <1>1, <2>1, <2>2
<1>7. CASE ~Stays(p) /\ p \notin fwd /\ kind[p] \notin OwnerKind
  <2>1. CopyBlock(a, i, p) /\ NewPtr(p) = Target(p) /\ p \in Addr /\ From(p)
    BY Zenon, <1>1, <1>4, <1>7 DEF Migrate, NewPtr, OwnerKind
  <2>2. Outcome(a, i, p, Target(p), {Target(p)}) /\ Graph'
    BY Zenon, <1>1, <1>7, <2>1, CopyBlockGraph
  <2>3. Target(p) \in Addr
    BY Zenon, <2>1, TargetFacts, SlotTarget, <1>1 DEF CopyBlock
  <2> QED BY Zenon, <1>1, <2>1, <2>2, <2>3
<1>8. CASE ~Stays(p) /\ p \notin fwd /\ kind[p] \in OwnerKind
  <2>1. CopyOwner(a, i, p) /\ NewPtr(p) = Target(p) /\ p \in Addr /\ From(p)
    BY Zenon, <1>1, <1>4, <1>8 DEF Migrate, NewPtr, OwnerKind
  <2>2. Outcome(a, i, p, Target(p), {Target(p), PayloadTarget(p)}) /\ Graph'
    BY Zenon, <1>1, <1>8, <2>1, CopyOwnerGraph
  <2>3. Target(p) \in Addr /\ PayloadTarget(p) \in Addr
    BY Zenon, <2>1, OwnerTargets, SlotTarget, <1>1
  <2> QED BY Zenon, <1>1, <2>1, <2>2, <2>3
<1> QED BY Zenon, <1>5, <1>6, <1>7, <1>8

\* migrate_once on a field of a block or of a collection node.
LEMMA MigrateOnceGraph ==
  ASSUME IInv, phase # "run", SameCycle, NEW a \in Addr, NEW i \in 1..2, Slot(a, i), MigrateOnce(a, i)
  PROVE  \E N \in SUBSET Addr : Outcome(a, i, Field(a, i), OncePtr(Field(a, i)), N) /\ Graph'
<1>1. PICK p : p = Field(a, i)
  BY Zenon
<1>2. p \in Ptr /\ (p \in Const \/ (p \in Addr /\ Heap(p)))
  BY Zenon, <1>1, SlotTarget
<1>3. yid \in YoungSpace /\ oid \in OldSpace
  BY Zenon DEF IInv, TypeOK, ControlType
<1>4. p \in Addr => (InCollectionSpace(p) <=> From(p))
  <2> HAVE p \in Addr
  <2>1. Heap(p)
    BY Zenon, <1>2, PtrFacts
  <2>2. From(p) => InCollectionSpace(p)
    BY Zenon DEF From, FromSpace, InCollectionSpace
  <2>3. Copy(p) \/ Kept(p) => ~InCollectionSpace(p)
    BY Zenon, <1>3, SpaceFacts DEF Copy, Kept, InCollectionSpace
  <2> QED BY Zenon, <2>1, <2>2, <2>3 DEF Heap
<1>5. CASE OnceStays(p)
  <2>1. UNCHANGED <<memVars, topVars>> /\ OncePtr(p) = p
    BY Zenon, <1>1, <1>5 DEF MigrateOnce, OncePtr
  <2>2. Settled(p)
    BY Zenon, <1>2, <1>4, <1>5, PtrFacts DEF Settled, OnceStays, Heap
  <2>3. Outcome(a, i, p, p, {}) /\ Graph'
    BY Zenon, <1>1, <2>1, <2>2, StayOutcome
  <2> QED BY <1>1, <2>1, <2>3
<1>6. CASE ~OnceStays(p)
  <2>1. Migrate(a, i) /\ OncePtr(p) = NewPtr(p)
    BY Zenon, <1>1, <1>6 DEF MigrateOnce, OncePtr
  <2>2. Pending(p)
    BY Zenon, <1>2, <1>4, <1>6, PtrFacts DEF Pending, OnceStays
  <2> QED BY Zenon, <1>1, <2>1, <2>2, MigrateGraph
<1> QED BY Zenon, <1>5, <1>6
=============================================================================
