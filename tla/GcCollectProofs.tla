-------------------------- MODULE GcCollectProofs --------------------------
(***************************************************************************)
(* Every step of kore_collect preserves the invariant: migrating a field   *)
(* settles it, and every copy made is one that the scan of the young or of *)
(* the old generation, or the traversal of a collection, still visits.     *)
(* Then the first and the last step: between them the loop invariant       *)
(* holds, outside them the heap is a well-formed graph (RunInv).           *)
(***************************************************************************)
EXTENDS GcMigrateProofs, GcCollect

\* What the migrate functions do to the allocation pointers.
LEMMA TopsGrow ==
  ASSUME IInv, NEW a, NEW i, Migrate(a, i) \/ MigrateOnce(a, i) \/ UNCHANGED <<memVars, topVars>>
  PROVE  ytop <= ytop' /\ otop <= otop'
<1>1. ytop \in Nat /\ otop \in Nat
  BY CapAssumption DEF IInv, TypeOK, MemoryType
<1>2. ASSUME UNCHANGED <<memVars, topVars>> PROVE ytop <= ytop' /\ otop <= otop'
  BY <1>1, <1>2 DEF topVars
<1>3. ASSUME Migrate(a, i) PROVE ytop <= ytop' /\ otop <= otop'
  <2>1. ASSUME NEW p, FollowForward(a, i, p) PROVE ytop <= ytop' /\ otop <= otop'
    BY <1>1, <2>1 DEF FollowForward, topVars
  <2>2. ASSUME NEW p, CopyBlock(a, i, p) PROVE ytop <= ytop' /\ otop <= otop'
    BY <1>1, <2>2 DEF CopyBlock
  <2>3. ASSUME NEW p, CopyOwner(a, i, p) PROVE ytop <= ytop' /\ otop <= otop'
    BY <1>1, <2>3 DEF CopyOwner
  <2> QED BY Zenon, <1>2, <1>3, <2>1, <2>2, <2>3 DEF Migrate
<1>4. ASSUME MigrateOnce(a, i) PROVE ytop <= ytop' /\ otop <= otop'
  BY Zenon, <1>2, <1>3, <1>4 DEF MigrateOnce
<1> QED BY Zenon, <1>2, <1>3, <1>4

\* Objects allocated by this step lie beyond what was allocated before.
LEMMA NewIsBeyond ==
  ASSUME IInv, NEW N \in SUBSET Addr, Moved(N), NEW q \in N
  PROVE  \/ SpaceOf(q) = yid /\ Index(q) > ytop
         \/ SpaceOf(q) = oid /\ Index(q) > otop
<1>1. Index(q) \in Nat /\ ytop \in Nat /\ otop \in Nat
  BY AtFacts, CapAssumption DEF IInv, TypeOK, MemoryType
<1> QED BY <1>1 DEF Moved, Allocated

\* Every field is settled, or still to be visited, after a migrate function has settled one,
\* if the scan does not skip another and will visit the copy that was made.
LEMMA ProgressAfter ==
  ASSUME IInv, SameCycle, NEW a \in Addr, NEW i \in 1..2, Slot(a, i), NEW p, p = Field(a, i), NEW q,
         NEW N \in SUBSET Addr, Outcome(a, i, p, q, N),
         \A b \in Addr \ N : \A j \in 1..2 :
            ~(b = a /\ j = i) => (Todo(b, j)' <=> Todo(b, j)) /\ (Visiting(b, j) => Visiting(b, j)'),
         ~Todo(a, i)',
         q \in N => \A j \in 1..2 : /\ kind'[q] \in BlockKind => Todo(q, j)'
                                    /\ kind'[q] \in NodeKind => Visiting(q, j)'
  PROVE  Progress'
<1> SUFFICES ASSUME NEW b \in Addr, Readable(b)', NEW j \in 1..2
             PROVE  Scanned(b, j)'
  BY Zenon DEF Progress
<1>1. Moved(N) /\ Redirected(a, i, p, q)
  BY Zenon DEF Outcome
<1>2. CASE b = a /\ j = i
  <2>1. Field(b, j)' = q /\ Settled(q)'
    BY Zenon, <1>1, <1>2 DEF Redirected
  <2> QED BY Zenon, <1>2, <2>1 DEF Scanned
<1>3. CASE b \notin N /\ ~(b = a /\ j = i)
  <2>1. Readable(b) /\ Field(b, j)' = Field(b, j)
    BY Zenon, <1>3 DEF Outcome
  <2>2. PICK x : x = Field(b, j)
    BY Zenon
  <2>3. x \in Ptr /\ Field(b, j)' = x
    BY Zenon, <2>1, <2>2 DEF IInv, TypeOK, MemoryType, Field
  <2>4. x \in Const \/ Heap(x)
    BY Zenon, <2>1, <2>2 DEF IInv, Fields, Faithful
  <2>5. (Pending(x)' <=> Pending(x)) /\ (Settled(x)' <=> Settled(x)) /\ (From(b)' <=> From(b))
    BY Zenon, <1>1, <1>3, <2>3, <2>4, PtrKept, MovedFacts
  <2>6. Scanned(b, j)
    BY Zenon, <2>1 DEF IInv, Progress
  <2>7. (Todo(b, j)' <=> Todo(b, j)) /\ (Visiting(b, j) => Visiting(b, j)')
    BY Zenon, <1>3
  <2> QED BY Zenon, <2>2, <2>3, <2>5, <2>6, <2>7 DEF Scanned
<1>4. CASE b \in N
  <2>1. /\ b = q /\ kind'[q] = KindAt(p) /\ From(p)
        /\ kind'[q] \notin OwnerKind => Pending(Field(q, j))'
        /\ kind'[q] \in OwnerKind \cup {"str"} => Settled(Field(q, j))'
    BY Zenon, <1>4 DEF Outcome
  <2>2. kind'[q] \in {"sym", "coll", "str", "inner", "leaf", "int", "buf"}
    <3>1. p \in Ptr /\ (p \in Addr => kind[p] \notin {"free", "root", "tok"})
      BY Zenon, SlotTarget
    <3>2. kind'[q] \notin {"free", "root", "tok"} \/ kind'[q] = "const"
      BY Zenon, <2>1, <3>1, PtrFacts DEF KindAt
    <3>3. p \in Addr
      BY Zenon, <1>1, <1>4, <2>1, <3>1, PtrFacts, MovedFacts DEF Redirected, Kept, Copy, Settled
    <3>4. kind'[q] = kind[p] /\ kind[p] \in Kind
      BY Zenon, <2>1, <3>3, PtrFacts DEF KindAt, IInv, TypeOK, MemoryType
    <3> QED BY Zenon, <3>1, <3>3, <3>4 DEF Kind
  <2>3. CASE kind'[q] \in BlockKind
    BY Zenon, <1>4, <2>1, <2>3 DEF Scanned, BlockKind, OwnerKind
  <2>4. CASE kind'[q] \in NodeKind
    <3>1. ~Todo(q, j)'
      <4>1. ~IsRoot(q)
        BY Zenon, <1>1, <1>4, <2>1, SpaceFacts DEF Moved, IsRoot, IInv, TypeOK, ControlType
      <4> QED BY Zenon, <2>4, <4>1 DEF Todo, BlockKind, NodeKind, IsRoot
    <3> QED BY Zenon, <1>4, <2>1, <2>4, <3>1 DEF Scanned
  <2>5. CASE kind'[q] \in OwnerKind \cup {"str"}
    <3>1. ~Todo(q, j)'
      <4>1. ~IsRoot(q)
        BY Zenon, <1>1, <1>4, <2>1, SpaceFacts DEF Moved, IsRoot, IInv, TypeOK, ControlType
      <4> QED BY Zenon, <2>5, <4>1 DEF Todo, BlockKind, OwnerKind, IsRoot
    <3> QED BY Zenon, <2>1, <2>5, <3>1 DEF Scanned
  <2> QED BY Zenon, <2>2, <2>3, <2>4, <2>5 DEF BlockKind, NodeKind, OwnerKind
<1> QED BY Zenon, <1>2, <1>3, <1>4

\* From an object of oldspace the scan reaches only objects that end up in oldspace.
LEMMA OldReachesOld ==
  ASSUME IInv, SameCycle, NEW a \in Addr, NEW i \in 1..2, Slot(a, i), NEW p, p = Field(a, i), NEW q,
         NEW N \in SUBSET Addr, Outcome(a, i, p, q, N), Graph', SpaceOf(a) = oid
  PROVE  q \in Const \/ SpaceOf(q) = oid
<1>1. Moved(N) /\ Redirected(a, i, p, q)
  BY Zenon DEF Outcome
<1>2. oid \in OldSpace /\ yid \notin OldSpace /\ oid # "R"
  BY Zenon, SpaceFacts DEF IInv, TypeOK, ControlType
<1>3. Heap(a) /\ kind[a] \notin {"free", "root", "tok"} /\ kind[a] \notin OwnerKind /\ ~From(a)
  BY Zenon, <1>2, CopyFacts DEF Slot, Readable, IsRoot, BlockKind, NodeKind, OwnerKind
<1>4. a \in old
  BY Zenon, <1>2, <1>3 DEF IInv, Headers
<1>5. Ranked(a, i)
  BY Zenon, <1>3 DEF IInv, Fields, Slot
<1>6. RankAfter(p) >= 2
  BY Zenon, <1>3, <1>4, <1>5, PtrFacts DEF Ranked, Rank
<1>7. CASE q \notin Const
  <2>1. q \in Addr /\ Heap(q)' /\ (Copy(q)' \/ Kept(q)') /\ RankAfter(q)' >= 2 /\ KindAt(q)' = KindAt(p)
    BY Zenon, <1>1, <1>6, <1>7 DEF Redirected, Settled
  <2>2. ~From(q)' /\ (SpaceOf(q) = yid \/ SpaceOf(q) = oid)
    <3>1. CASE q \in N
      BY Zenon, <1>1, <3>1, MovedFacts DEF Moved
    <3>2. CASE q \notin N
      <4>1. Copy(q) \/ Kept(q)
        BY Zenon, <1>1, <2>1, <3>2, MovedFacts
      <4> QED BY Zenon, <1>1, <2>1, <3>2, <4>1, MovedFacts, CopyFacts DEF Copy, Kept
    <3> QED BY Zenon, <3>1, <3>2
  <2>3. Rank(q)' >= 2
    BY Zenon, <1>7, <2>1, <2>2 DEF RankAfter
  <2>4. q \in old'
    BY <1>7, <2>3 DEF Rank
  <2>5. kind'[q] \notin {"free", "root", "tok"}
    <3>1. kind'[q] = KindAt(p)
      BY Zenon, <1>7, <2>1 DEF KindAt
    <3>2. p \in Ptr /\ (p \in Addr => kind[p] \notin {"free", "root", "tok"})
      BY Zenon, SlotTarget
    <3> QED BY Zenon, <3>1, <3>2, PtrFacts DEF KindAt
  <2>6. SpaceOf(q) \in OldSpace
    BY Zenon, <2>1, <2>4, <2>5 DEF Graph, Headers
  <2> QED BY Zenon, <1>2, <2>2, <2>6
<1> QED BY Zenon, <1>7

\* migrate_root and migrate_static_roots.
LEMMA MigrateRootInv ==
  ASSUME IInv, MigrateRoot
  PROVE  IInv'
<1>1. /\ phase = "roots" /\ scan <= NRoots /\ scan' = scan + 1 /\ Migrate(RootSlot(scan), 1)
      /\ phase' = phase /\ fld' = fld /\ trav' = trav /\ iter' = iter
      /\ yid' = yid /\ oid' = oid /\ oprev' = oprev /\ collect_old' = collect_old /\ only_young' = only_young
      /\ size' = size /\ nkind' = nkind /\ nfst' = nfst /\ nsnd' = nsnd
  BY Zenon DEF MigrateRoot, spaceVars, cycleVars, nodeVars
<1>2. SameCycle
  BY Zenon, <1>1 DEF SameCycle
<1>3. scan \in Nat \ {0} /\ fld = 1 /\ trav = {} /\ iter = Nil
  BY Zenon, <1>1 DEF IInv, Control, TypeOK, ControlType, Collecting
<1>4. PICK a : a = RootSlot(scan)
  BY Zenon
<1>5. a \in Addr /\ IsRoot(a) /\ Index(a) = scan /\ SpaceOf(a) = "R"
  BY <1>1, <1>3, <1>4, RootFacts, RootAssumption DEF Register, IsRoot
<1>6. kind[a] = "root" /\ ~Heap(a)
  BY Zenon, <1>5, CopyFacts
<1>7. Slot(a, 1)
  BY Zenon, <1>5, <1>6, ReadableSlot DEF Slot
<1>8. PICK p, q : p = Field(a, 1) /\ q = NewPtr(p)
  BY Zenon
<1>9. Pending(p)
  <2>1. Todo(a, 1)
    BY <1>1, <1>3, <1>5 DEF Todo
  <2> QED BY <1>5, <1>7, <1>8, <2>1 DEF IInv, Progress, Scanned, Slot
<1>10. PICK N \in SUBSET Addr : Outcome(a, 1, p, q, N) /\ Graph'
  BY <1>1, <1>2, <1>4, <1>5, <1>7, <1>8, <1>9, MigrateGraph
<1>11. Moved(N) /\ Redirected(a, 1, p, q)
  BY Zenon, <1>10 DEF Outcome
<1>12. Progress'
  <2>1. ASSUME NEW b \in Addr \ N, NEW j \in 1..2, ~(b = a /\ j = 1)
        PROVE  (Todo(b, j)' <=> Todo(b, j)) /\ (Visiting(b, j) => Visiting(b, j)')
    <3>1. kind'[b] = kind[b] /\ (Copy(b)' <=> Copy(b))
      BY Zenon, <1>2, <1>11, MovedFacts DEF Moved
    <3>2. IsRoot(b) /\ j = 1 => Index(b) # scan
      BY Zenon, <1>5, <2>1, AtFacts DEF IsRoot
    <3>3. Index(b) \in Nat
      BY AtFacts
    <3> QED BY <1>1, <1>3, <3>1, <3>2, <3>3 DEF Todo, Visiting, IsRoot
  <2>2. ~Todo(a, 1)'
    <3>1. ~Copy(a)'
      <4>1. a \notin N
        BY Zenon, <1>5, <1>11, SpaceFacts DEF Moved, IInv, TypeOK, ControlType
      <4> QED BY Zenon, <1>2, <1>5, <1>6, <1>11, <4>1, MovedFacts DEF Heap
    <3> QED BY <1>1, <1>3, <1>5, <3>1 DEF Todo, IsRoot
  <2>3. ASSUME q \in N, NEW j \in 1..2
        PROVE  (kind'[q] \in BlockKind => Todo(q, j)') /\ (kind'[q] \in NodeKind => Visiting(q, j)')
    <3>1. Copy(q)'
      BY Zenon, <1>2, <1>11, <2>3, MovedFacts
    <3>2. kind'[q] \in TermKind
      <4>1. KindAt(q)' = KindAt(p) /\ KindAt(q)' = kind'[q]
        BY Zenon, <1>11, <2>3, PtrFacts DEF Redirected, KindAt
      <4>2. KindAt(p) \in ChildKinds("root", 1)
        BY <1>5, <1>6, <1>7, <1>8 DEF IInv, Fields, Faithful, Slot
      <4> QED BY Zenon, <4>1, <4>2, ChildKindFacts
    <3>3. kind'[q] \notin NodeKind
      BY Zenon, <3>2 DEF TermKind, NodeKind
    <3> QED BY Zenon, <1>1, <3>1, <3>3 DEF Todo
  <2> QED BY SMTT(30), <1>2, <1>5, <1>7, <1>8, <1>10, <2>1, <2>2, <2>3, ProgressAfter
<1>13. TypeOK'
  <2>1. ControlType'
    BY <1>1, <1>3 DEF IInv, TypeOK, ControlType
  <2>2. NodeType'
    BY Zenon, <1>1 DEF IInv, TypeOK, NodeType
  <2> QED BY Zenon, <1>10, <2>1, <2>2 DEF TypeOK, Graph
<1>14. Control'
  <2>1. ytop <= ytop' /\ otop <= otop'
    BY Zenon, <1>1, TopsGrow
  <2>2. oprev' <= otop'
    BY SMTT(30), <1>1, <1>13, <2>1, CapAssumption DEF IInv, Control, TypeOK, ControlType, MemoryType
  <2> QED BY SMTT(30), <1>1, <1>3, <2>2, RootAssumption, PtrFacts DEF IInv, Control, Collecting
<1> QED BY Zenon, <1>10, <1>12, <1>13, <1>14 DEF IInv, Graph

---------------------------------------------------------------------------
(* The scan of a generation (arena::evacuate).                             *)

\* The object being scanned is a copy.
LEMMA ScanAtFacts ==
  ASSUME IInv, phase \in {"young", "old"}, scan <= ScanTop
  PROVE  /\ ScanAt \in Addr /\ Copy(ScanAt) /\ Index(ScanAt) = scan
         /\ SpaceOf(ScanAt) = IF phase = "young" THEN yid ELSE oid
<1>1. /\ yid \in Space /\ oid \in Space /\ yid # oid /\ scan \in Nat \ {0} /\ ytop \in 0..Cap /\ otop \in 0..Cap
      /\ oprev \in Nat
  BY SpaceFacts, CapAssumption DEF IInv, TypeOK, ControlType, MemoryType
<1>2. CASE phase = "young"
  <2>1. scan \in 1..Cap /\ scan <= ytop /\ ScanAt = At(yid, scan)
    BY <1>1, <1>2, CapAssumption DEF ScanTop, ScanAt
  <2> QED BY Zenon, <1>1, <1>2, <2>1, AtFacts DEF Copy
<1>3. CASE phase = "old"
  <2>1. scan \in 1..Cap /\ scan <= otop /\ ScanAt = At(oid, scan) /\ scan > oprev
    BY <1>1, <1>3, CapAssumption DEF ScanTop, ScanAt, IInv, Control
  <2> QED BY Zenon, <1>1, <1>3, <2>1, AtFacts DEF Copy
<1> QED BY Zenon, <1>2, <1>3

\* Going on to the next field leaves the other fields where they were with respect to the scan,
\* and new copies are ahead of it.
LEMMA ScanTodo ==
  ASSUME IInv, SameCycle, phase' = phase, phase \in {"young", "old"}, scan <= ScanTop, NextField,
         NEW N \in SUBSET Addr, Moved(N), NEW a, a = ScanAt, NEW i, i = fld
  PROVE  /\ \A b \in Addr \ N : \A j \in 1..2 : ~(b = a /\ j = i) => (Todo(b, j)' <=> Todo(b, j))
         /\ ~Todo(a, i)'
         /\ \A q \in N : \A j \in 1..2 :
              (phase = "old" => SpaceOf(q) = oid) /\ kind'[q] \in BlockKind => Todo(q, j)'
<1>1. /\ a \in Addr /\ Copy(a) /\ Index(a) = scan /\ SpaceOf(a) = IF phase = "young" THEN yid ELSE oid
  BY Zenon, ScanAtFacts
<1>2. /\ scan \in Nat /\ fld \in 1..2 /\ ytop \in Nat /\ otop \in Nat /\ yid # oid /\ yid' = yid /\ oid' = oid
      /\ yid # "R" /\ oid # "R"
  BY SpaceFacts, CapAssumption DEF IInv, TypeOK, ControlType, MemoryType, SameCycle
<1>3. fld' = 3 - fld /\ scan' = scan + fld - 1
  BY Zenon DEF NextField
<1>4. \A b \in Addr, j \in 1..2 :
         /\ Index(b) \in Nat
         /\ ~(Index(b) = scan /\ j = fld) => (NotPassed(b, j)' <=> NotPassed(b, j))
         /\ Index(b) = scan /\ j = fld => ~NotPassed(b, j)'
         /\ Index(b) > scan => NotPassed(b, j)'
  <2> SUFFICES ASSUME NEW b \in Addr, NEW j \in 1..2
               PROVE  /\ Index(b) \in Nat
                      /\ ~(Index(b) = scan /\ j = fld) => (NotPassed(b, j)' <=> NotPassed(b, j))
                      /\ Index(b) = scan /\ j = fld => ~NotPassed(b, j)'
                      /\ Index(b) > scan => NotPassed(b, j)'
    BY Zenon
  <2>1. Index(b) \in Nat
    BY AtFacts
  <2>2. CASE fld = 1
    <3>1. fld' = 2 /\ scan' = scan
      BY <1>2, <1>3, <2>2
    <3> QED BY <1>2, <2>1, <2>2, <3>1 DEF NotPassed
  <2>3. CASE fld = 2
    <3>1. fld' = 1 /\ scan' = scan + 1
      BY <1>2, <1>3, <2>3
    <3> QED BY <1>2, <2>1, <2>3, <3>1 DEF NotPassed
  <2> QED BY <1>2, <2>2, <2>3
<1>5. ASSUME NEW b \in Addr \ N, NEW j \in 1..2, ~(b = a /\ j = i)
      PROVE  Todo(b, j)' <=> Todo(b, j)
  <2>1. kind'[b] = kind[b] /\ (Copy(b)' <=> Copy(b))
    BY Zenon, MovedFacts DEF Moved
  <2>2. Index(b) = scan /\ SpaceOf(b) = SpaceOf(a) => b = a
    BY Zenon, <1>1, AtFacts
  <2>3. Copy(b) => SpaceOf(b) = yid \/ SpaceOf(b) = oid
    BY Zenon DEF Copy
  <2>4. CASE phase = "young"
    <3>1. Todo(b, j) <=> Copy(b) /\ kind[b] \in BlockKind /\ (SpaceOf(b) = oid \/ NotPassed(b, j))
      BY Zenon, <2>4 DEF Todo
    <3>2. Todo(b, j)' <=> Copy(b)' /\ kind'[b] \in BlockKind /\ (SpaceOf(b) = oid \/ NotPassed(b, j)')
      BY Zenon, <1>2, <2>4 DEF Todo
    <3> QED BY Zenon, <1>1, <1>4, <1>5, <2>1, <2>2, <2>3, <2>4, <3>1, <3>2
  <2>5. CASE phase = "old"
    <3>1. Todo(b, j) <=> Copy(b) /\ kind[b] \in BlockKind /\ SpaceOf(b) = oid /\ NotPassed(b, j)
      BY Zenon, <2>5 DEF Todo
    <3>2. Todo(b, j)' <=> Copy(b)' /\ kind'[b] \in BlockKind /\ SpaceOf(b) = oid /\ NotPassed(b, j)'
      BY Zenon, <1>2, <2>5 DEF Todo
    <3> QED BY Zenon, <1>1, <1>4, <1>5, <2>1, <2>2, <2>5, <3>1, <3>2
  <2> QED BY Zenon, <2>4, <2>5
<1>6. ~Todo(a, i)'
  <2>1. ~NotPassed(a, i)'
    <3>1. CASE fld = 1
      <4>1. fld' = 2 /\ scan' = scan
        BY <1>2, <1>3, <3>1
      <4> QED BY <1>1, <1>2, <3>1, <4>1 DEF NotPassed
    <3>2. CASE fld = 2
      <4>1. fld' = 1 /\ scan' = scan + 1
        BY <1>2, <1>3, <3>2
      <4> QED BY <1>1, <1>2, <3>2, <4>1 DEF NotPassed
    <3> QED BY <1>2, <3>1, <3>2
  <2> QED BY Zenon, <1>1, <1>2, <2>1 DEF Todo
<1>7. ASSUME NEW q \in N, NEW j \in 1..2, phase = "old" => SpaceOf(q) = oid, kind'[q] \in BlockKind
      PROVE  Todo(q, j)'
  <2>1. Copy(q)' /\ Index(q) \in Nat
    BY <1>7, MovedFacts, AtFacts
  <2>2. (SpaceOf(q) = yid /\ Index(q) > ytop) \/ (SpaceOf(q) = oid /\ Index(q) > otop)
    BY Zenon, NewIsBeyond
  <2>3. CASE phase = "young"
    <3>1. SpaceOf(q) = oid \/ Index(q) > scan
      BY <1>2, <2>1, <2>2, <2>3 DEF ScanTop
    <3> QED BY Zenon, <1>2, <1>4, <1>7, <2>1, <2>3, <3>1 DEF Todo
  <2>4. CASE phase = "old"
    <3>1. SpaceOf(q) = oid /\ Index(q) > scan
      BY <1>2, <1>7, <2>1, <2>2, <2>4 DEF ScanTop
    <3> QED BY Zenon, <1>2, <1>4, <1>7, <2>1, <2>4, <3>1 DEF Todo
  <2> QED BY Zenon, <2>3, <2>4
<1> QED BY Zenon, <1>5, <1>6, <1>7

\* The control state after a field of the object being scanned.
LEMMA ScanControl ==
  ASSUME IInv, SameCycle, phase' = phase, phase \in {"young", "old"}, scan <= ScanTop, NextField, iter' = iter,
         kind[ScanAt] \in BlockKind, NEW N \in SUBSET Addr, Moved(N), ytop <= ytop', otop <= otop', MemoryType',
         \A s \in trav' : /\ Copy(s[1])' \/ Kept(s[1])'
                          /\ kind'[s[1]] \in NodeKind
                          /\ phase = "old" => SpaceOf(s[1]) = oid
  PROVE  Control'
<1>1. PICK a : a = ScanAt
  BY Zenon
<1>2. a \in Addr /\ Copy(a)
  BY Zenon, <1>1, ScanAtFacts
<1>3. kind'[a] \in BlockKind
  <2>1. a \notin N
    BY Zenon, <1>2, CopyFacts DEF Moved
  <2> QED BY Zenon, <1>1, <1>2, <2>1 DEF Moved
<1>4. /\ yid' = yid /\ oid' = oid /\ oprev' = oprev /\ collect_old' = collect_old
  BY Zenon DEF SameCycle
<1>5. /\ scan \in Nat \ {0} /\ fld \in 1..2 /\ ytop \in Nat /\ otop \in Nat /\ ytop' \in Nat /\ otop' \in Nat
      /\ oprev \in Nat
  BY CapAssumption DEF IInv, TypeOK, ControlType, MemoryType
<1>6. /\ oprev <= otop /\ (collect_old => oprev = 0) /\ iter = Nil /\ (phase = "old" => scan > oprev)
  BY Zenon DEF IInv, Control, Collecting
<1>7. /\ phase = "young" => scan <= ytop
      /\ phase = "old" => scan <= otop
  BY Zenon DEF ScanTop
<1>8. (fld' = 2 /\ scan' = scan) \/ (fld' = 1 /\ scan' = scan + 1)
  BY <1>5 DEF NextField
<1>9. fld' = 2 => ScanAt' = a
  BY <1>1, <1>4, <1>8 DEF ScanAt
<1>10. /\ oprev' <= otop'
       /\ phase' = "young" => scan' <= ytop' + 1
       /\ phase' = "old" => scan' <= otop' + 1 /\ scan' > oprev'
       /\ (phase' = "young" /\ scan' > ytop') \/ (phase' = "old" /\ scan' > otop') => fld' = 1
  BY <1>4, <1>5, <1>6, <1>7, <1>8
<1>11. fld' = 2 => kind'[ScanAt'] \in BlockKind
  BY Zenon, <1>3, <1>9
<1> QED BY Zenon, <1>4, <1>6, <1>10, <1>11, PtrFacts DEF Control, Collecting

\* migrate_child on a field that holds a term, an integer or a buffer.
LEMMA EvacuateChildInv ==
  ASSUME IInv, EvacuateChild
  PROVE  IInv'
<1>1. /\ phase \in {"young", "old"} /\ trav = {} /\ scan <= ScanTop
      /\ kind[ScanAt] = "sym" \/ (kind[ScanAt] = "coll" /\ fld = 2)
      /\ Migrate(ScanAt, fld) /\ NextField
      /\ phase' = phase /\ trav' = trav /\ iter' = iter
      /\ yid' = yid /\ oid' = oid /\ oprev' = oprev /\ collect_old' = collect_old /\ only_young' = only_young
      /\ size' = size /\ nkind' = nkind /\ nfst' = nfst /\ nsnd' = nsnd
  BY Zenon DEF EvacuateChild, Scanning, spaceVars, cycleVars, nodeVars
<1>2. SameCycle
  BY Zenon, <1>1 DEF SameCycle
<1>3. fld \in 1..2 /\ scan \in Nat \ {0}
  BY Zenon DEF IInv, TypeOK, ControlType
<1>4. PICK a, i : a = ScanAt /\ i = fld
  BY Zenon
<1>5. /\ a \in Addr /\ Copy(a) /\ Index(a) = scan /\ i \in 1..2
      /\ SpaceOf(a) = IF phase = "young" THEN yid ELSE oid
  BY Zenon, <1>1, <1>3, <1>4, ScanAtFacts
<1>6. kind[a] \in BlockKind /\ kind[a] # "tok" /\ ChildKinds(kind[a], i) = TermKind
  BY Zenon, <1>1, <1>3, <1>4, ChildKindFacts DEF BlockKind
<1>7. Slot(a, i)
  BY Zenon, <1>5, <1>6, ReadableSlot DEF Slot
<1>8. PICK p, q : p = Field(a, i) /\ q = NewPtr(p)
  BY Zenon
<1>9. Pending(p)
  <2>1. Todo(a, i)
    BY <1>1, <1>3, <1>4, <1>5, <1>6 DEF Todo, NotPassed
  <2> QED BY Zenon, <1>5, <1>7, <1>8, <2>1 DEF IInv, Progress, Scanned, Slot
<1>10. PICK N \in SUBSET Addr : Outcome(a, i, p, q, N) /\ Graph'
  BY Zenon, <1>1, <1>2, <1>4, <1>5, <1>7, <1>8, <1>9, MigrateGraph
<1>11. Moved(N) /\ Redirected(a, i, p, q)
  BY Zenon, <1>10 DEF Outcome
<1>12. Progress'
  <2>1. ASSUME NEW b \in Addr \ N, NEW j \in 1..2, ~(b = a /\ j = i)
        PROVE  (Todo(b, j)' <=> Todo(b, j)) /\ (Visiting(b, j) => Visiting(b, j)')
    BY Zenon, <1>1, <1>2, <1>4, <1>11, <2>1, ScanTodo DEF Visiting
  <2>2. ~Todo(a, i)'
    BY Zenon, <1>1, <1>2, <1>4, <1>11, ScanTodo
  <2>3. ASSUME q \in N, NEW j \in 1..2
        PROVE  (kind'[q] \in BlockKind => Todo(q, j)') /\ (kind'[q] \in NodeKind => Visiting(q, j)')
    <3>1. phase = "old" => SpaceOf(q) = oid
      <4> SUFFICES ASSUME phase = "old" PROVE SpaceOf(q) = oid
        BY Zenon
      <4>1. SpaceOf(a) = oid
        BY Zenon, <1>5
      <4>2. q \in Const \/ SpaceOf(q) = oid
        BY Zenon, <1>2, <1>5, <1>7, <1>8, <1>10, <4>1, OldReachesOld
      <4> QED BY Zenon, <2>3, <4>2, PtrFacts
    <3>2. kind'[q] \in TermKind
      <4>1. KindAt(q)' = KindAt(p) /\ KindAt(q)' = kind'[q]
        BY Zenon, <1>11, <2>3, PtrFacts DEF Redirected, KindAt
      <4>2. KindAt(p) \in ChildKinds(kind[a], i)
        BY Zenon, <1>5, <1>7, <1>8 DEF IInv, Fields, Faithful, Slot
      <4> QED BY Zenon, <1>6, <4>1, <4>2
    <3>3. kind'[q] \notin NodeKind
      BY Zenon, <3>2 DEF TermKind, NodeKind
    <3> QED BY Zenon, <1>1, <1>2, <1>4, <1>11, <2>3, <3>1, <3>3, ScanTodo
  <2> QED BY Zenon, <1>2, <1>5, <1>7, <1>8, <1>10, <2>1, <2>2, <2>3, ProgressAfter
<1>13. TypeOK'
  <2>1. scan' \in Nat \ {0} /\ fld' \in 1..2
    BY <1>1, <1>3 DEF NextField
  <2>2. ControlType'
    BY Zenon, <1>1, <2>1 DEF IInv, TypeOK, ControlType
  <2>3. NodeType'
    BY Zenon, <1>1 DEF IInv, TypeOK, NodeType
  <2> QED BY Zenon, <1>10, <2>2, <2>3 DEF TypeOK, Graph
<1>14. Control'
  <2>1. ytop <= ytop' /\ otop <= otop'
    BY Zenon, <1>1, TopsGrow
  <2>2. MemoryType'
    BY Zenon, <1>10 DEF Graph
  <2> QED BY Zenon, <1>1, <1>2, <1>4, <1>6, <1>11, <2>1, <2>2, ScanControl
<1> QED BY Zenon, <1>10, <1>12, <1>13, <1>14 DEF IInv, Graph

\* The slots of the node a pointer leads to.
LEMMA NodeSlotsFacts ==
  ASSUME NEW q \in Ptr
  PROVE  /\ NodeSlots(q) \in SUBSET (Addr \X (1..2))
         /\ \A s \in NodeSlots(q) : s[1] = q /\ q \in Addr
         /\ q \in Addr => \A j \in 1..2 : <<q, j>> \in NodeSlots(q)
<1>1. CASE q \in Const
  BY Zenon, <1>1, PtrFacts DEF NodeSlots
<1>2. CASE q \notin Const
  <2>1. q \in Addr /\ NodeSlots(q) = {q} \X (1..2)
    BY Zenon, <1>2, PtrFacts DEF NodeSlots
  <2>2. \A s \in {q} \X (1..2) : s[1] = q /\ s[1] \in {q} /\ s[2] \in 1..2 /\ s = <<s[1], s[2]>>
    OBVIOUS
  <2>3. \A s \in {q} \X (1..2) : s \in Addr \X (1..2)
    BY Zenon, <2>1, <2>2
  <2>4. \A j \in 1..2 : <<q, j>> \in {q} \X (1..2)
    BY Zenon
  <2> QED BY Zenon, <2>1, <2>2, <2>3, <2>4
<1> QED BY Zenon, <1>1, <1>2

\* What a pointer to a collection node leads to once it is migrated.
LEMMA NodeReached ==
  ASSUME IInv, SameCycle, NEW a \in Addr, NEW i \in 1..2, Slot(a, i), NEW p, p = Field(a, i), NEW q,
         NEW N \in SUBSET Addr, Outcome(a, i, p, q, N), Graph', ChildKinds(kind[a], i) = CollectionNodeKind
  PROVE  /\ q \in Ptr
         /\ q \in Addr => /\ Copy(q)' \/ Kept(q)'
                          /\ kind'[q] \in NodeKind
                          /\ SpaceOf(a) = oid => SpaceOf(q) = oid
<1>1. Redirected(a, i, p, q)
  BY Zenon DEF Outcome
<1>2. q \in Ptr
  BY Zenon, <1>1 DEF Redirected, Ptr
<1> SUFFICES ASSUME q \in Addr
             PROVE  /\ Copy(q)' \/ Kept(q)'
                    /\ kind'[q] \in NodeKind
                    /\ SpaceOf(a) = oid => SpaceOf(q) = oid
  BY Zenon, <1>2
<1>3. q \notin Const
  BY Zenon, PtrFacts
<1>4. Copy(q)' \/ Kept(q)'
  BY Zenon, <1>1, <1>3 DEF Redirected, Settled
<1>5. kind'[q] \in NodeKind
  <2>1. KindAt(q)' = KindAt(p) /\ KindAt(q)' = kind'[q]
    BY Zenon, <1>1, <1>3 DEF Redirected, KindAt
  <2>2. KindAt(p) \in CollectionNodeKind
    BY Zenon DEF IInv, Fields, Faithful, Slot
  <2>3. kind'[q] \in Kind
    BY Zenon DEF Graph, MemoryType
  <2> QED BY Zenon, <2>1, <2>2, <2>3 DEF CollectionNodeKind, NodeKind, Kind
<1>6. SpaceOf(a) = oid => SpaceOf(q) = oid
  BY Zenon, <1>3, OldReachesOld
<1> QED BY Zenon, <1>4, <1>5, <1>6

\* migrate_child on a field that holds a collection.
LEMMA EvacuateCollectionInv ==
  ASSUME IInv, EvacuateCollection
  PROVE  IInv'
<1>1. /\ phase \in {"young", "old"} /\ trav = {} /\ scan <= ScanTop
      /\ kind[ScanAt] = "coll" /\ fld = 1
      /\ MigrateOnce(ScanAt, fld) /\ NextField
      /\ trav' = NodeSlots(OncePtr(Field(ScanAt, fld)))
      /\ phase' = phase /\ iter' = iter
      /\ yid' = yid /\ oid' = oid /\ oprev' = oprev /\ collect_old' = collect_old /\ only_young' = only_young
      /\ size' = size /\ nkind' = nkind /\ nfst' = nfst /\ nsnd' = nsnd
  BY Zenon DEF EvacuateCollection, Scanning, spaceVars, cycleVars, nodeVars
<1>2. SameCycle
  BY Zenon, <1>1 DEF SameCycle
<1>3. fld \in 1..2 /\ scan \in Nat \ {0}
  BY Zenon DEF IInv, TypeOK, ControlType
<1>4. PICK a, i : a = ScanAt /\ i = fld
  BY Zenon
<1>5. /\ a \in Addr /\ Copy(a) /\ Index(a) = scan /\ i \in 1..2
      /\ SpaceOf(a) = IF phase = "young" THEN yid ELSE oid
  BY Zenon, <1>1, <1>3, <1>4, ScanAtFacts
<1>6. kind[a] \in BlockKind /\ kind[a] # "tok" /\ ChildKinds(kind[a], i) = CollectionNodeKind
  BY Zenon, <1>1, <1>3, <1>4, ChildKindFacts DEF BlockKind
<1>7. Slot(a, i)
  BY Zenon, <1>5, <1>6, ReadableSlot DEF Slot
<1>8. PICK p, q : p = Field(a, i) /\ q = OncePtr(p)
  BY Zenon
<1>9. trav' = NodeSlots(q)
  BY Zenon, <1>1, <1>4, <1>8
<1>10. PICK N \in SUBSET Addr : Outcome(a, i, p, q, N) /\ Graph'
  BY Zenon, <1>1, <1>2, <1>4, <1>5, <1>7, <1>8, MigrateOnceGraph
<1>11. Moved(N) /\ Redirected(a, i, p, q)
  BY Zenon, <1>10 DEF Outcome
<1>12. /\ q \in Ptr
       /\ q \in Addr => /\ Copy(q)' \/ Kept(q)'
                        /\ kind'[q] \in NodeKind
                        /\ SpaceOf(a) = oid => SpaceOf(q) = oid
  BY Zenon, <1>2, <1>5, <1>6, <1>7, <1>8, <1>10, NodeReached
<1>13. Progress'
  <2>1. ASSUME NEW b \in Addr \ N, NEW j \in 1..2, ~(b = a /\ j = i)
        PROVE  (Todo(b, j)' <=> Todo(b, j)) /\ (Visiting(b, j) => Visiting(b, j)')
    BY Zenon, <1>1, <1>2, <1>4, <1>11, <2>1, ScanTodo DEF Visiting
  <2>2. ~Todo(a, i)'
    BY Zenon, <1>1, <1>2, <1>4, <1>11, ScanTodo
  <2>3. ASSUME q \in N, NEW j \in 1..2
        PROVE  (kind'[q] \in BlockKind => Todo(q, j)') /\ (kind'[q] \in NodeKind => Visiting(q, j)')
    <3>1. kind'[q] \in NodeKind /\ <<q, j>> \in trav'
      BY Zenon, <1>9, <1>12, <2>3, NodeSlotsFacts
    <3> QED BY Zenon, <3>1 DEF Visiting, BlockKind, NodeKind
  <2> QED BY Zenon, <1>2, <1>5, <1>7, <1>8, <1>10, <2>1, <2>2, <2>3, ProgressAfter
<1>14. TypeOK'
  <2>1. scan' \in Nat \ {0} /\ fld' \in 1..2
    BY <1>1, <1>3 DEF NextField
  <2>2. trav' \in SUBSET (Addr \X (1..2))
    BY Zenon, <1>9, <1>12, NodeSlotsFacts
  <2>3. ControlType'
    BY Zenon, <1>1, <2>1, <2>2 DEF IInv, TypeOK, ControlType
  <2>4. NodeType'
    BY Zenon, <1>1 DEF IInv, TypeOK, NodeType
  <2> QED BY Zenon, <1>10, <2>3, <2>4 DEF TypeOK, Graph
<1>15. Control'
  <2>1. ytop <= ytop' /\ otop <= otop'
    BY Zenon, <1>1, TopsGrow
  <2>2. MemoryType'
    BY Zenon, <1>10 DEF Graph
  <2>3. ASSUME NEW s \in trav'
        PROVE  /\ Copy(s[1])' \/ Kept(s[1])'
               /\ kind'[s[1]] \in NodeKind
               /\ phase = "old" => SpaceOf(s[1]) = oid
    <3>1. s[1] = q /\ q \in Addr
      BY Zenon, <1>9, <1>12, <2>3, NodeSlotsFacts
    <3>2. PICK x : x = s[1]
      BY Zenon
    <3>3. Copy(x)' \/ Kept(x)'
      BY Zenon, <1>12, <3>1, <3>2
    <3> QED BY Zenon, <1>5, <1>12, <3>1, <3>2, <3>3
  <2> QED BY Zenon, <1>1, <1>2, <1>4, <1>6, <1>11, <2>1, <2>2, <2>3, ScanControl
<1> QED BY Zenon, <1>10, <1>13, <1>14, <1>15 DEF IInv, Graph

---------------------------------------------------------------------------
(* The traversal of a collection.                                          *)

\* A slot of the traversal belongs to a copy, or to an old node left alone.
LEMMA TravFacts ==
  ASSUME IInv, NEW s \in trav
  PROVE  /\ s[1] \in Addr /\ s[2] \in 1..2 /\ s = <<s[1], s[2]>>
         /\ Copy(s[1]) \/ Kept(s[1])
         /\ kind[s[1]] \in NodeKind
         /\ phase \in {"young", "old"}
         /\ phase = "old" => SpaceOf(s[1]) = oid
<1>1. s \in Addr \X (1..2)
  BY Zenon DEF IInv, TypeOK, ControlType
<1>2. s[1] \in Addr /\ s[2] \in 1..2 /\ s = <<s[1], s[2]>>
  BY <1>1
<1>3. phase \in {"young", "old"}
  BY Zenon DEF IInv, Control, TypeOK, ControlType
<1> QED BY Zenon, <1>2, <1>3 DEF IInv, Control

\* The scan is where it was, and new copies are ahead of it.
LEMMA TraverseTodo ==
  ASSUME IInv, SameCycle, phase' = phase, scan' = scan, fld' = fld, phase \in {"young", "old"},
         NEW N \in SUBSET Addr, Moved(N)
  PROVE  /\ \A b \in Addr \ N : \A j \in 1..2 : Todo(b, j)' <=> Todo(b, j)
         /\ \A q \in N : \A j \in 1..2 :
              (phase = "old" => SpaceOf(q) = oid) /\ kind'[q] \in BlockKind => Todo(q, j)'
<1>1. /\ scan \in Nat /\ fld \in 1..2 /\ ytop \in Nat /\ otop \in Nat /\ yid' = yid /\ oid' = oid
      /\ phase = "young" => scan <= ytop + 1 /\ (scan > ytop => fld = 1)
      /\ phase = "old" => scan <= otop + 1 /\ (scan > otop => fld = 1)
  BY CapAssumption DEF IInv, TypeOK, ControlType, MemoryType, SameCycle, Control
<1>2. ASSUME NEW b \in Addr \ N, NEW j \in 1..2
      PROVE  Todo(b, j)' <=> Todo(b, j)
  <2>1. kind'[b] = kind[b] /\ (Copy(b)' <=> Copy(b))
    BY Zenon, MovedFacts DEF Moved
  <2> QED BY Zenon, <1>1, <2>1 DEF Todo, NotPassed, IsRoot
<1>3. ASSUME NEW q \in N, NEW j \in 1..2, phase = "old" => SpaceOf(q) = oid, kind'[q] \in BlockKind
      PROVE  Todo(q, j)'
  <2>1. Copy(q)' /\ Index(q) \in Nat
    BY MovedFacts, AtFacts
  <2>2. (SpaceOf(q) = yid /\ Index(q) > ytop) \/ (SpaceOf(q) = oid /\ Index(q) > otop)
    BY Zenon, NewIsBeyond
  <2>3. CASE phase = "young"
    <3>1. SpaceOf(q) = oid \/ Index(q) > scan \/ (Index(q) = scan /\ j >= fld)
      BY <1>1, <2>1, <2>2, <2>3
    <3> QED BY Zenon, <1>1, <1>3, <2>1, <2>3, <3>1 DEF Todo, NotPassed
  <2>4. CASE phase = "old"
    <3>1. yid # oid
      BY Zenon, SpaceFacts DEF IInv, TypeOK, ControlType
    <3>2. SpaceOf(q) = oid /\ (Index(q) > scan \/ (Index(q) = scan /\ j >= fld))
      BY <1>1, <1>3, <2>1, <2>2, <2>4, <3>1
    <3> QED BY Zenon, <1>1, <1>3, <2>1, <2>4, <3>2 DEF Todo, NotPassed
  <2> QED BY Zenon, <2>3, <2>4
<1> QED BY Zenon, <1>2, <1>3

\* The scan is at most one past the top, and then at the first field.
ScanWithin(s, top, f) == s \in Nat /\ top \in Nat /\ s <= top + 1 /\ (s > top => f = 1)

\* A scan within a space is within the space grown.
LEMMA ScanBounds ==
  ASSUME NEW s, NEW top, NEW f, ScanWithin(s, top, f), NEW grown \in Nat, top <= grown
  PROVE  ScanWithin(s, grown, f)
BY DEF ScanWithin

\* The control state during a traversal.
LEMMA TraverseControl ==
  ASSUME IInv, SameCycle, phase' = phase, scan' = scan, fld' = fld, iter' = iter, phase \in {"young", "old"},
         NEW N \in SUBSET Addr, Moved(N), ytop <= ytop', otop <= otop', MemoryType',
         \A t \in trav' : \/ t \in trav
                          \/ /\ Copy(t[1])' \/ Kept(t[1])'
                             /\ kind'[t[1]] \in NodeKind
                             /\ phase = "old" => SpaceOf(t[1]) = oid
  PROVE  Control'
<1>1. /\ scan \in Nat \ {0} /\ fld \in 1..2 /\ ytop \in Nat /\ otop \in Nat /\ ytop' \in Nat /\ otop' \in Nat
      /\ oprev \in Nat
  BY CapAssumption DEF IInv, TypeOK, ControlType, MemoryType
<1>2. /\ yid' = yid /\ oid' = oid /\ oprev' = oprev /\ collect_old' = collect_old
  BY Zenon DEF SameCycle
<1>3. /\ oprev <= otop /\ (collect_old => oprev = 0) /\ iter = Nil /\ (phase = "old" => scan > oprev)
      /\ phase = "young" => scan <= ytop + 1 /\ (scan > ytop => fld = 1)
      /\ phase = "old" => scan <= otop + 1 /\ (scan > otop => fld = 1)
      /\ fld = 2 => kind[ScanAt] \in BlockKind
  BY Zenon DEF IInv, Control, Collecting
<1>4. fld = 2 => kind'[ScanAt'] \in BlockKind
  <2> SUFFICES ASSUME fld = 2 PROVE kind'[ScanAt'] \in BlockKind
    BY Zenon
  <2>1. PICK a : a = ScanAt
    BY Zenon
  <2>2. scan <= ScanTop
    BY <1>1, <1>3 DEF ScanTop
  <2>3. a \in Addr /\ Copy(a)
    BY Zenon, <2>1, <2>2, ScanAtFacts
  <2>4. a \notin N
    BY Zenon, <2>3, CopyFacts DEF Moved
  <2>5. kind'[a] = kind[a]
    BY Zenon, <2>3, <2>4 DEF Moved
  <2>6. ScanAt' = a
    BY Zenon, <1>2, <2>1 DEF ScanAt
  <2> QED BY Zenon, <1>3, <2>1, <2>5, <2>6
<1>5. ASSUME NEW t \in trav'
      PROVE  /\ Copy(t[1])' \/ Kept(t[1])'
             /\ kind'[t[1]] \in NodeKind
             /\ phase = "old" => SpaceOf(t[1]) = oid
  <2>1. CASE t \in trav
    <3>1. PICK x : x = t[1]
      BY Zenon
    <3>2. x \in Addr /\ (Copy(x) \/ Kept(x)) /\ kind[x] \in NodeKind /\ (phase = "old" => SpaceOf(x) = oid)
      BY Zenon, <2>1, <3>1, TravFacts
    <3>3. x \notin N
      BY Zenon, <3>2, CopyFacts DEF Moved
    <3>4. (Copy(x)' \/ Kept(x)') /\ kind'[x] = kind[x]
      BY Zenon, <3>2, <3>3, MovedFacts DEF Moved
    <3> QED BY Zenon, <3>1, <3>2, <3>4
  <2> QED BY Zenon, <2>1
<1>6. /\ oprev' <= otop'
      /\ phase' = "young" => scan' <= ytop' + 1
      /\ phase' = "old" => scan' <= otop' + 1 /\ scan' > oprev'
      /\ (phase' = "young" /\ scan' > ytop') \/ (phase' = "old" /\ scan' > otop') => fld' = 1
  <2>1. phase = "young" => ScanWithin(scan, ytop', fld)
    <3>1. phase = "young" => ScanWithin(scan, ytop, fld)
      BY Zenon, <1>1, <1>3 DEF ScanWithin
    <3> QED BY Zenon, <1>1, <3>1, ScanBounds
  <2>2. phase = "old" => ScanWithin(scan, otop', fld)
    <3>1. phase = "old" => ScanWithin(scan, otop, fld)
      BY Zenon, <1>1, <1>3 DEF ScanWithin
    <3> QED BY Zenon, <1>1, <3>1, ScanBounds
  <2>3. oprev <= otop'
    BY <1>1, <1>3
  <2> QED BY Zenon, <1>2, <1>3, <2>1, <2>2, <2>3 DEF ScanWithin
<1> QED BY Zenon, <1>2, <1>3, <1>4, <1>5, <1>6, PtrFacts DEF Control, Collecting

\* A slot of the traversal is migrated; the traversal goes on below it if it leads to a node.
LEMMA TraverseStep ==
  ASSUME IInv, SameCycle, phase' = phase, scan' = scan, fld' = fld, iter' = iter,
         NEW s \in trav, MigrateOnce(s[1], s[2]), NEW R, trav' = (trav \ {s}) \cup R,
         NEW q, q = OncePtr(Field(s[1], s[2])),
         \/ kind[s[1]] = "inner" /\ R = NodeSlots(q)
         \/ kind[s[1]] = "leaf" /\ R = {}
  PROVE  IInv'
<1>1. PICK a, i : a = s[1] /\ i = s[2]
  BY Zenon
<1>2. /\ a \in Addr /\ i \in 1..2 /\ s = <<a, i>> /\ (Copy(a) \/ Kept(a)) /\ kind[a] \in NodeKind
      /\ phase \in {"young", "old"}
      /\ phase = "old" => SpaceOf(a) = oid
  BY Zenon, <1>1, TravFacts
<1>3. Slot(a, i)
  <2>1. kind[a] # "tok"
    BY Zenon, <1>2 DEF NodeKind
  <2> QED BY Zenon, <1>2, <2>1, ReadableSlot DEF Slot
<1>4. PICK p : p = Field(a, i)
  BY Zenon
<1>5. q = OncePtr(p)
  BY Zenon, <1>1, <1>4
<1>6. PICK N \in SUBSET Addr : Outcome(a, i, p, q, N) /\ Graph'
  BY Zenon, <1>1, <1>2, <1>3, <1>4, <1>5, MigrateOnceGraph
<1>7. Moved(N) /\ Redirected(a, i, p, q)
  BY Zenon, <1>6 DEF Outcome
<1>8. q \in Ptr
  BY Zenon, <1>7 DEF Redirected, Ptr
<1>9. phase = "old" /\ q \in Addr => SpaceOf(q) = oid
  BY Zenon, <1>2, <1>3, <1>4, <1>6, OldReachesOld, PtrFacts
<1>10. kind[a] = "inner" /\ q \in Addr => (Copy(q)' \/ Kept(q)') /\ kind'[q] \in NodeKind
  <2>1. kind[a] = "inner" => ChildKinds(kind[a], i) = CollectionNodeKind
    BY Zenon, <1>2, ChildKindFacts
  <2> QED BY Zenon, <1>2, <1>3, <1>4, <1>6, <2>1, NodeReached
<1>11. kind[a] = "leaf" /\ q \in Addr => kind'[q] \notin NodeKind
  <2> SUFFICES ASSUME kind[a] = "leaf", q \in Addr PROVE kind'[q] \notin NodeKind
    BY Zenon
  <2>1. KindAt(q)' = KindAt(p) /\ KindAt(q)' = kind'[q]
    BY Zenon, <1>7, PtrFacts DEF Redirected, KindAt
  <2>2. KindAt(p) \in ChildKinds(kind[a], i)
    BY Zenon, <1>2, <1>3, <1>4 DEF IInv, Fields, Faithful, Slot
  <2>3. ChildKinds(kind[a], i) = Items
    BY Zenon, <1>2, ChildKindFacts
  <2> QED BY Zenon, <2>1, <2>2, <2>3 DEF Items, NodeKind
<1>12. /\ R \in SUBSET (Addr \X (1..2))
       /\ \A t \in R : t[1] = q /\ q \in Addr /\ kind[a] = "inner"
       /\ kind[a] = "inner" /\ q \in Addr => \A j \in 1..2 : <<q, j>> \in R
  <2>1. CASE kind[s[1]] = "inner" /\ R = NodeSlots(q)
    BY Zenon, <1>1, <1>8, <2>1, NodeSlotsFacts
  <2>2. CASE kind[s[1]] = "leaf" /\ R = {}
    BY Zenon, <1>1, <2>2
  <2> QED BY Zenon, <2>1, <2>2
<1>13. Progress'
  <2>1. ASSUME NEW b \in Addr \ N, NEW j \in 1..2, ~(b = a /\ j = i)
        PROVE  (Todo(b, j)' <=> Todo(b, j)) /\ (Visiting(b, j) => Visiting(b, j)')
    <3>1. Todo(b, j)' <=> Todo(b, j)
      BY Zenon, <1>2, <1>7, <2>1, TraverseTodo
    <3>2. kind'[b] = kind[b]
      BY Zenon, <1>7, <2>1 DEF Moved
    <3>3. <<b, j>> # s
      BY Zenon, <1>2, <2>1
    <3> QED BY Zenon, <3>1, <3>2, <3>3 DEF Visiting
  <2>2. ~Todo(a, i)'
    <3>1. a \notin N
      BY Zenon, <1>2, <1>7, CopyFacts DEF Moved
    <3>2. Todo(a, i)' <=> Todo(a, i)
      BY Zenon, <1>2, <1>7, <3>1, TraverseTodo
    <3> QED BY Zenon, <1>2, <3>2 DEF Todo, BlockKind, NodeKind
  <2>3. ASSUME q \in N, NEW j \in 1..2
        PROVE  (kind'[q] \in BlockKind => Todo(q, j)') /\ (kind'[q] \in NodeKind => Visiting(q, j)')
    <3>1. kind'[q] \in BlockKind => Todo(q, j)'
      BY Zenon, <1>2, <1>7, <1>9, <2>3, TraverseTodo
    <3>2. kind[a] = "inner" \/ kind[a] = "leaf"
      BY Zenon, <1>2 DEF NodeKind
    <3>3. kind'[q] \in NodeKind => <<q, j>> \in trav'
      BY Zenon, <1>11, <1>12, <2>3, <3>2
    <3> QED BY Zenon, <3>1, <3>3 DEF Visiting
  <2> QED BY Zenon, <1>2, <1>3, <1>4, <1>6, <2>1, <2>2, <2>3, ProgressAfter
<1>14. TypeOK'
  <2>1. trav' \in SUBSET (Addr \X (1..2))
    BY Zenon, <1>12 DEF IInv, TypeOK, ControlType
  <2>2. ControlType'
    BY Zenon, <2>1 DEF IInv, TypeOK, ControlType, SameCycle
  <2>3. NodeType'
    BY Zenon DEF IInv, TypeOK, NodeType, SameCycle
  <2> QED BY Zenon, <1>6, <2>2, <2>3 DEF TypeOK, Graph
<1>15. Control'
  <2>1. ytop <= ytop' /\ otop <= otop'
    BY Zenon, TopsGrow
  <2>2. MemoryType'
    BY Zenon, <1>6 DEF Graph
  <2>3. ASSUME NEW t \in trav'
        PROVE  \/ t \in trav
               \/ /\ Copy(t[1])' \/ Kept(t[1])'
                  /\ kind'[t[1]] \in NodeKind
                  /\ phase = "old" => SpaceOf(t[1]) = oid
    <3>1. CASE t \in R
      <4>1. PICK x : x = t[1]
        BY Zenon
      <4>2. x = q /\ q \in Addr /\ kind[a] = "inner"
        BY Zenon, <1>12, <3>1, <4>1
      <4>3. (Copy(x)' \/ Kept(x)') /\ kind'[x] \in NodeKind
        BY Zenon, <1>10, <4>2
      <4> QED BY Zenon, <1>9, <4>1, <4>2, <4>3
    <3> QED BY Zenon, <2>3, <3>1
  <2> QED BY Zenon, <1>2, <1>7, <2>1, <2>2, <2>3, TraverseControl
<1> QED BY Zenon, <1>6, <1>13, <1>14, <1>15 DEF IInv, Graph

\* migrate_collection_node on a slot of a node of nodes.
LEMMA TraverseInnerInv ==
  ASSUME IInv, NEW s \in trav, TraverseInner(s)
  PROVE  IInv'
<1>1. SameCycle /\ phase' = phase /\ scan' = scan /\ fld' = fld /\ iter' = iter
  BY Zenon DEF TraverseInner, SameCycle, spaceVars, cycleVars, nodeVars
<1>2. PICK q : q = OncePtr(Field(s[1], s[2]))
  BY Zenon
<1>3. MigrateOnce(s[1], s[2]) /\ trav' = (trav \ {s}) \cup NodeSlots(q) /\ kind[s[1]] = "inner"
  BY Zenon, <1>2 DEF TraverseInner
<1> QED BY Zenon, <1>1, <1>2, <1>3, TraverseStep

\* migrate_map_leaf, migrate_set_leaf, migrate_list's visitor on an element.
LEMMA TraverseLeafInv ==
  ASSUME IInv, NEW s \in trav, TraverseLeaf(s)
  PROVE  IInv'
<1>1. SameCycle /\ phase' = phase /\ scan' = scan /\ fld' = fld /\ iter' = iter
  BY Zenon DEF TraverseLeaf, SameCycle, spaceVars, cycleVars, nodeVars
<1>2. PICK q : q = OncePtr(Field(s[1], s[2]))
  BY Zenon
<1>3. MigrateOnce(s[1], s[2]) /\ trav' = (trav \ {s}) \cup {} /\ kind[s[1]] = "leaf"
  BY Zenon DEF TraverseLeaf
<1> QED BY Zenon, <1>1, <1>2, <1>3, TraverseStep

---------------------------------------------------------------------------
(* Steps that move the scan and copy nothing.                              *)

\* If the scan skips no field, every field is as settled as it was.
LEMMA StillProgress ==
  ASSUME IInv, SameCycle, UNCHANGED <<memVars, topVars>>, trav' = trav,
         \A b \in Addr, j \in 1..2 : Todo(b, j)' <=> Todo(b, j)
  PROVE  Graph' /\ Progress'
<1>1. Graph'
  BY Zenon, StillGraph
<1>2. ASSUME NEW b \in Addr, Readable(b)', NEW j \in 1..2
      PROVE  Scanned(b, j)'
  <2>1. /\ Readable(b) /\ (From(b)' <=> From(b))
        /\ Field(b, j)' = Field(b, j)
        /\ Pending(Field(b, j))' <=> Pending(Field(b, j))
        /\ Settled(Field(b, j))' <=> Settled(Field(b, j))
    BY Zenon, <1>2, StillGraph
  <2>2. Visiting(b, j)' <=> Visiting(b, j)
    BY Zenon DEF Visiting, memVars
  <2>3. Scanned(b, j)
    BY Zenon, <2>1 DEF IInv, Progress
  <2>4. Todo(b, j)' <=> Todo(b, j)
    BY Zenon
  <2> QED BY Zenon, <2>1, <2>2, <2>3, <2>4 DEF Scanned
<1> QED BY Zenon, <1>1, <1>2 DEF Progress

\* What StillGraph says of the classes of objects that the scan distinguishes.
LEMMA StillClasses ==
  ASSUME IInv, SameCycle, UNCHANGED <<memVars, topVars>>, NEW b \in Addr
  PROVE  (Copy(b)' <=> Copy(b)) /\ kind'[b] = kind[b] /\ Index(b) \in Nat \ {0}
         /\ (Copy(b) => SpaceOf(b) = yid \/ (SpaceOf(b) = oid /\ Index(b) > oprev))
<1>1. Copy(b)' <=> Copy(b)
  BY Zenon, StillGraph
<1>2. Index(b) \in Nat \ {0}
  BY AtFacts, CapAssumption
<1> QED BY Zenon, <1>1, <1>2 DEF memVars, Copy

\* The roots are migrated.
LEMMA RootsDoneInv ==
  ASSUME IInv, RootsDone
  PROVE  IInv'
<1>1. /\ phase = "roots" /\ scan > NRoots /\ phase' = "young" /\ scan' = 1 /\ fld' = fld /\ trav' = trav /\ iter' = iter
      /\ UNCHANGED <<memVars, topVars>>
      /\ yid' = yid /\ oid' = oid /\ oprev' = oprev /\ collect_old' = collect_old /\ only_young' = only_young
      /\ size' = size /\ nkind' = nkind /\ nfst' = nfst /\ nsnd' = nsnd
  BY Zenon DEF RootsDone, spaceVars, cycleVars, nodeVars
<1>2. SameCycle
  BY Zenon, <1>1 DEF SameCycle
<1>3. /\ scan \in Nat \ {0} /\ fld = 1 /\ trav = {} /\ iter = Nil /\ oprev <= otop /\ (collect_old => oprev = 0)
      /\ ytop \in Nat /\ ytop' = ytop /\ otop' = otop
  BY <1>1, CapAssumption DEF IInv, Control, TypeOK, ControlType, MemoryType, Collecting, topVars
<1>4. ASSUME NEW b \in Addr, NEW j \in 1..2
      PROVE  Todo(b, j)' <=> Todo(b, j)
  <2>1. (Copy(b)' <=> Copy(b)) /\ kind'[b] = kind[b] /\ Index(b) \in Nat \ {0}
        /\ (Copy(b) => SpaceOf(b) = yid \/ SpaceOf(b) = oid)
    BY Zenon, <1>1, <1>2, StillClasses
  <2>2. ~(IsRoot(b) /\ Index(b) >= scan)
    BY <1>1, <1>3, <2>1, RootAssumption DEF IsRoot
  <2>3. Todo(b, j) <=> Copy(b) /\ kind[b] \in BlockKind
    BY Zenon, <1>1, <2>2 DEF Todo
  <2>4. NotPassed(b, j)'
    BY <1>1, <1>3, <2>1 DEF NotPassed
  <2>5. Todo(b, j)' <=> Copy(b)' /\ kind'[b] \in BlockKind
    BY Zenon, <1>1, <2>4 DEF Todo
  <2> QED BY Zenon, <2>1, <2>3, <2>5
<1>5. Graph' /\ Progress'
  BY Zenon, <1>1, <1>2, <1>4, StillProgress
<1>6. TypeOK'
  BY SMTT(30), <1>1, <1>5 DEF IInv, TypeOK, ControlType, NodeType, Graph
<1>7. Control'
  BY <1>1, <1>3, PtrFacts DEF Control, Collecting
<1> QED BY Zenon, <1>5, <1>6, <1>7 DEF IInv, Graph

\* The young generation is scanned.
LEMMA YoungDoneInv ==
  ASSUME IInv, YoungDone
  PROVE  IInv'
<1>1. /\ phase = "young" /\ scan > ytop /\ phase' = "old" /\ fld' = fld /\ trav' = trav /\ iter' = iter
      /\ scan' = IF collect_old THEN 1 ELSE oprev + 1
      /\ trav = {}
      /\ UNCHANGED <<memVars, topVars>>
      /\ yid' = yid /\ oid' = oid /\ oprev' = oprev /\ collect_old' = collect_old /\ only_young' = only_young
      /\ size' = size /\ nkind' = nkind /\ nfst' = nfst /\ nsnd' = nsnd
  BY Zenon DEF YoungDone, Scanning, spaceVars, cycleVars, nodeVars
<1>2. SameCycle
  BY Zenon, <1>1 DEF SameCycle
<1>3. /\ scan \in Nat \ {0} /\ fld = 1 /\ iter = Nil /\ oprev <= otop /\ (collect_old => oprev = 0)
      /\ ytop \in Nat /\ otop \in Nat /\ oprev \in Nat /\ ytop' = ytop /\ otop' = otop /\ yid # oid
  BY SMTT(30), <1>1, CapAssumption, SpaceFacts DEF IInv, Control, TypeOK, ControlType, MemoryType, Collecting, topVars
<1>4. scan' = oprev + 1 /\ scan' \in Nat \ {0}
  BY <1>1, <1>3
<1>5. ASSUME NEW b \in Addr, NEW j \in 1..2
      PROVE  Todo(b, j)' <=> Todo(b, j)
  <2>1. (Copy(b)' <=> Copy(b)) /\ kind'[b] = kind[b] /\ Index(b) \in Nat \ {0}
        /\ (Copy(b) => SpaceOf(b) = yid \/ (SpaceOf(b) = oid /\ Index(b) > oprev))
    BY Zenon, <1>1, <1>2, StillClasses
  <2>2. Copy(b) /\ SpaceOf(b) = yid => ~NotPassed(b, j)
    BY <1>1, <1>3, <2>1 DEF Copy, NotPassed
  <2>3. Todo(b, j) <=> Copy(b) /\ kind[b] \in BlockKind /\ SpaceOf(b) = oid
    BY Zenon, <1>1, <2>1, <2>2 DEF Todo
  <2>4. Copy(b) /\ SpaceOf(b) = oid => NotPassed(b, j)'
    BY <1>1, <1>3, <1>4, <2>1 DEF NotPassed
  <2>5. Todo(b, j)' <=> Copy(b)' /\ kind'[b] \in BlockKind /\ SpaceOf(b) = oid
    BY Zenon, <1>1, <2>1, <2>4 DEF Todo
  <2> QED BY Zenon, <2>1, <2>3, <2>5
<1>6. Graph' /\ Progress'
  BY Zenon, <1>1, <1>2, <1>5, StillProgress
<1>7. TypeOK'
  BY Zenon, <1>1, <1>4, <1>6 DEF IInv, TypeOK, ControlType, NodeType, Graph
<1>8. Control'
  <2>1. scan' <= otop' + 1 /\ scan' > oprev'
    BY <1>1, <1>3, <1>4
  <2> QED BY <1>1, <1>3, <2>1, PtrFacts DEF Control, Collecting
<1> QED BY Zenon, <1>6, <1>7, <1>8 DEF IInv, Graph

\* arena::evacuate on a token.
LEMMA EvacuateTokenInv ==
  ASSUME IInv, EvacuateToken
  PROVE  IInv'
<1>1. /\ phase \in {"young", "old"} /\ scan <= ScanTop /\ kind[ScanAt] \notin BlockKind
      /\ phase' = phase /\ scan' = scan + 1 /\ fld' = fld /\ trav' = trav /\ iter' = iter
      /\ trav = {}
      /\ UNCHANGED <<memVars, topVars>>
      /\ yid' = yid /\ oid' = oid /\ oprev' = oprev /\ collect_old' = collect_old /\ only_young' = only_young
      /\ size' = size /\ nkind' = nkind /\ nfst' = nfst /\ nsnd' = nsnd
  BY Zenon DEF EvacuateToken, Scanning, spaceVars, cycleVars, nodeVars, BlockKind
<1>2. SameCycle
  BY Zenon, <1>1 DEF SameCycle
<1>3. /\ scan \in Nat \ {0} /\ fld = 1 /\ iter = Nil /\ oprev <= otop /\ (collect_old => oprev = 0)
      /\ ytop \in Nat /\ otop \in Nat /\ oprev \in Nat /\ ytop' = ytop /\ otop' = otop
      /\ phase = "old" => scan > oprev
  BY SMTT(30), <1>1, CapAssumption DEF IInv, Control, TypeOK, ControlType, MemoryType, Collecting, topVars
<1>4. PICK a : a = ScanAt
  BY Zenon
<1>5. /\ a \in Addr /\ Copy(a) /\ Index(a) = scan
      /\ SpaceOf(a) = IF phase = "young" THEN yid ELSE oid
  BY Zenon, <1>1, <1>4, ScanAtFacts
<1>6. ASSUME NEW b \in Addr, NEW j \in 1..2
      PROVE  Todo(b, j)' <=> Todo(b, j)
  <2>1. (Copy(b)' <=> Copy(b)) /\ kind'[b] = kind[b] /\ Index(b) \in Nat \ {0}
        /\ (Copy(b) => SpaceOf(b) = yid \/ SpaceOf(b) = oid)
    BY Zenon, <1>1, <1>2, StillClasses
  <2>2. kind[b] \in BlockKind /\ SpaceOf(b) = SpaceOf(a) => Index(b) # scan
    BY Zenon, <1>1, <1>4, <1>5, AtFacts
  <2>3. Index(b) # scan => (NotPassed(b, j)' <=> NotPassed(b, j))
    BY <1>1, <1>3, <2>1 DEF NotPassed
  <2>4. CASE phase = "young"
    BY Zenon, <1>1, <1>5, <2>1, <2>2, <2>3, <2>4 DEF Todo
  <2>5. CASE phase = "old"
    BY Zenon, <1>1, <1>5, <2>1, <2>2, <2>3, <2>5 DEF Todo
  <2> QED BY Zenon, <1>1, <2>4, <2>5
<1>7. Graph' /\ Progress'
  BY Zenon, <1>1, <1>2, <1>6, StillProgress
<1>8. TypeOK'
  BY SMTT(30), <1>1, <1>3, <1>7 DEF IInv, TypeOK, ControlType, NodeType, Graph
<1>9. Control'
  <2>1. /\ phase' = "young" => scan' <= ytop' + 1
        /\ phase' = "old" => scan' <= otop' + 1 /\ scan' > oprev'
    BY <1>1, <1>3 DEF ScanTop
  <2> QED BY <1>1, <1>3, <2>1, PtrFacts DEF Control, Collecting
<1> QED BY Zenon, <1>7, <1>8, <1>9 DEF IInv, Graph

---------------------------------------------------------------------------
(* The end of kore_collect.                                                *)

\* At the end of the scans every field is settled.
LEMMA AllSettled ==
  ASSUME IInv, phase = "old", scan > otop, trav = {}, NEW a \in Addr, Allocated(a) \/ IsRoot(a), kind[a] # "tok",
         NEW i \in 1..2, NEW p, p = Field(a, i)
  PROVE  /\ Readable(a) /\ ~From(a) /\ a \notin fwd
         /\ p \in Const \/ (p \in Addr /\ Allocated(p) /\ ~From(p) /\ p \notin fwd)
<1>1. Copy(a) \/ Kept(a) \/ IsRoot(a)
  BY Zenon, CopyFacts
<1>2. Readable(a) /\ ~From(a) /\ a \notin fwd
  BY Zenon, <1>1, ReadableSlot
<1>3. otop \in Nat /\ scan \in Nat /\ Index(a) \in Nat /\ oid # "R" /\ yid # oid
  BY SMTT(30), AtFacts, CapAssumption, SpaceFacts DEF IInv, TypeOK, ControlType, MemoryType
<1>4. ~Todo(a, i)
  BY <1>3 DEF Todo, NotPassed, Copy
<1>5. Settled(p)
  BY Zenon, <1>2, <1>4 DEF IInv, Progress, Scanned, Visiting
<1>6. p \in Ptr
  BY Zenon DEF IInv, TypeOK, MemoryType, Field
<1>7. ASSUME p \notin Const
      PROVE  p \in Addr /\ Allocated(p) /\ ~From(p) /\ p \notin fwd
  <2>1. p \in Addr /\ (Copy(p) \/ Kept(p))
    BY Zenon, <1>5, <1>6, <1>7, PtrFacts DEF Settled
  <2>2. Allocated(p) /\ ~From(p)
    BY Zenon, <2>1, CopyFacts
  <2> QED BY Zenon, <2>1, <2>2, FwdFacts
<1> QED BY Zenon, <1>2, <1>7

\* What the end of a collection leaves of memory.
LEMMA OldDoneMemory ==
  ASSUME IInv, OldDone, NEW a \in Addr
  PROVE  /\ Allocated(a)' <=> Allocated(a)
         /\ SpaceOf(a) # "R" => (InCollectionSpace(a) <=> SpaceOf(a) \notin {yid, oid})
         /\ SpaceOf(a) = "R" => ~InCollectionSpace(a)
         /\ Allocated(a) => ~InCollectionSpace(a)
         /\ ~InCollectionSpace(a) => /\ kind'[a] = kind[a] /\ id'[a] = id[a]
                                     /\ fst'[a] = fst[a] /\ snd'[a] = snd[a]
                                     /\ a \in old' <=> a \in old
                                     /\ a \in age' <=> a \in age
         /\ InCollectionSpace(a) => kind'[a] = "free"
<1>1. yid \in YoungSpace /\ oid \in OldSpace /\ SpaceOf(a) \in Space
  BY Zenon, AtFacts DEF IInv, TypeOK, ControlType
<1>2. /\ SpaceOf(a) # "R" => (InCollectionSpace(a) <=> SpaceOf(a) \notin {yid, oid})
      /\ SpaceOf(a) = "R" => ~InCollectionSpace(a)
  BY <1>1 DEF InCollectionSpace, Other, YoungSpace, OldSpace, Space
<1>3. Allocated(a)' <=> Allocated(a)
  BY Zenon DEF OldDone, topVars, spaceVars, Allocated
<1>4. Allocated(a) => SpaceOf(a) \in {yid, oid}
  BY Zenon DEF Allocated
<1>5. yid # "R" /\ oid # "R"
  BY Zenon, <1>1, SpaceFacts
<1> HIDE DEF InCollectionSpace
<1>6. /\ ~InCollectionSpace(a) => /\ kind'[a] = kind[a] /\ id'[a] = id[a]
                                  /\ fst'[a] = fst[a] /\ snd'[a] = snd[a]
                                  /\ a \in old' <=> a \in old
                                  /\ a \in age' <=> a \in age
      /\ InCollectionSpace(a) => kind'[a] = "free"
  BY Zenon DEF OldDone
<1> QED BY Zenon, <1>2, <1>3, <1>4, <1>5, <1>6

\* The end of kore_collect.
LEMMA OldDoneInv ==
  ASSUME IInv, OldDone
  PROVE  RunInv'
<1>1. /\ phase = "old" /\ trav = {} /\ scan > otop
      /\ phase' = "run" /\ collect_old' = FALSE /\ oprev' = 0 /\ scan' = 1
      /\ fwd' = {a \in fwd : ~InCollectionSpace(a)}
      /\ yid' = yid /\ oid' = oid /\ only_young' = only_young /\ fld' = fld /\ trav' = trav /\ iter' = iter
      /\ ytop' = ytop /\ otop' = otop
      /\ size' = size /\ nkind' = nkind /\ nfst' = nfst /\ nsnd' = nsnd
  BY Zenon DEF OldDone, Scanning, topVars, spaceVars, nodeVars
<1>2. fld = 1 /\ iter = Nil
  BY Zenon, <1>1 DEF IInv, Control, Collecting
<1>3. TypeOK'
  <2>1. /\ kind' \in [Addr -> Kind] /\ id' \in [Addr -> 0..MaxNodes]
        /\ fst' \in [Addr -> Ptr] /\ snd' \in [Addr -> Ptr]
    BY PtrFacts, BoundAssumption DEF OldDone, IInv, TypeOK, MemoryType, Kind
  <2>2. old' \in SUBSET Addr /\ age' \in SUBSET Addr /\ fwd' \in SUBSET Addr
    BY Zenon DEF OldDone, IInv, TypeOK, MemoryType
  <2>3. MemoryType'
    BY Zenon, <1>1, <2>1, <2>2 DEF IInv, TypeOK, MemoryType
  <2>4. collect_old' \in BOOLEAN
    BY Zenon, <1>1
  <2>5. oprev' \in 0..Cap /\ scan' \in Nat \ {0}
    BY <1>1, CapAssumption
  <2>6. ControlType'
    BY Zenon, <1>1, <2>4, <2>5 DEF IInv, TypeOK, ControlType
  <2>7. NodeType'
    BY Zenon, <1>1 DEF IInv, TypeOK, NodeType
  <2> QED BY Zenon, <2>3, <2>6, <2>7 DEF TypeOK
<1>4. fwd' = {}
  <2>1. ASSUME NEW a \in fwd PROVE InCollectionSpace(a)
    BY Zenon DEF IInv, Forwarding, From, FromSpace, InCollectionSpace
  <2> QED BY Zenon, <1>1, <2>1
<1>5. RunLayout'
  <2> SUFFICES ASSUME NEW a \in Addr
               PROVE  /\ SpaceOf(a) = "R" => kind'[a] = (IF Index(a) <= NRoots THEN "root" ELSE "free")
                      /\ SpaceOf(a) # "R" => kind'[a] # "root"
                      /\ SpaceOf(a) # "R" => (kind'[a] = "free" <=> ~Allocated(a)')
    BY Zenon DEF RunLayout
  <2>1. ~InCollectionSpace(a) /\ SpaceOf(a) # "R" => ~FromSpace(SpaceOf(a))
    BY Zenon DEF FromSpace, InCollectionSpace
  <2> QED BY Zenon, <2>1, OldDoneMemory DEF IInv, Layout
<1>6. RunHeaders'
  <2> SUFFICES ASSUME NEW a \in Addr, kind'[a] \notin {"free", "root", "tok"}
               PROVE  (a \in old' <=> SpaceOf(a) \in OldSpace) /\ (a \in old' => a \in age')
    BY Zenon DEF RunHeaders
  <2> QED BY Zenon, OldDoneMemory DEF IInv, Headers
<1>7. RunFields'
  <2> SUFFICES ASSUME NEW a \in Addr, Allocated(a)' \/ IsRoot(a), kind'[a] # "tok", NEW i \in 1..2
               PROVE  RunField(a, i)'
    BY Zenon DEF RunFields, IsRoot
  <2>1. PICK p : p = Field(a, i)
    BY Zenon
  <2>2. Allocated(a) \/ IsRoot(a)
    BY Zenon, OldDoneMemory
  <2>3. ~InCollectionSpace(a)
    BY Zenon, <2>2, OldDoneMemory DEF IsRoot
  <2>4. kind'[a] = kind[a] /\ id'[a] = id[a] /\ (a \in old' <=> a \in old) /\ (a \in age' <=> a \in age)
        /\ Field(a, i)' = p /\ (Allocated(a)' <=> Allocated(a))
    BY Zenon, <2>1, <2>3, OldDoneMemory DEF Field
  <2>5. /\ Readable(a) /\ ~From(a)
        /\ p \in Const \/ (p \in Addr /\ Allocated(p) /\ ~From(p))
    BY Zenon, <1>1, <2>1, <2>2, <2>4, AllSettled
  <2>6. p \in Addr /\ Allocated(p) => /\ Allocated(p)' /\ kind'[p] = kind[p] /\ id'[p] = id[p]
                                      /\ (p \in old' <=> p \in old) /\ (p \in age' <=> p \in age)
    BY Zenon, OldDoneMemory
  <2>7. KindAt(p)' = KindAt(p) /\ Id(p)' = Id(p) /\ Rank(p)' = Rank(p) /\ RankAfter(p) = Rank(p)
    BY Zenon, <2>5, <2>6 DEF KindAt, Id, Rank, RankAfter
  <2>8. Rank(a)' = Rank(a)
    BY Zenon, <2>4 DEF Rank
  <2>9. Faithful(a, i) /\ (Heap(a) => Ranked(a, i))
    BY Zenon, <2>5 DEF IInv, Fields
  <2>10. Allocated(a) => Heap(a)
    BY Zenon, CopyFacts DEF Heap
  <2>11. NodeField(id[a], i)' = NodeField(id[a], i)
    BY Zenon, <1>1, <2>4 DEF NodeField
  <2>12. Allocated(a)' => IF kind[a] \in OwnerKind /\ i = 1 THEN a \in old => SpaceOf(p) \in OldSpace
                          ELSE Rank(p) >= Rank(a)
    BY Zenon, <2>1, <2>4, <2>5, <2>7, <2>9, <2>10 DEF Ranked
  <2> QED BY Zenon, <2>1, <2>4, <2>5, <2>6, <2>7, <2>8, <2>9, <2>11, <2>12 DEF RunField, Faithful
<1>8. RunNames'
  <2>1. \A a \in Addr : Allocated(a)' => Allocated(a) /\ Heap(a) /\ a \notin fwd /\ kind'[a] = kind[a] /\ id'[a] = id[a]
    BY Zenon, OldDoneMemory, CopyFacts, FwdFacts DEF Heap
  <2> QED BY Zenon, <1>1, <2>1 DEF RunNames, IInv, Names
<1>9. RunPayloads'
  <2>1. ASSUME NEW a \in Addr, kind'[a] \in OwnerKind
        PROVE  /\ OwnsPayload(a) /\ fst'[a] = fst[a]
               /\ fst[a] \in Addr => kind'[fst[a]] = kind[fst[a]]
    <3>1. ~InCollectionSpace(a) /\ kind[a] \in OwnerKind
      BY Zenon, <2>1, OldDoneMemory DEF OwnerKind
    <3>2. SpaceOf(a) # "R"
      BY Zenon, <3>1 DEF IInv, Layout, OwnerKind
    <3>3. Allocated(a)
      <4>1. ~FromSpace(SpaceOf(a))
        BY Zenon, <3>1 DEF FromSpace, InCollectionSpace
      <4> QED BY Zenon, <3>1, <3>2, <4>1 DEF IInv, Layout, OwnerKind
    <3>4. a \notin fwd /\ fst'[a] = fst[a]
      BY Zenon, <3>1, <3>3, FwdFacts, OldDoneMemory
    <3>5. fst[a] \in Const \/ (fst[a] \in Addr /\ Allocated(fst[a]))
      <4>1. fst[a] = Field(a, 1) /\ kind[a] # "tok"
        BY Zenon, <3>1 DEF Field, OwnerKind
      <4> QED BY Zenon, <1>1, <3>3, <4>1, FieldIndex, AllSettled
    <3>6. fst[a] \in Addr => kind'[fst[a]] = kind[fst[a]]
      BY Zenon, <3>5, OldDoneMemory, PtrFacts
    <3> QED BY Zenon, <3>1, <3>4, <3>6 DEF OwnsPayload, OwnerKind
  <2> QED BY Zenon, <2>1 DEF RunPayloads, IInv, Payloads
<1>10. RunControl'
  BY Zenon, <1>1, <1>2, <1>4, PtrFacts DEF RunControl
<1> QED BY Zenon, <1>1, <1>3, <1>5, <1>6, <1>7, <1>8, <1>9, <1>10 DEF RunInv

---------------------------------------------------------------------------
(* The start of kore_collect, from a step function or from free_all_kore_mem. *)

\* What both entries do to the roots: those that are not migrated are given up.
RootsGivenUp ==
  /\ fst' \in [Addr -> Ptr]
  /\ \A a \in Addr : /\ SpaceOf(a) # "R" => fst'[a] = fst[a]
                     /\ fst'[a] = fst[a] \/ fst'[a] = Nil
                     /\ SpaceOf(a) = "R" /\ Index(a) < scan' => fst'[a] = Nil

\* After the swap an allocated object is one to collect or an old one left alone.
LEMMA StartClasses ==
  ASSUME RunInv, NEW args, StartCollect(args), NEW a \in Addr
  PROVE  /\ ~Copy(a)'
         /\ Allocated(a) <=> (From(a)' \/ Kept(a)')
         /\ ~(From(a)' /\ Kept(a)')
         /\ Heap(a)' <=> Allocated(a)
         /\ Kept(a)' <=> (SpaceOf(a) = oid /\ ~collect_old' /\ Allocated(a))
         /\ SpaceOf(a) # "R" /\ ~FromSpace(SpaceOf(a))' => (Allocated(a)' <=> Allocated(a))
<1>1. /\ yid \in YoungSpace /\ oid \in OldSpace /\ ytop \in Nat /\ otop \in Nat /\ Index(a) \in Nat \ {0}
      /\ SpaceOf(a) \in Space
  BY AtFacts, CapAssumption DEF RunInv, TypeOK, MemoryType, ControlType
<1>2. /\ yid # oid /\ Other(yid) # yid /\ Other(Other(yid)) = yid /\ Other(yid) # oid /\ yid # "R" /\ oid # "R"
      /\ Other(oid) # oid /\ Other(Other(oid)) = oid /\ Other(oid) # yid /\ Other(oid) # Other(yid)
  BY <1>1, SpaceFacts DEF Other, YoungSpace, OldSpace
<1>3. /\ phase' = "roots" /\ yid' = Other(yid) /\ ytop' = 0 /\ oprev' = otop' /\ kind' = kind
      /\ IF collect_old' THEN oid' = Other(oid) /\ otop' = 0 ELSE oid' = oid /\ otop' = otop
  BY Zenon DEF StartCollect
<1>4. SpaceOf(a) # "R" => (kind[a] = "free" <=> ~Allocated(a))
  BY Zenon DEF RunInv, RunLayout
<1>5. Allocated(a) => SpaceOf(a) \in {yid, oid} /\ SpaceOf(a) # "R"
  BY Zenon, <1>2 DEF Allocated
<1>6. CASE collect_old'
  <2>1. oid' = Other(oid) /\ otop' = 0 /\ oprev' = 0
    BY Zenon, <1>3, <1>6
  <2>2. \A s : FromSpace(s)' <=> (s = yid \/ s = oid)
    BY Zenon, <1>2, <1>3, <1>6, <2>1 DEF FromSpace, Collecting
  <2>3. ~Copy(a)' /\ ~Kept(a)' /\ ~Allocated(a)'
    BY <1>1, <1>3, <2>1 DEF Copy, Kept, Allocated
  <2>4. From(a)' <=> Allocated(a)
    BY Zenon, <1>2, <1>3, <1>4, <1>5, <2>2 DEF From
  <2> QED BY Zenon, <1>5, <1>6, <2>2, <2>3, <2>4 DEF Heap, Allocated
<1>7. CASE ~collect_old'
  <2>1. oid' = oid /\ otop' = otop /\ oprev' = otop
    BY Zenon, <1>3, <1>7
  <2>2. \A s : FromSpace(s)' <=> s = yid
    BY Zenon, <1>2, <1>3, <1>7 DEF FromSpace, Collecting
  <2>3. ~Copy(a)' /\ (Kept(a)' <=> SpaceOf(a) = oid /\ Index(a) <= otop)
    BY <1>1, <1>3, <2>1 DEF Copy, Kept
  <2>4. From(a)' <=> Allocated(a) /\ SpaceOf(a) = yid
    BY Zenon, <1>2, <1>3, <1>4, <1>5, <2>2 DEF From
  <2>5. Allocated(a)' <=> SpaceOf(a) = oid /\ Index(a) <= otop
    BY <1>1, <1>3, <2>1 DEF Allocated
  <2> QED BY Zenon, <1>2, <1>5, <1>7, <2>2, <2>3, <2>4, <2>5 DEF Heap, Allocated
<1> QED BY Zenon, <1>6, <1>7

\* An old object left alone has only such objects below it.
LEMMA KeptBelow ==
  ASSUME RunInv, NEW args, StartCollect(args), NEW a \in Addr, Kept(a)', kind[a] # "tok", NEW i \in 1..2,
         NEW p, p = Field(a, i)
  PROVE  p \in Const \/ (p \in Addr /\ Kept(p)')
<1>1. Allocated(a) /\ SpaceOf(a) = oid /\ ~collect_old'
  BY Zenon, StartClasses
<1>2. RunField(a, i)
  BY Zenon, <1>1 DEF RunInv, RunFields
<1>3. oid \in OldSpace /\ yid \notin OldSpace /\ yid # "R" /\ oid # "R"
  BY Zenon, SpaceFacts DEF RunInv, TypeOK, ControlType
<1>4. kind[a] \notin {"free", "root", "tok"} /\ kind[a] \in Kind
  BY Zenon, <1>1, <1>3 DEF RunInv, RunLayout, TypeOK, MemoryType
<1>5. a \in old /\ Rank(a) = 2
  BY Zenon, <1>1, <1>3, <1>4, PtrFacts DEF RunInv, RunHeaders, Rank
<1>6. CASE p \notin Const
  <2>1. p \in Addr /\ Allocated(p) /\ (SpaceOf(p) = yid \/ SpaceOf(p) = oid)
    BY Zenon, <1>2, <1>6 DEF RunField, Allocated
  <2>2. SpaceOf(p) \in OldSpace
    <3>1. CASE kind[a] \in OwnerKind /\ i = 1
      BY Zenon, <1>1, <1>2, <1>5, <3>1 DEF RunField
    <3>2. CASE ~(kind[a] \in OwnerKind /\ i = 1)
      <4>1. Rank(p) >= 2
        BY Zenon, <1>1, <1>2, <1>5, <3>2 DEF RunField
      <4>2. p \in old
        BY <1>6, <4>1 DEF Rank
      <4>3. kind[p] \in ChildKinds(kind[a], i)
        BY Zenon, <1>2, <1>6 DEF RunField, KindAt
      <4>4. kind[p] # "tok"
        BY Zenon, <1>4, <3>2, <4>3 DEF ChildKinds, OwnerKind, Kind
      <4>5. kind[p] \notin {"free", "root"}
        BY Zenon, <1>3, <2>1 DEF RunInv, RunLayout
      <4> QED BY Zenon, <2>1, <4>2, <4>4, <4>5 DEF RunInv, RunHeaders
    <3> QED BY Zenon, <3>1, <3>2
  <2> QED BY Zenon, <1>1, <1>3, <2>1, <2>2, StartClasses
<1> QED BY Zenon, <1>6

\* The fields when a collection starts.
LEMMA StartFields ==
  ASSUME RunInv, NEW args, StartCollect(args), RootsGivenUp
  PROVE  Fields' /\ Progress'
<1> SUFFICES ASSUME NEW a \in Addr, Readable(a)', NEW i \in 1..2
             PROVE  Faithful(a, i)' /\ Reached(a, i)' /\ (Heap(a)' => Ranked(a, i)') /\ Scanned(a, i)'
  BY Zenon DEF Fields, Progress
<1>1. /\ kind' = kind /\ id' = id /\ old' = old /\ age' = age /\ snd' = snd /\ nfst' = nfst /\ nsnd' = nsnd
      /\ phase' = "roots" /\ trav' = trav /\ trav = {}
  BY Zenon DEF StartCollect, hdrVars, nodeVars, RunInv, RunControl
<1>2. Heap(a)' <=> Allocated(a)
  BY Zenon, StartClasses
<1>3. (Allocated(a) \/ IsRoot(a)) /\ kind[a] # "tok"
  BY Zenon, <1>1, <1>2 DEF Readable, IsRoot
<1>4. RunField(a, i)
  BY Zenon, <1>3 DEF RunInv, RunFields
<1>5. PICK p : p = Field(a, i)'
  BY Zenon
<1>6. yid # "R" /\ oid # "R"
  BY Zenon, SpaceFacts DEF RunInv, TypeOK, ControlType
<1>7. p = Field(a, i) \/ (p = Nil /\ IsRoot(a) /\ i = 1)
  <2>1. Allocated(a) => SpaceOf(a) # "R"
    BY Zenon, <1>6 DEF Allocated
  <2> QED BY Zenon, <1>1, <1>3, <1>5, <2>1 DEF RootsGivenUp, Field, IsRoot
<1>8. p \in Const \/ (p \in Addr /\ Allocated(p))
  BY Zenon, <1>4, <1>7, PtrFacts DEF RunField
<1>9. KindAt(p)' = KindAt(p) /\ Id(p)' = Id(p) /\ Rank(p)' = Rank(p) /\ Rank(a)' = Rank(a)
      /\ NodeField(id[a], i)' = NodeField(id[a], i)
  BY Zenon, <1>1 DEF KindAt, Id, Rank, NodeField
<1>10. IsRoot(a) => kind[a] = "root" /\ ~Allocated(a)
  BY Zenon, <1>6 DEF IsRoot, RunInv, RunLayout, Allocated
<1>11. Faithful(a, i)'
  <2>1. KindAt(p) \in ChildKinds(kind[a], i)
    <3>1. CASE p = Field(a, i)
      BY Zenon, <1>4, <3>1 DEF RunField
    <3>2. CASE p = Nil /\ IsRoot(a) /\ i = 1
      BY Zenon, <1>10, <3>2, ChildKindFacts, PtrFacts DEF KindAt, TermKind
    <3> QED BY Zenon, <1>7, <3>1, <3>2
  <2>2. kind[a] # "root" => Id(p) = NodeField(id[a], i)
    BY Zenon, <1>4, <1>7, <1>10 DEF RunField
  <2>3. p \in Const \/ Heap(p)'
    BY Zenon, <1>8, StartClasses
  <2>4. id'[a] = id[a]
    BY Zenon, <1>1
  <2> QED BY Zenon, <1>1, <1>5, <1>9, <2>1, <2>2, <2>3, <2>4 DEF Faithful
<1>12. Pending(p)'
  BY Zenon, <1>8, StartClasses DEF Pending
<1>13. Kept(a)' => p \in Const \/ (p \in Addr /\ Kept(p)')
  <2> SUFFICES ASSUME Kept(a)' PROVE p \in Const \/ (p \in Addr /\ Kept(p)')
    BY Zenon
  <2>1. Allocated(a)
    BY Zenon, StartClasses
  <2>2. p = Field(a, i)
    BY Zenon, <1>7, <1>10, <2>1
  <2> QED BY Zenon, <1>3, <2>2, KeptBelow
<1>14. Reached(a, i)'
  BY Zenon, <1>5, <1>12, <1>13 DEF Reached
<1>15. Heap(a)' => Ranked(a, i)'
  <2> SUFFICES ASSUME Allocated(a) PROVE Ranked(a, i)'
    BY Zenon, <1>2
  <2>1. p = Field(a, i)
    BY Zenon, <1>7, <1>10
  <2>2. IF kind[a] \in OwnerKind /\ i = 1
        THEN a \in old => SpaceOf(p) \in OldSpace ELSE Rank(p) >= Rank(a)
    BY Zenon, <1>4, <2>1 DEF RunField
  <2>3. From(a)' \/ Kept(a)'
    BY Zenon, StartClasses
  <2>4. Kept(a)' => RankAfter(p)' = Rank(p)'
    BY Zenon, <1>13, StartClasses DEF RankAfter, Rank
  <2> QED BY Zenon, <1>1, <1>5, <1>9, <2>2, <2>3, <2>4 DEF Ranked
<1>16. Scanned(a, i)'
  <2>1. ASSUME ~Todo(a, i)', ~From(a)' PROVE Settled(p)'
    <3>1. CASE Allocated(a)
      <4>1. Kept(a)'
        BY Zenon, <2>1, <3>1, StartClasses
      <4> QED BY Zenon, <1>13, <4>1 DEF Settled
    <3>2. CASE IsRoot(a) /\ i = 1
      <4>1. ~(Index(a) >= scan')
        BY Zenon, <1>1, <2>1, <3>2 DEF Todo, IsRoot
      <4>2. scan' \in Nat /\ Index(a) \in Nat
        BY AtFacts, RootAssumption DEF StartCollect
      <4>3. p = Nil
        BY <1>5, <3>2, <4>1, <4>2 DEF RootsGivenUp, IsRoot, Field
      <4> QED BY Zenon, <4>3, PtrFacts DEF Settled
    <3>3. CASE IsRoot(a) /\ i = 2
      <4>1. KindAt(p) = "const"
        BY Zenon, <1>4, <1>7, <1>10, <3>3, ChildKindFacts DEF RunField
      <4>2. p \in Addr => kind[p] # "const"
        BY Zenon DEF RunInv, TypeOK, MemoryType, Kind
      <4>3. p \in Const
        BY Zenon, <1>8, <4>1, <4>2 DEF KindAt
      <4> QED BY Zenon, <4>3 DEF Settled
    <3> QED BY <1>3, <3>1, <3>2, <3>3
  <2> QED BY Zenon, <1>5, <1>12, <2>1 DEF Scanned
<1> QED BY Zenon, <1>11, <1>14, <1>15, <1>16

\* The start of a collection.
LEMMA StartInv ==
  ASSUME RunInv, NEW args \in BOOLEAN, StartCollect(args), RootsGivenUp
  PROVE  IInv'
<1>1. /\ kind' = kind /\ id' = id /\ old' = old /\ age' = age /\ fwd' = fwd /\ fwd = {} /\ snd' = snd
      /\ size' = size /\ nkind' = nkind /\ nfst' = nfst /\ nsnd' = nsnd
      /\ phase' = "roots" /\ trav' = trav /\ trav = {} /\ fld' = fld /\ fld = 1 /\ iter' = Nil
      /\ ytop' = 0 /\ oprev' = otop' /\ (otop' = 0 \/ otop' = otop) /\ (collect_old' => otop' = 0)
      /\ yid' = Other(yid) /\ (oid' = Other(oid) \/ oid' = oid)
      /\ scan' = 1 \/ scan' = NArgs + 1
      /\ only_young' = 0 \/ (only_young' = only_young + 1 /\ only_young + 1 # OldPeriod)
  BY Zenon DEF StartCollect, hdrVars, nodeVars, RunInv, RunControl
<1>2. TypeOK'
  <2>1. MemoryType'
    BY <1>1, CapAssumption DEF RunInv, TypeOK, MemoryType, RootsGivenUp
  <2>2. collect_old' \in BOOLEAN
    BY Zenon DEF StartCollect
  <2>3. only_young' \in 0..OldPeriod-1
    BY <1>1, PeriodAssumption DEF RunInv, TypeOK, ControlType
  <2>4. yid' \in YoungSpace /\ oid' \in OldSpace
    BY Zenon, <1>1, SpaceFacts DEF RunInv, TypeOK, ControlType
  <2>5. oprev' \in 0..Cap /\ scan' \in Nat \ {0}
    BY <1>1, CapAssumption, RootAssumption DEF RunInv, TypeOK, MemoryType
  <2>6. ControlType'
    BY Zenon, <1>1, <2>2, <2>3, <2>4, <2>5, PtrFacts DEF ControlType, RunInv, TypeOK
  <2>7. NodeType'
    BY Zenon, <1>1 DEF RunInv, TypeOK, NodeType
  <2> QED BY Zenon, <2>1, <2>6, <2>7 DEF TypeOK
<1>3. Layout'
  <2> SUFFICES ASSUME NEW a \in Addr
               PROVE  /\ SpaceOf(a) = "R" => kind'[a] = (IF Index(a) <= NRoots THEN "root" ELSE "free")
                      /\ SpaceOf(a) # "R" => kind'[a] # "root"
                      /\ SpaceOf(a) # "R" /\ ~FromSpace(SpaceOf(a))' => (kind'[a] = "free" <=> ~Allocated(a)')
    BY Zenon DEF Layout
  <2> QED BY Zenon, <1>1, StartClasses DEF RunInv, RunLayout
<1>4. Headers'
  <2> SUFFICES ASSUME NEW a \in Addr, kind'[a] \notin {"free", "root", "tok"}
               PROVE  (a \in old' <=> SpaceOf(a) \in OldSpace) /\ (a \in old' => a \in age') /\ ~Copy(a)'
    BY Zenon DEF Headers
  <2> QED BY Zenon, <1>1, StartClasses DEF RunInv, RunHeaders
<1>5. Forwarding'
  BY Zenon, <1>1 DEF Forwarding
<1>6. Fields' /\ Progress'
  BY Zenon, StartFields
<1>7. Names'
  <2>1. \A a \in Addr : Heap(a)' <=> Allocated(a)
    BY Zenon, StartClasses
  <2> QED BY Zenon, <1>1, <2>1 DEF Names, RunInv, RunNames
<1>8. Payloads'
  <2>1. \A a \in Addr : OwnsPayload(a)' => kind[a] \in OwnerKind /\ fst'[a] = fst[a]
    <3>1. \A a \in Addr : kind[a] \in OwnerKind => SpaceOf(a) # "R"
      BY Zenon DEF RunInv, RunLayout, OwnerKind
    <3> QED BY Zenon, <1>1, <3>1 DEF OwnsPayload, RootsGivenUp, OwnerKind
  <2> QED BY Zenon, <1>1, <2>1 DEF Payloads, RunInv, RunPayloads
<1>9. Control'
  <2>1. oprev' <= otop' /\ scan' <= NRoots + 1
    BY <1>1, <1>2, CapAssumption, RootAssumption DEF TypeOK, MemoryType
  <2>2. fld' = 1 /\ fld' # 2
    BY <1>1
  <2>3. collect_old' => oprev' = 0
    BY Zenon, <1>1
  <2> QED BY Zenon, <1>1, <2>1, <2>2, <2>3, PtrFacts DEF Control, Collecting
<1> QED BY Zenon, <1>2, <1>3, <1>4, <1>5, <1>6, <1>7, <1>8, <1>9 DEF IInv

\* The safepoint of a step function.
LEMMA CollectInv ==
  ASSUME IInv, Collect
  PROVE  IInv'
<1>1. RunInv
  BY Zenon, RunInvFromIInv DEF Collect, StartCollect, Running
<1>2. StartCollect(TRUE) /\ fst' = fst /\ scan' = 1
  BY Zenon DEF Collect, StartCollect
<1>3. RootsGivenUp
  <2>1. \A a \in Addr : Index(a) \in Nat /\ ~(Index(a) < 1)
    BY AtFacts, CapAssumption
  <2> QED BY Zenon, <1>1, <1>2, <2>1 DEF RootsGivenUp, RunInv, TypeOK, MemoryType
<1> QED BY Zenon, <1>1, <1>2, <1>3, StartInv

\* free_all_kore_mem.
LEMMA FreeAllInv ==
  ASSUME IInv, FreeAll
  PROVE  IInv'
<1>1. RunInv
  BY Zenon, RunInvFromIInv DEF FreeAll, StartCollect, Running
<1>2. StartCollect(FALSE) /\ scan' = NArgs + 1
  BY Zenon DEF FreeAll, StartCollect
<1>3. fst' = [a \in Addr |-> IF SpaceOf(a) = "R" /\ Index(a) <= NArgs THEN Nil ELSE fst[a]]
  BY Zenon DEF FreeAll
<1>4. RootsGivenUp
  <2>1. \A a \in Addr : Index(a) \in Nat /\ (Index(a) < NArgs + 1 <=> Index(a) <= NArgs)
    BY AtFacts, CapAssumption, RootAssumption
  <2>2. fst' \in [Addr -> Ptr]
    BY Zenon, <1>1, <1>3, PtrFacts DEF RunInv, TypeOK, MemoryType
  <2>3. \A a \in Addr : fst'[a] = IF SpaceOf(a) = "R" /\ Index(a) <= NArgs THEN Nil ELSE fst[a]
    BY Zenon, <1>3
  <2> QED BY Zenon, <1>2, <2>1, <2>2, <2>3 DEF RootsGivenUp
<1> QED BY Zenon, <1>1, <1>2, <1>4, StartInv
=============================================================================
