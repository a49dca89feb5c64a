----------------------------- MODULE GcProofs -----------------------------
(***************************************************************************)
(* The theorems about the collector, for every number of roots, objects    *)
(* and nodes: the loop invariant IInv is inductive, and what the program   *)
(* relies on between two collections follows from it.                      *)
(***************************************************************************)
EXTENDS GcRefinementProofs, GcCollectProofs

\* The heap is empty at first.
LEMMA InitInv == Init => IInv
<1> SUFFICES ASSUME Init PROVE RunInv
  BY Zenon, IInvFromRunInv
<1> USE DEF Init
<1>1. TypeOK
  <2>1. MemoryType
    BY SMTT(30), PtrFacts, CapAssumption, BoundAssumption DEF MemoryType, Kind
  <2>2. ControlType
    <3>1. collect_old \in BOOLEAN
      BY Zenon
    <3>2. only_young \in 0..OldPeriod-1 /\ oprev \in 0..Cap /\ scan \in Nat \ {0} /\ fld \in 1..2
      BY PeriodAssumption, CapAssumption
    <3> QED BY Zenon, <3>1, <3>2, PtrFacts DEF ControlType, YoungSpace, OldSpace
  <2>3. NodeType
    BY BoundAssumption, PtrFacts DEF NodeType, Kind
  <2> QED BY Zenon, <2>1, <2>2, <2>3 DEF TypeOK
<1>2. \A a \in Addr : ~Allocated(a)
  <2>1. \A a \in Addr : Index(a) \in Nat /\ Index(a) > 0
    BY AtFacts, CapAssumption
  <2> QED BY <2>1 DEF Allocated
<1>3. \A a \in Addr : /\ kind[a] = IF SpaceOf(a) = "R" /\ Index(a) <= NRoots THEN "root" ELSE "free"
                      /\ fst[a] = Nil /\ snd[a] = Nil
  BY Zenon
<1>4. RunLayout
  BY Zenon, <1>2, <1>3 DEF RunLayout
<1>5. RunHeaders
  BY Zenon, <1>3 DEF RunHeaders
<1>6. RunFields
  <2> SUFFICES ASSUME NEW a \in Addr, IsRoot(a), NEW i \in 1..2
               PROVE  RunField(a, i)
    BY Zenon, <1>2 DEF RunFields
  <2>1. kind[a] = "root" /\ Field(a, i) = Nil
    BY Zenon, <1>3 DEF IsRoot, Field
  <2>2. "const" \in ChildKinds("root", i)
    BY ChildKindFacts DEF TermKind
  <2> QED BY Zenon, <1>2, <2>1, <2>2, PtrFacts DEF RunField, KindAt
<1>7. RunNames
  BY Zenon, <1>2 DEF RunNames
<1>8. RunPayloads
  BY Zenon, <1>3 DEF RunPayloads, OwnerKind
<1>9. RunControl
  BY Zenon, PtrFacts DEF RunControl
<1> QED BY Zenon, <1>1, <1>4, <1>5, <1>6, <1>7, <1>8, <1>9 DEF RunInv

\* Nothing changes what no step changes.
LEMMA StutterInv == IInv /\ UNCHANGED vars => IInv'
<1> SUFFICES ASSUME IInv, UNCHANGED vars PROVE IInv'
  BY Zenon
<1>1. /\ kind' = kind /\ id' = id /\ old' = old /\ age' = age /\ fwd' = fwd /\ fst' = fst /\ snd' = snd
      /\ ytop' = ytop /\ otop' = otop /\ yid' = yid /\ oid' = oid /\ oprev' = oprev
      /\ collect_old' = collect_old /\ only_young' = only_young
      /\ phase' = phase /\ scan' = scan /\ fld' = fld /\ trav' = trav /\ iter' = iter
      /\ size' = size /\ nkind' = nkind /\ nfst' = nfst /\ nsnd' = nsnd
  BY Zenon DEF vars, memVars, hdrVars, topVars, spaceVars, cycleVars, nodeVars
<1>2. SameCycle /\ UNCHANGED <<memVars, topVars>>
  BY Zenon, <1>1 DEF SameCycle, memVars, hdrVars, topVars
<1>3. \A b \in Addr, j \in 1..2 : Todo(b, j)' <=> Todo(b, j)
  BY SMTT(30), <1>1, <1>2, StillClasses DEF Todo, NotPassed, IsRoot
<1>4. Graph' /\ Progress'
  BY Zenon, <1>1, <1>2, <1>3, StillProgress
<1>5. TypeOK'
  BY Zenon, <1>1, <1>4 DEF IInv, TypeOK, ControlType, NodeType, Graph
<1>6. Control'
  BY Zenon, <1>1 DEF IInv, Control, Collecting, Allocated, Copy, Kept, ScanAt
<1> QED BY Zenon, <1>4, <1>5, <1>6 DEF IInv, Graph

\* Every step of kore_collect preserves the invariant.
LEMMA CollectorInv ==
  ASSUME IInv, Collector
  PROVE  IInv'
<1>1. ASSUME OldDone PROVE IInv'
  BY Zenon, <1>1, OldDoneInv, IInvFromRunInvNext
<1>2. ASSUME NEW s \in trav, TraverseInner(s) \/ TraverseLeaf(s) PROVE IInv'
  BY Zenon, <1>2, TraverseInnerInv, TraverseLeafInv
<1> QED BY Zenon, <1>1, <1>2, MigrateRootInv, RootsDoneInv, EvacuateTokenInv, EvacuateChildInv, EvacuateCollectionInv,
           YoungDoneInv DEF Collector

\* Every step of the program and of the collector preserves the invariant.
LEMMA NextInv == IInv /\ [Next]_vars => IInv'
BY Zenon, StutterInv, MutatorInv, CollectInv, FreeAllInv, CollectorInv DEF Next

\* The loop invariant of kore_collect holds in every reachable state.
THEOREM LoopInvariant == Spec => []IInv
BY InitInv, NextInv, PTL DEF Spec

\* Every variable keeps its type; in particular no allocation pointer passes its bound.
THEOREM TypeCorrect == Spec => []TypeOK
<1>1. IInv => TypeOK
  BY Zenon DEF IInv
<1> QED BY <1>1, LoopInvariant, PTL

\* Between collections no object points to a younger one (GenerationalOrder), so that a young
\* collection may ignore the old generation and the old scan needs no second young scan.
THEOREM NoYoungerChild == Spec => []GenerationalOrder
<1>1. IInv => GenerationalOrder
  <2> SUFFICES ASSUME IInv, phase = "run", NEW a \in Pointing, NEW i \in 1..2, NEW p, p = Field(a, i)
               PROVE  IF kind[a] \in {"int", "buf"} /\ i = 1
                      THEN a \in old => SpaceOf(p) = oid
                      ELSE Rank(p) >= Rank(a)
    BY Zenon DEF GenerationalOrder
  <2>1. a \in Addr /\ Allocated(a) /\ kind[a] # "tok"
    BY Zenon DEF Pointing, Live
  <2>2. RunField(a, i)
    BY Zenon, <2>1, RunInvFromIInv DEF RunInv, RunFields
  <2>3. ASSUME kind[a] \in {"int", "buf"}, i = 1, a \in old PROVE SpaceOf(p) = oid
    <3>1. SpaceOf(p) \in OldSpace
      BY Zenon, <2>1, <2>2, <2>3 DEF RunField, OwnerKind
    <3>2. KindAt(p) = "tok"
      BY Zenon, <2>2, <2>3, ChildKindFacts DEF RunField
    <3>3. p \notin Const
      BY Zenon, <3>2 DEF KindAt
    <3>4. Allocated(p)
      BY Zenon, <2>2, <3>3 DEF RunField
    <3>5. yid \notin OldSpace
      BY Zenon, SpaceFacts DEF IInv, TypeOK, ControlType
    <3> QED BY Zenon, <3>1, <3>4, <3>5 DEF Allocated
  <2> QED BY Zenon, <2>1, <2>2, <2>3 DEF RunField, OwnerKind
<1> QED BY <1>1, LoopInvariant, PTL

\* Between collections every pointer leads to an allocated object that its slot may hold.
THEOREM NoneDangles == Spec => []NoDanglingPointer
<1>1. IInv => NoDanglingPointer
  <2> SUFFICES ASSUME IInv, phase = "run", NEW a \in Pointing \cup {RootSlot(r) : r \in Register},
                      NEW i \in 1..2, NEW p, p = Field(a, i)
               PROVE  /\ p \in Const \cup Live
                      /\ KindAt(p) \in ChildKinds(kind[a], i)
                      /\ p \in Addr => p \notin fwd
    BY Zenon DEF NoDanglingPointer
  <2>1. a \in Addr /\ (Allocated(a) \/ IsRoot(a)) /\ kind[a] # "tok"
    <3>1. CASE a \in Pointing
      BY Zenon, <3>1 DEF Pointing, Live
    <3>2. ASSUME NEW r \in Register, a = RootSlot(r)
          PROVE  a \in Addr /\ IsRoot(a)
      BY <3>2, RootFacts, RootAssumption DEF IsRoot, Register
    <3> QED BY Zenon, <3>1, <3>2, CopyFacts
  <2>2. RunField(a, i) /\ fwd = {}
    BY Zenon, <2>1, RunInvFromIInv DEF RunInv, RunFields, RunControl
  <2> QED BY Zenon, <2>2 DEF RunField, Live
<1> QED BY <1>1, LoopInvariant, PTL

\* Between collections no node has two objects.
THEOREM SharingKept == Spec => []SharingPreserved
<1>1. IInv => SharingPreserved
  <2> SUFFICES ASSUME IInv, phase = "run", NEW a \in Pointing, NEW b \in Pointing, id[a] = id[b]
               PROVE  a = b
    BY Zenon DEF SharingPreserved
  <2> QED BY Zenon, RunInvFromIInv DEF RunInv, RunNames, Pointing, Live
<1> QED BY <1>1, LoopInvariant, PTL

---------------------------------------------------------------------------
(* The order of the two scans.                                             *)

\* What an old object leads to is old, or due for promotion.
LEMMA OldSlotTop ==
  ASSUME IInv, phase # "run", NEW a \in Addr, NEW i \in 1..2, Slot(a, i), SpaceOf(a) = oid,
         \/ Pending(Field(a, i)) /\ Migrate(a, i)
         \/ MigrateOnce(a, i)
  PROVE  ytop' = ytop
<1>1. PICK p : p = Field(a, i)
  BY Zenon
<1>2. /\ p \in Ptr /\ (p \in Const \/ (p \in Addr /\ Heap(p)))
      /\ p \in Addr /\ From(p) => (ToOldSpace(p) <=> (p \in old \/ p \in age))
      /\ p \in Addr /\ Kept(p) => ~MustMigrate(p)
  BY Zenon, <1>1, SlotTarget
<1>3. oid \in OldSpace /\ oid # "R"
  BY Zenon, SpaceFacts DEF IInv, TypeOK, ControlType
<1>4. Heap(a) /\ kind[a] \notin {"free", "root", "tok"} /\ kind[a] \notin OwnerKind /\ ~From(a)
  BY Zenon, <1>3, CopyFacts DEF Slot, Readable, IsRoot, BlockKind, NodeKind, OwnerKind
<1>5. a \in old
  BY Zenon, <1>3, <1>4 DEF IInv, Headers
<1>6. RankAfter(p) >= 2
  BY Zenon, <1>1, <1>4, <1>5, PtrFacts DEF IInv, Fields, Slot, Ranked, Rank
<1>7. ASSUME Pending(p), Migrate(a, i) PROVE ytop' = ytop
  <2>1. ~Stays(p) => p \in Addr /\ From(p)
    BY Zenon, <1>2, <1>7, PtrFacts DEF Stays, Pending
  <2>2. ~Stays(p) => ToOldSpace(p)
    <3> SUFFICES ASSUME ~Stays(p) PROVE p \in old \/ p \in age
      BY Zenon, <1>2, <2>1
    <3> QED BY <1>6, <2>1, PtrFacts DEF RankAfter
  <2>3. ASSUME Stays(p), UNCHANGED <<memVars, topVars>> PROVE ytop' = ytop
    BY Zenon, <2>3 DEF topVars
  <2>4. ASSUME FollowForward(a, i, p) PROVE ytop' = ytop
    BY Zenon, <2>4 DEF FollowForward, topVars
  <2>5. ASSUME ~Stays(p), CopyBlock(a, i, p) PROVE ytop' = ytop
    BY Zenon, <2>2, <2>5 DEF CopyBlock
  <2>6. ASSUME ~Stays(p), CopyOwner(a, i, p) PROVE ytop' = ytop
    BY Zenon, <2>2, <2>6 DEF CopyOwner
  <2> QED BY Zenon, <1>1, <1>7, <2>3, <2>4, <2>5, <2>6 DEF Migrate
<1>8. ASSUME MigrateOnce(a, i) PROVE ytop' = ytop
  <2>1. CASE OnceStays(p)
    BY Zenon, <1>1, <1>8, <2>1 DEF MigrateOnce, topVars
  <2>2. CASE ~OnceStays(p)
    <3>1. p \in Addr /\ Heap(p) /\ SpaceOf(p) \in {Other(yid), Other(oid)}
      BY Zenon, <1>2, <2>2, PtrFacts DEF OnceStays, InCollectionSpace
    <3>2. SpaceOf(p) \notin {yid, oid}
      BY Zenon, <3>1, SpaceFacts DEF IInv, TypeOK, ControlType
    <3>3. From(p)
      BY Zenon, <3>1, <3>2 DEF Heap, Copy, Kept
    <3>4. Migrate(a, i)
      BY Zenon, <1>1, <1>8, <2>2 DEF MigrateOnce
    <3> QED BY Zenon, <1>7, <3>3, <3>4 DEF Pending
  <2> QED BY Zenon, <2>1, <2>2
<1> QED BY Zenon, <1>1, <1>7, <1>8

\* The scan of the old generation copies nothing into the young one, which has been scanned.
THEOREM YoungScanFinal == Spec => YoungScanIsFinal
<1>1. ASSUME IInv, Next, phase = "old", phase' = "old" PROVE ytop' = ytop
  <2>1. Collector
    BY Zenon, <1>1, MutatorRuns DEF Next, Collect, FreeAll, StartCollect, Running
  <2>2. ASSUME EvacuateChild \/ EvacuateCollection PROVE ytop' = ytop
    <3>1. PICK a, i : a = ScanAt /\ i = fld
      BY Zenon
    <3>2. /\ scan <= ScanTop /\ kind[a] \in BlockKind
          /\ Migrate(a, i) \/ MigrateOnce(a, i)
      BY Zenon, <2>2, <3>1 DEF EvacuateChild, EvacuateCollection, BlockKind
    <3>3. a \in Addr /\ Copy(a) /\ Index(a) = scan /\ SpaceOf(a) = oid
      BY Zenon, <1>1, <3>1, <3>2, ScanAtFacts
    <3>4. i \in 1..2 /\ scan \in Nat
      BY Zenon, <1>1, <3>1 DEF IInv, TypeOK, ControlType
    <3>5. Slot(a, i)
      BY Zenon, <1>1, <3>2, <3>3, ReadableSlot DEF Slot, BlockKind
    <3>6. Todo(a, i)
      BY SMTT(30), <1>1, <3>1, <3>2, <3>3, <3>4 DEF Todo, NotPassed
    <3>7. Pending(Field(a, i))
      BY Zenon, <1>1, <3>3, <3>4, <3>5, <3>6 DEF IInv, Progress, Scanned, Slot
    <3> QED BY Zenon, <1>1, <3>2, <3>3, <3>4, <3>5, <3>7, OldSlotTop
  <2>3. ASSUME NEW s \in trav, TraverseInner(s) \/ TraverseLeaf(s) PROVE ytop' = ytop
    <3>1. PICK a, i : a = s[1] /\ i = s[2]
      BY Zenon
    <3>2. a \in Addr /\ i \in 1..2 /\ (Copy(a) \/ Kept(a)) /\ kind[a] \in NodeKind /\ SpaceOf(a) = oid
      BY Zenon, <1>1, <3>1, TravFacts
    <3>3. MigrateOnce(a, i)
      BY Zenon, <2>3, <3>1 DEF TraverseInner, TraverseLeaf
    <3>4. Slot(a, i)
      BY Zenon, <1>1, <3>2, ReadableSlot DEF Slot, NodeKind
    <3> QED BY Zenon, <1>1, <3>2, <3>3, <3>4, OldSlotTop
  <2> QED BY Zenon, <1>1, <2>1, <2>2, <2>3
        DEF Collector, MigrateRoot, RootsDone, EvacuateToken, YoungDone, OldDone, Scanning, topVars
<1>2. IInv /\ [Next]_vars => [phase = "old" /\ phase' = "old" => ytop' = ytop]_vars
  BY Zenon, <1>1
<1> QED BY <1>2, LoopInvariant, PTL DEF YoungScanIsFinal, Spec

---------------------------------------------------------------------------
(* What a step of kore_collect writes.                                     *)

\* A migrate function was called on a root, or on a field of a block or of a node.
SlotMigrated ==
  /\ SameCycle /\ phase # "run" /\ iter' = iter
  /\ \E a \in Addr : \E i \in 1..2 : \E q : \E N \in SUBSET Addr :
       Slot(a, i) /\ Outcome(a, i, Field(a, i), q, N)

\* migrate_root and migrate_static_roots.
LEMMA RootMigrated ==
  ASSUME IInv, MigrateRoot
  PROVE  SlotMigrated
<1>1. /\ phase = "roots" /\ scan <= NRoots /\ Migrate(RootSlot(scan), 1) /\ iter' = iter
  BY Zenon DEF MigrateRoot
<1>2. SameCycle
  BY Zenon DEF SameCycle, MigrateRoot, spaceVars, cycleVars, nodeVars
<1>3. scan \in Nat \ {0}
  BY Zenon DEF IInv, TypeOK, ControlType
<1>4. PICK a, p : a = RootSlot(scan) /\ p = Field(a, 1)
  BY Zenon
<1>5. a \in Addr /\ IsRoot(a) /\ Index(a) = scan
  BY SMTT(30), <1>1, <1>3, <1>4, RootFacts, RootAssumption DEF Register, IsRoot
<1>6. kind[a] = "root"
  BY Zenon, <1>5, CopyFacts
<1>7. Slot(a, 1)
  BY Zenon, <1>5, <1>6, ReadableSlot DEF Slot
<1>8. Todo(a, 1)
  BY SMTT(30), <1>1, <1>3, <1>5 DEF Todo
<1>9. Pending(p)
  BY SMTT(30), <1>4, <1>5, <1>7, <1>8 DEF IInv, Progress, Scanned, Slot
<1>10. PICK N \in SUBSET Addr : Outcome(a, 1, p, NewPtr(p), N)
  BY SMTT(30), <1>1, <1>2, <1>4, <1>5, <1>7, <1>9, MigrateGraph
<1>11. phase # "run" /\ 1 \in 1..2
  BY <1>1
<1> QED BY Zenon, <1>1, <1>2, <1>4, <1>5, <1>7, <1>10, <1>11 DEF SlotMigrated

\* migrate_child.
LEMMA ChildMigrated ==
  ASSUME IInv, EvacuateChild \/ EvacuateCollection
  PROVE  SlotMigrated
<1>1. /\ phase \in {"young", "old"} /\ scan <= ScanTop /\ iter' = iter
      /\ kind[ScanAt] \in BlockKind
      /\ Migrate(ScanAt, fld) \/ MigrateOnce(ScanAt, fld)
  BY Zenon DEF EvacuateChild, EvacuateCollection, Scanning, BlockKind
<1>2. SameCycle
  BY Zenon DEF SameCycle, EvacuateChild, EvacuateCollection, spaceVars, cycleVars, nodeVars
<1>3. scan \in Nat \ {0} /\ fld \in 1..2
  BY Zenon DEF IInv, TypeOK, ControlType
<1>4. PICK a, i, p : a = ScanAt /\ i = fld /\ p = Field(a, i)
  BY Zenon
<1>5. a \in Addr /\ Copy(a) /\ Index(a) = scan /\ i \in 1..2 /\ SpaceOf(a) = IF phase = "young" THEN yid ELSE oid
  BY Zenon, <1>1, <1>3, <1>4, ScanAtFacts
<1>6. Slot(a, i)
  BY Zenon, <1>1, <1>4, <1>5, ReadableSlot DEF Slot, BlockKind
<1>7. Todo(a, i)
  BY SMTT(30), <1>1, <1>3, <1>4, <1>5 DEF Todo, NotPassed
<1>8. Pending(p)
  BY Zenon, <1>4, <1>5, <1>6, <1>7 DEF IInv, Progress, Scanned, Slot
<1>9. \E q : \E N \in SUBSET Addr : Outcome(a, i, p, q, N)
  <2>1. CASE Migrate(a, i)
    BY Zenon, <1>2, <1>4, <1>5, <1>6, <1>8, <2>1, MigrateGraph
  <2>2. CASE MigrateOnce(a, i)
    BY Zenon, <1>1, <1>2, <1>4, <1>5, <1>6, <2>2, MigrateOnceGraph
  <2> QED BY Zenon, <1>1, <1>4, <2>1, <2>2
<1>10. phase # "run"
  BY <1>1
<1> QED BY Zenon, <1>1, <1>2, <1>4, <1>5, <1>6, <1>9, <1>10 DEF SlotMigrated

\* The traversal of collection nodes.
LEMMA NodeMigrated ==
  ASSUME IInv, NEW s \in trav, TraverseInner(s) \/ TraverseLeaf(s)
  PROVE  SlotMigrated
<1>1. MigrateOnce(s[1], s[2]) /\ iter' = iter
  BY Zenon DEF TraverseInner, TraverseLeaf
<1>2. SameCycle
  BY Zenon DEF SameCycle, TraverseInner, TraverseLeaf, spaceVars, cycleVars, nodeVars
<1>3. PICK a, i, p : a = s[1] /\ i = s[2] /\ p = Field(a, i)
  BY Zenon
<1>4. a \in Addr /\ i \in 1..2 /\ (Copy(a) \/ Kept(a)) /\ kind[a] \in NodeKind /\ phase # "run"
  BY Zenon, <1>3, TravFacts
<1>5. Slot(a, i)
  BY Zenon, <1>4, ReadableSlot DEF Slot, NodeKind
<1>6. PICK N \in SUBSET Addr : Outcome(a, i, p, OncePtr(p), N)
  BY Zenon, <1>1, <1>2, <1>3, <1>4, <1>5, MigrateOnceGraph
<1> QED BY Zenon, <1>1, <1>2, <1>3, <1>4, <1>5, <1>6 DEF SlotMigrated

\* Every step of kore_collect migrates one field, writes nothing, or is the last.
LEMMA CollectorSteps ==
  ASSUME IInv, Collector
  PROVE  \/ SlotMigrated
         \/ UNCHANGED <<memVars, iter, nodeVars>>
         \/ OldDone
<1>1. ASSUME RootsDone \/ EvacuateToken \/ YoungDone PROVE UNCHANGED <<memVars, iter, nodeVars>>
  BY Zenon, <1>1 DEF RootsDone, EvacuateToken, YoungDone
<1>2. ASSUME NEW s \in trav, TraverseInner(s) \/ TraverseLeaf(s) PROVE SlotMigrated
  BY Zenon, <1>2, NodeMigrated
<1> QED BY Zenon, <1>1, <1>2, RootMigrated, ChildMigrated DEF Collector

\* The object at a is not changed, and not forwarded either.
Untouched(a) ==
  /\ kind'[a] = kind[a] /\ id'[a] = id[a]
  /\ fst'[a] = fst[a] /\ snd'[a] = snd[a]
  /\ a \in old' <=> a \in old
  /\ a \in age' <=> a \in age
  /\ a \notin fwd'

\* A collection that leaves the old generation where it is writes nothing there: no object
\* promoted earlier is changed, moved or forwarded, although the nodes of old collections are
\* traversed again.  This is why kore_collect needs neither a remembered set nor a scan of
\* the old generation.  (A payload of oldspace may belong to a young owner, whose forwarding
\* address it then receives.)
OldGenerationKept ==
  [][phase # "run" => \A a \in Addr : Kept(a) /\ kind[a] # "tok" => Untouched(a)]_vars

\* The migration of a field leaves an old object of a young collection as it is: what such an
\* object points to is old as well.
LEMMA KeptStays ==
  ASSUME IInv, IInv', SlotMigrated, NEW a \in Addr, Kept(a), kind[a] # "tok"
  PROVE  Untouched(a)
<1>1. PICK b \in Addr : \E i \in 1..2 : \E q : \E N \in SUBSET Addr :
        Slot(b, i) /\ Outcome(b, i, Field(b, i), q, N)
  BY Zenon DEF SlotMigrated
<1>2. PICK i \in 1..2 : \E q : \E N \in SUBSET Addr :
        Slot(b, i) /\ Outcome(b, i, Field(b, i), q, N)
  BY Zenon, <1>1
<1>3. PICK q : \E N \in SUBSET Addr : Slot(b, i) /\ Outcome(b, i, Field(b, i), q, N)
  BY Zenon, <1>2
<1>4. PICK N \in SUBSET Addr : Slot(b, i) /\ Outcome(b, i, Field(b, i), q, N)
  BY Zenon, <1>3
<1>5. SameCycle /\ Moved(N) /\ Redirected(b, i, Field(b, i), q)
  BY Zenon, <1>4 DEF SlotMigrated, Outcome
<1>6. a \notin N
  BY Zenon, <1>5, CopyFacts DEF Moved
<1>7. /\ kind'[a] = kind[a] /\ id'[a] = id[a]
      /\ a \in old' <=> a \in old
      /\ a \in age' <=> a \in age
  BY Zenon, <1>5, <1>6 DEF Moved
<1>8. Readable(a) /\ ~From(a)
  BY Zenon, ReadableSlot
<1>9. Kept(a)'
  BY Zenon, <1>5, <1>6, MovedFacts
<1>10. Readable(a)' /\ a \notin fwd'
  <2>1. ~From(a)'
    BY Zenon, <1>5, <1>6, <1>8, MovedFacts
  <2>2. a \notin fwd'
    BY Zenon, <2>1 DEF IInv, Forwarding
  <2> QED BY Zenon, <1>7, <1>9, <2>2 DEF Readable, Heap
<1>11. ASSUME NEW j \in 1..2 PROVE Field(a, j)' = Field(a, j)
  <2>1. CASE a = b /\ j = i
    <3>1. Field(a, j) \in Const \/ Kept(Field(a, j))
      BY Zenon, <1>8 DEF IInv, Fields, Reached
    <3> QED BY Zenon, <1>5, <2>1, <3>1 DEF Redirected
  <2>2. CASE ~(a = b /\ j = i)
    BY Zenon, <1>4, <1>6, <1>8, <1>10, <2>2 DEF Outcome
  <2> QED BY Zenon, <2>1, <2>2
<1>12. fst'[a] = fst[a]
  BY <1>11 DEF Field
<1>13. snd'[a] = snd[a]
  BY <1>11 DEF Field
<1> QED BY Zenon, <1>7, <1>10, <1>12, <1>13 DEF Untouched

\* A collection of the young generation writes nothing in the old one (OldGenerationKept).
THEOREM OldUntouched == Spec => OldGenerationKept
<1>1. ASSUME IInv, Next, phase # "run", NEW a \in Addr, Kept(a), kind[a] # "tok"
      PROVE  Untouched(a)
  <2>1. Collector
    BY Zenon, <1>1, MutatorRuns DEF Next, Collect, FreeAll, StartCollect, Running
  <2>2. a \notin fwd
    BY Zenon, <1>1, ReadableSlot
  <2>3. CASE SlotMigrated
    BY Zenon, <1>1, <2>1, <2>3, CollectorInv, KeptStays
  <2>4. CASE UNCHANGED <<memVars, iter, nodeVars>>
    BY Zenon, <2>2, <2>4 DEF memVars, hdrVars, Untouched
  <2>5. CASE OldDone
    <3>1. ~InCollectionSpace(a)
      BY Zenon, <1>1, <2>5, CopyFacts, OldDoneMemory
    <3>2. a \notin fwd'
      BY Zenon, <2>2, <2>5 DEF OldDone
    <3> QED BY Zenon, <1>1, <2>5, <3>1, <3>2, OldDoneMemory DEF Untouched
  <2> QED BY Zenon, <1>1, <2>1, <2>3, <2>4, <2>5, CollectorSteps
<1>2. IInv /\ [Next]_vars => [phase # "run" => \A a \in Addr : Kept(a) /\ kind[a] # "tok" => Untouched(a)]_vars
  BY Zenon, <1>1
<1> QED BY <1>2, LoopInvariant, PTL DEF OldGenerationKept, Spec

---------------------------------------------------------------------------
(* The program cannot notice the collector.                                *)

\* Nothing that the program can see has changed.
Unseen == Reg' = Reg /\ Id(iter)' = Id(iter) /\ UNCHANGED nodeVars

\* A migrate function redirects at most one root, to the copy that has the same name.
LEMMA MigrateUnseen ==
  ASSUME IInv, IInv', SameCycle, phase # "run", iter' = iter, NEW a \in Addr, NEW i \in 1..2, NEW p, p = Field(a, i),
         NEW q, NEW N \in SUBSET Addr, Outcome(a, i, p, q, N)
  PROVE  Unseen
<1>1. Moved(N) /\ Redirected(a, i, p, q)
  BY Zenon DEF Outcome
<1>2. \A r \in Register : Id(Root(r))' = Id(Root(r))
  <2> SUFFICES ASSUME NEW r \in Register PROVE Id(Root(r))' = Id(Root(r))
    BY Zenon
  <2>1. PICK b, x, y : b = RootSlot(r) /\ x = Root(r) /\ y = Root(r)'
    BY Zenon
  <2>2. b \in Addr /\ IsRoot(b) /\ SpaceOf(b) = "R"
    BY SMTT(30), <2>1, RootFacts, RootAssumption DEF Register, IsRoot
  <2>3. kind[b] = "root" /\ ~Heap(b)
    BY Zenon, <2>2, CopyFacts
  <2>4. b \notin N
    BY Zenon, <1>1, <2>2, SpaceFacts DEF Moved, IInv, TypeOK, ControlType
  <2>5. Readable(b) /\ x = Field(b, 1) /\ y = Field(b, 1)'
    BY Zenon, <2>1, <2>2, <2>3, ReadableSlot DEF Root, Field
  <2>6. Readable(b)'
    <3>1. ~From(b)'
      BY Zenon, <1>1, <2>2, <2>3, <2>4, MovedFacts DEF Heap
    <3>2. b \notin fwd'
      BY Zenon, <3>1 DEF IInv, Forwarding
    <3>3. kind'[b] = "root"
      BY Zenon, <1>1, <2>2, <2>3, <2>4 DEF Moved
    <3> QED BY Zenon, <2>2, <3>2, <3>3 DEF Readable, IsRoot
  <2>7. CASE b = a /\ i = 1
    <3>1. x = p /\ y = q
      BY Zenon, <1>1, <2>5, <2>7 DEF Redirected
    <3> QED BY Zenon, <1>1, <2>1, <3>1 DEF Redirected, Id
  <2>8. CASE ~(b = a /\ i = 1)
    <3>1. y = x
      BY SMTT(30), <2>2, <2>4, <2>5, <2>6, <2>8 DEF Outcome
    <3>2. x \in Ptr /\ (x \in Const \/ Heap(x))
      BY SMTT(30), <2>2, <2>5 DEF IInv, Fields, Faithful, TypeOK, MemoryType, Field
    <3>3. Id(x)' = Id(x)
      BY Zenon, <1>1, <3>2, PtrKept
    <3> QED BY Zenon, <2>1, <3>1, <3>3 DEF Id
  <2> QED BY Zenon, <2>7, <2>8
<1>3. Id(iter)' = Id(iter)
  BY Zenon, PtrFacts DEF IInv, Control, Collecting, Id
<1> QED BY Zenon, <1>2, <1>3 DEF Unseen, Reg, SameCycle, nodeVars

\* The end of kore_collect: the roots lead to copies, whose memory is kept.
LEMMA OldDoneUnseen ==
  ASSUME IInv, OldDone
  PROVE  Unseen
<1>1. phase = "old" /\ scan > otop /\ trav = {} /\ iter' = iter /\ UNCHANGED nodeVars
  BY Zenon DEF OldDone, Scanning
<1>2. \A r \in Register : Id(Root(r))' = Id(Root(r))
  <2> SUFFICES ASSUME NEW r \in Register PROVE Id(Root(r))' = Id(Root(r))
    BY Zenon
  <2>1. PICK b, x : b = RootSlot(r) /\ x = Root(r)
    BY Zenon
  <2>2. b \in Addr /\ IsRoot(b) /\ SpaceOf(b) = "R" /\ x = Field(b, 1)
    BY SMTT(30), <2>1, RootFacts, RootAssumption DEF Register, IsRoot, Root, Field
  <2>3. kind[b] = "root"
    BY Zenon, <2>2, CopyFacts
  <2>4. x \in Const \/ (x \in Addr /\ Allocated(x))
    BY SMTT(30), <1>1, <2>2, <2>3, AllSettled
  <2>5. Root(r)' = x
    BY Zenon, <2>1, <2>2, OldDoneMemory DEF Root
  <2>6. x \in Const \/ id'[x] = id[x]
    BY Zenon, <2>4, OldDoneMemory
  <2> QED BY Zenon, <2>1, <2>5, <2>6 DEF Id
<1>3. Id(iter)' = Id(iter)
  BY Zenon, <1>1, PtrFacts DEF IInv, Control, Collecting, Id
<1> QED BY Zenon, <1>1, <1>2, <1>3 DEF Unseen, Reg

\* No step of kore_collect after its first can be noticed.
LEMMA CollectorUnseen ==
  ASSUME IInv, Collector
  PROVE  Unseen
<1>1. CASE UNCHANGED <<memVars, iter, nodeVars>>
  BY Zenon, <1>1 DEF Unseen, Reg, Root, Id, memVars
<1>2. CASE SlotMigrated
  BY Zenon, <1>2, CollectorInv, MigrateUnseen DEF SlotMigrated
<1> QED BY Zenon, <1>1, <1>2, CollectorSteps, OldDoneUnseen

\* The program cannot notice the collector (ImplementsTermStore): with pointers replaced by the
\* names of the nodes they lead to, kore_collect moving every live object and reusing the memory
\* of the others is a store in which nodes never move and are never lost.
THEOREM Refinement == Spec => ImplementsTermStore
<1>1. IInv /\ [Next]_vars => [T!Next]_(T!absVars)
  <2> SUFFICES ASSUME IInv, [Next]_vars PROVE [T!Next]_(T!absVars)
    BY Zenon
  <2>1. CASE Mutator
    <3>1. RunInv
      BY Zenon, <2>1, MutatorRuns, RunInvFromIInv
    <3> QED BY Zenon, <2>1, <3>1, RefinesMutator
  <2>2. CASE Collect \/ FreeAll
    <3>1. RunInv
      BY Zenon, <2>2, RunInvFromIInv DEF Collect, FreeAll, StartCollect, Running
    <3>2. T!Forget
      BY Zenon, <2>2, <3>1, RefinesStart
    <3> QED BY Zenon, <3>2 DEF T!Next
  <2>3. ASSUME Unseen PROVE T!absVars' = T!absVars
    BY Zenon, <2>3 DEF Unseen, Reg, nodeVars, T!absVars, T!nodeVars
  <2>4. CASE Collector
    BY Zenon, <2>3, <2>4, CollectorUnseen
  <2>5. CASE UNCHANGED vars
    <3>1. id' = id /\ fst' = fst /\ iter' = iter /\ UNCHANGED nodeVars
      BY Zenon, <2>5 DEF vars, memVars
    <3>2. Unseen
      BY Zenon, <3>1 DEF Unseen, Reg, Root, Id
    <3> QED BY Zenon, <2>3, <3>2
  <2> QED BY Zenon, <2>1, <2>2, <2>4, <2>5 DEF Next
<1> QED BY <1>1, RefinesInit, LoopInvariant, PTL DEF Spec, ImplementsTermStore, T!Spec
=============================================================================
