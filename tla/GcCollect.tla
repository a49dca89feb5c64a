---------------------------- MODULE GcCollect -----------------------------
(*************************************************************************)
(* kore_collect.  Each call of a migrate function is one step.           *)
(*************************************************************************)
EXTENDS GcMigrate

\* kore_collect up to the loops: decide on the old generation, swap semispaces.
StartCollect(args) ==
  LET full == only_young + 1 = OldPeriod
      newOtop == IF full THEN 0 ELSE otop IN
  /\ Running
  /\ phase' = "roots"
  /\ collect_old' = full
  /\ only_young' = IF full THEN 0 ELSE only_young + 1
  /\ yid' = Other(yid)
  /\ oid' = IF full THEN Other(oid) ELSE oid
  /\ ytop' = 0
  /\ otop' = newOtop
  /\ oprev' = newOtop
  /\ scan' = IF args THEN 1 ELSE NArgs + 1
  /\ iter' = Nil
  /\ UNCHANGED <<kind, id, hdrVars, snd, fld, trav, nodeVars>>

\* The safepoint at the head of a step function.
Collect == StartCollect(TRUE) /\ UNCHANGED fst

\* free_all_kore_mem: a collection without the step function's roots, which the
\* caller gives up.
FreeAll ==
  /\ StartCollect(FALSE)
  /\ fst' = [a \in Addr |-> IF SpaceOf(a) = "R" /\ Index(a) <= NArgs THEN Nil ELSE fst[a]]

\* migrate_root and migrate_static_roots, one slot.
MigrateRoot ==
  /\ phase = "roots"
  /\ scan <= NRoots
  /\ Migrate(RootSlot(scan), 1)
  /\ scan' = scan + 1
  /\ UNCHANGED <<spaceVars, cycleVars, phase, fld, trav, iter, nodeVars>>

\* Mutant: migrate_static_roots is not called.
RootsDone_NoStatic ==
  /\ phase = "roots"
  /\ scan > NArgs
  /\ phase' = "young"
  /\ scan' = 1
  /\ UNCHANGED <<memVars, topVars, spaceVars, cycleVars, fld, trav, iter, nodeVars>>

RootsDone ==
  /\ phase = "roots"
  /\ scan > NRoots
  /\ phase' = "young"
  /\ scan' = 1
  /\ UNCHANGED <<memVars, topVars, spaceVars, cycleVars, fld, trav, iter, nodeVars>>

Scanning == phase \in {"young", "old"} /\ trav = {}

NextField == /\ fld' = 3 - fld
             /\ scan' = scan + fld - 1

\* Mutant: the size of a token is taken to be 0.
EvacuateToken_Stuck ==
  /\ Scanning
  /\ scan <= ScanTop
  /\ kind[ScanAt] \notin {"sym", "coll"}
  /\ UNCHANGED vars

\* arena::evacuate on a token (layout 0): nothing to do, move_ptr to the next.
EvacuateToken ==
  /\ Scanning
  /\ scan <= ScanTop
  /\ kind[ScanAt] \notin {"sym", "coll"}
  /\ scan' = scan + 1
  /\ UNCHANGED <<memVars, topVars, spaceVars, cycleVars, phase, fld, trav, iter, nodeVars>>

\* migrate_child on a field that holds a term, an integer or a buffer.
EvacuateChild ==
  /\ Scanning
  /\ scan <= ScanTop
  /\ kind[ScanAt] = "sym" \/ (kind[ScanAt] = "coll" /\ fld = 2)
  /\ Migrate(ScanAt, fld)
  /\ NextField
  /\ UNCHANGED <<spaceVars, cycleVars, phase, trav, iter, nodeVars>>

\* migrate_child on a field that holds a collection: its root node is migrated and
\* then the nodes below are traversed.
EvacuateCollection ==
  /\ Scanning
  /\ scan <= ScanTop
  /\ kind[ScanAt] = "coll" /\ fld = 1
  /\ MigrateOnce(ScanAt, fld)
  /\ trav' = NodeSlots(OncePtr(Field(ScanAt, fld)))
  /\ NextField
  /\ UNCHANGED <<spaceVars, cycleVars, phase, iter, nodeVars>>

\* The traversal of a node that holds nodes...
TraverseInner(s) ==
  /\ s \in trav
  /\ kind[s[1]] = "inner"
  /\ MigrateOnce(s[1], s[2])
  /\ trav' = (trav \ {s}) \cup NodeSlots(OncePtr(Field(s[1], s[2])))
  /\ UNCHANGED <<spaceVars, cycleVars, phase, scan, fld, iter, nodeVars>>

\* ... and of one that holds elements.
TraverseLeaf(s) ==
  /\ s \in trav
  /\ kind[s[1]] = "leaf"
  /\ MigrateOnce(s[1], s[2])
  /\ trav' = trav \ {s}
  /\ UNCHANGED <<spaceVars, cycleVars, phase, scan, fld, iter, nodeVars>>

YoungDone ==
  /\ Scanning /\ phase = "young"
  /\ scan > ytop
  /\ phase' = "old"
  /\ scan' = IF collect_old THEN 1 ELSE oprev + 1
  /\ UNCHANGED <<memVars, topVars, spaceVars, cycleVars, fld, trav, iter, nodeVars>>

\* The end of kore_collect.  What is left in the collection semispaces is garbage.
OldDone ==
  /\ Scanning /\ phase = "old"
  /\ scan > otop
  /\ phase' = "run"
  /\ kind' = [a \in Addr |-> IF InCollectionSpace(a) THEN "free" ELSE kind[a]]
  /\ id' = [a \in Addr |-> IF InCollectionSpace(a) THEN 0 ELSE id[a]]
  /\ fst' = [a \in Addr |-> IF InCollectionSpace(a) THEN Nil ELSE fst[a]]
  /\ snd' = [a \in Addr |-> IF InCollectionSpace(a) THEN Nil ELSE snd[a]]
  /\ old' = {a \in old : ~InCollectionSpace(a)}
  /\ age' = {a \in age : ~InCollectionSpace(a)}
  /\ fwd' = {a \in fwd : ~InCollectionSpace(a)}
  /\ collect_old' = FALSE /\ oprev' = 0 /\ scan' = 1
  /\ UNCHANGED <<topVars, spaceVars, only_young, fld, trav, iter, nodeVars>>

Collector ==
  \/ MigrateRoot \/ RootsDone
  \/ EvacuateToken \/ EvacuateChild \/ EvacuateCollection
  \/ \E s \in trav : TraverseInner(s) \/ TraverseLeaf(s)
  \/ YoungDone \/ OldDone
===========================================================================
