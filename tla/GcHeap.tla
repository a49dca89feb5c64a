------------------------------ MODULE GcHeap ------------------------------
(*************************************************************************)
(* Memory as the collector of runtime/collect sees it: two young         *)
(* semispaces, two old ones and the array gc_roots (space "R").  An address *)
(* is a space and an index, one index per object.  An object has a kind  *)
(* (its layout), the header bits that the collector reads and two fields. *)
(*                                                                       *)
(* id and the node variables are auxiliary: they name every node when it *)
(* is built, so that "the collector does not change what the program sees" *)
(* is the refinement of module TermStore.                                *)
(*************************************************************************)
EXTENDS Naturals

CONSTANTS Const,      \* leaf blocks and static terms (never on the heap)
          Nil,        \* the constant that fills fields without a child
          NArgs,      \* roots passed by the step function (gc_roots)
          NRoots,     \* those plus the slots of the block enumerators
          Cap,        \* bound: objects per semispace (HYPERBLOCK_SIZE)
          OldPeriod,  \* collections between two of the old generation (50)
          MaxNodes,   \* bound: nodes built in a behaviour
          Features    \* the kinds of term the program builds

ASSUME ConstAssumption == Nil \in Const
ASSUME RootAssumption == NArgs \in Nat /\ NRoots \in Nat /\ NArgs <= NRoots
ASSUME CapAssumption == Cap \in Nat /\ NRoots <= Cap
ASSUME PeriodAssumption == OldPeriod \in Nat \ {0}
ASSUME BoundAssumption == MaxNodes \in Nat

VARIABLES kind,            \* the layout of the object at an address
          id,              \* auxiliary: the name of the node it represents
          old, age, fwd,   \* NOT_YOUNG_OBJECT_BIT, AGE_MASK, FWD_PTR_BIT
          fst, snd,        \* its two fields
          ytop, otop,      \* allocation pointers of youngspace and oldspace
          yid, oid,        \* their current semispaces
          phase,           \* where kore_collect is; "run" outside it
          collect_old,     \* is this collection one of the old generation
          only_young,      \* num_collection_only_young
          oprev,           \* previous_oldspace_alloc_ptr
          scan, fld,       \* scan_ptr (or the next root) and the next field
          trav,            \* slots of collection nodes still to be visited
          iter,            \* the node a collection iterator stands on
          size, nkind, nfst, nsnd   \* auxiliary: every node ever built

hdrVars == <<old, age, fwd>>
memVars == <<kind, id, hdrVars, fst, snd>>
topVars == <<ytop, otop>>
spaceVars == <<yid, oid>>
cycleVars == <<collect_old, only_young, oprev>>
nodeVars == <<size, nkind, nfst, nsnd>>
vars == <<memVars, topVars, spaceVars, cycleVars, phase, scan, fld, trav, iter, nodeVars>>

YoungSpace == {"Y0", "Y1"}
OldSpace == {"O0", "O1"}
Space == YoungSpace \cup OldSpace \cup {"R"}
Addr == Space \X (1..Cap)
At(s, n) == <<s, n>>
SpaceOf(a) == a[1]
Index(a) == a[2]
Ptr == Const \cup Addr
Register == 1..NRoots
ASSUME ConstNotAddr == Const \cap Addr = {} /\ Const \cap Nat = {}
Kind == {"free", "root", "sym", "coll", "str", "inner", "leaf", "int", "buf", "tok"}

Other(s) == CASE s = "Y0" -> "Y1" [] s = "Y1" -> "Y0"
              [] s = "O0" -> "O1" [] s = "O1" -> "O0"

RootSlot(r) == At("R", r)
Root(r) == fst[RootSlot(r)]
Field(a, i) == IF i = 1 THEN fst[a] ELSE snd[a]
KindAt(p) == IF p \in Const THEN "const" ELSE kind[p]
Id(p) == IF p \in Const THEN p ELSE id[p]

---------------------------------------------------------------------------
(* Allocation.                                                           *)

Running == phase = "run"
Name(i) == size + i

Young(i) == At(yid, ytop + i)
Old(i) == At(oid, otop + i)

---------------------------------------------------------------------------
(* Objects.                                                              *)

\* An object the program could still reach: allocated in a current semispace.
Allocated(a) == \/ SpaceOf(a) = yid /\ Index(a) <= ytop
                \/ SpaceOf(a) = oid /\ Index(a) <= otop

Rank(p) == IF p \in Const THEN 3
           ELSE IF p \in old THEN 2 ELSE IF p \in age THEN 1 ELSE 0

Items == {"const", "sym", "coll", "str"}

ChildKinds(k, i) ==
  CASE k = "sym" \/ (k = "root" /\ i = 1) -> {"const", "sym", "coll", "str", "int", "buf"}
    [] k = "coll" -> IF i = 1 THEN {"const", "inner", "leaf"}
                              ELSE {"const", "sym", "coll", "str", "int", "buf"}
    [] k = "inner" -> {"const", "inner", "leaf"}
    [] k = "leaf" -> {"const", "sym", "coll", "str"}
    [] k \in {"int", "buf"} -> IF i = 1 THEN {"tok"} ELSE {"const"}
    [] OTHER -> {"const"}

\* Mutant: the forwarding address is read from the owner, whatever its kind.
Forwarded_Owner(p) == fst[p]

\* What migrate leaves in the slot of a pointer p that must be migrated.
Forwarded(p) == IF kind[p] = "buf" THEN fst[fst[p]] ELSE fst[p]

ScanTop == IF phase = "young" THEN ytop ELSE otop
ScanAt == IF phase = "young" THEN At(yid, scan) ELSE At(oid, scan)

---------------------------------------------------------------------------
(* Types.                                                                *)

MemoryType ==
  /\ kind \in [Addr -> Kind] /\ id \in [Addr -> 0..MaxNodes]
  /\ old \in SUBSET Addr /\ age \in SUBSET Addr /\ fwd \in SUBSET Addr
  /\ fst \in [Addr -> Ptr] /\ snd \in [Addr -> Ptr]
  /\ ytop \in 0..Cap /\ otop \in 0..Cap

ControlType ==
  /\ yid \in YoungSpace /\ oid \in OldSpace
  /\ phase \in {"run", "roots", "young", "old"}
  /\ collect_old \in BOOLEAN
  /\ only_young \in 0..OldPeriod-1
  /\ oprev \in 0..Cap
  /\ scan \in Nat \ {0} /\ fld \in 1..2
  /\ trav \in SUBSET (Addr \X (1..2))
  /\ iter \in Ptr

NodeType ==
  /\ size \in 0..MaxNodes
  /\ nkind \in [1..MaxNodes -> Kind]
  /\ nfst \in [1..MaxNodes -> Const \cup 0..MaxNodes]
  /\ nsnd \in [1..MaxNodes -> Const \cup 0..MaxNodes]

\* Every variable ranges over the values the code can give it.
TypeOK == MemoryType /\ ControlType /\ NodeType
===========================================================================
