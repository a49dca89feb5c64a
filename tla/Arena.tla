------------------------------- MODULE Arena -------------------------------
(***************************************************************************)
(* The arenas that objects are allocated in (include/runtime/arena.h,      *)
(* runtime/alloc/arena.cpp, runtime/lto/alloc.cpp): two semispaces of      *)
(* address space each, a bump pointer, the tripwire that requests a        *)
(* collection, and the byte at the end of a semispace that tells which     *)
(* semispace an object is in.                                              *)
(*                                                                         *)
(* Addresses are numbers, since the code compares pointers into different  *)
(* semispaces.  What is allocated has no contents here, only a size.       *)
(***************************************************************************)
EXTENDS Integers

CONSTANTS Used,       \* the arenas in use
          Hyper,      \* HYPERBLOCK_SIZE
          MinSpace,   \* MIN_SPACE
          OldPeriod,  \* collections between two of the old generation (50)
          Slots,      \* mmap answers Hyper * n for some n in Slots[a], a the arena
          Requests    \* sizes of objects

ASSUME SizeAssumption == MinSpace \in Nat \ {0} /\ Hyper \in Nat /\ MinSpace < Hyper
ASSUME RequestAssumption == Requests \subseteq 1..MinSpace
ASSUME PeriodAssumption == OldPeriod \in Nat \ {0}
ASSUME UsedAssumption == Used \subseteq {"young", "old", "always"} /\ {"young", "old"} \subseteq Used
ASSUME SlotAssumption == \A a \in Used : Slots[a] \subseteq Nat \ {0}

VARIABLES cur, coll,            \* current_addr_ptr, collection_addr_ptr
          alloc,                \* allocation_ptr
          trip,                 \* tripwire
          sid,                  \* allocation_semispace_id
          idByte,               \* the last byte of each hyperblock that is mapped
          time_for_collection, gc_enabled,
          only_young,           \* num_collection_only_young
          phase, force,         \* where kore_collect is, and its argument
          left,                 \* what the collection may still find alive
          live                  \* auxiliary: survivors of the last collection

arenaVars == <<cur, coll, alloc, trip, sid, idByte>>
cycleVars == <<gc_enabled, only_young, phase, force, left>>
vars == <<arenaVars, time_for_collection, cycleVars, live>>

nullptr == 0
EXPAND_FACTOR == 2
FirstId == [young |-> 0, old |-> 1, always |-> 3]
trigger_collection(a) == a = "young"
Complement(i) == -1 - i
Unmapped == 100

BaseOf(a) == {Hyper * n : n \in Slots[a]}
Base == UNION {BaseOf(a) : a \in Used}
Max(m, n) == IF m < n THEN n ELSE m

\* get_arena_semispace_id_of_object: set the low bits of the address, read the byte.
SemispaceId(p) == idByte[(p \div Hyper) * Hyper]

FreeBase == {b \in Base : idByte[b] = Unmapped}

---------------------------------------------------------------------------
(* arena::initialize_semispace, for each arena of the domain of m: mmap    *)
(* put its new semispace at m[a].  ids are the semispace ids after the     *)
(* swap, if there was one.                                                 *)
FirstTrip(a, b) == b + (IF trigger_collection(a) THEN MinSpace ELSE Hyper)

Mappings(A) ==
  {m \in [A -> FreeBase] :
     (\A a \in A : m[a] \in BaseOf(a)) /\ \A a, b \in A : m[a] = m[b] => a = b}

WriteIds(m, ids) ==
  idByte' = [b \in Base |-> IF \E a \in DOMAIN m : m[a] = b
                            THEN ids[CHOOSE a \in DOMAIN m : m[a] = b] ELSE idByte[b]]

\* Mutant: the flag is raised only by an allocation that starts past the tripwire.
TripsWire_Late(a, n) == alloc[a] > trip[a]

\* Mutant: the tripwire is never moved away from where it was at first.
TripsWire_Fixed(a, n) == trigger_collection(a) /\ alloc[a] + n >= cur[a] + MinSpace

TripsWire(a, n) == alloc[a] + n >= trip[a]

\* arena::kore_arena_alloc.  An arena is never exhausted: "we will never return an
\* allocation anywhere near the end of our hyperblock".
kore_arena_alloc(a, n) ==
  /\ alloc[a] + n < cur[a] + Hyper
  /\ \/ /\ trip[a] = nullptr
        /\ \E m \in Mappings({a}) :
             /\ cur' = [cur EXCEPT ![a] = m[a]]
             /\ alloc' = [alloc EXCEPT ![a] = m[a] + n]
             /\ trip' = [trip EXCEPT ![a] = FirstTrip(a, m[a])]
             /\ WriteIds(m, sid)
        /\ UNCHANGED time_for_collection
     \/ /\ trip[a] # nullptr
        /\ alloc' = [alloc EXCEPT ![a] = @ + n]
        /\ trip' = IF TripsWire(a, n) THEN [trip EXCEPT ![a] = cur[a] + Hyper] ELSE trip
        /\ time_for_collection' = (time_for_collection \/ TripsWire(a, n))
        /\ UNCHANGED <<cur, idByte>>
  /\ UNCHANGED <<coll, sid>>

\* Mutant: the semispace that comes into use is told by the old id.
NewId_Kept(a) == sid[a]

\* arena::arena_swap_and_clear complements the id before it maps the semispace.
NewId(a) == Complement(sid[a])

\* arena::arena_swap_and_clear on the arenas of A.
arena_swap_and_clear(A) ==
  \E m \in Mappings({a \in A : coll[a] = nullptr}) :
    LET new == [a \in A |-> IF coll[a] = nullptr THEN m[a] ELSE coll[a]]
        ids == [a \in Used |-> IF a \in A THEN NewId(a) ELSE sid[a]] IN
    /\ cur' = [a \in Used |-> IF a \in A THEN new[a] ELSE cur[a]]
    /\ coll' = [a \in Used |-> IF a \in A THEN cur[a] ELSE coll[a]]
    /\ alloc' = [a \in Used |-> IF a \in A THEN new[a] ELSE alloc[a]]
    /\ trip' = [a \in Used |-> IF a \in DOMAIN m THEN FirstTrip(a, m[a]) ELSE trip[a]]
    /\ sid' = ids
    /\ WriteIds(m, ids)

\* arena::update_tripwire
UpdatedTripwire(a) == cur[a] + Max(MinSpace, EXPAND_FACTOR * (alloc[a] - cur[a]))

\* arena::arena_clear
arena_clear(a) == [alloc EXCEPT ![a] = cur[a]]

---------------------------------------------------------------------------
Init ==
  /\ cur = [a \in Used |-> nullptr]
  /\ coll = [a \in Used |-> nullptr]
  /\ alloc = [a \in Used |-> nullptr]
  /\ trip = [a \in Used |-> nullptr]
  /\ sid = [a \in Used |-> FirstId[a]]
  /\ idByte = [b \in Base |-> Unmapped]
  /\ time_for_collection = FALSE
  /\ gc_enabled = TRUE
  /\ only_young = 0
  /\ phase = "run"
  /\ force = FALSE
  /\ left = 0
  /\ live = 0

\* kore_alloc, kore_alloc_token, kore_alloc_old, kore_alloc_always_gc: the program
\* allocates in any of the arenas.
KoreAlloc(a, n) ==
  /\ phase = "run"
  /\ kore_arena_alloc(a, n)
  /\ UNCHANGED <<cycleVars, live>>

\* kore_clear, which generated code calls between steps
KoreClear ==
  /\ phase = "run"
  /\ "always" \in Used
  /\ alloc' = arena_clear("always")
  /\ UNCHANGED <<cur, coll, trip, sid, idByte, time_for_collection, cycleVars, live>>

SpaceInUse(a) == alloc[a] - cur[a]

\* gc_enabled is cleared around hooks, GMP's allocations and the construction of the
\* initial configuration, and restored.
DisableGc ==
  /\ phase = "run"
  /\ gc_enabled /\ gc_enabled' = FALSE
  /\ UNCHANGED <<arenaVars, time_for_collection, only_young, phase, force, left, live>>

EnableGc ==
  /\ phase = "run"
  /\ ~gc_enabled /\ gc_enabled' = TRUE
  /\ UNCHANGED <<arenaVars, time_for_collection, only_young, phase, force, left, live>>

\* Mutant: the counter is compared before it is incremented.
should_collect_old_gen_Late == only_young = OldPeriod

\* should_collect_old_gen
should_collect_old_gen == only_young + 1 = OldPeriod

\* kore_collect up to the migration of the roots.  Generated code calls it when
\* time_for_collection is set; free_all_kore_mem calls it with forced = TRUE.
CollectBegin(forced) ==
  /\ phase = "run"
  /\ forced \/ (time_for_collection /\ gc_enabled)
  /\ only_young' = IF should_collect_old_gen THEN 0 ELSE only_young + 1
  /\ LET A == IF should_collect_old_gen THEN {"young", "old"} ELSE {"young"} IN
     /\ arena_swap_and_clear(A)
     /\ left' = SpaceInUse("young") + (IF "old" \in A THEN SpaceInUse("old") ELSE 0)
  /\ phase' = "collect"
  /\ force' = forced
  /\ time_for_collection' = FALSE
  /\ UNCHANGED <<gc_enabled, live>>

\* A live object is copied: to youngspace, or to oldspace when it is promoted.
Migrate(a, n) ==
  /\ phase = "collect"
  /\ n <= left
  /\ kore_arena_alloc(a, n)
  /\ left' = left - n
  /\ UNCHANGED <<gc_enabled, only_young, phase, force, live>>

\* The end of kore_collect; free_all_kore_mem goes on to kore_clear.
CollectEnd ==
  /\ phase = "collect"
  /\ trip' = [trip EXCEPT !["young"] = UpdatedTripwire("young")]
  /\ alloc' = IF force /\ "always" \in Used THEN arena_clear("always") ELSE alloc
  /\ live' = SpaceInUse("young")
  /\ left' = 0
  /\ phase' = "run"
  /\ force' = FALSE
  /\ UNCHANGED <<cur, coll, sid, idByte, time_for_collection, gc_enabled, only_young>>

\* munmap of both semispaces of every arena
Unmap == [b \in Base |-> IF \E a \in Used : b \in {cur[a], coll[a]} THEN Unmapped ELSE idByte[b]]

\* reset_munmap_all_arenas: munmap_arena_and_reset on every arena.
ResetMunmapAllArenas ==
  /\ phase = "run"
  /\ cur' = [a \in Used |-> nullptr]
  /\ coll' = [a \in Used |-> nullptr]
  /\ alloc' = [a \in Used |-> nullptr]
  /\ trip' = [a \in Used |-> nullptr]
  /\ idByte' = Unmap
  /\ live' = 0
  /\ UNCHANGED <<sid, time_for_collection, cycleVars>>

Next ==
  \/ \E a \in Used, n \in Requests : KoreAlloc(a, n)
  \/ KoreClear \/ DisableGc \/ EnableGc
  \/ \E forced \in BOOLEAN : CollectBegin(forced)
  \/ \E a \in {"young", "old"}, n \in Requests : Migrate(a, n)
  \/ CollectEnd
  \/ ResetMunmapAllArenas

Spec == Init /\ [][Next]_vars

\* Generated code polls time_for_collection at every rewrite step, a collection
\* terminates, and so does the code that runs with gc_enabled cleared.
FairSpec == /\ Spec
            /\ WF_vars(EnableGc) /\ SF_vars(CollectBegin(FALSE)) /\ WF_vars(CollectEnd)

---------------------------------------------------------------------------
TypeOK ==
  /\ cur \in [Used -> Base \cup {nullptr}]
  /\ coll \in [Used -> Base \cup {nullptr}]
  /\ alloc \in [Used -> Nat]
  /\ trip \in [Used -> Nat]
  /\ sid \in [Used -> {0, -1, 1, -2, 3, -4}]
  /\ \A a \in Used : sid[a] \in {FirstId[a], Complement(FirstId[a])}
  /\ idByte \in [Base -> {0, -1, 1, -2, 3, -4, Unmapped}]
  /\ time_for_collection \in BOOLEAN /\ gc_enabled \in BOOLEAN /\ force \in BOOLEAN
  /\ only_young \in 0..(OldPeriod - 1)
  /\ phase \in {"run", "collect"}
  /\ left \in Nat /\ live \in Nat

\* What migrate_once asks of get_arena_semispace_id_of_object: the byte at the end of
\* an object's hyperblock is the id of the arena's current semispace if and only if the
\* object was allocated in it, and its complement (get_arena_collection_semispace_id) if
\* and only if the object is in the semispace being collected.  No other arena has them,
\* whatever was swapped, unmapped and mapped again before.
SemispaceIdentified ==
  \A a \in Used, b \in Base :
    /\ alloc[a] # nullptr => \A p \in cur[a]..alloc[a] : SemispaceId(p) = sid[a]
    /\ idByte[b] = sid[a] => cur[a] = b
    /\ idByte[b] = Complement(sid[a]) <=> coll[a] = b

\* Between collections, youngspace does not grow past twice what survived the last one
\* (nor past MIN_SPACE) without a collection being requested: kore_arena_alloc moves the
\* tripwire out of reach when it requests one, and no way back to the program leaves it
\* there with the request gone.
RequestWhenFull ==
  phase = "run" /\ SpaceInUse("young") > Max(MinSpace, EXPAND_FACTOR * live)
    => time_for_collection

\* A collection may request the next one, because the collector's copies are compared
\* with the tripwire of the other semispace until update_tripwire; but such requests die
\* out: unless its arenas are reset again and again, the program is not kept collecting
\* for ever.
RequestsDieOut == \/ []<><<ResetMunmapAllArenas>>_vars
                  \/ []<>(phase = "run" /\ ~time_for_collection)

---------------------------------------------------------------------------
(* The inductive invariant: the semispaces of all arenas are different     *)
(* hyperblocks, each marked with the id that its arena has for it and all  *)
(* others unmarked; the bump pointer is in the current one; and between    *)
(* collections youngspace is either below a tripwire that is near enough   *)
(* or has a request pending.                                               *)
Started(a) == cur[a] # nullptr

AllocatedInside ==
  \A a \in Used :
    /\ Started(a) => trip[a] # nullptr /\ cur[a] <= alloc[a] /\ alloc[a] < cur[a] + Hyper
    /\ ~Started(a) => trip[a] = nullptr /\ alloc[a] = nullptr /\ coll[a] = nullptr

SpacesDiffer ==
  /\ \A a, b \in Used : cur[a] = cur[b] /\ Started(a) => a = b
  /\ \A a, b \in Used : coll[a] = coll[b] /\ coll[a] # nullptr => a = b
  /\ \A a, b \in Used : cur[a] = coll[b] => cur[a] = nullptr

SpacesMarked ==
  \A b \in Base :
    /\ \A a \in Used : cur[a] = b => idByte[b] = sid[a]
    /\ \A a \in Used : coll[a] = b => idByte[b] = Complement(sid[a])
    /\ (\A a \in Used : cur[a] # b /\ coll[a] # b) => idByte[b] = Unmapped

BelowTripwire ==
  /\ phase = "run" /\ Started("young") /\ ~time_for_collection =>
       /\ alloc["young"] <= trip["young"]
       /\ trip["young"] <= cur["young"] + Max(MinSpace, EXPAND_FACTOR * live)
  /\ phase = "collect" => Started("young")

\* The layout of the arenas and the state of their tripwires between any two
\* allocations, collections and resets.
ArenaInv == TypeOK /\ AllocatedInside /\ SpacesDiffer /\ SpacesMarked /\ BelowTripwire
=============================================================================
