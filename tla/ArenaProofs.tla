---------------------------- MODULE ArenaProofs ----------------------------
(***************************************************************************)
(* The arenas for every hyperblock size, every size of object and every    *)
(* place that mmap may answer with: the invariant ArenaInv of Arena is     *)
(* inductive, and what migrate_once and the program rely on follows.       *)
(***************************************************************************)
EXTENDS Arena, TLAPS

(* The part of ArenaInv that is about the layout of the semispaces.        *)
SpacesType ==
  /\ cur \in [Used -> Base \cup {nullptr}]
  /\ coll \in [Used -> Base \cup {nullptr}]
  /\ alloc \in [Used -> Nat]
  /\ trip \in [Used -> Nat]
  /\ sid \in [Used -> {0, -1, 1, -2, 3, -4}]
  /\ \A a \in Used : sid[a] \in {FirstId[a], Complement(FirstId[a])}
  /\ idByte \in [Base -> {0, -1, 1, -2, 3, -4, Unmapped}]

Layout == SpacesType /\ AllocatedInside /\ SpacesDiffer /\ SpacesMarked

---------------------------------------------------------------------------
\* mmap never answers with the null pointer.
LEMMA BaseNat == Base \subseteq Nat \ {0}
  <1>1. \A n \in Nat \ {0} : Hyper * n \in Nat \ {0}
    BY SizeAssumption
  <1> QED BY <1>1, SlotAssumption DEF Base, BaseOf

\* The ids of the three arenas and their complements are six different bytes.
LEMMA IdsDiffer ==
  ASSUME NEW a \in Used, NEW b \in Used,
         NEW i \in {FirstId[a], Complement(FirstId[a])},
         NEW j \in {FirstId[b], Complement(FirstId[b])}
  PROVE  /\ i \in {0, -1, 1, -2, 3, -4}
         /\ i # Unmapped
         /\ i # Complement(i)
         /\ Complement(i) \in {FirstId[a], Complement(FirstId[a])}
         /\ Complement(Complement(i)) = i
         /\ i = j \/ i = Complement(j) => a = b
  <1>1. FirstId["young"] = 0 /\ FirstId["old"] = 1 /\ FirstId["always"] = 3
    BY DEF FirstId
  <1>2. a \in {"young", "old", "always"} /\ b \in {"young", "old", "always"}
    BY UsedAssumption
  <1> QED BY <1>1, <1>2 DEF Complement, Unmapped

\* The first tripwire of a semispace is not the null pointer, and within the hyperblock.
LEMMA FirstTripNat ==
  ASSUME NEW a, NEW b \in Base
  PROVE  /\ b \in Nat /\ b # 0
         /\ FirstTrip(a, b) \in Nat /\ FirstTrip(a, b) # 0
         /\ a = "young" => FirstTrip(a, b) = b + MinSpace
  <1>1. b \in Nat /\ b # 0
    BY BaseNat
  <1>2. CASE trigger_collection(a)
    BY <1>1, <1>2, SizeAssumption DEF FirstTrip
  <1>3. CASE ~trigger_collection(a)
    BY <1>1, <1>3, SizeAssumption DEF FirstTrip, trigger_collection
  <1> QED BY <1>1, <1>2, <1>3

---------------------------------------------------------------------------
\* A semispace that mmap answers with is in no arena's use.
LEMMA FreshSpace ==
  ASSUME Layout, NEW A \in SUBSET Used, NEW m \in Mappings(A)
  PROVE  /\ m \in [A -> Base]
         /\ \A a \in A, b \in Used : m[a] # cur[b] /\ m[a] # coll[b]
         /\ \A a, b \in A : m[a] = m[b] => a = b
  <1>1. m \in [A -> FreeBase] /\ \A a, b \in A : m[a] = m[b] => a = b
    BY DEF Mappings
  <1>2. m \in [A -> Base] /\ \A a \in A : idByte[m[a]] = Unmapped
    BY <1>1 DEF FreeBase
  <1>3. ASSUME NEW a \in A, NEW b \in Used
        PROVE  m[a] # cur[b] /\ m[a] # coll[b]
    <2>1. m[a] \in Base /\ idByte[m[a]] = Unmapped
      BY <1>2
    <2>2. sid[b] # Unmapped /\ Complement(sid[b]) # Unmapped
      BY IdsDiffer DEF Layout, SpacesType
    <2> QED BY <2>1, <2>2 DEF Layout, SpacesMarked
  <1> QED BY <1>1, <1>2, <1>3

\* initialize_semispace writes the ids in the new semispaces and nowhere else.
LEMMA IdsWritten ==
  ASSUME Layout, NEW A \in SUBSET Used, NEW m \in Mappings(A), NEW ids \in [Used -> Int],
         WriteIds(m, ids)
  PROVE  /\ \A a \in A : idByte'[m[a]] = ids[a]
         /\ \A b \in Base : (\A a \in A : m[a] # b) => idByte'[b] = idByte[b]
  <1>1. /\ m \in [A -> Base]
        /\ \A a, b \in A : m[a] = m[b] => a = b
    BY FreshSpace
  <1>2. DOMAIN m = A
    BY <1>1
  <1>3. ASSUME NEW a \in A
        PROVE  idByte'[m[a]] = ids[a]
    <2>1. m[a] \in Base /\ \E c \in DOMAIN m : m[c] = m[a]
      BY <1>1, <1>2
    <2>2. idByte'[m[a]] = ids[CHOOSE c \in DOMAIN m : m[c] = m[a]]
      BY <2>1 DEF WriteIds
    <2>3. (CHOOSE c \in DOMAIN m : m[c] = m[a]) = a
      BY <2>1, <1>1, <1>2
    <2> QED BY Zenon, <2>2, <2>3
  <1>4. ASSUME NEW b \in Base, \A a \in A : m[a] # b
        PROVE  idByte'[b] = idByte[b]
    BY <1>2, <1>4 DEF WriteIds
  <1> QED BY <1>3, <1>4

---------------------------------------------------------------------------
\* kore_arena_alloc keeps the layout, whether it maps the arena's first semispace or not.
LEMMA AllocLayout ==
  ASSUME Layout, NEW a \in Used, NEW n \in Requests, kore_arena_alloc(a, n)
  PROVE  Layout'
  <1> USE SizeAssumption, BaseNat
  <1>n. n \in Nat \ {0} /\ n <= MinSpace /\ MinSpace < Hyper
    BY RequestAssumption
  <1>1. CASE trip[a] # nullptr
    <2>1. /\ alloc' = [alloc EXCEPT ![a] = @ + n]
          /\ trip' = IF TripsWire(a, n) THEN [trip EXCEPT ![a] = cur[a] + Hyper] ELSE trip
          /\ alloc[a] + n < cur[a] + Hyper
          /\ UNCHANGED <<cur, coll, sid, idByte>>
      BY <1>1 DEF kore_arena_alloc
    <2>2. cur[a] \in Nat /\ cur[a] # nullptr
      BY Zenon, <1>1 DEF Layout, SpacesType, AllocatedInside, Started, nullptr
    <2>3. SpacesType'
      BY <2>1, <2>2, <1>n DEF Layout, SpacesType
    <2>4. AllocatedInside'
      BY <2>1, <2>2, <1>n DEF Layout, SpacesType, AllocatedInside, Started, nullptr
    <2>5. SpacesDiffer' /\ SpacesMarked'
      BY <2>1 DEF Layout, SpacesDiffer, SpacesMarked, Started
    <2> QED BY <2>3, <2>4, <2>5 DEF Layout
  <1>2. CASE trip[a] = nullptr
    <2>1. PICK m \in Mappings({a}) :
             /\ cur' = [cur EXCEPT ![a] = m[a]]
             /\ alloc' = [alloc EXCEPT ![a] = m[a] + n]
             /\ trip' = [trip EXCEPT ![a] = FirstTrip(a, m[a])]
             /\ WriteIds(m, sid)
             /\ UNCHANGED <<coll, sid>>
      BY Zenon, <1>2 DEF kore_arena_alloc
    <2>2. /\ m[a] \in Base
          /\ \A b \in Used : m[a] # cur[b] /\ m[a] # coll[b]
      BY FreshSpace
    <2>3. sid \in [Used -> Int]
      BY DEF Layout, SpacesType
    <2>4. /\ idByte'[m[a]] = sid[a]
          /\ \A b \in Base : m[a] # b => idByte'[b] = idByte[b]
      BY <2>1, <2>3, IdsWritten
    <2>5. ~Started(a) /\ cur[a] = nullptr /\ coll[a] = nullptr
      BY <1>2 DEF Layout, AllocatedInside, Started
    <2>6. /\ m[a] \in Nat /\ m[a] # 0
          /\ FirstTrip(a, m[a]) \in Nat /\ FirstTrip(a, m[a]) # 0
      BY Zenon, <2>2, FirstTripNat
    <2>7. idByte' \in [Base -> {0, -1, 1, -2, 3, -4, Unmapped}]
      <3>1. \A b \in Base : idByte'[b] \in {0, -1, 1, -2, 3, -4, Unmapped}
        BY <2>4, <2>2 DEF Layout, SpacesType
      <3> QED BY <3>1, <2>1 DEF WriteIds
    <2>8. SpacesType'
      BY <2>1, <2>2, <2>6, <2>7, <1>n DEF Layout, SpacesType
    <2>9. AllocatedInside'
      BY <2>1, <2>6, <1>n DEF Layout, SpacesType, AllocatedInside, Started, nullptr
    <2>10. SpacesDiffer'
      BY <2>1, <2>2, <2>5, <2>6 DEF Layout, SpacesType, SpacesDiffer, Started, nullptr
    <2>11. SpacesMarked'
      BY <2>1, <2>2, <2>4, <2>5, <2>6 DEF Layout, SpacesType, SpacesMarked, nullptr
    <2> QED BY <2>8, <2>9, <2>10, <2>11 DEF Layout
  <1> QED BY <1>1, <1>2

\* arena_swap_and_clear keeps the layout, for any set of arenas: the semispace that
\* comes into use has the complement of the id that its arena had.
LEMMA SwapLayout ==
  ASSUME Layout, NEW A \in SUBSET Used, arena_swap_and_clear(A)
  PROVE  Layout' /\ \A a \in A : Started(a)'
  <1> USE SizeAssumption, BaseNat
  <1> DEFINE N == {a \in A : coll[a] = nullptr}
  <1>1. PICK m \in Mappings(N) :
          LET new == [a \in A |-> IF coll[a] = nullptr THEN m[a] ELSE coll[a]]
              ids == [a \in Used |-> IF a \in A THEN NewId(a) ELSE sid[a]] IN
          /\ cur' = [a \in Used |-> IF a \in A THEN new[a] ELSE cur[a]]
          /\ coll' = [a \in Used |-> IF a \in A THEN cur[a] ELSE coll[a]]
          /\ alloc' = [a \in Used |-> IF a \in A THEN new[a] ELSE alloc[a]]
          /\ trip' = [a \in Used |-> IF a \in DOMAIN m THEN FirstTrip(a, m[a]) ELSE trip[a]]
          /\ sid' = ids
          /\ WriteIds(m, ids)
    BY Zenon DEF arena_swap_and_clear
  <1> DEFINE new == [a \in A |-> IF coll[a] = nullptr THEN m[a] ELSE coll[a]]
  <1>2. N \in SUBSET Used /\ N \subseteq A
    OBVIOUS
  <1>3. /\ m \in [N -> Base]
        /\ \A a \in N, b \in Used : m[a] # cur[b] /\ m[a] # coll[b]
        /\ \A a, b \in N : m[a] = m[b] => a = b
    BY FreshSpace, <1>2
  <1>4. \A a \in A : new[a] \in Base
    BY Zenon, <1>3 DEF Layout, SpacesType
  <1>5. /\ cur' = [a \in Used |-> IF a \in A THEN new[a] ELSE cur[a]]
        /\ coll' = [a \in Used |-> IF a \in A THEN cur[a] ELSE coll[a]]
        /\ alloc' = [a \in Used |-> IF a \in A THEN new[a] ELSE alloc[a]]
        /\ trip' = [a \in Used |-> IF a \in N THEN FirstTrip(a, m[a]) ELSE trip[a]]
        /\ sid' = [a \in Used |-> IF a \in A THEN Complement(sid[a]) ELSE sid[a]]
        /\ WriteIds(m, sid')
    BY <1>1, <1>3 DEF NewId
  <1>6. /\ sid' \in [Used -> {0, -1, 1, -2, 3, -4}]
        /\ \A a \in Used : sid'[a] \in {FirstId[a], Complement(FirstId[a])}
    <2>1. \A a \in Used : /\ sid[a] \in {FirstId[a], Complement(FirstId[a])}
                          /\ Complement(sid[a]) \in {FirstId[a], Complement(FirstId[a])}
      BY Zenon, IdsDiffer DEF Layout, SpacesType
    <2>2. \A a \in Used : sid'[a] \in {FirstId[a], Complement(FirstId[a])}
      BY <2>1, <1>5
    <2>3. \A a \in Used : sid'[a] \in {0, -1, 1, -2, 3, -4}
      BY <2>2, IdsDiffer
    <2> QED BY <2>2, <2>3, <1>5
  <1>7. /\ \A a \in N : idByte'[m[a]] = sid'[a]
        /\ \A b \in Base : (\A a \in N : m[a] # b) => idByte'[b] = idByte[b]
    <2>1. sid' \in [Used -> Int]
      BY <1>6
    <2> HIDE DEF N
    <2> QED BY <1>2, <1>5, <2>1, IdsWritten
  <1>8. idByte' \in [Base -> {0, -1, 1, -2, 3, -4, Unmapped}]
    <2>1. \A b \in Base : idByte'[b] \in {0, -1, 1, -2, 3, -4, Unmapped}
      BY <1>7, <1>6, <1>3 DEF Layout, SpacesType
    <2> QED BY <2>1, <1>5 DEF WriteIds
  <1>9. \A a \in N : FirstTrip(a, m[a]) \in Nat /\ FirstTrip(a, m[a]) # 0
    BY Zenon, <1>3, FirstTripNat
  <1>10. SpacesType'
    BY Zenon, <1>4, <1>5, <1>6, <1>8, <1>9 DEF Layout, SpacesType
  <1>11. \A a \in A : new[a] # nullptr /\ Started(a)'
    BY <1>4, <1>5 DEF Started, nullptr
  <1>12. AllocatedInside'
    <2>1. ASSUME NEW a \in A
          PROVE  /\ trip'[a] # nullptr
                 /\ cur'[a] <= alloc'[a] /\ alloc'[a] < cur'[a] + Hyper
      <3>1. cur'[a] = new[a] /\ alloc'[a] = new[a] /\ new[a] \in Nat
        BY Zenon, <1>4, <1>5
      <3>2. a \in N => trip'[a] # nullptr
        BY <1>5, <1>9 DEF nullptr
      <3>3. a \notin N => trip'[a] # nullptr
        BY <1>5 DEF Layout, AllocatedInside
      <3> HIDE DEF N, new
      <3>4. trip'[a] # nullptr
        BY <3>2, <3>3
      <3> QED BY <3>1, <3>4
    <2>2. ASSUME NEW a \in Used \ A
          PROVE  UNCHANGED <<cur[a], coll[a], alloc[a], trip[a]>>
      BY <1>5
    <2> QED BY <2>1, <2>2, <1>11 DEF Layout, AllocatedInside, Started
  <1>13. \A a \in A, b \in Used : /\ new[a] # cur[b]
                                  /\ new[a] = coll[b] => a = b
                                  /\ b \in A /\ new[a] = new[b] => a = b
    <2>1. \A a \in N : new[a] = m[a]
      OBVIOUS
    <2>2. \A a \in A \ N : new[a] = coll[a] /\ coll[a] # nullptr
      OBVIOUS
    <2> HIDE DEF N, new
    <2> QED BY <2>1, <2>2, <1>2, <1>3, <1>11 DEF Layout, SpacesDiffer
  <1>14. SpacesDiffer'
    <2>1. \A a \in Used : /\ a \in A => cur'[a] = new[a] /\ coll'[a] = cur[a]
                          /\ a \notin A => cur'[a] = cur[a] /\ coll'[a] = coll[a]
      BY <1>5
    <2> HIDE DEF N, new
    <2>2. (\A a, b \in Used : cur[a] = cur[b] /\ Started(a) => a = b)'
      BY <2>1, <1>13 DEF Layout, SpacesDiffer, Started
    <2>3. (\A a, b \in Used : coll[a] = coll[b] /\ coll[a] # nullptr => a = b)'
      BY <2>1 DEF Layout, SpacesDiffer, Started
    <2>4. (\A a, b \in Used : cur[a] = coll[b] => cur[a] = nullptr)'
      BY <2>1, <1>13 DEF Layout, SpacesDiffer, Started
    <2> QED BY <2>2, <2>3, <2>4 DEF SpacesDiffer
  <1>15. SpacesMarked'
    <2> SUFFICES ASSUME NEW b \in Base
                 PROVE  /\ \A a \in Used : cur'[a] = b => idByte'[b] = sid'[a]
                        /\ \A a \in Used : coll'[a] = b => idByte'[b] = Complement(sid'[a])
                        /\ (\A a \in Used : cur'[a] # b /\ coll'[a] # b) => idByte'[b] = Unmapped
      BY Zenon DEF SpacesMarked
    <2>1. /\ \A a \in Used : cur[a] = b => idByte[b] = sid[a]
          /\ \A a \in Used : coll[a] = b => idByte[b] = Complement(sid[a])
          /\ (\A a \in Used : cur[a] # b /\ coll[a] # b) => idByte[b] = Unmapped
      BY Zenon DEF Layout, SpacesMarked
    <2>2. \A a \in Used : Complement(Complement(sid[a])) = sid[a]
      BY Zenon, IdsDiffer DEF Layout, SpacesType
    <2>3. \A a \in Used :
            /\ a \in A => /\ cur'[a] = new[a] /\ coll'[a] = cur[a]
                          /\ sid'[a] = Complement(sid[a])
            /\ a \notin A => UNCHANGED <<cur[a], coll[a], sid[a]>>
      BY <1>5
    <2>4. \A a \in A : new[a] = IF a \in N THEN m[a] ELSE coll[a]
      OBVIOUS
    <2>5. \A a \in A : coll[a] = b => a \notin N
      BY DEF nullptr
    <2> HIDE DEF N, new
    <2>6. CASE \E c \in N : m[c] = b
      <3>1. PICK c \in N : m[c] = b
        BY <2>6
      <3>2. c \in A /\ cur'[c] = b /\ idByte'[b] = sid'[c]
        BY <3>1, <1>2, <1>7, <2>3, <2>4
      <3>3. \A a \in Used : cur[a] # b /\ coll[a] # b
        BY <3>1, <1>3
      <3>4. \A a \in A : new[a] = b => a = c
        BY <3>1, <2>4, <1>3, <1>2, <3>3
      <3> QED BY <3>2, <3>3, <3>4, <2>3
    <2>7. CASE \A c \in N : m[c] # b
      <3>1. idByte'[b] = idByte[b]
        BY <2>7, <1>7
      <3>2. \A a \in A : new[a] = b <=> coll[a] = b
        BY <2>7, <2>4, <2>5, <1>2
      <3> QED BY <3>1, <3>2, <2>1, <2>2, <2>3
    <2> QED BY <2>6, <2>7
  <1> QED BY <1>10, <1>11, <1>12, <1>14, <1>15 DEF Layout

---------------------------------------------------------------------------
\* What ArenaInv says besides the layout.
LEMMA InvParts ==
  ArenaInv <=> /\ Layout /\ BelowTripwire
               /\ time_for_collection \in BOOLEAN /\ gc_enabled \in BOOLEAN /\ force \in BOOLEAN
               /\ only_young \in 0..(OldPeriod - 1)
               /\ phase \in {"run", "collect"}
               /\ left \in Nat /\ live \in Nat
  BY DEF ArenaInv, TypeOK, Layout, SpacesType

\* current_addr_ptr is a number, null or not.
LEMMA CurNat ==
  ASSUME Layout, NEW a \in Used
  PROVE  cur[a] \in Nat
  <1>1. cur[a] \in Base \/ cur[a] = 0
    BY DEF Layout, SpacesType, nullptr
  <1>2. CASE cur[a] \in Base
    BY Zenon, <1>2, BaseNat
  <1>3. CASE cur[a] = 0
    BY <1>3
  <1> QED BY <1>1, <1>2, <1>3

\* The space in use of an arena is a number of bytes.
LEMMA InUseNat ==
  ASSUME Layout, NEW a \in Used
  PROVE  SpaceInUse(a) \in Nat
  <1>1. cur[a] \in Nat /\ alloc[a] \in Nat /\ cur[a] <= alloc[a]
    BY CurNat DEF Layout, SpacesType, AllocatedInside, Started
  <1> QED BY <1>1 DEF SpaceInUse

\* Nothing that a step on gc_enabled or on the other arenas leaves alone disturbs the
\* layout.
LEMMA SameLayout ==
  ASSUME Layout, UNCHANGED arenaVars
  PROVE  Layout'
  BY DEF Layout, SpacesType, AllocatedInside, SpacesDiffer, SpacesMarked, Started, arenaVars

\* Clearing an arena, which arena_clear does by moving the bump pointer back.
LEMMA ClearLayout ==
  ASSUME Layout, NEW a \in Used, alloc' = arena_clear(a),
         UNCHANGED <<cur, coll, trip, sid, idByte>>
  PROVE  Layout'
  <1>1. cur[a] \in Nat /\ alloc' = [alloc EXCEPT ![a] = cur[a]]
    BY CurNat DEF arena_clear
  <1>2. SpacesType'
    BY <1>1 DEF Layout, SpacesType
  <1>3. AllocatedInside'
    BY <1>1, SizeAssumption DEF Layout, SpacesType, AllocatedInside, Started
  <1>4. SpacesDiffer' /\ SpacesMarked'
    BY DEF Layout, SpacesDiffer, SpacesMarked, Started
  <1> QED BY <1>2, <1>3, <1>4 DEF Layout

\* An allocation, in the program or in the collector, leaves youngspace below its
\* tripwire or a request behind.
LEMMA AllocTripwire ==
  ASSUME ArenaInv, NEW a \in Used, NEW n \in Requests, kore_arena_alloc(a, n),
         UNCHANGED <<phase, live>>
  PROVE  BelowTripwire' /\ time_for_collection' \in BOOLEAN
  <1> USE InvParts, SizeAssumption
  <1>n. n \in Nat /\ n <= MinSpace
    BY RequestAssumption
  <1>m. live \in Nat /\ Max(MinSpace, EXPAND_FACTOR * live) \in Nat
        /\ MinSpace <= Max(MinSpace, EXPAND_FACTOR * live)
    BY DEF Max, EXPAND_FACTOR
  <1>1. CASE trip[a] # nullptr
    <2>1. /\ alloc' = [alloc EXCEPT ![a] = @ + n]
          /\ trip' = IF TripsWire(a, n) THEN [trip EXCEPT ![a] = cur[a] + Hyper] ELSE trip
          /\ time_for_collection' = (time_for_collection \/ TripsWire(a, n))
          /\ cur' = cur
      BY <1>1 DEF kore_arena_alloc
    <2>2. time_for_collection' \in BOOLEAN
      BY <2>1
    <2>3. CASE TripsWire(a, n)
      BY Zenon, <2>1, <2>2, <2>3 DEF BelowTripwire, Started
    <2>4. CASE ~TripsWire(a, n) /\ a = "young"
      BY <2>1, <2>2, <2>4, <1>n DEF BelowTripwire, Started, TripsWire, Layout, SpacesType
    <2>5. CASE ~TripsWire(a, n) /\ a # "young"
      BY <2>1, <2>2, <2>5, UsedAssumption DEF BelowTripwire, Started, Layout, SpacesType
    <2> QED BY <2>2, <2>3, <2>4, <2>5
  <1>2. CASE trip[a] = nullptr
    <2>1. PICK m \in Mappings({a}) :
             /\ cur' = [cur EXCEPT ![a] = m[a]]
             /\ alloc' = [alloc EXCEPT ![a] = m[a] + n]
             /\ trip' = [trip EXCEPT ![a] = FirstTrip(a, m[a])]
             /\ UNCHANGED time_for_collection
      BY Zenon, <1>2 DEF kore_arena_alloc
    <2>2. m[a] \in Base
      BY FreshSpace
    <2>3. /\ m[a] \in Nat /\ m[a] # 0
          /\ a = "young" => FirstTrip(a, m[a]) = m[a] + MinSpace
      BY <2>2, FirstTripNat
    <2>4. CASE a = "young"
      BY <2>1, <2>3, <2>4, <1>n, <1>m DEF BelowTripwire, Started, Layout, SpacesType, nullptr
    <2>5. CASE a # "young"
      BY <2>1, <2>5, UsedAssumption DEF BelowTripwire, Started, Layout, SpacesType
    <2> QED BY <2>1, <2>4, <2>5
  <1> QED BY <1>1, <1>2

---------------------------------------------------------------------------
\* At start no arena has a semispace.
LEMMA InitInv == Init => ArenaInv
  <1> SUFFICES ASSUME Init PROVE ArenaInv
    OBVIOUS
  <1>1. \A a \in Used : FirstId[a] \in {0, -1, 1, -2, 3, -4}
    BY Zenon, IdsDiffer
  <1>2. SpacesType
    BY <1>1, BaseNat DEF Init, SpacesType, nullptr, Unmapped
  <1>3. AllocatedInside /\ SpacesDiffer /\ BelowTripwire
    BY UsedAssumption DEF Init, AllocatedInside, SpacesDiffer, BelowTripwire, Started
  <1>4. SpacesMarked
    BY BaseNat DEF Init, SpacesMarked, nullptr
  <1>5. only_young \in 0..(OldPeriod - 1)
    BY PeriodAssumption DEF Init
  <1> QED BY Zenon, <1>2, <1>3, <1>4, <1>5, InvParts DEF Init, Layout

\* The collection begins: the semispaces in use are swapped, and the counter tells when
\* the old generation is next.
LEMMA CollectBeginInv ==
  ASSUME ArenaInv, NEW forced \in BOOLEAN, CollectBegin(forced)
  PROVE  ArenaInv'
  <1> DEFINE A == IF should_collect_old_gen THEN {"young", "old"} ELSE {"young"}
  <1>1. /\ arena_swap_and_clear(A)
        /\ left' = SpaceInUse("young") + (IF "old" \in A THEN SpaceInUse("old") ELSE 0)
        /\ only_young' = IF should_collect_old_gen THEN 0 ELSE only_young + 1
        /\ phase' = "collect" /\ force' = forced /\ time_for_collection' = FALSE
        /\ UNCHANGED <<gc_enabled, live>>
    BY DEF CollectBegin
  <1>2. A \in SUBSET Used /\ "young" \in A
    BY UsedAssumption
  <1>3. Layout
    BY InvParts
  <1>4. Layout' /\ Started("young")'
    BY <1>1, <1>2, <1>3, SwapLayout
  <1>5. only_young' \in 0..(OldPeriod - 1)
    BY <1>1, InvParts, PeriodAssumption DEF should_collect_old_gen
  <1>6. left' \in Nat
    <2>1. SpaceInUse("young") \in Nat /\ SpaceInUse("old") \in Nat
      BY <1>3, InUseNat, UsedAssumption
    <2> QED BY <2>1, <1>1
  <1>7. BelowTripwire'
    BY <1>1, <1>4 DEF BelowTripwire
  <1>8. time_for_collection' \in BOOLEAN /\ gc_enabled' \in BOOLEAN /\ force' \in BOOLEAN
    BY Zenon, <1>1, InvParts
  <1>9. phase' \in {"run", "collect"} /\ live' \in Nat
    BY <1>1, InvParts
  <1> QED BY <1>4, <1>5, <1>6, <1>7, <1>8, <1>9 DEF ArenaInv, TypeOK, Layout, SpacesType

\* The collection ends: update_tripwire puts the tripwire above what survived.
LEMMA CollectEndInv ==
  ASSUME ArenaInv, CollectEnd
  PROVE  ArenaInv'
  <1> USE InvParts
  <1>1. /\ trip' = [trip EXCEPT !["young"] = UpdatedTripwire("young")]
        /\ alloc' = IF force /\ "always" \in Used THEN arena_clear("always") ELSE alloc
        /\ live' = SpaceInUse("young")
        /\ left' = 0 /\ phase' = "run" /\ force' = FALSE
        /\ UNCHANGED <<cur, coll, sid, idByte, time_for_collection, gc_enabled, only_young>>
        /\ phase = "collect"
    BY DEF CollectEnd
  <1>2. /\ "young" \in Used /\ Layout /\ SpaceInUse("young") \in Nat
        /\ cur["young"] \in Nat /\ alloc["young"] \in Nat
    BY UsedAssumption, InUseNat, CurNat DEF Layout, SpacesType
  <1> DEFINE u == Max(MinSpace, EXPAND_FACTOR * SpaceInUse("young"))
  <1>3. u \in Nat /\ SpaceInUse("young") <= u /\ MinSpace <= u
    BY <1>2, SizeAssumption DEF Max, EXPAND_FACTOR
  <1>4. UpdatedTripwire("young") = cur["young"] + u
    BY DEF UpdatedTripwire, SpaceInUse
  <1> HIDE DEF u
  <1>5. Started("young") /\ UpdatedTripwire("young") \in Nat /\ UpdatedTripwire("young") # nullptr
    BY <1>1, <1>2, <1>3, <1>4 DEF BelowTripwire, Started, nullptr
  <1>6. /\ trip' \in [Used -> Nat]
        /\ \A a \in Used : Started(a) => trip'[a] # nullptr
        /\ \A a \in Used : ~Started(a) => trip'[a] = nullptr
    BY <1>1, <1>2, <1>5 DEF Layout, SpacesType, AllocatedInside
  <1>7. /\ alloc' \in [Used -> Nat]
        /\ \A a \in Used : alloc'[a] = alloc[a] \/ alloc'[a] = cur[a]
        /\ alloc'["young"] = alloc["young"]
    <2>1. CASE force /\ "always" \in Used
      BY <1>1, <1>2, <2>1, CurNat DEF Layout, SpacesType, arena_clear
    <2>2. CASE ~(force /\ "always" \in Used)
      BY <1>1, <2>2 DEF Layout, SpacesType
    <2> QED BY <2>1, <2>2
  <1>8. SpacesType'
    BY <1>1, <1>6, <1>7 DEF Layout, SpacesType
  <1>9. AllocatedInside'
    <2> SUFFICES ASSUME NEW a \in Used
                 PROVE  /\ Started(a) => /\ trip'[a] # nullptr
                                         /\ cur[a] <= alloc'[a] /\ alloc'[a] < cur[a] + Hyper
                        /\ ~Started(a) => /\ trip'[a] = nullptr /\ alloc'[a] = nullptr
                                          /\ coll[a] = nullptr
      BY <1>1 DEF AllocatedInside, Started
    <2>1. cur[a] \in Nat /\ alloc[a] \in Nat
      BY <1>2, CurNat DEF Layout, SpacesType
    <2> QED BY <2>1, <1>6, <1>7, SizeAssumption DEF Layout, AllocatedInside, Started
  <1>10. SpacesDiffer' /\ SpacesMarked'
    BY <1>1 DEF Layout, SpacesDiffer, SpacesMarked, Started
  <1>11. BelowTripwire'
    <2>1. trip'["young"] = cur["young"] + u /\ live' = SpaceInUse("young")
      BY <1>1, <1>2, <1>4 DEF Layout, SpacesType
    <2>2. alloc["young"] <= cur["young"] + u
      BY <1>2, <1>3 DEF SpaceInUse
    <2>3. Max(MinSpace, EXPAND_FACTOR * live') = u
      BY <2>1 DEF u
    <2> QED BY <1>1, <1>2, <1>3, <1>7, <2>1, <2>2, <2>3 DEF BelowTripwire
  <1>12. live' \in Nat /\ left' \in Nat /\ phase' \in {"run", "collect"} /\ force' \in BOOLEAN
    BY Zenon, <1>1, <1>2
  <1>13. /\ time_for_collection' \in BOOLEAN /\ gc_enabled' \in BOOLEAN
         /\ only_young' \in 0..(OldPeriod - 1)
    BY <1>1
  <1> QED BY <1>8, <1>9, <1>10, <1>11, <1>12, <1>13 DEF ArenaInv, TypeOK, SpacesType

\* reset_munmap_all_arenas unmaps every semispace, so that none is marked.
LEMMA ResetInv ==
  ASSUME ArenaInv, ResetMunmapAllArenas
  PROVE  ArenaInv'
  <1> USE InvParts
  <1>1. /\ cur' = [a \in Used |-> nullptr] /\ coll' = [a \in Used |-> nullptr]
        /\ alloc' = [a \in Used |-> nullptr] /\ trip' = [a \in Used |-> nullptr]
        /\ idByte' = Unmap /\ live' = 0 /\ phase = "run"
        /\ UNCHANGED <<sid, time_for_collection, cycleVars>>
    BY DEF ResetMunmapAllArenas
  <1>2. \A b \in Base : idByte'[b] = Unmapped
    <2> SUFFICES ASSUME NEW b \in Base PROVE idByte'[b] = Unmapped
      OBVIOUS
    <2>1. CASE \E a \in Used : b \in {cur[a], coll[a]}
      BY <1>1, <2>1 DEF Unmap
    <2>2. CASE ~\E a \in Used : b \in {cur[a], coll[a]}
      BY <1>1, <2>2 DEF Unmap, Layout, SpacesMarked
    <2> QED BY <2>1, <2>2
  <1>3. SpacesType'
    <2>1. idByte' \in [Base -> {0, -1, 1, -2, 3, -4, Unmapped}]
      BY <1>1, <1>2 DEF Unmap
    <2> QED BY <1>1, <2>1 DEF Layout, SpacesType, nullptr
  <1>4. AllocatedInside' /\ SpacesDiffer' /\ BelowTripwire'
    BY <1>1, UsedAssumption DEF AllocatedInside, SpacesDiffer, BelowTripwire, Started, cycleVars
  <1>5. SpacesMarked'
    BY Zenon, <1>1, <1>2, BaseNat DEF SpacesMarked, nullptr
  <1> QED BY <1>1, <1>3, <1>4, <1>5 DEF ArenaInv, TypeOK, SpacesType, cycleVars

\* ArenaInv is inductive: every action of the program and of the collector keeps it.
LEMMA NextInv == ArenaInv /\ [Next]_vars => ArenaInv'
  <1> SUFFICES ASSUME ArenaInv, [Next]_vars PROVE ArenaInv'
    OBVIOUS
  <1> USE InvParts
  <1>1. ASSUME NEW a \in Used, NEW n \in Requests, KoreAlloc(a, n) PROVE ArenaInv'
    <2>1. kore_arena_alloc(a, n) /\ UNCHANGED <<cycleVars, live>>
      BY <1>1 DEF KoreAlloc
    <2>2. Layout'
      BY <2>1, AllocLayout
    <2>3. BelowTripwire' /\ time_for_collection' \in BOOLEAN
      BY <2>1, AllocTripwire DEF cycleVars
    <2> QED BY <2>1, <2>2, <2>3 DEF ArenaInv, TypeOK, Layout, SpacesType, cycleVars
  <1>2. CASE KoreClear
    <2>1. /\ "always" \in Used /\ alloc' = arena_clear("always")
          /\ UNCHANGED <<cur, coll, trip, sid, idByte, time_for_collection, cycleVars, live>>
      BY <1>2 DEF KoreClear
    <2>2. Layout'
      BY <2>1, ClearLayout
    <2>3. alloc'["young"] = alloc["young"]
      BY <2>1, UsedAssumption DEF arena_clear, Layout, SpacesType
    <2>4. BelowTripwire'
      BY <2>1, <2>3 DEF BelowTripwire, Started, cycleVars
    <2> QED BY <2>1, <2>2, <2>4 DEF ArenaInv, TypeOK, Layout, SpacesType, cycleVars
  <1>3. CASE DisableGc \/ EnableGc
    <2>1. /\ UNCHANGED <<arenaVars, time_for_collection, only_young, phase, force, left, live>>
          /\ gc_enabled' \in BOOLEAN
      BY Zenon, <1>3 DEF DisableGc, EnableGc
    <2>2. Layout'
      BY <2>1, SameLayout
    <2>3. BelowTripwire'
      BY <2>1 DEF BelowTripwire, Started, arenaVars
    <2> QED BY <2>1, <2>2, <2>3 DEF ArenaInv, TypeOK, Layout, SpacesType
  <1>4. ASSUME NEW forced \in BOOLEAN, CollectBegin(forced) PROVE ArenaInv'
    BY <1>4, CollectBeginInv
  <1>5. ASSUME NEW a \in {"young", "old"}, NEW n \in Requests, Migrate(a, n) PROVE ArenaInv'
    <2>1. /\ kore_arena_alloc(a, n) /\ n <= left /\ left' = left - n
          /\ UNCHANGED <<gc_enabled, only_young, phase, force, live>>
      BY <1>5 DEF Migrate
    <2>2. a \in Used /\ n \in Nat
      BY UsedAssumption, RequestAssumption
    <2>3. Layout'
      BY <2>1, <2>2, AllocLayout
    <2>4. BelowTripwire' /\ time_for_collection' \in BOOLEAN
      BY <2>1, <2>2, AllocTripwire
    <2>5. left' \in Nat
      BY <2>1, <2>2
    <2> QED BY <2>1, <2>3, <2>4, <2>5 DEF ArenaInv, TypeOK, Layout, SpacesType
  <1>6. CASE CollectEnd
    BY <1>6, CollectEndInv
  <1>7. CASE ResetMunmapAllArenas
    BY SMTT(30), <1>7, ResetInv
  <1>8. CASE UNCHANGED vars
    <2>1. Layout'
      BY <1>8, SameLayout DEF vars
    <2>2. BelowTripwire'
      BY <1>8 DEF vars, BelowTripwire, Started, arenaVars, cycleVars
    <2> QED BY <1>8, <2>1, <2>2 DEF ArenaInv, TypeOK, Layout, SpacesType, vars, cycleVars
  <1> QED BY <1>1, <1>2, <1>3, <1>4, <1>5, <1>6, <1>7, <1>8 DEF Next

---------------------------------------------------------------------------
\* Setting the low bits of an address in a hyperblock finds its end: addresses are cut
\* into hyperblocks by division.
LEMMA HyperblockOf ==
  ASSUME NEW n \in Nat, NEW p \in Nat, Hyper * n <= p, p < Hyper * n + Hyper
  PROVE  (p \div Hyper) * Hyper = Hyper * n
  <1> USE SizeAssumption
  <1> DEFINE q == p \div Hyper
  <1>1. q \in Nat /\ Hyper * q <= p /\ p < Hyper * q + Hyper
    OBVIOUS
  <1> HIDE DEF q
  <1>2. ~(q < n)
    <2>1. q < n => Hyper * (q + 1) <= Hyper * n
      BY <1>1
    <2> QED BY <2>1, <1>1
  <1>3. ~(n < q)
    <2>1. n < q => Hyper * (n + 1) <= Hyper * q
      BY <1>1
    <2> QED BY <2>1, <1>1
  <1>4. q = n
    BY SMTT(30), <1>1, <1>2, <1>3
  <1> QED BY <1>4 DEF q

\* The byte that get_arena_semispace_id_of_object reads tells the semispaces apart.
LEMMA InvIdentifies == ArenaInv => SemispaceIdentified
  <1> SUFFICES ASSUME ArenaInv, NEW a \in Used, NEW b \in Base
               PROVE  /\ alloc[a] # nullptr => \A p \in cur[a]..alloc[a] : SemispaceId(p) = sid[a]
                      /\ idByte[b] = sid[a] => cur[a] = b
                      /\ idByte[b] = Complement(sid[a]) <=> coll[a] = b
    BY DEF SemispaceIdentified
  <1> USE InvParts
  <1>1. ASSUME alloc[a] # nullptr, NEW p \in cur[a]..alloc[a]
        PROVE  SemispaceId(p) = sid[a]
    <2>1. /\ cur[a] \in Base /\ cur[a] \in Nat /\ alloc[a] \in Nat
          /\ alloc[a] < cur[a] + Hyper
      BY SMTT(30), <1>1, CurNat DEF Layout, SpacesType, AllocatedInside, Started, nullptr
    <2>2. PICK n \in Nat : cur[a] = Hyper * n
      BY <2>1, SlotAssumption DEF Base, BaseOf
    <2>3. p \in Nat /\ Hyper * n <= p /\ p < Hyper * n + Hyper
      BY <2>1, <2>2, SizeAssumption
    <2>4. (p \div Hyper) * Hyper = cur[a]
      BY <2>2, <2>3, HyperblockOf
    <2> QED BY <2>1, <2>4 DEF SemispaceId, Layout, SpacesMarked
  <1>2. /\ \A c \in Used : cur[c] = b => idByte[b] = sid[c]
        /\ \A c \in Used : coll[c] = b => idByte[b] = Complement(sid[c])
        /\ (\A c \in Used : cur[c] # b /\ coll[c] # b) => idByte[b] = Unmapped
    BY DEF Layout, SpacesMarked
  <1>3. /\ \A c \in Used : sid[c] \in {FirstId[c], Complement(FirstId[c])}
        /\ \A c \in Used : Complement(sid[c]) \in {FirstId[c], Complement(FirstId[c])}
    BY IdsDiffer DEF Layout, SpacesType
  <1>4. \A c \in Used : /\ sid[c] # Unmapped /\ Complement(sid[c]) # Unmapped
                        /\ sid[c] # Complement(sid[c])
    <2> SUFFICES ASSUME NEW c \in Used
                 PROVE  /\ sid[c] # Unmapped /\ Complement(sid[c]) # Unmapped
                        /\ sid[c] # Complement(sid[c])
      OBVIOUS
    <2>1. /\ sid[c] \in {FirstId[c], Complement(FirstId[c])}
          /\ Complement(sid[c]) \in {FirstId[c], Complement(FirstId[c])}
      BY <1>3
    <2>2. \A i \in {FirstId[c], Complement(FirstId[c])} : i # Unmapped /\ i # Complement(i)
      BY IdsDiffer
    <2> QED BY <2>1, <2>2
  <1>5. \A c \in Used : /\ sid[a] = sid[c] \/ sid[a] = Complement(sid[c]) => a = c
                        /\ Complement(sid[a]) = Complement(sid[c]) => a = c
                        /\ Complement(sid[a]) = sid[c] => a = c
    <2>1. ASSUME NEW c \in Used, NEW i \in {FirstId[a], Complement(FirstId[a])},
                 NEW j \in {FirstId[c], Complement(FirstId[c])}
          PROVE  i = j => a = c
      BY IdsDiffer
    <2> QED BY Zenon, <1>3, <2>1
  <1>6. idByte[b] = sid[a] => cur[a] = b
    BY <1>2, <1>4, <1>5
  <1>7. idByte[b] = Complement(sid[a]) <=> coll[a] = b
    BY <1>2, <1>4, <1>5
  <1> QED BY <1>1, <1>6, <1>7

\* Past the bound of update_tripwire, youngspace is past its tripwire.
LEMMA InvRequests == ArenaInv => RequestWhenFull
  <1> SUFFICES ASSUME ArenaInv, phase = "run", ~time_for_collection,
                      SpaceInUse("young") > Max(MinSpace, EXPAND_FACTOR * live)
               PROVE  FALSE
    BY InvParts DEF RequestWhenFull
  <1> USE InvParts
  <1> DEFINE u == Max(MinSpace, EXPAND_FACTOR * live)
  <1>1. u \in Nat
    BY SizeAssumption DEF Max, EXPAND_FACTOR
  <1>2. "young" \in Used /\ cur["young"] \in Nat /\ alloc["young"] \in Nat /\ trip["young"] \in Nat
    BY UsedAssumption, CurNat DEF Layout, SpacesType
  <1>3. CASE Started("young")
    BY <1>1, <1>2, <1>3 DEF BelowTripwire, SpaceInUse
  <1>4. CASE ~Started("young")
    BY <1>1, <1>2, <1>4 DEF Started, Layout, AllocatedInside, SpaceInUse, nullptr
  <1> QED BY <1>3, <1>4

---------------------------------------------------------------------------
\* In every behaviour of the arenas, whatever mmap answers, the invariant holds.
THEOREM ArenaInvariant == Spec => []ArenaInv
  BY InitInv, NextInv, PTL DEF Spec

\* get_arena_semispace_id_of_object identifies the arena and the semispace of every
\* object, which is what migrate_once and the collector's tests rest on.
THEOREM SpacesIdentified == Spec => []SemispaceIdentified
  BY ArenaInvariant, InvIdentifies, PTL

\* youngspace does not grow past twice what survived the last collection without a
\* collection being requested.
THEOREM CollectionRequested == Spec => []RequestWhenFull
  BY ArenaInvariant, InvRequests, PTL

---------------------------------------------------------------------------
(* What a step may not do to a semispace.                                  *)

\* Arena a keeps its semispaces and their ids.
KeepsSpaces(a) ==
  \A b \in {cur[a], coll[a]} \ {nullptr} : b \in {cur'[a], coll'[a]} /\ idByte'[b] = idByte[b]

\* Until reset_munmap_all_arenas a semispace stays with the arena it was mapped for, and
\* keeps the id that was written in it; the current and the collection semispace change
\* roles at the start of a collection and at no other time.
SpacesKept ==
  [][\/ ResetMunmapAllArenas
     \/ \A a \in Used :
          /\ KeepsSpaces(a)
          /\ cur[a] # nullptr /\ cur'[a] # cur[a] => phase = "run" /\ phase' = "collect"]_vars

\* initialize_semispace leaves the ids of the semispaces in use alone.
LEMMA IdsKept ==
  ASSUME Layout, NEW A \in SUBSET Used, NEW m \in Mappings(A), NEW ids \in [Used -> Int],
         WriteIds(m, ids), NEW a \in Used, NEW b \in {cur[a], coll[a]} \ {nullptr}
  PROVE  idByte'[b] = idByte[b]
  <1>1. b \in Base
    BY DEF Layout, SpacesType
  <1>2. \A c \in A : m[c] # b
    BY FreshSpace
  <1> QED BY <1>1, <1>2, IdsWritten

\* kore_arena_alloc maps a semispace only for an arena that has none.
LEMMA AllocKeeps ==
  ASSUME Layout, NEW c \in Used, NEW n \in Requests, kore_arena_alloc(c, n), NEW a \in Used
  PROVE  KeepsSpaces(a) /\ (cur[a] # nullptr => cur'[a] = cur[a])
  <1>1. CASE trip[c] # nullptr
    BY SMTT(30), <1>1 DEF kore_arena_alloc, KeepsSpaces
  <1>2. CASE trip[c] = nullptr
    <2>1. PICK m \in Mappings({c}) :
            cur' = [cur EXCEPT ![c] = m[c]] /\ WriteIds(m, sid) /\ coll' = coll
      BY SMTT(30), <1>2 DEF kore_arena_alloc
    <2>2. cur[c] = nullptr /\ coll[c] = nullptr
      BY <1>2 DEF Layout, AllocatedInside, Started
    <2>3. sid \in [Used -> Int]
      BY DEF Layout, SpacesType
    <2>4. \A b \in {cur[a], coll[a]} \ {nullptr} : idByte'[b] = idByte[b]
      BY <2>1, <2>3, IdsKept
    <2>5. cur[a] # nullptr => cur'[a] = cur[a]
      BY SMTT(30), <2>1, <2>2 DEF Layout, SpacesType
    <2> QED BY SMTT(30), <2>1, <2>4, <2>5 DEF KeepsSpaces
  <1> QED BY <1>1, <1>2

\* arena_swap_and_clear exchanges the two semispaces of an arena and maps the missing one.
LEMMA SwapKeeps ==
  ASSUME Layout, NEW A \in SUBSET Used, arena_swap_and_clear(A), NEW a \in Used
  PROVE  KeepsSpaces(a)
  <1> DEFINE N == {c \in A : coll[c] = nullptr}
             new(m) == [c \in A |-> IF coll[c] = nullptr THEN m[c] ELSE coll[c]]
             ids == [c \in Used |-> IF c \in A THEN NewId(c) ELSE sid[c]]
  <1>1. PICK m \in Mappings(N) :
          /\ cur' = [c \in Used |-> IF c \in A THEN new(m)[c] ELSE cur[c]]
          /\ coll' = [c \in Used |-> IF c \in A THEN cur[c] ELSE coll[c]]
          /\ WriteIds(m, ids)
    BY Zenon DEF arena_swap_and_clear
  <1>2. ids \in [Used -> Int]
    <2>1. \A c \in Used : sid[c] \in Int /\ NewId(c) \in Int
      BY SMTT(30) DEF Layout, SpacesType, NewId, Complement
    <2> QED BY <2>1
  <1>3. \A b \in {cur[a], coll[a]} \ {nullptr} : idByte'[b] = idByte[b]
    BY SMTT(30), <1>1, <1>2, IdsKept
  <1>4. \A b \in {cur[a], coll[a]} \ {nullptr} : b \in {cur'[a], coll'[a]}
    BY <1>1
  <1> QED BY <1>3, <1>4 DEF KeepsSpaces

\* A semispace stays with its arena, under the id that was written in it, and changes its
\* role only when a collection starts, until reset_munmap_all_arenas.
THEOREM SpacesStay == Spec => SpacesKept
  <1> DEFINE Kept(a) == /\ KeepsSpaces(a)
                        /\ cur[a] # nullptr /\ cur'[a] # cur[a] => phase = "run" /\ phase' = "collect"
  <1>1. ASSUME ArenaInv, Next, ~ResetMunmapAllArenas, NEW a \in Used PROVE Kept(a)
    <2>1. Layout
      BY SMTT(30), <1>1, InvParts
    <2>2. ASSUME NEW c \in Used, NEW n \in Requests, kore_arena_alloc(c, n) PROVE Kept(a)
      BY <2>1, <2>2, AllocKeeps
    <2>3. ASSUME NEW forced \in BOOLEAN, CollectBegin(forced) PROVE Kept(a)
      <3>1. PICK A \in SUBSET Used : arena_swap_and_clear(A)
        <4>1. {"young", "old"} \subseteq Used /\ {"young"} \subseteq Used
          BY UsedAssumption
        <4> QED BY <2>3, <4>1 DEF CollectBegin
      <3>2. phase = "run" /\ phase' = "collect"
        BY <2>3 DEF CollectBegin
      <3> QED BY <2>1, <3>1, <3>2, SwapKeeps
    <2>4. ASSUME UNCHANGED <<cur, coll, idByte>> PROVE Kept(a)
      BY <2>4 DEF KeepsSpaces
    <2>5. ASSUME NEW c \in Used, NEW n \in Requests, KoreAlloc(c, n) PROVE Kept(a)
      BY <2>2, <2>5 DEF KoreAlloc
    <2>6. ASSUME NEW c \in {"young", "old"}, NEW n \in Requests, Migrate(c, n) PROVE Kept(a)
      BY <2>2, <2>6, UsedAssumption DEF Migrate
    <2>7. ASSUME KoreClear \/ DisableGc \/ EnableGc \/ CollectEnd PROVE Kept(a)
      BY <2>4, <2>7 DEF KoreClear, DisableGc, EnableGc, CollectEnd, arenaVars
    <2> QED BY <1>1, <2>3, <2>5, <2>6, <2>7 DEF Next
  <1>2. ArenaInv /\ [Next]_vars => [ResetMunmapAllArenas \/ \A a \in Used : Kept(a)]_vars
    BY <1>1
  <1> QED BY <1>2, ArenaInvariant, PTL DEF SpacesKept, Spec
=============================================================================
