---------------------------- MODULE GcMigrate -----------------------------
(*************************************************************************)
(* The migrate functions of runtime/collect.  A copied object's forwarding *)
(* address overwrites a field, as it does in the code.                   *)
(*************************************************************************)
EXTENDS GcHeap

---------------------------------------------------------------------------
(* Headers (include/runtime/types.h, include/runtime/collect.h).         *)

is_in_young_gen_hdr(a) == a \notin old
is_in_old_gen_hdr(a) == a \in old /\ a \in age

\* Mutant: the old generation is swapped but its objects are not migrated.
MustMigrate_Young(a) == is_in_young_gen_hdr(a)

\* INITIALIZE_MIGRATE: objects of neither generation stay where they are, and
\* so does the old generation when only the young one is collected.
MustMigrate(a) == is_in_young_gen_hdr(a) \/ (is_in_old_gen_hdr(a) /\ collect_old)

\* Mutant: blocks are promoted at once, their tokens at their second collection.
shouldPromote_Blocks(a) == is_in_young_gen_hdr(a) /\ (a \in age \/ kind[a] = "sym")

shouldPromote(a) == is_in_young_gen_hdr(a) /\ a \in age
ToOldSpace(a) == shouldPromote(a) \/ (is_in_old_gen_hdr(a) /\ collect_old)
SetBit(S, a, b) == IF b THEN S \cup {a} ELSE S \ {a}

\* Mutant: copies are not aged.
MigratedAge_Never(p, d) == SetBit(age, d, p \in age)

\* MIGRATE_HEADER: promotion marks the copy d of p as old, anything else as aged.
MigratedOld(p, d) == SetBit(old, d, p \in old \/ shouldPromote(p))

MigratedAge(p, d) == SetBit(age, d, p \in age \/ ~shouldPromote(p))

---------------------------------------------------------------------------
(* Copying.                                                              *)

Target(p) == IF ToOldSpace(p) THEN Old(1) ELSE Young(1)
Stays(p) == IF p \in Const THEN TRUE ELSE ~MustMigrate(p)
NewPtr(p) == IF Stays(p) THEN p ELSE IF p \in fwd THEN Forwarded(p) ELSE Target(p)

\* The object was already copied: only field i of the object at a changes.
FollowForward(a, i, p) ==
  /\ fst' = IF i = 1 THEN [fst EXCEPT ![a] = Forwarded(p)] ELSE fst
  /\ snd' = IF i = 2 THEN [snd EXCEPT ![a] = Forwarded(p)] ELSE snd
  /\ UNCHANGED <<kind, id, hdrVars, topVars>>

\* migrate, migrate_collection_node: copy the object, age or promote the copy and
\* leave the forwarding address in the first field of the original.
CopyBlock(a, i, p) ==
  LET d == Target(p) IN
  /\ IF ToOldSpace(p) THEN otop < Cap ELSE ytop < Cap
  /\ otop' = IF ToOldSpace(p) THEN otop + 1 ELSE otop
  /\ ytop' = IF ToOldSpace(p) THEN ytop ELSE ytop + 1
  /\ kind' = [kind EXCEPT ![d] = kind[p]]
  /\ id' = [id EXCEPT ![d] = id[p]]
  /\ old' = MigratedOld(p, d)
  /\ age' = MigratedAge(p, d)
  /\ fwd' = (fwd \ {d}) \cup {p}
  /\ fst' = [fst EXCEPT ![d] = fst[p], ![p] = d, ![a] = IF i = 1 THEN d ELSE @]
  /\ snd' = [snd EXCEPT ![d] = snd[p], ![a] = IF i = 2 THEN d ELSE @]

\* migrate_mpz, migrate_floating, migrate_string_buffer: the payload is copied with
\* its owner, header and all; kore_alloc_token sends a big payload to oldspace.  The
\* forwarding address goes into an integer itself, and into the payload of a buffer or a
\* float ("buf" stands for both).
CopyOwner(a, i, p) ==
  LET c == fst[p]
      d == Target(p)
      e == IF ToOldSpace(p) THEN Old(2) ELSE IF c \in old THEN Old(1) ELSE Young(2)
      w == IF kind[p] = "buf" THEN c ELSE p IN
  /\ ytop + 2 <= Cap /\ otop + 2 <= Cap
  /\ otop' = IF ToOldSpace(p) THEN otop + 2 ELSE IF c \in old THEN otop + 1 ELSE otop
  /\ ytop' = IF ToOldSpace(p) THEN ytop ELSE IF c \in old THEN ytop + 1 ELSE ytop + 2
  /\ kind' = [kind EXCEPT ![d] = kind[p], ![e] = kind[c]]
  /\ id' = [id EXCEPT ![d] = id[p], ![e] = id[c]]
  /\ old' = SetBit(MigratedOld(p, d), e, c \in old)
  /\ age' = SetBit(MigratedAge(p, d), e, c \in age)
  /\ fwd' = (fwd \ {d, e}) \cup {p}
  /\ fst' = [fst EXCEPT ![d] = e, ![e] = fst[c], ![w] = d, ![a] = IF i = 1 THEN d ELSE @]
  /\ snd' = [snd EXCEPT ![d] = snd[p], ![e] = snd[c], ![a] = IF i = 2 THEN d ELSE @]

\* Mutant: hasForwardingAddress is not looked at.
Migrate_Again(a, i) ==
  LET p == Field(a, i) IN
  \/ Stays(p) /\ UNCHANGED <<memVars, topVars>>
  \/ ~Stays(p) /\ kind[p] \notin {"int", "buf"} /\ CopyBlock(a, i, p)
  \/ ~Stays(p) /\ kind[p] \in {"int", "buf"} /\ CopyOwner(a, i, p)

\* A call of a migrate function on field i of the object at a.
Migrate(a, i) ==
  LET p == Field(a, i) IN
  \/ Stays(p) /\ UNCHANGED <<memVars, topVars>>
  \/ ~Stays(p) /\ p \in fwd /\ FollowForward(a, i, p)
  \/ ~Stays(p) /\ p \notin fwd /\ kind[p] \notin {"int", "buf"} /\ CopyBlock(a, i, p)
  \/ ~Stays(p) /\ p \notin fwd /\ kind[p] \in {"int", "buf"} /\ CopyOwner(a, i, p)

\* Collection nodes are shared and not scanned: their slots are visited anew for every
\* block that reaches them.  Only a pointer into a collection semispace
\* (get_arena_semispace_id_of_object) is migrated.
InCollectionSpace(p) == SpaceOf(p) \in {Other(yid), Other(oid)}

OnceStays(p) == p \in Const \/ ~InCollectionSpace(p)

\* migrate_once, migrate_collection_node
MigrateOnce(a, i) ==
  IF OnceStays(Field(a, i)) THEN UNCHANGED <<memVars, topVars>> ELSE Migrate(a, i)

OncePtr(p) == IF OnceStays(p) THEN p ELSE NewPtr(p)
NodeSlots(p) == IF p \in Const THEN {} ELSE {p} \X (1..2)
===========================================================================
