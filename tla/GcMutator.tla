---------------------------- MODULE GcMutator -----------------------------
(*************************************************************************)
(* What generated code and the hooks do with memory between two rewrite  *)
(* steps.  Registers are the arguments of the step function.             *)
(*************************************************************************)
EXTENDS GcHeap

\* init_with_len and the block headers of generated code: a fresh object is
\* young, unless it is a token too big for the young generation.
InitHeaders(small, big) ==
  /\ old' = (old \ small) \cup big
  /\ age' = (age \ small) \cup big
  /\ fwd' = fwd \ (small \cup big)

\* n nodes are built, of which y objects go to youngspace and o to oldspace.
Allocate(n, y, o) ==
  /\ Running
  /\ size + n <= MaxNodes
  /\ ytop + n <= Cap
  /\ otop + n <= Cap
  /\ size' = size + n
  /\ ytop' = ytop + y
  /\ otop' = otop + o
  /\ UNCHANGED <<spaceVars, cycleVars, phase, scan, fld, trav, iter>>

\* The values generated code has at hand.
Values == Const \cup {Root(r) : r \in Register}

---------------------------------------------------------------------------
(* Building terms.                                                       *)

\* A term with children (create_term: allocate_term, header, children).
NewBlock(r, x, y) ==
  /\ "sym" \in Features
  /\ Allocate(1, 1, 0)
  /\ InitHeaders({Young(1)}, {})
  /\ kind' = [kind EXCEPT ![Young(1)] = "sym"]
  /\ id' = [id EXCEPT ![Young(1)] = Name(1)]
  /\ fst' = [fst EXCEPT ![Young(1)] = x, ![RootSlot(r)] = Young(1)]
  /\ snd' = [snd EXCEPT ![Young(1)] = y]
  /\ nkind' = [nkind EXCEPT ![Name(1)] = "sym"]
  /\ nfst' = [nfst EXCEPT ![Name(1)] = Id(x)]
  /\ nsnd' = [nsnd EXCEPT ![Name(1)] = Id(y)]

\* A string token; kore_alloc_token puts one bigger than BLOCK_SIZE in oldspace.
NewString(r, big) ==
  LET a == IF big THEN Old(1) ELSE Young(1) IN
  /\ "str" \in Features
  /\ IF big THEN Allocate(1, 0, 1) ELSE Allocate(1, 1, 0)
  /\ IF big THEN InitHeaders({}, {a}) ELSE InitHeaders({a}, {})
  /\ kind' = [kind EXCEPT ![a] = "str"]
  /\ id' = [id EXCEPT ![a] = Name(1)]
  /\ fst' = [fst EXCEPT ![a] = Nil, ![RootSlot(r)] = a]
  /\ snd' = [snd EXCEPT ![a] = Nil]
  /\ nkind' = [nkind EXCEPT ![Name(1)] = "str"]
  /\ nfst' = [nfst EXCEPT ![Name(1)] = Nil]
  /\ nsnd' = [nsnd EXCEPT ![Name(1)] = Nil]

\* An integer and its limbs, or a buffer and its contents (or a float and its limbs).
NewOwner(r, k, big) ==
  LET c == IF big THEN Old(1) ELSE Young(1)
      a == IF big THEN Young(1) ELSE Young(2) IN
  /\ k \in Features
  /\ IF big THEN Allocate(2, 1, 1) ELSE Allocate(2, 2, 0)
  /\ IF big THEN InitHeaders({a}, {c}) ELSE InitHeaders({a, c}, {})
  /\ kind' = [kind EXCEPT ![c] = "tok", ![a] = k]
  /\ id' = [id EXCEPT ![c] = Name(1), ![a] = Name(2)]
  /\ fst' = [fst EXCEPT ![c] = Nil, ![a] = c, ![RootSlot(r)] = a]
  /\ snd' = [snd EXCEPT ![c] = Nil, ![a] = Nil]
  /\ nkind' = [nkind EXCEPT ![Name(1)] = "tok", ![Name(2)] = k]
  /\ nfst' = [nfst EXCEPT ![Name(2)] = Name(1)]
  /\ nsnd' = [nsnd EXCEPT ![Name(2)] = Nil]

\* A one-element collection: its node (kore_alloc_heap) and the block that
\* holds it (kore_alloc_collection).
NewCollection(r, x, y) ==
  /\ "coll" \in Features
  /\ KindAt(x) \in Items
  /\ Allocate(2, 2, 0)
  /\ InitHeaders({Young(1), Young(2)}, {})
  /\ kind' = [kind EXCEPT ![Young(1)] = "leaf", ![Young(2)] = "coll"]
  /\ id' = [id EXCEPT ![Young(1)] = Name(1), ![Young(2)] = Name(2)]
  /\ fst' = [fst EXCEPT ![Young(1)] = x, ![Young(2)] = Young(1), ![RootSlot(r)] = Young(2)]
  /\ snd' = [snd EXCEPT ![Young(1)] = x, ![Young(2)] = y]
  /\ nkind' = [nkind EXCEPT ![Name(1)] = "leaf", ![Name(2)] = "coll"]
  /\ nfst' = [nfst EXCEPT ![Name(1)] = Id(x), ![Name(2)] = Name(1)]
  /\ nsnd' = [nsnd EXCEPT ![Name(1)] = Id(x), ![Name(2)] = Id(y)]

\* A persistent update (hook_MAP_update, ...): the nodes of the old collection
\* are shared with the new one.
ExtendCollection(r, s, x) ==
  LET c == Root(s) IN
  /\ "coll" \in Features
  /\ KindAt(c) = "coll"
  /\ KindAt(x) \in Items
  /\ Allocate(3, 3, 0)
  /\ InitHeaders({Young(1), Young(2), Young(3)}, {})
  /\ kind' = [kind EXCEPT ![Young(1)] = "leaf", ![Young(2)] = "inner", ![Young(3)] = "coll"]
  /\ id' = [id EXCEPT ![Young(1)] = Name(1), ![Young(2)] = Name(2), ![Young(3)] = Name(3)]
  /\ fst' = [fst EXCEPT ![Young(1)] = x, ![Young(2)] = Young(1), ![Young(3)] = Young(2),
                        ![RootSlot(r)] = Young(3)]
  /\ snd' = [snd EXCEPT ![Young(1)] = x, ![Young(2)] = fst[c], ![Young(3)] = snd[c]]
  /\ nkind' = [nkind EXCEPT ![Name(1)] = "leaf", ![Name(2)] = "inner", ![Name(3)] = "coll"]
  /\ nfst' = [nfst EXCEPT ![Name(1)] = Id(x), ![Name(2)] = Name(1), ![Name(3)] = Name(2)]
  /\ nsnd' = [nsnd EXCEPT ![Name(1)] = Id(x), ![Name(2)] = Id(fst[c]), ![Name(3)] = Id(snd[c])]

\* hook_BUFFER_concat_raw, when the contents have room: written in place.
BufferAppend(s) ==
  LET b == Root(s) IN
  /\ KindAt(b) = "buf"
  /\ Allocate(1, 0, 0)
  /\ id' = [id EXCEPT ![fst[b]] = Name(1)]
  /\ nkind' = [nkind EXCEPT ![Name(1)] = "tok"]
  /\ nfst' = [nfst EXCEPT ![id[b]] = Name(1)]
  /\ UNCHANGED <<kind, hdrVars, fst, snd, nsnd>>

\* Mutant: the generation of the buffer is not looked at.
ContentsInOld_Size(b, big) == big

\* Where new contents of buffer b go: kore_alloc_token_old for an old buffer.
ContentsInOld(b, big) == b \in old \/ big

\* hook_BUFFER_concat_raw, when they have not: the buffer is updated in place to
\* point to new contents, which must not be younger than the buffer.
BufferGrow(s, big) ==
  LET b == Root(s)
      inOld == ContentsInOld(b, big)
      c == IF inOld THEN Old(1) ELSE Young(1) IN
  /\ KindAt(b) = "buf"
  /\ IF inOld THEN Allocate(1, 0, 1) ELSE Allocate(1, 1, 0)
  /\ IF big THEN InitHeaders({}, {c}) ELSE InitHeaders({c}, {})
  /\ kind' = [kind EXCEPT ![c] = "tok"]
  /\ id' = [id EXCEPT ![c] = Name(1)]
  /\ fst' = [fst EXCEPT ![c] = Nil, ![b] = c]
  /\ snd' = [snd EXCEPT ![c] = Nil]
  /\ nkind' = [nkind EXCEPT ![Name(1)] = "tok"]
  /\ nfst' = [nfst EXCEPT ![id[b]] = Name(1)]
  /\ UNCHANGED nsnd

---------------------------------------------------------------------------
(* Operations that only read the heap.                                   *)


SetRoot(r, p) ==
  /\ fst' = [fst EXCEPT ![RootSlot(r)] = p]
  /\ UNCHANGED <<kind, id, hdrVars, snd, topVars, spaceVars, cycleVars, phase, scan, fld, trav,
                 iter, nodeVars>>

SetIter(p) ==
  /\ iter' = p
  /\ UNCHANGED <<memVars, topVars, spaceVars, cycleVars, phase, scan, fld, trav, nodeVars>>

\* Pattern matching reads a child of a term (function_node / switch_node codegen).
Project(r, s, i) ==
  /\ Running
  /\ \/ KindAt(Root(s)) = "sym"
     \/ KindAt(Root(s)) = "coll" /\ i = 2
  /\ SetRoot(r, Field(Root(s), i))

\* A static root (a search state, an FFI key) is assigned, or a register copied.
Move(r, s) == Running /\ SetRoot(r, Root(s))

Forget(r) == Running /\ SetRoot(r, Nil)

\* A map or set iterator; step_function_header aborts on a rule that would keep
\* one across a step, so iterators are never roots.
IterBegin(s) == Running /\ KindAt(Root(s)) = "coll" /\ SetIter(fst[Root(s)])

IterDescend(i) == Running /\ KindAt(iter) = "inner" /\ SetIter(Field(iter, i))
IterElement(r, i) == Running /\ KindAt(iter) = "leaf" /\ SetRoot(r, Field(iter, i))

---------------------------------------------------------------------------
Build == \E r \in Register :
  \/ \E x, y \in Values : NewBlock(r, x, y) \/ NewCollection(r, x, y)
  \/ \E big \in BOOLEAN : NewString(r, big)
  \/ \E k \in {"int", "buf"}, big \in BOOLEAN : NewOwner(r, k, big)
  \/ \E s \in Register, x \in Values : ExtendCollection(r, s, x)

Append_ == \E s \in Register : BufferAppend(s) \/ \E big \in BOOLEAN : BufferGrow(s, big)

Read ==
  \/ \E r, s \in Register : Move(r, s) \/ \E i \in 1..2 : Project(r, s, i)
  \/ \E r \in Register : Forget(r) \/ \E i \in 1..2 : IterElement(r, i)
  \/ \E s \in Register : IterBegin(s)
  \/ \E i \in 1..2 : IterDescend(i)

Mutator == Build \/ Append_ \/ Read
===========================================================================
