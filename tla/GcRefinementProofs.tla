------------------------- MODULE GcRefinementProofs -------------------------
(***************************************************************************)
(* The operations of generated code, and the start of a collection, are    *)
(* steps of TermStore under the mapping of GcStore.                        *)
(***************************************************************************)
EXTENDS GcMutatorProofs, GcStore

Reg == [r \in Register |-> Id(Root(r))]

\* At first the store is empty and the registers hold the constant.
LEMMA RefinesInit == Init => T!Init
<1> SUFFICES ASSUME Init PROVE T!Init
  BY Zenon
<1>1. \A r \in Register : Id(Root(r)) = Nil
  BY Zenon, RootFacts, PtrFacts DEF Init, Root, Id
<1>2. Id(iter) = Nil
  BY Zenon, PtrFacts DEF Init, Id
<1> QED BY Zenon, <1>1, <1>2 DEF Init, T!Init

\* A name stands for the node an allocated object represents.
LEMMA NameOf ==
  ASSUME RunInv, NEW p \in Ptr, p \in Const \/ (p \in Addr /\ Allocated(p))
  PROVE  /\ T!KindOf(Id(p)) = KindAt(p)
         /\ p \notin Const => Id(p) = id[p] /\ id[p] \in 1..size /\ id[p] \notin Const /\ kind[p] # "root"
         /\ \A i \in 1..2 : KindAt(p) \notin {"const", "tok"} => T!Child(Id(p), i) = Id(Field(p, i))
<1>1. CASE p \in Const
  BY Zenon, <1>1 DEF T!KindOf, Id, KindAt
<1>2. CASE p \notin Const
  <2>1. id[p] \in 1..size /\ nkind[id[p]] = kind[p] /\ id[p] \in Nat /\ kind[p] # "root"
    <3>1. yid # "R" /\ oid # "R"
      BY Zenon, SpaceFacts DEF RunInv, TypeOK, ControlType
    <3> QED BY <1>2, <3>1 DEF RunInv, RunNames, TypeOK, MemoryType, NodeType, RunLayout, Allocated
  <2>2. id[p] \notin Const /\ Id(p) = id[p] /\ KindAt(p) = kind[p]
    BY Zenon, <1>2, <2>1, ConstNotAddr DEF Id, KindAt
  <2>3. ASSUME NEW i \in 1..2, kind[p] # "tok"
        PROVE  Id(Field(p, i)) = T!Child(id[p], i)
    <3>1. RunField(p, i)
      BY Zenon, <1>2, <2>3 DEF RunInv, RunFields
    <3> QED BY Zenon, <2>1, <3>1 DEF RunField, NodeField, T!Child
  <2> QED BY Zenon, <1>2, <2>1, <2>2, <2>3 DEF T!KindOf
<1> QED BY Zenon, <1>1, <1>2

\* The names of what registers and the iterator hold, when objects keep their names.
LEMMA NamesKept ==
  ASSUME RunInv, \A a \in Addr : Allocated(a) => id'[a] = id[a],
         NEW p \in Ptr, p \in Const \/ (p \in Addr /\ Allocated(p))
  PROVE  Id(p)' = Id(p)
BY Zenon DEF Id

\* The registers after one of them is set.
LEMMA RegSet ==
  ASSUME RunInv, \A a \in Addr : Allocated(a) => id'[a] = id[a], iter' = iter, NEW r \in Register,
         \A q \in Register : q # r => fst'[RootSlot(q)] = fst[RootSlot(q)]
  PROVE  /\ Reg' = [Reg EXCEPT ![r] = Id(Root(r))']
         /\ Id(iter)' = Id(iter)
<1>1. iter \in Ptr /\ (iter \in Const \/ (iter \in Addr /\ Allocated(iter)))
  BY Zenon DEF RunInv, RunControl, TypeOK, ControlType
<1>2. Id(iter)' = Id(iter)
  BY Zenon, <1>1 DEF Id
<1>3. \A q \in Register : q # r => Id(Root(q))' = Id(Root(q))
  <2> SUFFICES ASSUME NEW q \in Register, q # r PROVE Id(Root(q))' = Id(Root(q))
    BY Zenon
  <2>1. PICK p : p = Root(q)
    BY Zenon
  <2>2. p \in Ptr /\ (p \in Const \/ (p \in Addr /\ Allocated(p)))
    BY Zenon, <2>1, ValueOK DEF Values
  <2>3. Root(q)' = p
    BY Zenon, <2>1 DEF Root
  <2>4. Id(p)' = Id(p)
    BY Zenon, <2>2 DEF Id
  <2> QED BY Zenon, <2>1, <2>3, <2>4
<1> QED BY Zenon, <1>2, <1>3 DEF Reg

\* The objects of N are new, and only register r changes.
Added(N, r) ==
  /\ \A a \in N : ~Allocated(a) /\ SpaceOf(a) # "R"
  /\ \A b \in Addr \ N : id'[b] = id[b] /\ (b # RootSlot(r) => fst'[b] = fst[b])

\* Register r is given the name n; the iterator stays.
Given(r, n) == Reg' = [Reg EXCEPT ![r] = n] /\ Id(iter)' = Id(iter)

\* The registers after objects are built: r holds the name of the object v.
LEMMA RegBuilt ==
  ASSUME RunInv, NEW N \in SUBSET Addr, NEW r \in Register, Added(N, r),
         NEW v \in N, fst'[RootSlot(r)] = v, iter' = iter
  PROVE  Given(r, id'[v])
<1> USE DEF Added
<1>1. \A q \in Register : /\ RootSlot(q) \in Addr \ N
                          /\ RootSlot(q) = RootSlot(r) => q = r
  BY Zenon, RootFacts
<1>2. \A q \in Register : q # r => fst'[RootSlot(q)] = fst[RootSlot(q)]
  BY Zenon, <1>1
<1>3. \A b \in Addr : Allocated(b) => id'[b] = id[b]
  BY Zenon
<1>4. Id(Root(r))' = id'[v]
  BY Zenon, PtrFacts DEF Id, Root
<1> QED BY Zenon, <1>2, <1>3, <1>4, RegSet DEF Given

\* create_term builds a block.
LEMMA RefinesNewBlock ==
  ASSUME RunInv, NEW r \in Register, NEW x \in Values, NEW y \in Values, NewBlock(r, x, y)
  PROVE  T!NewBlock(r, Id(x), Id(y))
<1>1. PICK a, n : a = Young(1) /\ n = Name(1)
  BY Zenon
<1>2. TypeOK /\ Allocate(1, 1, 0)
  BY Zenon DEF NewBlock, RunInv
<1>3. a \in Addr /\ ~Allocated(a) /\ SpaceOf(a) # "R" /\ RootSlot(r) \in Addr
  BY <1>1, <1>2, AllocatedAfter, AllocateType, YoungFacts, SpaceFacts, RootFacts DEF TypeOK, ControlType
<1>4. /\ id' = [id EXCEPT ![a] = n]
      /\ fst' = [fst EXCEPT ![a] = x, ![RootSlot(r)] = a]
      /\ nkind' = [nkind EXCEPT ![n] = "sym"]
      /\ nfst' = [nfst EXCEPT ![n] = Id(x)]
      /\ nsnd' = [nsnd EXCEPT ![n] = Id(y)]
      /\ size + 1 <= MaxNodes /\ size' = size + 1 /\ iter' = iter
  BY Zenon, <1>1, <1>2 DEF NewBlock, Allocate
<1>5. /\ \A b \in Addr \ {a} : id'[b] = id[b] /\ (b # RootSlot(r) => fst'[b] = fst[b])
      /\ id'[a] = n /\ fst'[RootSlot(r)] = a
  BY Zenon, <1>2, <1>3, <1>4 DEF TypeOK, MemoryType
<1>6. Given(r, n)
  <2> DEFINE N == {a}
  <2>1. /\ N \in SUBSET Addr /\ a \in N
        /\ Added(N, r)
    BY Zenon, <1>3, <1>5 DEF Added
  <2>2. iter' = iter
    BY Zenon, <1>4
  <2> HIDE DEF N
  <2> QED BY Zenon, <1>5, <2>1, <2>2, RegBuilt
<1> QED BY Zenon, <1>1, <1>4, <1>6 DEF T!NewBlock, T!Add, T!Fresh, Name, Reg, Given

\* A string token, of either generation.
LEMMA RefinesNewString ==
  ASSUME RunInv, NEW r \in Register, NEW big \in BOOLEAN, NewString(r, big)
  PROVE  T!NewString(r)
<1>1. PICK a, n : a = (IF big THEN Old(1) ELSE Young(1)) /\ n = Name(1)
  BY Zenon
<1>2. TypeOK /\ (big => Allocate(1, 0, 1)) /\ (~big => Allocate(1, 1, 0))
  BY Zenon DEF NewString, RunInv
<1>3. a \in Addr /\ ~Allocated(a) /\ SpaceOf(a) # "R" /\ RootSlot(r) \in Addr
  <2>1. ytop + 1 <= Cap /\ otop + 1 <= Cap
    BY <1>2, AllocateType
  <2>2. yid # "R" /\ oid # "R"
    BY Zenon, <1>2, SpaceFacts DEF TypeOK, ControlType
  <2>3. a \in Addr /\ SpaceOf(a) # "R"
    BY <1>1, <1>2, <2>1, <2>2, YoungFacts, OldFacts
  <2> QED BY <1>1, <1>2, <2>3, AllocatedAfter, RootFacts
<1>4. /\ id' = [id EXCEPT ![a] = n]
      /\ fst' = [fst EXCEPT ![a] = Nil, ![RootSlot(r)] = a]
      /\ nkind' = [nkind EXCEPT ![n] = "str"]
      /\ nfst' = [nfst EXCEPT ![n] = Nil]
      /\ nsnd' = [nsnd EXCEPT ![n] = Nil]
      /\ size + 1 <= MaxNodes /\ size' = size + 1 /\ iter' = iter
  BY Zenon, <1>1, <1>2 DEF NewString, Allocate
<1>5. /\ \A b \in Addr \ {a} : id'[b] = id[b] /\ (b # RootSlot(r) => fst'[b] = fst[b])
      /\ id'[a] = n /\ fst'[RootSlot(r)] = a
  BY Zenon, <1>2, <1>3, <1>4 DEF TypeOK, MemoryType
<1>6. Given(r, n)
  <2> DEFINE N == {a}
  <2>1. /\ N \in SUBSET Addr /\ a \in N
        /\ Added(N, r)
    BY Zenon, <1>3, <1>5 DEF Added
  <2>2. iter' = iter
    BY Zenon, <1>4
  <2> HIDE DEF N
  <2> QED BY Zenon, <1>5, <2>1, <2>2, RegBuilt
<1> QED BY Zenon, <1>1, <1>4, <1>6 DEF T!NewString, T!Add, T!Fresh, Name, Reg, Given

\* An integer or a buffer with its payload.
LEMMA RefinesNewOwner ==
  ASSUME RunInv, NEW r \in Register, NEW k \in {"int", "buf"}, NEW big \in BOOLEAN, NewOwner(r, k, big)
  PROVE  T!NewOwner(r, k)
<1>1. PICK c, a, n, m : /\ c = (IF big THEN Old(1) ELSE Young(1)) /\ a = (IF big THEN Young(1) ELSE Young(2))
                        /\ n = Name(1) /\ m = Name(2)
  BY Zenon
<1>2. TypeOK /\ (big => Allocate(2, 1, 1)) /\ (~big => Allocate(2, 2, 0))
  BY Zenon DEF NewOwner, RunInv
<1>3. /\ a \in Addr /\ ~Allocated(a) /\ SpaceOf(a) # "R" /\ RootSlot(r) \in Addr
      /\ c \in Addr /\ ~Allocated(c) /\ SpaceOf(c) # "R" /\ a # c
  <2>1. ytop + 1 <= Cap /\ ytop + 2 <= Cap /\ otop + 1 <= Cap /\ ytop \in Nat
    BY <1>2, AllocateType, CapAssumption DEF TypeOK, MemoryType
  <2>2. yid # "R" /\ oid # "R" /\ yid # oid
    BY Zenon, <1>2, SpaceFacts DEF TypeOK, ControlType
  <2>3. /\ Young(1) \in Addr /\ SpaceOf(Young(1)) = yid /\ Index(Young(1)) = ytop + 1
        /\ Young(2) \in Addr /\ SpaceOf(Young(2)) = yid /\ Index(Young(2)) = ytop + 2
        /\ Old(1) \in Addr /\ SpaceOf(Old(1)) = oid
    BY <1>2, <2>1, YoungFacts, OldFacts
  <2>4. ytop + 1 # ytop + 2
    BY <2>1
  <2> QED BY SMTT(30), <1>1, <1>2, <2>2, <2>3, <2>4, AllocatedAfter, RootFacts
<1>4. /\ id' = [id EXCEPT ![c] = n, ![a] = m]
      /\ fst' = [fst EXCEPT ![c] = Nil, ![a] = c, ![RootSlot(r)] = a]
      /\ nkind' = [nkind EXCEPT ![n] = "tok", ![m] = k]
      /\ nfst' = [nfst EXCEPT ![m] = n]
      /\ nsnd' = [nsnd EXCEPT ![m] = Nil]
      /\ size + 2 <= MaxNodes /\ size' = size + 2 /\ iter' = iter
  BY Zenon, <1>1, <1>2 DEF NewOwner, Allocate
<1>5. /\ \A b \in Addr \ {a, c} : id'[b] = id[b] /\ (b # RootSlot(r) => fst'[b] = fst[b])
      /\ id'[a] = m /\ fst'[RootSlot(r)] = a
  BY Zenon, <1>2, <1>3, <1>4 DEF TypeOK, MemoryType
<1>6. Given(r, m)
  <2> DEFINE N == {a, c}
  <2>1. /\ N \in SUBSET Addr /\ a \in N
        /\ Added(N, r)
    BY Zenon, <1>3, <1>5 DEF Added
  <2>2. iter' = iter
    BY Zenon, <1>4
  <2> HIDE DEF N
  <2> QED BY Zenon, <1>5, <2>1, <2>2, RegBuilt
<1> QED BY Zenon, <1>1, <1>4, <1>6 DEF T!NewOwner, T!Add, T!Fresh, Name, Reg, Given

\* A collection of one element.
LEMMA RefinesNewCollection ==
  ASSUME RunInv, NEW r \in Register, NEW x \in Values, NEW y \in Values, NewCollection(r, x, y)
  PROVE  T!NewCollection(r, Id(x), Id(y))
<1>1. PICK a, b, n, m : a = Young(1) /\ b = Young(2) /\ n = Name(1) /\ m = Name(2)
  BY Zenon
<1>2. TypeOK /\ Allocate(2, 2, 0)
  BY Zenon DEF NewCollection, RunInv
<1>3. /\ a \in Addr /\ ~Allocated(a) /\ SpaceOf(a) # "R" /\ RootSlot(r) \in Addr
      /\ b \in Addr /\ ~Allocated(b) /\ SpaceOf(b) # "R" /\ a # b
  <2>1. ytop + 1 <= Cap /\ ytop + 2 <= Cap /\ ytop \in Nat
    BY <1>2, AllocateType, CapAssumption DEF TypeOK, MemoryType
  <2>2. yid # "R"
    BY Zenon, <1>2, SpaceFacts DEF TypeOK, ControlType
  <2>3. /\ a \in Addr /\ SpaceOf(a) = yid /\ Index(a) = ytop + 1
        /\ b \in Addr /\ SpaceOf(b) = yid /\ Index(b) = ytop + 2
    BY <1>1, <1>2, <2>1, YoungFacts
  <2>4. ytop + 1 # ytop + 2
    BY <2>1
  <2> QED BY SMTT(30), <1>1, <1>2, <2>2, <2>3, <2>4, AllocatedAfter, RootFacts
<1>4. /\ id' = [id EXCEPT ![a] = n, ![b] = m]
      /\ fst' = [fst EXCEPT ![a] = x, ![b] = a, ![RootSlot(r)] = b]
      /\ nkind' = [nkind EXCEPT ![n] = "leaf", ![m] = "coll"]
      /\ nfst' = [nfst EXCEPT ![n] = Id(x), ![m] = n]
      /\ nsnd' = [nsnd EXCEPT ![n] = Id(x), ![m] = Id(y)]
      /\ size + 2 <= MaxNodes /\ size' = size + 2 /\ iter' = iter
      /\ KindAt(x) \in Items
  BY Zenon, <1>1, <1>2 DEF NewCollection, Allocate
<1>5. /\ \A q \in Addr \ {a, b} : id'[q] = id[q] /\ (q # RootSlot(r) => fst'[q] = fst[q])
      /\ id'[b] = m /\ fst'[RootSlot(r)] = b
  BY Zenon, <1>2, <1>3, <1>4 DEF TypeOK, MemoryType
<1>6. Given(r, m)
  <2> DEFINE N == {a, b}
  <2>1. /\ N \in SUBSET Addr /\ b \in N
        /\ Added(N, r)
    BY Zenon, <1>3, <1>5 DEF Added
  <2>2. iter' = iter
    BY Zenon, <1>4
  <2> HIDE DEF N
  <2> QED BY Zenon, <1>5, <2>1, <2>2, RegBuilt
<1>7. T!KindOf(Id(x)) \in T!Items
  BY Zenon, <1>4, ValueOK, NameOf DEF Items, T!Items
<1> QED BY Zenon, <1>1, <1>4, <1>6, <1>7 DEF T!NewCollection, T!Add, T!Fresh, Name, Reg, Given

\* A persistent update: the nodes it shares have the names they had.
LEMMA RefinesExtendCollection ==
  ASSUME RunInv, NEW r \in Register, NEW s \in Register, NEW x \in Values, ExtendCollection(r, s, x)
  PROVE  T!ExtendCollection(r, s, Id(x))
<1>1. PICK a, b, d, n, m, k, c : /\ a = Young(1) /\ b = Young(2) /\ d = Young(3) /\ c = Root(s)
                                 /\ n = Name(1) /\ m = Name(2) /\ k = Name(3)
  BY Zenon
<1>2. TypeOK /\ Allocate(3, 3, 0)
  BY Zenon DEF ExtendCollection, RunInv
<1>3. /\ a \in Addr /\ ~Allocated(a) /\ SpaceOf(a) # "R" /\ RootSlot(r) \in Addr
      /\ b \in Addr /\ ~Allocated(b) /\ SpaceOf(b) # "R" /\ a # b
      /\ d \in Addr /\ ~Allocated(d) /\ SpaceOf(d) # "R" /\ a # d /\ b # d
  <2>1. ytop + 1 <= Cap /\ ytop + 2 <= Cap /\ ytop + 3 <= Cap /\ ytop \in Nat
    BY <1>2, AllocateType, CapAssumption DEF TypeOK, MemoryType
  <2>2. yid # "R"
    BY Zenon, <1>2, SpaceFacts DEF TypeOK, ControlType
  <2>3. /\ a \in Addr /\ SpaceOf(a) = yid /\ Index(a) = ytop + 1
        /\ b \in Addr /\ SpaceOf(b) = yid /\ Index(b) = ytop + 2
        /\ d \in Addr /\ SpaceOf(d) = yid /\ Index(d) = ytop + 3
    BY <1>1, <1>2, <2>1, YoungFacts
  <2>4. ytop + 1 # ytop + 2 /\ ytop + 1 # ytop + 3 /\ ytop + 2 # ytop + 3
    BY <2>1
  <2> QED BY SMTT(30), <1>1, <1>2, <2>2, <2>3, <2>4, AllocatedAfter, RootFacts
<1>4. /\ id' = [id EXCEPT ![a] = n, ![b] = m, ![d] = k]
      /\ fst' = [fst EXCEPT ![a] = x, ![b] = a, ![d] = b, ![RootSlot(r)] = d]
      /\ nkind' = [nkind EXCEPT ![n] = "leaf", ![m] = "inner", ![k] = "coll"]
      /\ nfst' = [nfst EXCEPT ![n] = Id(x), ![m] = n, ![k] = m]
      /\ nsnd' = [nsnd EXCEPT ![n] = Id(x), ![m] = Id(fst[c]), ![k] = Id(snd[c])]
      /\ size + 3 <= MaxNodes /\ size' = size + 3 /\ iter' = iter
      /\ KindAt(x) \in Items /\ KindAt(c) = "coll"
  BY Zenon, <1>1, <1>2 DEF ExtendCollection, Allocate
<1>5. /\ \A q \in Addr \ {a, b, d} : id'[q] = id[q] /\ (q # RootSlot(r) => fst'[q] = fst[q])
      /\ id'[d] = k /\ fst'[RootSlot(r)] = d
  BY Zenon, <1>2, <1>3, <1>4 DEF TypeOK, MemoryType
<1>6. Given(r, k)
  <2> DEFINE N == {a, b, d}
  <2>1. /\ N \in SUBSET Addr /\ d \in N
        /\ Added(N, r)
    BY Zenon, <1>3, <1>5 DEF Added
  <2>2. iter' = iter
    BY Zenon, <1>4
  <2> HIDE DEF N
  <2> QED BY Zenon, <1>5, <2>1, <2>2, RegBuilt
<1>7. T!KindOf(Id(x)) \in T!Items
  BY Zenon, <1>4, ValueOK, NameOf DEF Items, T!Items
<1>8. /\ T!KindOf(Reg[s]) = "coll" /\ nfst[Reg[s]] = Id(fst[c]) /\ nsnd[Reg[s]] = Id(snd[c])
  <2>1. c \in Ptr /\ (c \in Const \/ (c \in Addr /\ Allocated(c))) /\ Reg[s] = Id(c)
    BY Zenon, <1>1, ValueOK DEF Values, Reg
  <2>2. T!KindOf(Id(c)) = "coll" /\ T!Child(Id(c), 1) = Id(Field(c, 1)) /\ T!Child(Id(c), 2) = Id(Field(c, 2))
    BY <1>4, <2>1, NameOf
  <2> QED BY <2>1, <2>2 DEF T!Child, Field
<1> QED BY Zenon, <1>1, <1>4, <1>6, <1>7, <1>8 DEF T!ExtendCollection, T!Add, T!Fresh, Name, Reg, Given

\* hook_BUFFER_concat_raw gives the buffer that the register holds new contents.
LEMMA RefinesConcat ==
  ASSUME RunInv, NEW s \in Register, KindAt(Root(s)) = "buf",
         \A a \in Addr : Allocated(a) /\ kind[a] # "tok" => id'[a] = id[a],
         \A q \in Register : fst'[RootSlot(q)] = fst[RootSlot(q)],
         iter' = iter, nsnd' = nsnd, size + 1 <= MaxNodes, size' = size + 1,
         nkind' = [nkind EXCEPT ![Name(1)] = "tok"], nfst' = [nfst EXCEPT ![id[Root(s)]] = Name(1)]
  PROVE  T!BufferConcat(s)
<1>1. \A q \in Register : Id(Root(q))' = Id(Root(q))
  <2> SUFFICES ASSUME NEW q \in Register PROVE Id(Root(q))' = Id(Root(q))
    BY Zenon
  <2>1. PICK p : p = Root(q)
    BY Zenon
  <2>2. p \in Ptr /\ (p \in Const \/ (p \in Addr /\ Allocated(p) /\ kind[p] # "tok"))
    BY Zenon, <2>1, ValueOK, ChildKindFacts DEF Values, KindAt, TermKind
  <2>3. Root(q)' = p
    BY Zenon, <2>1 DEF Root
  <2>4. Id(p)' = Id(p)
    BY Zenon, <2>2 DEF Id
  <2> QED BY Zenon, <2>1, <2>3, <2>4
<1>2. Id(iter)' = Id(iter)
  <2>1. iter \in Const \/ (iter \in Addr /\ Allocated(iter) /\ kind[iter] # "tok")
    BY Zenon DEF RunInv, RunControl, TypeOK, ControlType, NodeKind, Ptr
  <2> QED BY Zenon, <2>1 DEF Id
<1>3. /\ Reg[s] = id[Root(s)] /\ T!KindOf(Reg[s]) = "buf"
  <2>1. PICK c : c = Root(s)
    BY Zenon
  <2>2. c \in Ptr /\ (c \in Const \/ (c \in Addr /\ Allocated(c))) /\ Reg[s] = Id(c) /\ c \notin Const
    BY Zenon, <2>1, ValueOK DEF Values, Reg, KindAt
  <2> QED BY Zenon, <2>1, <2>2, NameOf
<1> QED BY Zenon, <1>1, <1>2, <1>3 DEF T!BufferConcat, T!Fresh, Name, Reg

\* Bytes written in place.
LEMMA RefinesBufferAppend ==
  ASSUME RunInv, NEW s \in Register, BufferAppend(s)
  PROVE  T!BufferConcat(s)
<1>1. PICK c : c = fst[Root(s)]
  BY Zenon
<1>2. KindAt(Root(s)) = "buf"
  BY Zenon DEF BufferAppend
<1>3. c \in Addr /\ kind[c] = "tok"
  BY Zenon, <1>1, <1>2, BufferOK
<1>4. /\ id' = [id EXCEPT ![c] = Name(1)] /\ fst' = fst /\ iter' = iter /\ nsnd' = nsnd
      /\ size + 1 <= MaxNodes /\ size' = size + 1
      /\ nkind' = [nkind EXCEPT ![Name(1)] = "tok"] /\ nfst' = [nfst EXCEPT ![id[Root(s)]] = Name(1)]
  BY Zenon, <1>1 DEF BufferAppend, Allocate
<1>5. \A a \in Addr : Allocated(a) /\ kind[a] # "tok" => id'[a] = id[a]
  BY Zenon, <1>3, <1>4 DEF RunInv, TypeOK, MemoryType
<1>6. \A q \in Register : fst'[RootSlot(q)] = fst[RootSlot(q)]
  BY Zenon, <1>4
<1> QED BY Zenon, <1>2, <1>4, <1>5, <1>6, RefinesConcat

\* Bytes written to new contents.
LEMMA RefinesBufferGrow ==
  ASSUME RunInv, NEW s \in Register, NEW big \in BOOLEAN, BufferGrow(s, big)
  PROVE  T!BufferConcat(s)
<1>1. PICK c, b : /\ c = (IF Root(s) \in old \/ big THEN Old(1) ELSE Young(1))
                  /\ b = Root(s)
  BY Zenon
<1>2. /\ KindAt(Root(s)) = "buf" /\ TypeOK
      /\ (b \in old \/ big) => Allocate(1, 0, 1)
      /\ ~(b \in old \/ big) => Allocate(1, 1, 0)
  BY Zenon, <1>1 DEF BufferGrow, ContentsInOld, RunInv
<1>3. b \in Addr /\ Allocated(b)
  BY Zenon, <1>1, <1>2, BufferOK
<1>4. yid # "R" /\ oid # "R"
  BY Zenon, <1>2, SpaceFacts DEF TypeOK, ControlType
<1>5. c \in Addr /\ ~Allocated(c) /\ SpaceOf(c) # "R"
  <2>1. ytop + 1 <= Cap /\ otop + 1 <= Cap
    BY <1>2, AllocateType
  <2>2. c \in Addr /\ SpaceOf(c) # "R"
    BY SMTT(30), <1>1, <1>2, <1>4, <2>1, YoungFacts, OldFacts
  <2> QED BY <1>1, <1>2, <2>2, AllocatedAfter
<1>6. /\ id' = [id EXCEPT ![c] = Name(1)] /\ fst' = [fst EXCEPT ![c] = Nil, ![b] = c]
      /\ iter' = iter /\ nsnd' = nsnd
      /\ size + 1 <= MaxNodes /\ size' = size + 1
      /\ nkind' = [nkind EXCEPT ![Name(1)] = "tok"] /\ nfst' = [nfst EXCEPT ![id[Root(s)]] = Name(1)]
  BY Zenon, <1>1, <1>2 DEF BufferGrow, ContentsInOld, Allocate
<1>7. \A a \in Addr : Allocated(a) /\ kind[a] # "tok" => id'[a] = id[a]
  BY Zenon, <1>2, <1>5, <1>6 DEF TypeOK, MemoryType
<1>8. \A q \in Register : fst'[RootSlot(q)] = fst[RootSlot(q)]
  <2>1. \A q \in Register : RootSlot(q) \in Addr /\ RootSlot(q) # c /\ RootSlot(q) # b
    BY Zenon, <1>3, <1>4, <1>5, RootFacts DEF Allocated
  <2> QED BY Zenon, <1>2, <1>6, <2>1 DEF TypeOK, MemoryType
<1> QED BY Zenon, <1>2, <1>6, <1>7, <1>8, RefinesConcat

\* A register is assigned a value the program has.
LEMMA RegAssigned ==
  ASSUME RunInv, NEW r \in Register, NEW p, SetRoot(r, p)
  PROVE  Given(r, Id(p)) /\ UNCHANGED nodeVars
<1>1. /\ fst' = [fst EXCEPT ![RootSlot(r)] = p] /\ id' = id /\ iter' = iter /\ UNCHANGED nodeVars
  BY Zenon DEF SetRoot
<1>2. /\ \A q \in Register : q # r => fst'[RootSlot(q)] = fst[RootSlot(q)]
      /\ fst'[RootSlot(r)] = p
  BY Zenon, <1>1, RootFacts DEF RunInv, TypeOK, MemoryType
<1>3. Id(Root(r))' = Id(p)
  BY <1>1, <1>2 DEF Id, Root
<1>4. \A a \in Addr : Allocated(a) => id'[a] = id[a]
  BY Zenon, <1>1
<1> QED BY Zenon, <1>1, <1>2, <1>3, <1>4, RegSet DEF Given

\* The iterator moves.
LEMMA IterAssigned ==
  ASSUME NEW p, SetIter(p)
  PROVE  Reg' = Reg /\ Id(iter)' = Id(p) /\ UNCHANGED nodeVars
BY Zenon DEF SetIter, memVars, Reg, Id, Root

\* Matching and iterating see the children that the store has.
LEMMA RefinesRead ==
  ASSUME RunInv, Read
  PROVE  T!Next
<1>r. \A s \in Register : /\ Root(s) \in Ptr
                          /\ Root(s) \in Const \/ (Root(s) \in Addr /\ Allocated(Root(s)))
                          /\ Reg[s] = Id(Root(s))
  BY Zenon, ValueOK DEF Values, Reg
<1>i. iter \in Ptr /\ (iter \in Const \/ (iter \in Addr /\ Allocated(iter)))
  BY Zenon DEF RunInv, RunControl, TypeOK, ControlType
<1>1. ASSUME NEW r \in Register, NEW s \in Register, Move(r, s) PROVE T!Next
  <2>1. Given(r, Id(Root(s))) /\ UNCHANGED nodeVars
    BY Zenon, <1>1, RegAssigned DEF Move
  <2>2. T!Move(r, s)
    BY Zenon, <1>r, <2>1 DEF T!Move, Given, Reg, nodeVars, T!nodeVars
  <2> QED BY Zenon, <2>2 DEF T!Next
<1>2. ASSUME NEW r \in Register, NEW s \in Register, NEW i \in 1..2, Project(r, s, i) PROVE T!Next
  <2>1. Given(r, Id(Field(Root(s), i))) /\ UNCHANGED nodeVars
    BY Zenon, <1>2, RegAssigned DEF Project
  <2>2. /\ T!KindOf(Reg[s]) = "sym" \/ (T!KindOf(Reg[s]) = "coll" /\ i = 2)
        /\ T!Child(Reg[s], i) = Id(Field(Root(s), i))
    BY <1>2, <1>r, NameOf DEF Project
  <2>3. T!Project(r, s, i)
    BY Zenon, <2>1, <2>2 DEF T!Project, Given, Reg, nodeVars, T!nodeVars
  <2> QED BY Zenon, <2>3 DEF T!Next
<1>3. ASSUME NEW r \in Register, Forget(r) PROVE T!Next
  <2>1. Given(r, Id(Nil)) /\ UNCHANGED nodeVars
    BY Zenon, <1>3, RegAssigned DEF Forget
  <2>2. Id(Nil) \in Const
    BY Zenon, ConstAssumption DEF Id
  <2>3. T!Forget
    BY Zenon, <2>1, <2>2 DEF T!Forget, Given, Reg, nodeVars, T!nodeVars
  <2> QED BY Zenon, <2>3 DEF T!Next
<1>4. ASSUME NEW r \in Register, NEW i \in 1..2, IterElement(r, i) PROVE T!Next
  <2>1. Given(r, Id(Field(iter, i))) /\ UNCHANGED nodeVars
    BY Zenon, <1>4, RegAssigned DEF IterElement
  <2>2. /\ T!KindOf(Id(iter)) = "leaf" /\ T!Child(Id(iter), i) = Id(Field(iter, i))
    BY Zenon, <1>4, <1>i, NameOf DEF IterElement
  <2>3. T!IterElement(r, i)
    BY Zenon, <2>1, <2>2 DEF T!IterElement, Given, Reg, nodeVars, T!nodeVars
  <2> QED BY Zenon, <2>3 DEF T!Next
<1>5. ASSUME NEW s \in Register, IterBegin(s) PROVE T!Next
  <2>1. Reg' = Reg /\ Id(iter)' = Id(fst[Root(s)]) /\ UNCHANGED nodeVars
    BY Zenon, <1>5, IterAssigned DEF IterBegin
  <2>2. /\ T!KindOf(Reg[s]) = "coll" /\ T!Child(Reg[s], 1) = Id(Field(Root(s), 1))
    BY <1>5, <1>r, NameOf DEF IterBegin
  <2>3. T!IterBegin(s)
    BY Zenon, <2>1, <2>2 DEF T!IterBegin, T!Child, Field, Reg, nodeVars, T!nodeVars
  <2> QED BY Zenon, <2>3 DEF T!Next
<1>6. ASSUME NEW i \in 1..2, IterDescend(i) PROVE T!Next
  <2>1. Reg' = Reg /\ Id(iter)' = Id(Field(iter, i)) /\ UNCHANGED nodeVars
    BY Zenon, <1>6, IterAssigned DEF IterDescend
  <2>2. /\ T!KindOf(Id(iter)) = "inner" /\ T!Child(Id(iter), i) = Id(Field(iter, i))
    BY Zenon, <1>6, <1>i, NameOf DEF IterDescend
  <2>3. T!IterDescend(i)
    BY Zenon, <2>1, <2>2 DEF T!IterDescend, Reg, nodeVars, T!nodeVars
  <2> QED BY Zenon, <2>3 DEF T!Next
<1> QED BY Zenon, <1>1, <1>2, <1>3, <1>4, <1>5, <1>6 DEF Read

\* kore_collect begins by giving up the iterator and, in free_all_kore_mem, the arguments of the
\* step function.
LEMMA RefinesStart ==
  ASSUME RunInv, Collect \/ FreeAll
  PROVE  T!Forget
<1>1. id' = id /\ iter' = Nil /\ UNCHANGED nodeVars
  BY Zenon DEF Collect, FreeAll, StartCollect
<1>2. \A r \in Register : Root(r)' = Root(r) \/ Root(r)' = Nil
  <2>1. \A r \in Register : RootSlot(r) \in Addr
    BY Zenon, RootFacts
  <2> QED BY Zenon, <2>1 DEF Collect, FreeAll, Root
<1>3. Id(iter)' \in Const
  BY Zenon, <1>1, ConstAssumption DEF Id
<1>4. \A r \in Register : Id(Root(r))' = Id(Root(r)) \/ Id(Root(r))' \in Const
  BY Zenon, <1>1, <1>2, ConstAssumption DEF Id
<1> QED BY Zenon, <1>1, <1>3, <1>4 DEF T!Forget, T!nodeVars, nodeVars

\* Each operation of generated code is the operation of TermStore.
LEMMA RefinesMutator ==
  ASSUME RunInv, Mutator
  PROVE  T!Next
<1>v. \A x \in Values : Id(x) \in T!Values
  BY Zenon DEF Values, T!Values, Id
<1>1. ASSUME NEW r \in Register, NEW x \in Values, NEW y \in Values, NewBlock(r, x, y) \/ NewCollection(r, x, y)
      PROVE  T!Next
  BY Zenon, <1>v, <1>1, RefinesNewBlock, RefinesNewCollection DEF T!Next
<1>2. ASSUME NEW r \in Register, NEW big \in BOOLEAN, NewString(r, big) PROVE T!Next
  BY Zenon, <1>2, RefinesNewString DEF T!Next
<1>3. ASSUME NEW r \in Register, NEW k \in {"int", "buf"}, NEW big \in BOOLEAN, NewOwner(r, k, big) PROVE T!Next
  BY Zenon, <1>3, RefinesNewOwner DEF T!Next, T!Owners
<1>4. ASSUME NEW r \in Register, NEW s \in Register, NEW x \in Values, ExtendCollection(r, s, x) PROVE T!Next
  BY Zenon, <1>v, <1>4, RefinesExtendCollection DEF T!Next
<1>5. ASSUME NEW s \in Register, BufferAppend(s) PROVE T!Next
  BY Zenon, <1>5, RefinesBufferAppend DEF T!Next
<1>6. ASSUME NEW s \in Register, NEW big \in BOOLEAN, BufferGrow(s, big) PROVE T!Next
  BY Zenon, <1>6, RefinesBufferGrow DEF T!Next
<1>7. CASE Build
  BY Zenon, <1>1, <1>2, <1>3, <1>4, <1>7 DEF Build
<1>8. CASE Append_
  BY Zenon, <1>5, <1>6, <1>8 DEF Append_
<1> QED BY Zenon, <1>7, <1>8, RefinesRead DEF Mutator
=============================================================================
