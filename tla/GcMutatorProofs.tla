-------------------------- MODULE GcMutatorProofs --------------------------
(***************************************************************************)
(* The operations of generated code preserve the invariant.  They run only *)
(* outside a collection, where IInv takes the simpler form RunInv.         *)
(***************************************************************************)
EXTENDS GcLemmas, GcMutator

\* What a program holds in a register is a pointer, and its name is a name.
LEMMA ValueFacts ==
  ASSUME TypeOK
  PROVE  /\ \A x \in Values : x \in Ptr
         /\ \A r \in Register : Root(r) \in Ptr
         /\ \A x \in Ptr : Id(x) \in Const \cup 0..MaxNodes
<1>1. \A r \in Register : Root(r) \in Ptr
  BY Zenon, RootFacts DEF Root, TypeOK, MemoryType
<1>2. \A x \in Ptr : Id(x) \in Const \cup 0..MaxNodes
  BY Zenon, PtrFacts DEF Id, TypeOK, MemoryType
<1>3. \A x \in Values : x \in Ptr
  BY Zenon, <1>1, PtrFacts DEF Values, Ptr
<1> QED BY Zenon, <1>1, <1>2, <1>3

\* An allocation moves the allocation pointers, within their bounds, and nothing else.
LEMMA AllocateType ==
  ASSUME TypeOK, NEW n \in 1..3, NEW y \in 0..n, NEW o \in 0..n, Allocate(n, y, o)
  PROVE  /\ ytop' \in 0..Cap /\ otop' \in 0..Cap
         /\ ControlType'
         /\ size' \in 0..MaxNodes
         /\ \A i \in 1..n : ytop + i <= Cap /\ otop + i <= Cap /\ size + i <= MaxNodes
<1> USE DEF Allocate
<1>1. ytop' \in 0..Cap /\ otop' \in 0..Cap
  BY CapAssumption DEF TypeOK, MemoryType
<1>2. size' \in 0..MaxNodes
  BY BoundAssumption DEF TypeOK, NodeType
<1>3. \A i \in 1..n : ytop + i <= Cap /\ otop + i <= Cap /\ size + i <= MaxNodes
  BY CapAssumption, BoundAssumption DEF TypeOK, MemoryType, NodeType
<1>4. ControlType'
  BY Zenon DEF TypeOK, ControlType, spaceVars, cycleVars
<1> QED BY Zenon, <1>1, <1>2, <1>3, <1>4

\* Header bits are set only at addresses.
LEMMA InitHeadersType ==
  ASSUME TypeOK, NEW S \in SUBSET Addr, NEW B \in SUBSET Addr, InitHeaders(S, B)
  PROVE  old' \in SUBSET Addr /\ age' \in SUBSET Addr /\ fwd' \in SUBSET Addr
BY Zenon DEF InitHeaders, TypeOK, MemoryType

\* Which addresses are allocated after an allocation.
LEMMA AllocatedAfter ==
  ASSUME TypeOK, NEW n \in 1..3, NEW y \in 0..n, NEW o \in 0..n, Allocate(n, y, o), NEW a \in Addr
  PROVE  /\ Allocated(a)' <=> \/ Allocated(a)
                              \/ \E i \in 1..y : a = Young(i)
                              \/ \E i \in 1..o : a = Old(i)
         /\ \A i \in 1..3 : a = Young(i) => ~Allocated(a)
         /\ \A i \in 1..3 : a = Old(i) => ~Allocated(a)
<1>1. yid' = yid /\ oid' = oid /\ ytop' = ytop + y /\ otop' = otop + o /\ y \in 0..3 /\ o \in 0..3
  BY DEF Allocate, spaceVars
<1> QED BY Zenon, <1>1, TopsAfter

---------------------------------------------------------------------------

---------------------------------------------------------------------------
(* Building terms.                                                         *)

\* The objects of N are new, the others are as before, and register r gets v.
Built(N, r, v) ==
  /\ \A a \in Addr : Allocated(a)' <=> (Allocated(a) \/ a \in N)
  /\ \A a \in Addr \ N :
       /\ kind'[a] = kind[a] /\ id'[a] = id[a] /\ snd'[a] = snd[a]
       /\ a \in old' <=> a \in old
       /\ a \in age' <=> a \in age
       /\ a # RootSlot(r) => fst'[a] = fst[a]
  /\ fst'[RootSlot(r)] = v
  /\ fwd' = {}
  /\ size <= size'
  /\ \A n \in 1..size : nkind'[n] = nkind[n] /\ nfst'[n] = nfst[n] /\ nsnd'[n] = nsnd[n]
  /\ phase' = phase /\ oprev' = oprev /\ scan' = scan /\ fld' = fld /\ trav' = trav
  /\ collect_old' = collect_old /\ iter' = iter

\* A new object is well formed.
NewOK(N, a) ==
  /\ kind'[a] \notin {"free", "root"}
  /\ kind'[a] # "tok" => /\ a \in old' <=> SpaceOf(a) \in OldSpace
                         /\ a \in old' => a \in age'
                         /\ \A i \in 1..2 : RunField(a, i)'
  /\ id'[a] \in 1..size' /\ id'[a] > size /\ nkind'[id'[a]] = kind'[a]
  /\ \A b \in N : id'[a] = id'[b] => a = b
  /\ kind'[a] \in OwnerKind =>
       /\ fst'[a] \in N /\ kind'[fst'[a]] = "tok"
       /\ \A b \in N : kind'[b] \in OwnerKind => a = b

\* An object that is not new has the fields it had, of the same kind, name and rank.
LEMMA OldFieldKept ==
  ASSUME RunInv, TypeOK', NEW N \in SUBSET Addr, NEW r \in Register, NEW v \in N,
         \A a \in N : ~Allocated(a), Built(N, r, v),
         NEW a \in Addr, a \notin N, a # RootSlot(r), NEW i \in 1..2, RunField(a, i),
         Allocated(a) => id[a] \in 1..size, Allocated(a) \/ kind[a] = "root"
  PROVE  RunField(a, i)'
<1>0. PICK p \in Ptr : p = Field(a, i)
  BY Zenon DEF Field, RunInv, TypeOK, MemoryType
<1>1. Field(a, i)' = p /\ kind'[a] = kind[a] /\ id'[a] = id[a]
  BY Zenon, <1>0 DEF Built, Field
<1>2. p \in Const \/ (p \in Addr /\ Allocated(p) /\ p \notin N)
  BY Zenon, <1>0 DEF RunField
<1>3. p \in Addr => kind'[p] = kind[p] /\ id'[p] = id[p] /\ (p \in old' <=> p \in old) /\ (p \in age' <=> p \in age)
                    /\ Allocated(p)'
  BY Zenon, <1>2, PtrFacts DEF Built
<1>4. Allocated(a)' <=> Allocated(a)
  BY Zenon DEF Built
<1>5. (a \in old' <=> a \in old) /\ (a \in age' <=> a \in age)
  BY Zenon DEF Built
<1>6. kind[a] # "root" => NodeField(id[a], i)' = NodeField(id[a], i)
  BY <1>1 DEF Built, NodeField
<1>7. KindAt(p)' = KindAt(p) /\ Id(p)' = Id(p) /\ Rank(p)' = Rank(p)
  BY Zenon, <1>2, <1>3 DEF KindAt, Id, Rank
<1>8. Rank(a)' = Rank(a)
  BY Zenon, <1>5, PtrFacts DEF Rank
<1> QED BY Zenon, <1>0, <1>1, <1>2, <1>3, <1>4, <1>5, <1>6, <1>7, <1>8 DEF RunField

\* Building well-formed objects preserves the invariant.
LEMMA BuiltInv ==
  ASSUME RunInv, TypeOK', NEW N \in SUBSET Addr, NEW r \in Register, NEW v \in N,
         \A a \in N : ~Allocated(a) /\ SpaceOf(a) # "R",
         Built(N, r, v), \A a \in N : NewOK(N, a), kind'[v] \in ChildKinds("root", 1)
  PROVE  RunInv'
<1> USE DEF RunInv
<1>1. RootSlot(r) \in Addr \ N /\ kind[RootSlot(r)] = "root" /\ IsRoot(RootSlot(r)) /\ ~Allocated(RootSlot(r))
  <2>1. RootSlot(r) \in Addr /\ SpaceOf(RootSlot(r)) = "R" /\ Index(RootSlot(r)) = r /\ r <= NRoots
    BY RootFacts, RootAssumption DEF Register
  <2>2. yid # "R" /\ oid # "R"
    BY Zenon, SpaceFacts DEF TypeOK, ControlType
  <2> QED BY Zenon, <2>1, <2>2 DEF RunLayout, IsRoot, Allocated
<1>2. RunLayout'
  <2> SUFFICES ASSUME NEW a \in Addr
               PROVE  /\ SpaceOf(a) = "R" => kind'[a] = (IF Index(a) <= NRoots THEN "root" ELSE "free")
                      /\ SpaceOf(a) # "R" => kind'[a] # "root"
                      /\ SpaceOf(a) # "R" => (kind'[a] = "free" <=> ~Allocated(a)')
    BY Zenon DEF RunLayout
  <2>1. CASE a \in N
    BY Zenon, <2>1 DEF Built, NewOK
  <2>2. CASE a \notin N
    BY Zenon, <2>2 DEF Built, RunLayout
  <2> QED BY Zenon, <2>1, <2>2
<1>3. RunHeaders'
  <2> SUFFICES ASSUME NEW a \in Addr, kind'[a] \notin {"free", "root", "tok"}
               PROVE  (a \in old' <=> SpaceOf(a) \in OldSpace) /\ (a \in old' => a \in age')
    BY Zenon DEF RunHeaders
  <2>1. CASE a \in N
    BY Zenon, <2>1 DEF NewOK
  <2>2. CASE a \notin N
    BY Zenon, <2>2 DEF Built, RunHeaders
  <2> QED BY Zenon, <2>1, <2>2
<1>4. RunFields'
  <2> SUFFICES ASSUME NEW a \in Addr, Allocated(a)' \/ IsRoot(a), kind'[a] # "tok", NEW i \in 1..2
               PROVE  RunField(a, i)'
    BY Zenon DEF RunFields, IsRoot
  <2>1. CASE a \in N
    BY Zenon, <2>1 DEF NewOK
  <2>2. CASE a \notin N /\ a # RootSlot(r)
    <3>1. (Allocated(a) \/ IsRoot(a)) /\ kind[a] # "tok"
      BY Zenon, <2>2 DEF Built
    <3>2. RunField(a, i) /\ (Allocated(a) => id[a] \in 1..size) /\ (Allocated(a) \/ kind[a] = "root")
      BY Zenon, <3>1 DEF RunFields, RunNames, RunLayout, IsRoot
    <3> QED BY Zenon, <2>2, <3>2, OldFieldKept
  <2>3. CASE a = RootSlot(r)
    <3>1. ~Allocated(a)' /\ kind'[a] = "root"
      BY Zenon, <1>1, <2>3 DEF Built
    <3>2. CASE i = 1
      <4>1. Field(a, i)' = v
        BY Zenon, <2>3, <3>2 DEF Built, Field
      <4>2. v \in Addr /\ Allocated(v)' /\ KindAt(v)' = kind'[v]
        BY Zenon, PtrFacts DEF Built, KindAt
      <4> QED BY Zenon, <3>1, <3>2, <4>1, <4>2 DEF RunField
    <3>3. CASE i = 2
      <4>1. RunField(a, i)
        BY Zenon, <1>1, <2>3 DEF RunFields
      <4>2. PICK p \in Ptr : p = snd[a]
        BY Zenon DEF TypeOK, MemoryType
      <4>3. Field(a, i) = p /\ Field(a, i)' = p
        BY <1>1, <2>3, <3>3, <4>2 DEF Built, Field
      <4>4. p \in Const \/ (p \in Addr /\ Allocated(p))
        BY Zenon, <4>1, <4>3 DEF RunField
      <4>5. p \in Addr => kind'[p] = kind[p] /\ Allocated(p)'
        BY Zenon, <4>4, PtrFacts DEF Built
      <4>6. KindAt(p)' = KindAt(p)
        BY Zenon, <4>4, <4>5 DEF KindAt
      <4> QED BY Zenon, <1>1, <2>3, <3>1, <4>1, <4>3, <4>4, <4>5, <4>6 DEF RunField
    <3> QED BY <3>2, <3>3
  <2> QED BY Zenon, <2>1, <2>2, <2>3
<1>5. RunNames'
  <2>1. ASSUME NEW a \in Addr, Allocated(a)'
        PROVE  /\ id'[a] \in 1..size' /\ nkind'[id'[a]] = kind'[a]
               /\ a \notin N => Allocated(a) /\ id'[a] = id[a] /\ kind'[a] = kind[a] /\ id'[a] <= size
               /\ a \in N => id'[a] > size
    <3>1. CASE a \in N
      BY Zenon, <3>1 DEF NewOK
    <3>2. CASE a \notin N
      <4>1. Allocated(a) /\ kind'[a] = kind[a] /\ id'[a] = id[a]
        BY Zenon, <2>1, <3>2 DEF Built
      <4>2. id[a] \in 1..size /\ nkind[id[a]] = kind[a]
        BY Zenon, <4>1 DEF RunNames
      <4>3. nkind'[id[a]] = nkind[id[a]] /\ size <= size' /\ size \in Nat /\ size' \in Nat
        BY <4>2, BoundAssumption DEF Built, TypeOK, NodeType
      <4> QED BY <3>2, <4>1, <4>2, <4>3
    <3> QED BY Zenon, <3>1, <3>2
  <2>2. ASSUME NEW a \in Addr, NEW b \in Addr, Allocated(a)', Allocated(b)', kind'[a] # "tok", id'[a] = id'[b]
        PROVE  a = b
    <3>1. size \in Nat /\ id'[a] \in Nat /\ id'[b] \in Nat
      BY BoundAssumption DEF TypeOK, NodeType, MemoryType
    <3>2. CASE a \in N /\ b \in N
      BY Zenon, <3>2, <2>2 DEF NewOK
    <3>3. CASE a \notin N /\ b \notin N
      BY Zenon, <3>3, <2>1, <2>2 DEF RunNames
    <3>4. CASE (a \in N /\ b \notin N) \/ (a \notin N /\ b \in N)
      BY <3>1, <3>4, <2>1, <2>2
    <3> QED BY Zenon, <3>2, <3>3, <3>4
  <2> QED BY Zenon, <2>1, <2>2 DEF RunNames
<1>6. RunPayloads'
  <2> SUFFICES ASSUME NEW a \in Addr, kind'[a] \in OwnerKind
               PROVE  /\ fst'[a] \in Addr /\ kind'[fst'[a]] = "tok"
                      /\ \A b \in Addr : kind'[b] \in OwnerKind /\ fst'[a] = fst'[b] => a = b
    BY Zenon DEF RunPayloads
  <2>1. ASSUME NEW b \in Addr, kind'[b] \in OwnerKind
        PROVE  /\ b \notin N => /\ kind[b] \in OwnerKind /\ fst'[b] = fst[b]
                                /\ fst[b] \in Addr /\ kind[fst[b]] = "tok" /\ fst[b] \notin N
               /\ b \in N => fst'[b] \in N
    <3>1. CASE b \notin N
      <4>1. kind[b] \in OwnerKind /\ b # RootSlot(r)
        BY Zenon, <1>1, <2>1, <3>1 DEF Built, OwnerKind
      <4>2. fst'[b] = fst[b] /\ fst[b] \in Addr /\ kind[fst[b]] = "tok"
        BY Zenon, <3>1, <4>1 DEF Built, RunPayloads
      <4>3. Allocated(fst[b])
        BY Zenon, <4>2 DEF RunLayout
      <4> QED BY Zenon, <3>1, <4>1, <4>2, <4>3
    <3>2. CASE b \in N
      BY Zenon, <3>2, <2>1 DEF NewOK
    <3> QED BY Zenon, <3>1, <3>2
  <2>2. CASE a \in N
    BY Zenon, <2>1, <2>2 DEF NewOK
  <2>3. CASE a \notin N
    BY <2>1, <2>3 DEF Built, RunPayloads
  <2> QED BY Zenon, <2>2, <2>3
<1>7. RunControl'
  BY Zenon DEF Built, RunControl
<1>8. phase' = "run"
  BY Zenon DEF Built
<1> QED BY Zenon, <1>2, <1>3, <1>4, <1>5, <1>6, <1>7, <1>8

\* What a register holds is a constant or an allocated object, of a kind that is a term.
LEMMA ValueOK ==
  ASSUME RunInv, NEW x \in Values
  PROVE  /\ x \in Ptr /\ (x \in Const \/ (x \in Addr /\ Allocated(x)))
         /\ KindAt(x) \in TermKind
         /\ Id(x) \in Const \cup 0..MaxNodes
<1>1. x \in Ptr /\ Id(x) \in Const \cup 0..MaxNodes
  BY Zenon, ValueFacts DEF RunInv
<1>2. CASE x \in Const
  BY Zenon, <1>1, <1>2 DEF KindAt, TermKind
<1>3. CASE x \notin Const
  <2>1. PICK r \in Register : x = Root(r)
    BY Zenon, <1>3 DEF Values
  <2>2. RootSlot(r) \in Addr /\ IsRoot(RootSlot(r)) /\ kind[RootSlot(r)] = "root"
    BY RootFacts, RootAssumption DEF RunInv, RunLayout, IsRoot, Register
  <2>3. RunField(RootSlot(r), 1) /\ Field(RootSlot(r), 1) = x
    BY <2>1, <2>2 DEF RunInv, RunFields, Root, Field
  <2> QED BY Zenon, <1>1, <2>2, <2>3, ChildKindFacts DEF RunField
<1> QED BY Zenon, <1>2, <1>3

\* Building does not change what the program already had.
LEMMA ValueKept ==
  ASSUME RunInv, NEW N \in SUBSET Addr, NEW r, NEW v, \A a \in N : ~Allocated(a), Built(N, r, v),
         NEW x \in Ptr, x \in Const \/ (x \in Addr /\ Allocated(x))
  PROVE  /\ x \in Const \/ (x \in Addr /\ Allocated(x)')
         /\ KindAt(x)' = KindAt(x) /\ Id(x)' = Id(x)
         /\ Rank(x)' = Rank(x) /\ Rank(x) \in 0..3
BY PtrFacts DEF Built, KindAt, Id, Rank

\* What the field of a new object is to be.
FreshField(a, i, x) ==
  /\ a \in Addr /\ i \in 1..2 /\ a \notin old' /\ a \notin age' /\ kind'[a] # "root"
  /\ x \in Ptr /\ Field(a, i)' = x /\ (x \in Const \/ (x \in Addr /\ Allocated(x)'))
  /\ KindAt(x)' \in ChildKinds(kind'[a], i) /\ Id(x)' = NodeField(id[a], i)' /\ Rank(x)' \in 0..3


\* A new young object may point to anything that its kind allows.
LEMMA NewField ==
  ASSUME NEW a, NEW i, NEW x, FreshField(a, i, x)
  PROVE  RunField(a, i)'
BY PtrFacts DEF FreshField, RunField, Rank

\* create_term: a new block.
LEMMA NewBlockInv ==
  ASSUME RunInv, NEW r \in Register, NEW x \in Values, NEW y \in Values, NewBlock(r, x, y)
  PROVE  RunInv'
<1>1. PICK a : a = Young(1)
  BY Zenon
<1>2. PICK n : n = Name(1)
  BY Zenon
<1> DEFINE N == {a}
<1>3. TypeOK /\ Allocate(1, 1, 0) /\ fwd = {}
  BY Zenon DEF NewBlock, RunInv, RunControl
<1>4. /\ ytop' \in 0..Cap /\ otop' \in 0..Cap /\ ControlType' /\ size' \in 0..MaxNodes
      /\ ytop + 1 <= Cap /\ size + 1 <= MaxNodes
  BY <1>3, AllocateType
<1>5. /\ a \in Addr /\ SpaceOf(a) = yid /\ n \in 1..MaxNodes /\ n = size + 1 /\ size' = n
      /\ RootSlot(r) \in Addr /\ SpaceOf(RootSlot(r)) = "R"
      /\ yid # "R" /\ yid \notin OldSpace
  BY <1>1, <1>2, <1>3, <1>4, YoungFacts, NameFacts, RootFacts, SpaceFacts DEF TypeOK, ControlType, Allocate
<1>6. InitHeaders({a}, {})
  BY Zenon, <1>1 DEF NewBlock
<1>7. old' = old \ {a} /\ age' = age \ {a} /\ fwd' = {}
  BY Zenon, <1>3, <1>6 DEF InitHeaders
<1>8. /\ x \in Ptr /\ y \in Ptr /\ a \in Ptr
      /\ x \in Const \/ (x \in Addr /\ Allocated(x))
      /\ y \in Const \/ (y \in Addr /\ Allocated(y))
      /\ KindAt(x) \in TermKind /\ KindAt(y) \in TermKind
      /\ Id(x) \in Const \cup 0..MaxNodes /\ Id(y) \in Const \cup 0..MaxNodes
  BY Zenon, <1>5, ValueOK, PtrFacts
<1>9. /\ kind' = [kind EXCEPT ![a] = "sym"]
      /\ id' = [id EXCEPT ![a] = n]
      /\ fst' = [fst EXCEPT ![a] = x, ![RootSlot(r)] = a]
      /\ snd' = [snd EXCEPT ![a] = y]
      /\ nkind' = [nkind EXCEPT ![n] = "sym"]
      /\ nfst' = [nfst EXCEPT ![n] = Id(x)]
      /\ nsnd' = [nsnd EXCEPT ![n] = Id(y)]
  BY Zenon, <1>1, <1>2 DEF NewBlock
<1>10. TypeOK'
  <2>1. MemoryType'
    BY Zenon, <1>3, <1>4, <1>5, <1>7, <1>8, <1>9 DEF TypeOK, MemoryType, Kind
  <2>2. NodeType'
    BY Zenon, <1>3, <1>4, <1>5, <1>8, <1>9 DEF TypeOK, NodeType, Kind
  <2> QED BY Zenon, <1>4, <2>1, <2>2 DEF TypeOK
<1>11. \A b \in Addr : (Allocated(b)' <=> Allocated(b) \/ b = a) /\ (b = a => ~Allocated(b))
  BY <1>1, <1>3, AllocatedAfter
<1>12. Built(N, r, a)
  <2>1. \A b \in Addr \ N : kind'[b] = kind[b] /\ id'[b] = id[b] /\ snd'[b] = snd[b]
                            /\ (b # RootSlot(r) => fst'[b] = fst[b])
    BY Zenon, <1>3, <1>9 DEF TypeOK, MemoryType
  <2>2. \A m \in 1..size : nkind'[m] = nkind[m] /\ nfst'[m] = nfst[m] /\ nsnd'[m] = nsnd[m]
    BY <1>3, <1>4, <1>5, <1>9, BoundAssumption DEF TypeOK, NodeType
  <2>3. fst'[RootSlot(r)] = a
    BY Zenon, <1>3, <1>5, <1>9 DEF TypeOK, MemoryType
  <2>4. size <= size'
    BY <1>3, <1>5 DEF TypeOK, NodeType
  <2> QED BY Zenon, <1>3, <1>7, <1>11, <2>1, <2>2, <2>3, <2>4 DEF Built, Allocate, cycleVars
<1>13. /\ kind'[a] = "sym" /\ id'[a] = n /\ fst'[a] = x /\ snd'[a] = y
       /\ nkind'[n] = "sym" /\ nfst'[n] = Id(x) /\ nsnd'[n] = Id(y)
  BY Zenon, <1>3, <1>5, <1>9 DEF TypeOK, MemoryType, NodeType
<1>14. \A i \in 1..2 : RunField(a, i)'
  <2>1. /\ x \in Const \/ (x \in Addr /\ Allocated(x)')
        /\ KindAt(x)' = KindAt(x) /\ Id(x)' = Id(x) /\ Rank(x)' \in 0..3
    BY Zenon, <1>5, <1>8, <1>11, <1>12, ValueKept
  <2>2. /\ y \in Const \/ (y \in Addr /\ Allocated(y)')
        /\ KindAt(y)' = KindAt(y) /\ Id(y)' = Id(y) /\ Rank(y)' \in 0..3
    BY Zenon, <1>5, <1>8, <1>11, <1>12, ValueKept
  <2>3. a \notin old' /\ a \notin age'
    BY Zenon, <1>7
  <2>4. Field(a, 1)' = x /\ Field(a, 2)' = y /\ NodeField(id[a], 1)' = Id(x) /\ NodeField(id[a], 2)' = Id(y)
    BY <1>13 DEF Field, NodeField
  <2>5. RunField(a, 1)'
    <3>1. FreshField(a, 1, x)
      BY <1>5, <1>8, <1>13, <2>1, <2>3, <2>4, ChildKindFacts DEF FreshField
    <3> QED BY Zenon, <3>1, NewField
  <2>6. RunField(a, 2)'
    <3>1. FreshField(a, 2, y)
      BY <1>5, <1>8, <1>13, <2>2, <2>3, <2>4, ChildKindFacts DEF FreshField
    <3> QED BY Zenon, <3>1, NewField
  <2> QED BY <2>5, <2>6
<1>15. NewOK(N, a)
  BY <1>3, <1>5, <1>7, <1>13, <1>14 DEF NewOK, OwnerKind, TypeOK, NodeType
<1> QED BY <1>5, <1>10, <1>11, <1>12, <1>13, <1>15, BuiltInv, ChildKindFacts DEF TermKind

\* A field that holds a constant is in order whatever the generation of its object.
LEMMA ConstField ==
  ASSUME NEW a \in Addr, NEW i \in 1..2, NEW x \in Const, Field(a, i)' = x,
         "const" \in ChildKinds(kind'[a], i), x = NodeField(id[a], i)', kind'[a] \notin OwnerKind \/ i = 2
  PROVE  RunField(a, i)'
<1>1. KindAt(x)' = "const" /\ Id(x)' = x /\ Rank(x)' = 3 /\ Rank(a)' \in 0..3
  BY SMTT(30), PtrFacts DEF KindAt, Id, Rank
<1> QED BY <1>1 DEF RunField

\* A new string token, young or old.
LEMMA NewStringInv ==
  ASSUME RunInv, NEW r \in Register, NEW big \in BOOLEAN, NewString(r, big)
  PROVE  RunInv'
<1>1. PICK a : a = IF big THEN Old(1) ELSE Young(1)
  BY Zenon
<1>2. PICK n : n = Name(1)
  BY Zenon
<1> DEFINE N == {a}
<1>3. TypeOK /\ fwd = {} /\ (big => Allocate(1, 0, 1)) /\ (~big => Allocate(1, 1, 0))
  BY Zenon DEF NewString, RunInv, RunControl
<1>4. /\ ytop' \in 0..Cap /\ otop' \in 0..Cap /\ ControlType' /\ size' \in 0..MaxNodes
      /\ ytop + 1 <= Cap /\ otop + 1 <= Cap /\ size + 1 <= MaxNodes
  BY <1>3, AllocateType
<1>5. /\ n \in 1..MaxNodes /\ n = size + 1 /\ size' = n
      /\ RootSlot(r) \in Addr /\ SpaceOf(RootSlot(r)) = "R"
  BY <1>2, <1>3, <1>4, NameFacts, RootFacts DEF Allocate
<1>6. a \in Addr /\ a \in Ptr /\ SpaceOf(a) # "R" /\ (SpaceOf(a) \in OldSpace <=> big)
  <2>1. Young(1) \in Addr /\ Old(1) \in Addr /\ SpaceOf(Young(1)) = yid /\ SpaceOf(Old(1)) = oid
    BY <1>3, <1>4, YoungFacts, OldFacts
  <2>2. yid # "R" /\ oid # "R" /\ yid \notin OldSpace /\ oid \in OldSpace
    BY Zenon, <1>3, SpaceFacts DEF TypeOK, ControlType
  <2> QED BY Zenon, <1>1, <2>1, <2>2, PtrFacts
<1>7. /\ old' \in SUBSET Addr /\ age' \in SUBSET Addr /\ fwd' = {}
      /\ a \in old' <=> big
      /\ a \in age' <=> big
      /\ \A b \in Addr : b # a => (b \in old' <=> b \in old) /\ (b \in age' <=> b \in age)
  <2>1. (big => InitHeaders({}, {a})) /\ (~big => InitHeaders({a}, {}))
    BY Zenon, <1>1 DEF NewString
  <2> QED BY Zenon, <1>3, <1>6, <2>1 DEF InitHeaders, TypeOK, MemoryType
<1>8. /\ kind' = [kind EXCEPT ![a] = "str"]
      /\ id' = [id EXCEPT ![a] = n]
      /\ fst' = [fst EXCEPT ![a] = Nil, ![RootSlot(r)] = a]
      /\ snd' = [snd EXCEPT ![a] = Nil]
      /\ nkind' = [nkind EXCEPT ![n] = "str"]
      /\ nfst' = [nfst EXCEPT ![n] = Nil]
      /\ nsnd' = [nsnd EXCEPT ![n] = Nil]
  BY Zenon, <1>1, <1>2 DEF NewString
<1>9. TypeOK'
  <2>1. MemoryType'
    BY Zenon, <1>3, <1>4, <1>5, <1>6, <1>7, <1>8, PtrFacts DEF TypeOK, MemoryType, Kind
  <2>2. NodeType'
    BY Zenon, <1>3, <1>4, <1>5, <1>8, PtrFacts DEF TypeOK, NodeType, Kind
  <2> QED BY Zenon, <1>4, <2>1, <2>2 DEF TypeOK
<1>10. \A b \in Addr : (Allocated(b)' <=> Allocated(b) \/ b = a) /\ (b = a => ~Allocated(b))
  <2>1. CASE big
    BY <1>1, <1>3, <2>1, AllocatedAfter
  <2>2. CASE ~big
    BY <1>1, <1>3, <2>2, AllocatedAfter
  <2> QED BY Zenon, <2>1, <2>2
<1>11. Built(N, r, a)
  <2>1. \A b \in Addr \ N : kind'[b] = kind[b] /\ id'[b] = id[b] /\ snd'[b] = snd[b]
                            /\ (b # RootSlot(r) => fst'[b] = fst[b])
    BY Zenon, <1>3, <1>8 DEF TypeOK, MemoryType
  <2>2. \A m \in 1..size : nkind'[m] = nkind[m] /\ nfst'[m] = nfst[m] /\ nsnd'[m] = nsnd[m]
    BY <1>3, <1>4, <1>5, <1>8, BoundAssumption DEF TypeOK, NodeType
  <2>3. fst'[RootSlot(r)] = a
    BY Zenon, <1>3, <1>5, <1>8 DEF TypeOK, MemoryType
  <2>4. size <= size'
    BY <1>3, <1>5 DEF TypeOK, NodeType
  <2> QED BY Zenon, <1>3, <1>7, <1>10, <2>1, <2>2, <2>3, <2>4 DEF Built, Allocate, cycleVars
<1>12. /\ kind'[a] = "str" /\ id'[a] = n /\ fst'[a] = Nil /\ snd'[a] = Nil
       /\ nkind'[n] = "str" /\ nfst'[n] = Nil /\ nsnd'[n] = Nil
  BY Zenon, <1>3, <1>5, <1>6, <1>8 DEF TypeOK, MemoryType, NodeType
<1>13. \A i \in 1..2 : RunField(a, i)'
  <2>1. \A i \in 1..2 : Field(a, i)' = Nil /\ NodeField(id[a], i)' = Nil
    BY Zenon, <1>12 DEF Field, NodeField
  <2> QED BY <1>6, <1>12, <2>1, ConstField, ChildKindFacts, PtrFacts DEF OwnerKind
<1>14. NewOK(N, a)
  BY SMTT(30), <1>3, <1>5, <1>6, <1>7, <1>12, <1>13 DEF NewOK, OwnerKind, TypeOK, NodeType
<1> QED BY <1>6, <1>9, <1>10, <1>11, <1>12, <1>14, BuiltInv, ChildKindFacts DEF TermKind

\* A new integer or buffer with its payload.
LEMMA NewOwnerInv ==
  ASSUME RunInv, NEW r \in Register, NEW k \in {"int", "buf"}, NEW big \in BOOLEAN, NewOwner(r, k, big)
  PROVE  RunInv'
<1>1. PICK c, a : c = (IF big THEN Old(1) ELSE Young(1)) /\ a = IF big THEN Young(1) ELSE Young(2)
  BY Zenon
<1>2. PICK n, m : n = Name(1) /\ m = Name(2)
  BY Zenon
<1> DEFINE N == {a, c}
<1>3. TypeOK /\ fwd = {} /\ (big => Allocate(2, 1, 1)) /\ (~big => Allocate(2, 2, 0))
  BY Zenon DEF NewOwner, RunInv, RunControl
<1>4. /\ ytop' \in 0..Cap /\ otop' \in 0..Cap /\ ControlType' /\ size' \in 0..MaxNodes
      /\ ytop + 1 <= Cap /\ ytop + 2 <= Cap /\ otop + 1 <= Cap /\ size + 1 <= MaxNodes /\ size + 2 <= MaxNodes
  BY <1>3, AllocateType
<1>5. /\ n \in 1..MaxNodes /\ n = size + 1 /\ m \in 1..MaxNodes /\ m = size + 2 /\ size' = m
      /\ RootSlot(r) \in Addr /\ SpaceOf(RootSlot(r)) = "R" /\ size \in Nat
  BY <1>2, <1>3, <1>4, NameFacts, RootFacts DEF Allocate, TypeOK, NodeType
<1>6. /\ a \in Addr /\ a \in Ptr /\ c \in Addr /\ c \in Ptr /\ a # c
      /\ SpaceOf(a) # "R" /\ SpaceOf(c) # "R" /\ SpaceOf(a) \notin OldSpace
  <2>1. /\ Young(1) \in Addr /\ Old(1) \in Addr /\ Young(2) \in Addr
        /\ SpaceOf(Young(1)) = yid /\ SpaceOf(Old(1)) = oid /\ SpaceOf(Young(2)) = yid
        /\ Index(Young(1)) = ytop + 1 /\ Index(Young(2)) = ytop + 2
    BY <1>3, <1>4, YoungFacts, OldFacts
  <2>2. yid # "R" /\ oid # "R" /\ yid \notin OldSpace /\ oid \in OldSpace /\ ytop + 1 # ytop + 2
    BY <1>3, SpaceFacts DEF TypeOK, ControlType, MemoryType
  <2> QED BY Zenon, <1>1, <2>1, <2>2, PtrFacts
<1>7. /\ old' \in SUBSET Addr /\ age' \in SUBSET Addr /\ fwd' = {}
      /\ a \notin old' /\ a \notin age'
      /\ \A b \in Addr \ N : (b \in old' <=> b \in old) /\ (b \in age' <=> b \in age)
  <2>1. (big => InitHeaders({a}, {c})) /\ (~big => InitHeaders({a, c}, {}))
    BY Zenon, <1>1 DEF NewOwner
  <2> QED BY Zenon, <1>3, <1>6, <2>1 DEF InitHeaders, TypeOK, MemoryType
<1>8. /\ kind' = [kind EXCEPT ![c] = "tok", ![a] = k]
      /\ id' = [id EXCEPT ![c] = n, ![a] = m]
      /\ fst' = [fst EXCEPT ![c] = Nil, ![a] = c, ![RootSlot(r)] = a]
      /\ snd' = [snd EXCEPT ![c] = Nil, ![a] = Nil]
      /\ nkind' = [nkind EXCEPT ![n] = "tok", ![m] = k]
      /\ nfst' = [nfst EXCEPT ![m] = n]
      /\ nsnd' = [nsnd EXCEPT ![m] = Nil]
  BY Zenon, <1>1, <1>2 DEF NewOwner
<1>9. TypeOK'
  <2>1. MemoryType'
    BY SMTT(30), <1>3, <1>4, <1>5, <1>6, <1>7, <1>8, PtrFacts DEF TypeOK, MemoryType, Kind
  <2>2. NodeType'
    BY <1>3, <1>4, <1>5, <1>8, PtrFacts DEF TypeOK, NodeType, Kind
  <2> QED BY Zenon, <1>4, <2>1, <2>2 DEF TypeOK
<1>10. \A b \in Addr : (Allocated(b)' <=> Allocated(b) \/ b \in N) /\ (b \in N => ~Allocated(b))
  <2>1. CASE big
    BY <1>1, <1>3, <2>1, AllocatedAfter
  <2>2. CASE ~big
    BY <1>1, <1>3, <2>2, AllocatedAfter
  <2> QED BY Zenon, <2>1, <2>2
<1>11. Built(N, r, a)
  <2>1. \A b \in Addr \ N : kind'[b] = kind[b] /\ id'[b] = id[b] /\ snd'[b] = snd[b]
                            /\ (b # RootSlot(r) => fst'[b] = fst[b])
    BY Zenon, <1>3, <1>8 DEF TypeOK, MemoryType
  <2>2. \A j \in 1..size : nkind'[j] = nkind[j] /\ nfst'[j] = nfst[j] /\ nsnd'[j] = nsnd[j]
    BY <1>3, <1>4, <1>5, <1>8, BoundAssumption DEF TypeOK, NodeType
  <2>3. fst'[RootSlot(r)] = a
    BY Zenon, <1>3, <1>5, <1>8 DEF TypeOK, MemoryType
  <2>4. size <= size'
    BY <1>5
  <2> QED BY Zenon, <1>3, <1>7, <1>10, <2>1, <2>2, <2>3, <2>4 DEF Built, Allocate, cycleVars
<1>12. /\ kind'[a] = k /\ id'[a] = m /\ fst'[a] = c /\ snd'[a] = Nil
       /\ kind'[c] = "tok" /\ id'[c] = n
       /\ nkind'[n] = "tok" /\ nkind'[m] = k /\ nfst'[m] = n /\ nsnd'[m] = Nil
  BY <1>3, <1>5, <1>6, <1>8 DEF TypeOK, MemoryType, NodeType
<1>13. RunField(a, 1)'
  <2>1. Field(a, 1)' = c /\ NodeField(id[a], 1)' = n
    BY Zenon, <1>12 DEF Field, NodeField
  <2>2. KindAt(c)' = "tok" /\ Id(c)' = n /\ Rank(c)' \in 0..3
    BY <1>6, <1>12, PtrFacts DEF KindAt, Id, Rank
  <2>3. Allocated(c)'
    BY Zenon, <1>6, <1>10
  <2>4. KindAt(c)' \in ChildKinds(kind'[a], 1)
    BY <1>12, <2>2, ChildKindFacts DEF OwnerKind
  <2>5. FreshField(a, 1, c)
    BY Zenon, <1>6, <1>7, <1>12, <2>1, <2>2, <2>3, <2>4, FieldIndex DEF FreshField
  <2> QED BY Zenon, <2>5, NewField
<1>14. RunField(a, 2)'
  <2>1. Field(a, 2)' = Nil /\ NodeField(id[a], 2)' = Nil
    BY <1>12 DEF Field, NodeField
  <2> QED BY <1>6, <1>12, <2>1, ConstField, ChildKindFacts, PtrFacts
<1>15. NewOK(N, a)
  BY <1>5, <1>6, <1>7, <1>12, <1>13, <1>14 DEF NewOK, OwnerKind
<1>16. NewOK(N, c)
  BY SMTT(30), <1>5, <1>6, <1>12 DEF NewOK, OwnerKind
<1> QED BY <1>6, <1>9, <1>10, <1>11, <1>12, <1>15, <1>16, BuiltInv, ChildKindFacts DEF TermKind

\* A new collection of one element.
LEMMA NewCollectionInv ==
  ASSUME RunInv, NEW r \in Register, NEW x \in Values, NEW y \in Values, NewCollection(r, x, y)
  PROVE  RunInv'
<1>1. PICK c, a : c = Young(1) /\ a = Young(2)
  BY Zenon
<1>2. PICK n, m : n = Name(1) /\ m = Name(2)
  BY Zenon
<1> DEFINE N == {a, c}
<1>3. TypeOK /\ fwd = {} /\ Allocate(2, 2, 0)
  BY Zenon DEF NewCollection, RunInv, RunControl
<1>4. /\ ytop' \in 0..Cap /\ otop' \in 0..Cap /\ ControlType' /\ size' \in 0..MaxNodes
      /\ ytop + 1 <= Cap /\ ytop + 2 <= Cap /\ size + 1 <= MaxNodes /\ size + 2 <= MaxNodes
  BY <1>3, AllocateType
<1>5. /\ n \in 1..MaxNodes /\ n = size + 1 /\ m \in 1..MaxNodes /\ m = size + 2 /\ size' = m
      /\ RootSlot(r) \in Addr /\ SpaceOf(RootSlot(r)) = "R" /\ size \in Nat
  BY <1>2, <1>3, <1>4, NameFacts, RootFacts DEF Allocate, TypeOK, NodeType
<1>6. /\ a \in Addr /\ a \in Ptr /\ c \in Addr /\ c \in Ptr /\ a # c
      /\ SpaceOf(a) # "R" /\ SpaceOf(c) # "R" /\ SpaceOf(a) \notin OldSpace /\ SpaceOf(c) \notin OldSpace
  <2>1. /\ Young(1) \in Addr /\ Young(2) \in Addr
        /\ SpaceOf(Young(1)) = yid /\ SpaceOf(Young(2)) = yid
        /\ Index(Young(1)) = ytop + 1 /\ Index(Young(2)) = ytop + 2
    BY <1>3, <1>4, YoungFacts
  <2>2. yid # "R" /\ yid \notin OldSpace /\ ytop + 1 # ytop + 2
    BY <1>3, SpaceFacts DEF TypeOK, ControlType, MemoryType
  <2> QED BY Zenon, <1>1, <2>1, <2>2, PtrFacts
<1>7. /\ old' \in SUBSET Addr /\ age' \in SUBSET Addr /\ fwd' = {}
      /\ a \notin old' /\ a \notin age' /\ c \notin old' /\ c \notin age'
      /\ \A b \in Addr \ N : (b \in old' <=> b \in old) /\ (b \in age' <=> b \in age)
  <2>1. InitHeaders({c, a}, {})
    BY Zenon, <1>1 DEF NewCollection
  <2> QED BY Zenon, <1>3, <1>6, <2>1 DEF InitHeaders, TypeOK, MemoryType
<1>8. /\ x \in Ptr /\ y \in Ptr
      /\ x \in Const \/ (x \in Addr /\ Allocated(x))
      /\ y \in Const \/ (y \in Addr /\ Allocated(y))
      /\ KindAt(x) \in Items /\ KindAt(y) \in TermKind
      /\ Id(x) \in Const \cup 0..MaxNodes /\ Id(y) \in Const \cup 0..MaxNodes
  BY Zenon, ValueOK DEF NewCollection
<1>9. /\ kind' = [kind EXCEPT ![c] = "leaf", ![a] = "coll"]
      /\ id' = [id EXCEPT ![c] = n, ![a] = m]
      /\ fst' = [fst EXCEPT ![c] = x, ![a] = c, ![RootSlot(r)] = a]
      /\ snd' = [snd EXCEPT ![c] = x, ![a] = y]
      /\ nkind' = [nkind EXCEPT ![n] = "leaf", ![m] = "coll"]
      /\ nfst' = [nfst EXCEPT ![n] = Id(x), ![m] = n]
      /\ nsnd' = [nsnd EXCEPT ![n] = Id(x), ![m] = Id(y)]
  BY Zenon, <1>1, <1>2 DEF NewCollection
<1>10. TypeOK'
  <2>1. MemoryType'
    BY SMTT(30), <1>3, <1>4, <1>5, <1>6, <1>7, <1>8, <1>9 DEF TypeOK, MemoryType, Kind
  <2>2. NodeType'
    BY SMTT(30), <1>3, <1>4, <1>5, <1>8, <1>9 DEF TypeOK, NodeType, Kind
  <2> QED BY Zenon, <1>4, <2>1, <2>2 DEF TypeOK
<1>11. \A b \in Addr : (Allocated(b)' <=> Allocated(b) \/ b \in N) /\ (b \in N => ~Allocated(b))
  BY <1>1, <1>3, AllocatedAfter
<1>12. Built(N, r, a)
  <2>1. \A b \in Addr \ N : kind'[b] = kind[b] /\ id'[b] = id[b] /\ snd'[b] = snd[b]
                            /\ (b # RootSlot(r) => fst'[b] = fst[b])
    BY Zenon, <1>3, <1>9 DEF TypeOK, MemoryType
  <2>2. \A j \in 1..size : nkind'[j] = nkind[j] /\ nfst'[j] = nfst[j] /\ nsnd'[j] = nsnd[j]
    BY <1>3, <1>4, <1>5, <1>9, BoundAssumption DEF TypeOK, NodeType
  <2>3. fst'[RootSlot(r)] = a
    BY Zenon, <1>3, <1>5, <1>9 DEF TypeOK, MemoryType
  <2>4. size <= size'
    BY <1>5
  <2> QED BY Zenon, <1>3, <1>7, <1>11, <2>1, <2>2, <2>3, <2>4 DEF Built, Allocate, cycleVars
<1>13. /\ kind'[a] = "coll" /\ id'[a] = m /\ fst'[a] = c /\ snd'[a] = y
       /\ kind'[c] = "leaf" /\ id'[c] = n /\ fst'[c] = x /\ snd'[c] = x
       /\ nkind'[n] = "leaf" /\ nfst'[n] = Id(x) /\ nsnd'[n] = Id(x)
       /\ nkind'[m] = "coll" /\ nfst'[m] = n /\ nsnd'[m] = Id(y)
  BY <1>3, <1>5, <1>6, <1>9 DEF TypeOK, MemoryType, NodeType
<1>14. /\ x \in Const \/ (x \in Addr /\ Allocated(x)')
       /\ KindAt(x)' = KindAt(x) /\ Id(x)' = Id(x) /\ Rank(x)' \in 0..3
  BY Zenon, <1>6, <1>8, <1>11, <1>12, ValueKept
<1>15. /\ y \in Const \/ (y \in Addr /\ Allocated(y)')
       /\ KindAt(y)' = KindAt(y) /\ Id(y)' = Id(y) /\ Rank(y)' \in 0..3
  BY Zenon, <1>6, <1>8, <1>11, <1>12, ValueKept
<1>16. Allocated(c)' /\ KindAt(c)' = "leaf" /\ Id(c)' = n /\ Rank(c)' \in 0..3
  BY <1>6, <1>11, <1>13, PtrFacts DEF KindAt, Id, Rank
<1>17. \A i \in 1..2 : Field(c, i)' = x /\ NodeField(id[c], i)' = Id(x)
  BY Zenon, <1>13 DEF Field, NodeField
<1>18. /\ Field(a, 1)' = c /\ NodeField(id[a], 1)' = n
       /\ Field(a, 2)' = y /\ NodeField(id[a], 2)' = Id(y)
  <2>1. 2 # 1
    OBVIOUS
  <2> QED BY Zenon, <1>13, <2>1 DEF Field, NodeField
<1>19. \A i \in 1..2 : RunField(c, i)'
  <2>1. \A i \in 1..2 : KindAt(x)' \in ChildKinds(kind'[c], i)
    <3>1. KindAt(x)' \in Items
      BY Zenon, <1>8, <1>13, <1>14
    <3>2. \A i \in 1..2 : ChildKinds("leaf", i) = Items
      BY Zenon, ChildKindFacts
    <3> QED BY Zenon, <1>13, <3>1, <3>2
  <2>2. kind'[c] # "root"
    BY Zenon, <1>13
  <2>3. \A i \in 1..2 : FreshField(c, i, x)
    BY Zenon, <1>6, <1>7, <1>8, <1>13, <1>14, <1>17, <2>1, <2>2 DEF FreshField
  <2> QED BY Zenon, <2>3, NewField
<1>20. RunField(a, 1)'
  <2>1. FreshField(a, 1, c)
    BY Zenon, <1>6, <1>7, <1>13, <1>16, <1>18, FieldIndex, ChildKindFacts DEF FreshField, CollectionNodeKind
  <2> QED BY Zenon, <2>1, NewField
<1>21. RunField(a, 2)'
  <2>1. FreshField(a, 2, y)
    BY Zenon, <1>6, <1>7, <1>8, <1>13, <1>15, <1>18, FieldIndex, ChildKindFacts DEF FreshField
  <2> QED BY Zenon, <2>1, NewField
<1>22. NewOK(N, a) /\ NewOK(N, c)
  <2>1. id'[a] \in 1..size' /\ id'[a] > size /\ id'[c] \in 1..size' /\ id'[c] > size /\ id'[a] # id'[c]
    <3>1. m \in 1..size' /\ m > size /\ n \in 1..size' /\ n > size /\ m # n
      BY <1>5
    <3> QED BY Zenon, <1>13, <3>1
  <2>2. \A i \in 1..2 : RunField(a, i)'
    BY Zenon, <1>20, <1>21, FieldIndex
  <2> QED BY Zenon, <1>6, <1>7, <1>13, <1>19, <2>1, <2>2 DEF NewOK, OwnerKind
<1> QED BY <1>6, <1>10, <1>11, <1>12, <1>13, <1>22, BuiltInv, ChildKindFacts DEF TermKind

\* The fields of an allocated object that is not a payload.
LEMMA FieldOK ==
  ASSUME RunInv, NEW c \in Addr, Allocated(c), kind[c] # "tok", NEW i \in 1..2
  PROVE  /\ RunField(c, i) /\ Field(c, i) \in Ptr
         /\ Field(c, i) \in Const \/ (Field(c, i) \in Addr /\ Allocated(Field(c, i)))
         /\ KindAt(Field(c, i)) \in ChildKinds(kind[c], i)
         /\ Id(Field(c, i)) \in Const \cup 0..MaxNodes
<1>1. RunField(c, i)
  BY Zenon DEF RunInv, RunFields
<1>2. Field(c, i) \in Ptr
  BY Zenon DEF RunInv, TypeOK, MemoryType, Field
<1> QED BY Zenon, <1>1, <1>2, ValueFacts DEF RunField, RunInv

\* A collection extended by one element, sharing the nodes it had.
LEMMA ExtendCollectionInv ==
  ASSUME RunInv, NEW r \in Register, NEW s \in Register, NEW x \in Values, ExtendCollection(r, s, x)
  PROVE  RunInv'
<1>1. PICK l, d, a : l = Young(1) /\ d = Young(2) /\ a = Young(3)
  BY Zenon
<1>2. PICK n, m, k : n = Name(1) /\ m = Name(2) /\ k = Name(3)
  BY Zenon
<1>c. PICK c : c = Root(s)
  BY Zenon
<1>p. PICK p, q : p = fst[c] /\ q = snd[c]
  BY Zenon
<1> DEFINE N == {l, d, a}
<1>3. TypeOK /\ fwd = {} /\ Allocate(3, 3, 0)
  BY Zenon DEF ExtendCollection, RunInv, RunControl
<1>4. /\ ytop' \in 0..Cap /\ otop' \in 0..Cap /\ ControlType' /\ size' \in 0..MaxNodes
      /\ \A i \in 1..3 : ytop + i <= Cap /\ size + i <= MaxNodes
  BY <1>3, AllocateType
<1>5. /\ n \in 1..MaxNodes /\ n = size + 1 /\ m \in 1..MaxNodes /\ m = size + 2
      /\ k \in 1..MaxNodes /\ k = size + 3 /\ size' = k
      /\ RootSlot(r) \in Addr /\ SpaceOf(RootSlot(r)) = "R" /\ size \in Nat
  BY <1>2, <1>3, <1>4, NameFacts, RootFacts DEF Allocate, TypeOK, NodeType
<1>6. /\ l \in Addr /\ l \in Ptr /\ d \in Addr /\ d \in Ptr /\ a \in Addr /\ a \in Ptr
      /\ l # d /\ l # a /\ d # a
      /\ \A b \in N : SpaceOf(b) # "R" /\ SpaceOf(b) \notin OldSpace
  <2>1. \A i \in 1..3 : Young(i) \in Addr /\ SpaceOf(Young(i)) = yid /\ Index(Young(i)) = ytop + i
    BY Zenon, <1>3, <1>4, YoungFacts
  <2>2. yid # "R" /\ yid \notin OldSpace /\ ytop \in Nat
    BY <1>3, SpaceFacts DEF TypeOK, ControlType, MemoryType
  <2>3. l # d /\ l # a /\ d # a
    BY <1>1, <2>1, <2>2
  <2> QED BY <1>1, <2>1, <2>2, <2>3, PtrFacts
<1>7. /\ old' \in SUBSET Addr /\ age' \in SUBSET Addr /\ fwd' = {}
      /\ \A b \in N : b \notin old' /\ b \notin age'
      /\ \A b \in Addr \ N : (b \in old' <=> b \in old) /\ (b \in age' <=> b \in age)
  <2>1. InitHeaders(N, {})
    BY Zenon, <1>1 DEF ExtendCollection
  <2> QED BY Zenon, <1>3, <1>6, <2>1 DEF InitHeaders, TypeOK, MemoryType
<1>8. /\ x \in Ptr /\ (x \in Const \/ (x \in Addr /\ Allocated(x)))
      /\ KindAt(x) \in Items /\ Id(x) \in Const \cup 0..MaxNodes
  BY Zenon, ValueOK DEF ExtendCollection
<1>9. c \in Addr /\ Allocated(c) /\ kind[c] = "coll"
  <2>1. c \in Values /\ KindAt(c) = "coll"
    BY Zenon, <1>c DEF Values, ExtendCollection
  <2>2. c \in Const \/ (c \in Addr /\ Allocated(c))
    BY Zenon, <2>1, ValueOK
  <2> QED BY Zenon, <2>1, <2>2 DEF KindAt
<1>10. /\ p \in Ptr /\ (p \in Const \/ (p \in Addr /\ Allocated(p)))
       /\ KindAt(p) \in CollectionNodeKind /\ Id(p) \in Const \cup 0..MaxNodes
  <2>1. Field(c, 1) = p
    BY Zenon, <1>p DEF Field
  <2> QED BY <1>9, <2>1, FieldOK, ChildKindFacts
<1>11. /\ q \in Ptr /\ (q \in Const \/ (q \in Addr /\ Allocated(q)))
       /\ KindAt(q) \in TermKind /\ Id(q) \in Const \cup 0..MaxNodes
  <2>1. Field(c, 2) = q
    BY <1>p DEF Field
  <2> QED BY <1>9, <2>1, FieldOK, ChildKindFacts
<1>12. /\ kind' = [kind EXCEPT ![l] = "leaf", ![d] = "inner", ![a] = "coll"]
       /\ id' = [id EXCEPT ![l] = n, ![d] = m, ![a] = k]
       /\ fst' = [fst EXCEPT ![l] = x, ![d] = l, ![a] = d, ![RootSlot(r)] = a]
       /\ snd' = [snd EXCEPT ![l] = x, ![d] = p, ![a] = q]
       /\ nkind' = [nkind EXCEPT ![n] = "leaf", ![m] = "inner", ![k] = "coll"]
       /\ nfst' = [nfst EXCEPT ![n] = Id(x), ![m] = n, ![k] = m]
       /\ nsnd' = [nsnd EXCEPT ![n] = Id(x), ![m] = Id(p), ![k] = Id(q)]
  BY Zenon, <1>1, <1>2, <1>c, <1>p DEF ExtendCollection
<1>13. TypeOK'
  <2>1. MemoryType'
    BY <1>3, <1>4, <1>5, <1>6, <1>7, <1>8, <1>10, <1>11, <1>12 DEF TypeOK, MemoryType, Kind
  <2>2. NodeType'
    <3>1. /\ nkind \in [1..MaxNodes -> Kind]
          /\ nfst \in [1..MaxNodes -> Const \cup 0..MaxNodes]
          /\ nsnd \in [1..MaxNodes -> Const \cup 0..MaxNodes]
      BY Zenon, <1>3 DEF TypeOK, NodeType
    <3>2. nkind' \in [1..MaxNodes -> Kind]
      BY Zenon, <1>12, <3>1 DEF Kind
    <3>3. nfst' \in [1..MaxNodes -> Const \cup 0..MaxNodes]
      BY <1>5, <1>8, <1>12, <3>1
    <3>4. nsnd' \in [1..MaxNodes -> Const \cup 0..MaxNodes]
      BY Zenon, <1>8, <1>10, <1>11, <1>12, <3>1
    <3> QED BY Zenon, <1>4, <3>2, <3>3, <3>4 DEF NodeType
  <2> QED BY Zenon, <1>4, <2>1, <2>2 DEF TypeOK
<1>14. \A b \in Addr : (Allocated(b)' <=> Allocated(b) \/ b \in N) /\ (b \in N => ~Allocated(b))
  BY <1>1, <1>3, AllocatedAfter
<1>15. Built(N, r, a)
  <2>1. \A b \in Addr \ N : kind'[b] = kind[b] /\ id'[b] = id[b] /\ snd'[b] = snd[b]
                            /\ (b # RootSlot(r) => fst'[b] = fst[b])
    BY Zenon, <1>3, <1>12 DEF TypeOK, MemoryType
  <2>2. \A j \in 1..size : nkind'[j] = nkind[j] /\ nfst'[j] = nfst[j] /\ nsnd'[j] = nsnd[j]
    BY <1>3, <1>4, <1>5, <1>12, BoundAssumption DEF TypeOK, NodeType
  <2>3. fst'[RootSlot(r)] = a
    BY Zenon, <1>3, <1>5, <1>12 DEF TypeOK, MemoryType
  <2>4. size <= size'
    BY <1>5
  <2> QED BY Zenon, <1>3, <1>7, <1>14, <2>1, <2>2, <2>3, <2>4 DEF Built, Allocate, cycleVars
<1>16. /\ kind'[l] = "leaf" /\ id'[l] = n /\ fst'[l] = x /\ snd'[l] = x
       /\ kind'[d] = "inner" /\ id'[d] = m /\ fst'[d] = l /\ snd'[d] = p
       /\ kind'[a] = "coll" /\ id'[a] = k /\ fst'[a] = d /\ snd'[a] = q
  BY Zenon, <1>3, <1>5, <1>6, <1>12 DEF TypeOK, MemoryType
<1>17. /\ nkind'[n] = "leaf" /\ nfst'[n] = Id(x) /\ nsnd'[n] = Id(x)
       /\ nkind'[m] = "inner" /\ nfst'[m] = n /\ nsnd'[m] = Id(p)
       /\ nkind'[k] = "coll" /\ nfst'[k] = m /\ nsnd'[k] = Id(q)
  BY <1>3, <1>5, <1>12 DEF TypeOK, NodeType
<1>18. \A b \in N : ~Allocated(b)
  BY Zenon, <1>6, <1>14
<1>19. /\ x \in Const \/ (x \in Addr /\ Allocated(x)')
       /\ KindAt(x)' = KindAt(x) /\ Id(x)' = Id(x) /\ Rank(x)' \in 0..3
  BY Zenon, <1>6, <1>8, <1>15, <1>18, ValueKept
<1>20. /\ p \in Const \/ (p \in Addr /\ Allocated(p)')
       /\ KindAt(p)' = KindAt(p) /\ Id(p)' = Id(p) /\ Rank(p)' \in 0..3
  BY Zenon, <1>6, <1>10, <1>15, <1>18, ValueKept
<1>21. /\ q \in Const \/ (q \in Addr /\ Allocated(q)')
       /\ KindAt(q)' = KindAt(q) /\ Id(q)' = Id(q) /\ Rank(q)' \in 0..3
  BY Zenon, <1>6, <1>11, <1>15, <1>18, ValueKept
<1>22. /\ Allocated(l)' /\ KindAt(l)' = "leaf" /\ Id(l)' = n /\ Rank(l)' \in 0..3
       /\ Allocated(d)' /\ KindAt(d)' = "inner" /\ Id(d)' = m /\ Rank(d)' \in 0..3
  BY <1>6, <1>14, <1>16, PtrFacts DEF KindAt, Id, Rank
<1>23. /\ \A i \in 1..2 : Field(l, i)' = x /\ NodeField(id[l], i)' = Id(x)
       /\ Field(d, 1)' = l /\ NodeField(id[d], 1)' = n
       /\ Field(d, 2)' = p /\ NodeField(id[d], 2)' = Id(p)
       /\ Field(a, 1)' = d /\ NodeField(id[a], 1)' = m
       /\ Field(a, 2)' = q /\ NodeField(id[a], 2)' = Id(q)
  BY <1>16, <1>17 DEF Field, NodeField
<1>24. \A i \in 1..2 : RunField(l, i)'
  <2>1. \A i \in 1..2 : KindAt(x)' \in ChildKinds(kind'[l], i)
    <3>1. KindAt(x)' \in Items
      BY Zenon, <1>8, <1>16, <1>19
    <3>2. \A i \in 1..2 : ChildKinds("leaf", i) = Items
      BY Zenon, ChildKindFacts
    <3> QED BY Zenon, <1>16, <3>1, <3>2
  <2>2. kind'[l] # "root"
    BY Zenon, <1>16
  <2>3. \A i \in 1..2 : FreshField(l, i, x)
    BY Zenon, <1>6, <1>7, <1>8, <1>16, <1>19, <1>23, <2>1, <2>2 DEF FreshField
  <2> QED BY Zenon, <2>3, NewField
<1>25. RunField(d, 1)'
  <2>1. FreshField(d, 1, l)
    BY Zenon, <1>6, <1>7, <1>16, <1>22, <1>23, FieldIndex, ChildKindFacts DEF FreshField, CollectionNodeKind
  <2> QED BY Zenon, <2>1, NewField
<1>26. RunField(d, 2)'
  <2>1. FreshField(d, 2, p)
    BY Zenon, <1>6, <1>7, <1>10, <1>16, <1>20, <1>23, FieldIndex, ChildKindFacts DEF FreshField
  <2> QED BY Zenon, <2>1, NewField
<1>27. RunField(a, 1)'
  <2>1. FreshField(a, 1, d)
    BY Zenon, <1>6, <1>7, <1>16, <1>22, <1>23, FieldIndex, ChildKindFacts DEF FreshField, CollectionNodeKind
  <2> QED BY Zenon, <2>1, NewField
<1>28. RunField(a, 2)'
  <2>1. FreshField(a, 2, q)
    BY Zenon, <1>6, <1>7, <1>11, <1>16, <1>21, <1>23, FieldIndex, ChildKindFacts DEF FreshField
  <2> QED BY Zenon, <2>1, NewField
<1>29. \A b \in N : kind'[b] \in {"leaf", "inner", "coll"} /\ \A i \in 1..2 : RunField(b, i)'
  BY Zenon, <1>16, <1>24, <1>25, <1>26, <1>27, <1>28, FieldIndex
<1>30. \A b \in N : NewOK(N, b)
  <2>1. \A b \in N : id'[b] \in 1..size' /\ id'[b] > size /\ \A e \in N : id'[b] = id'[e] => b = e
    BY <1>5, <1>16
  <2>2. \A b \in N : nkind'[id'[b]] = kind'[b]
    BY Zenon, <1>16, <1>17
  <2>3. \A b \in N : kind'[b] \notin {"free", "root"} /\ kind'[b] \notin OwnerKind
    BY Zenon, <1>29 DEF OwnerKind
  <2> QED BY Zenon, <1>6, <1>7, <1>29, <2>1, <2>2, <2>3 DEF NewOK
<1>31. kind'[a] \in ChildKinds("root", 1)
  BY Zenon, <1>16, ChildKindFacts DEF TermKind
<1> QED BY Zenon, <1>6, <1>13, <1>15, <1>18, <1>30, <1>31, BuiltInv

---------------------------------------------------------------------------
(* Appending to a buffer.                                                  *)

\* The buffer a register holds.
LEMMA BufferOK ==
  ASSUME RunInv, NEW s \in Register, KindAt(Root(s)) = "buf"
  PROVE  /\ Root(s) \in Addr /\ Allocated(Root(s)) /\ kind[Root(s)] = "buf"
         /\ id[Root(s)] \in 1..size
         /\ fst[Root(s)] \in Addr /\ kind[fst[Root(s)]] = "tok" /\ Allocated(fst[Root(s)])
<1>1. Root(s) \in Values
  BY Zenon DEF Values
<1>2. Root(s) \in Const \/ (Root(s) \in Addr /\ Allocated(Root(s)))
  BY Zenon, <1>1, ValueOK
<1>3. Root(s) \in Addr /\ Allocated(Root(s)) /\ kind[Root(s)] = "buf"
  BY Zenon, <1>2 DEF KindAt
<1>4. fst[Root(s)] \in Addr /\ kind[fst[Root(s)]] = "tok"
  BY Zenon, <1>3 DEF RunInv, RunPayloads, OwnerKind
<1>5. Allocated(fst[Root(s)])
  BY Zenon, <1>4 DEF RunInv, RunLayout
<1> QED BY Zenon, <1>3, <1>4, <1>5 DEF RunInv, RunNames

\* Only the owner of a payload leads to it.
LEMMA PayloadOwner ==
  ASSUME RunInv, NEW b \in Addr, kind[b] \in OwnerKind,
         NEW a \in Addr, Allocated(a) \/ IsRoot(a), kind[a] # "tok", NEW i \in 1..2, Field(a, i) = fst[b]
  PROVE  a = b /\ i = 1
<1>1. fst[b] \in Addr /\ kind[fst[b]] = "tok"
  BY Zenon DEF RunInv, RunPayloads
<1>2. KindAt(fst[b]) = "tok"
  BY Zenon, <1>1, PtrFacts DEF KindAt
<1>3. "tok" \in ChildKinds(kind[a], i)
  BY Zenon, <1>2 DEF RunInv, RunFields, RunField
<1>4. kind[a] \in OwnerKind /\ i = 1
  <2>1. kind[a] \in Kind
    BY Zenon DEF RunInv, TypeOK, MemoryType
  <2> QED BY <1>3, <2>1, ChildKindFacts DEF Kind, OwnerKind, TermKind, CollectionNodeKind, Items
<1> QED BY Zenon, <1>4 DEF RunInv, RunPayloads, Field

\* hook_BUFFER_concat_raw, in place.
LEMMA BufferAppendInv ==
  ASSUME RunInv, NEW s \in Register, BufferAppend(s)
  PROVE  RunInv'
<1>1. PICK b, c : b = Root(s) /\ c = fst[b]
  BY Zenon
<1>2. PICK n : n = Name(1)
  BY Zenon
<1>k. PICK k : k = id[b]
  BY Zenon
<1>3. TypeOK /\ Allocate(1, 0, 0) /\ KindAt(b) = "buf"
  BY Zenon, <1>1 DEF BufferAppend, RunInv
<1>4. /\ ytop' \in 0..Cap /\ otop' \in 0..Cap /\ ControlType' /\ size' \in 0..MaxNodes /\ size + 1 <= MaxNodes
  BY <1>3, AllocateType
<1>5. /\ n \in 1..MaxNodes /\ n = size + 1 /\ size' = n /\ size \in Nat
  BY <1>2, <1>3, <1>4, NameFacts DEF Allocate, TypeOK, NodeType
<1>6. /\ b \in Addr /\ Allocated(b) /\ kind[b] = "buf" /\ k \in 1..size
      /\ c \in Addr /\ kind[c] = "tok" /\ Allocated(c)
  BY Zenon, <1>1, <1>3, <1>k, BufferOK
<1>7. /\ id' = [id EXCEPT ![c] = n]
      /\ nkind' = [nkind EXCEPT ![n] = "tok"]
      /\ nfst' = [nfst EXCEPT ![k] = n]
      /\ kind' = kind /\ old' = old /\ age' = age /\ fwd' = fwd /\ fst' = fst /\ snd' = snd /\ nsnd' = nsnd
  BY Zenon, <1>1, <1>2, <1>k DEF BufferAppend, hdrVars
<1>8. /\ ytop' = ytop /\ otop' = otop /\ yid' = yid /\ oid' = oid
      /\ phase' = phase /\ oprev' = oprev /\ scan' = scan /\ fld' = fld /\ trav' = trav
      /\ collect_old' = collect_old /\ iter' = iter
  BY <1>3 DEF Allocate, spaceVars, cycleVars, TypeOK, MemoryType
<1>9. TypeOK'
  <2>1. MemoryType'
    BY Zenon, <1>3, <1>4, <1>5, <1>7 DEF TypeOK, MemoryType
  <2>2. NodeType'
    BY Zenon, <1>3, <1>4, <1>5, <1>7 DEF TypeOK, NodeType, Kind
  <2> QED BY Zenon, <1>4, <2>1, <2>2 DEF TypeOK
<1>10. \A a : Allocated(a)' <=> Allocated(a)
  BY Zenon, <1>8 DEF Allocated
<1>11. \A a \in Addr : a # c => id'[a] = id[a]
  BY Zenon, <1>3, <1>7 DEF TypeOK, MemoryType
<1>12. id'[c] = n /\ nkind'[n] = "tok" /\ nfst'[k] = n
  <2>1. k \in 1..MaxNodes
    BY <1>4, <1>5, <1>6, BoundAssumption
  <2> QED BY Zenon, <1>3, <1>5, <1>6, <1>7, <2>1 DEF TypeOK, MemoryType, NodeType
<1>13. \A j \in 1..size : nkind'[j] = nkind[j] /\ (j # k => nfst'[j] = nfst[j])
  BY <1>3, <1>4, <1>5, <1>7 DEF TypeOK, NodeType
<1>14. RunLayout' /\ RunHeaders'
  BY Zenon, <1>7, <1>10 DEF RunInv, RunLayout, RunHeaders
<1>15. RunFields'
  <2> SUFFICES ASSUME NEW a \in Addr, Allocated(a) \/ IsRoot(a), kind[a] # "tok", NEW i \in 1..2
               PROVE  RunField(a, i)'
    BY Zenon, <1>7, <1>10 DEF RunFields, IsRoot
  <2>1. PICK p : p = Field(a, i)
    BY Zenon
  <2>2. Field(a, i)' = p
    BY Zenon, <1>7, <2>1 DEF Field
  <2>3. RunField(a, i)
    BY Zenon DEF RunInv, RunFields
  <2>4. KindAt(p)' = KindAt(p) /\ Rank(p)' = Rank(p) /\ Rank(a)' = Rank(a)
    BY Zenon, <1>7 DEF KindAt, Rank
  <2>5. kind[a] # "root" => Id(p)' = NodeField(id[a], i)'
    <3> HAVE kind[a] # "root"
    <3>1. Allocated(a) /\ a # c /\ id'[a] = id[a] /\ id[a] \in 1..size
      BY Zenon, <1>6, <1>11 DEF RunInv, RunNames, RunLayout, IsRoot
    <3>2. CASE a = b /\ i = 1
      <4>1. p = c
        BY Zenon, <1>1, <2>1, <3>2 DEF Field
      <4>2. Id(c)' = n /\ NodeField(id[b], 1)' = n
        BY Zenon, <1>6, <1>12, <3>1, <3>2, <1>k, PtrFacts DEF Id, NodeField
      <4> QED BY Zenon, <3>2, <4>1, <4>2
    <3>3. CASE ~(a = b /\ i = 1)
      <4>1. p # c
        BY Zenon, <1>1, <1>6, <2>1, <3>3, PayloadOwner DEF OwnerKind
      <4>2. p \in Const \/ p \in Addr
        BY Zenon, <2>1, <2>3 DEF RunField
      <4>3. Id(p)' = Id(p)
        BY Zenon, <1>11, <4>1, <4>2 DEF Id
      <4>4. i = 1 => id[a] # k
        BY Zenon, <1>6, <1>k, <3>1, <3>3 DEF RunInv, RunNames
      <4>5. NodeField(id[a], i)' = NodeField(id[a], i)
        BY <1>7, <1>13, <3>1, <4>4 DEF NodeField
      <4> QED BY Zenon, <2>1, <2>3, <4>3, <4>5 DEF RunField
    <3> QED BY Zenon, <3>2, <3>3
  <2> QED BY Zenon, <1>7, <1>10, <2>1, <2>2, <2>3, <2>4, <2>5 DEF RunField
<1>16. RunNames'
  <2>1. ASSUME NEW a \in Addr, Allocated(a)
        PROVE  /\ id'[a] \in 1..size' /\ nkind'[id'[a]] = kind'[a]
               /\ a # c => id'[a] = id[a] /\ id[a] \in 1..size
    <3>1. CASE a = c
      BY <1>5, <1>6, <1>7, <1>12, <3>1
    <3>2. CASE a # c
      <4>1. id[a] \in 1..size /\ nkind[id[a]] = kind[a] /\ id'[a] = id[a]
        BY Zenon, <1>11, <2>1, <3>2 DEF RunInv, RunNames
      <4> QED BY <1>5, <1>7, <1>13, <3>2, <4>1
    <3> QED BY Zenon, <3>1, <3>2
  <2>2. ASSUME NEW a \in Addr, NEW d \in Addr, Allocated(a), Allocated(d), kind[a] # "tok", id'[a] = id'[d]
        PROVE  a = d
    <3>1. a # c
      BY Zenon, <1>6, <2>2
    <3>2. d # c
      BY <1>5, <1>12, <2>1, <2>2, <3>1
    <3> QED BY Zenon, <2>1, <2>2, <3>1, <3>2 DEF RunInv, RunNames
  <2> QED BY Zenon, <1>7, <1>10, <2>1, <2>2 DEF RunNames
<1>17. RunPayloads'
  BY Zenon, <1>7 DEF RunInv, RunPayloads
<1>18. RunControl'
  BY Zenon, <1>7, <1>8, <1>10 DEF RunInv, RunControl
<1> QED BY Zenon, <1>8, <1>9, <1>14, <1>15, <1>16, <1>17, <1>18 DEF RunInv

\* hook_BUFFER_concat_raw, with new contents.
LEMMA BufferGrowInv ==
  ASSUME RunInv, NEW s \in Register, NEW big \in BOOLEAN, BufferGrow(s, big)
  PROVE  RunInv'
<1>1. PICK b : b = Root(s)
  BY Zenon
<1>c. PICK c : c = IF b \in old \/ big THEN Old(1) ELSE Young(1)
  BY Zenon
<1>2. PICK n : n = Name(1)
  BY Zenon
<1>k. PICK k : k = id[b]
  BY Zenon
<1>3. TypeOK /\ KindAt(b) = "buf" /\ fwd = {}
  BY Zenon, <1>1 DEF BufferGrow, ContentsInOld, RunInv, RunControl
<1>6. /\ b \in Addr /\ Allocated(b) /\ kind[b] = "buf" /\ k \in 1..size
  BY Zenon, <1>1, <1>3, <1>k, BufferOK
<1>4. /\ ytop' \in 0..Cap /\ otop' \in 0..Cap /\ ControlType' /\ size' \in 0..MaxNodes
      /\ ytop + 1 <= Cap /\ otop + 1 <= Cap /\ size + 1 <= MaxNodes /\ size' = size + 1
      /\ phase' = phase /\ oprev' = oprev /\ scan' = scan /\ fld' = fld /\ trav' = trav
      /\ collect_old' = collect_old /\ iter' = iter
  <2>1. Allocate(1, 0, 1) \/ Allocate(1, 1, 0)
    BY Zenon, <1>1 DEF BufferGrow, ContentsInOld
  <2>2. CASE Allocate(1, 0, 1)
    BY SMTT(30), <1>3, <2>2, AllocateType DEF Allocate, cycleVars
  <2>3. CASE Allocate(1, 1, 0)
    BY <1>3, <2>3, AllocateType DEF Allocate, cycleVars
  <2> QED BY Zenon, <2>1, <2>2, <2>3
<1>5. /\ n \in 1..MaxNodes /\ n = size + 1 /\ size' = n /\ size \in Nat /\ k \in 1..MaxNodes
  <2>1. n \in 1..MaxNodes /\ n = size + 1 /\ size' = n /\ size \in Nat
    BY <1>2, <1>3, <1>4, NameFacts DEF TypeOK, NodeType
  <2> QED BY <1>4, <1>6, <2>1, BoundAssumption
<1>8. /\ c \in Addr /\ SpaceOf(c) # "R" /\ ~Allocated(c)
      /\ b \in old => SpaceOf(c) \in OldSpace
      /\ \A a \in Addr : Allocated(a)' <=> (Allocated(a) \/ a = c)
  <2>1. CASE b \in old \/ big
    <3>1. c = Old(1) /\ Allocate(1, 0, 1)
      BY Zenon, <1>1, <1>c, <2>1 DEF BufferGrow, ContentsInOld
    <3>2. c \in Addr /\ SpaceOf(c) = oid /\ oid # "R" /\ oid \in OldSpace
      BY <1>3, <1>4, <3>1, OldFacts, SpaceFacts DEF TypeOK, ControlType
    <3>3. \A a \in Addr : (Allocated(a)' <=> (Allocated(a) \/ a = c)) /\ (a = c => ~Allocated(a))
      BY <1>3, <3>1, AllocatedAfter
    <3> QED BY Zenon, <3>2, <3>3
  <2>2. CASE ~(b \in old \/ big)
    <3>1. c = Young(1) /\ Allocate(1, 1, 0)
      BY Zenon, <1>1, <1>c, <2>2 DEF BufferGrow, ContentsInOld
    <3>2. c \in Addr /\ SpaceOf(c) = yid /\ yid # "R"
      BY <1>3, <1>4, <3>1, YoungFacts, SpaceFacts DEF TypeOK, ControlType
    <3>3. \A a \in Addr : (Allocated(a)' <=> (Allocated(a) \/ a = c)) /\ (a = c => ~Allocated(a))
      BY <1>3, <3>1, AllocatedAfter
    <3> QED BY Zenon, <2>2, <3>2, <3>3
  <2> QED BY Zenon, <2>1, <2>2
<1>7. /\ kind' = [kind EXCEPT ![c] = "tok"]
      /\ id' = [id EXCEPT ![c] = n]
      /\ fst' = [fst EXCEPT ![c] = Nil, ![b] = c]
      /\ snd' = [snd EXCEPT ![c] = Nil]
      /\ nkind' = [nkind EXCEPT ![n] = "tok"]
      /\ nfst' = [nfst EXCEPT ![k] = n]
      /\ nsnd' = nsnd
      /\ InitHeaders({}, {c}) \/ InitHeaders({c}, {})
  BY Zenon, <1>1, <1>2, <1>c, <1>k DEF BufferGrow, ContentsInOld
<1>9. /\ old' \in SUBSET Addr /\ age' \in SUBSET Addr /\ fwd' = {}
      /\ \A a \in Addr : a # c => (a \in old' <=> a \in old) /\ (a \in age' <=> a \in age)
  BY Zenon, <1>3, <1>7, <1>8 DEF InitHeaders, TypeOK, MemoryType
<1>10. TypeOK'
  <2>1. MemoryType'
    <3>1. kind' \in [Addr -> Kind]
      BY Zenon, <1>3, <1>7, <1>8 DEF TypeOK, MemoryType, Kind
    <3>2. id' \in [Addr -> 0..MaxNodes]
      BY <1>3, <1>5, <1>7, <1>8 DEF TypeOK, MemoryType
    <3>3. fst' \in [Addr -> Ptr] /\ snd' \in [Addr -> Ptr]
      BY Zenon, <1>3, <1>6, <1>7, <1>8, PtrFacts DEF TypeOK, MemoryType
    <3> QED BY Zenon, <1>4, <1>9, <3>1, <3>2, <3>3 DEF MemoryType
  <2>2. NodeType'
    BY Zenon, <1>3, <1>4, <1>5, <1>7 DEF TypeOK, NodeType, Kind
  <2> QED BY Zenon, <1>4, <2>1, <2>2 DEF TypeOK
<1>11. b # c
  BY Zenon, <1>6, <1>8
<1>12. /\ kind'[c] = "tok" /\ id'[c] = n /\ fst'[b] = c
       /\ nkind'[n] = "tok" /\ nfst'[k] = n
  BY Zenon, <1>3, <1>5, <1>6, <1>7, <1>8, <1>11 DEF TypeOK, MemoryType, NodeType
<1>13. \A a \in Addr : a # c => /\ kind'[a] = kind[a] /\ id'[a] = id[a] /\ snd'[a] = snd[a]
                                /\ a # b => fst'[a] = fst[a]
  BY Zenon, <1>3, <1>7 DEF TypeOK, MemoryType
<1>14. \A j \in 1..size : nkind'[j] = nkind[j] /\ (j # k => nfst'[j] = nfst[j])
  BY SMTT(30), <1>3, <1>4, <1>5, <1>7 DEF TypeOK, NodeType
<1>15. RunLayout'
  BY <1>8, <1>12, <1>13 DEF RunInv, RunLayout
<1>16. RunHeaders'
  BY Zenon, <1>9, <1>12, <1>13 DEF RunInv, RunHeaders
<1>17. RunFields'
  <2> SUFFICES ASSUME NEW a \in Addr, Allocated(a)' \/ IsRoot(a), kind'[a] # "tok", NEW i \in 1..2
               PROVE  RunField(a, i)'
    BY Zenon DEF RunFields, IsRoot
  <2>1. a # c /\ kind'[a] = kind[a] /\ id'[a] = id[a] /\ (Allocated(a) \/ IsRoot(a)) /\ (Allocated(a)' <=> Allocated(a))
    BY Zenon, <1>8, <1>12, <1>13
  <2>3. RunField(a, i)
    BY Zenon, <2>1 DEF RunInv, RunFields
  <2>2. CASE a = b /\ i = 1
    <3>1. Field(a, i)' = c /\ KindAt(c)' = "tok" /\ Id(c)' = n
      BY Zenon, <1>8, <1>12, <2>2, PtrFacts DEF Field, KindAt, Id
    <3>2. NodeField(id[a], i)' = n
      BY Zenon, <1>k, <1>12, <2>1, <2>2 DEF NodeField
    <3>3. "tok" \in ChildKinds(kind[a], i) /\ kind[a] \in OwnerKind /\ kind[a] # "root"
      BY Zenon, <1>6, <2>2, ChildKindFacts DEF OwnerKind
    <3>4. a \in old' => SpaceOf(c) \in OldSpace
      BY Zenon, <1>8, <1>9, <2>1, <2>2
    <3> QED BY Zenon, <1>8, <2>1, <2>2, <3>1, <3>2, <3>3, <3>4 DEF RunField
  <2>4. CASE ~(a = b /\ i = 1)
    <3>1. PICK p : p = Field(a, i)
      BY Zenon
    <3>2. Field(a, i)' = p
      BY Zenon, <1>13, <2>1, <2>4, <3>1 DEF Field
    <3>3. p \in Const \/ (p \in Addr /\ Allocated(p) /\ p # c)
      BY Zenon, <1>8, <2>3, <3>1 DEF RunField
    <3>4. p \in Addr => kind'[p] = kind[p] /\ id'[p] = id[p] /\ (p \in old' <=> p \in old) /\ (p \in age' <=> p \in age)
                        /\ Allocated(p)'
      BY Zenon, <1>8, <1>9, <1>13, <3>3, PtrFacts
    <3>5. KindAt(p)' = KindAt(p) /\ Id(p)' = Id(p) /\ Rank(p)' = Rank(p)
      BY Zenon, <3>3, <3>4 DEF KindAt, Id, Rank
    <3>6. Rank(a)' = Rank(a)
      BY Zenon, <1>9, <2>1, PtrFacts DEF Rank
    <3>7. kind[a] # "root" => NodeField(id[a], i)' = NodeField(id[a], i)
      <4> HAVE kind[a] # "root"
      <4>1. Allocated(a) /\ id[a] \in 1..size
        BY Zenon, <2>1 DEF RunInv, RunNames, RunLayout, IsRoot
      <4>2. i = 1 => id[a] # k
        BY Zenon, <1>6, <1>k, <4>1, <2>4 DEF RunInv, RunNames
      <4>3. nsnd' = nsnd
        BY Zenon, <1>7
      <4> QED BY Zenon, <1>14, <2>1, <4>1, <4>2, <4>3 DEF NodeField
    <3>8. a \in old' <=> a \in old
      BY Zenon, <1>9, <2>1
    <3> QED BY Zenon, <2>1, <2>3, <3>1, <3>2, <3>3, <3>4, <3>5, <3>6, <3>7, <3>8 DEF RunField
  <2> QED BY Zenon, <2>2, <2>4
<1>18. RunNames'
  <2>1. ASSUME NEW a \in Addr, Allocated(a)'
        PROVE  /\ id'[a] \in 1..size' /\ nkind'[id'[a]] = kind'[a]
               /\ a # c => Allocated(a) /\ id'[a] = id[a] /\ id[a] \in 1..size /\ kind'[a] = kind[a]
    <3>1. CASE a = c
      BY <1>5, <1>12, <3>1
    <3>2. CASE a # c
      <4>1. Allocated(a) /\ id'[a] = id[a] /\ kind'[a] = kind[a]
        BY Zenon, <1>8, <1>13, <2>1, <3>2
      <4>2. id[a] \in 1..size /\ nkind[id[a]] = kind[a]
        BY Zenon, <4>1 DEF RunInv, RunNames
      <4>3. id[a] \in 1..size'
        BY <1>5, <4>2
      <4> QED BY Zenon, <1>14, <3>2, <4>1, <4>2, <4>3
    <3> QED BY Zenon, <3>1, <3>2
  <2>2. ASSUME NEW a \in Addr, NEW d \in Addr, Allocated(a)', Allocated(d)', kind'[a] # "tok", id'[a] = id'[d]
        PROVE  a = d
    <3>1. a # c
      BY Zenon, <1>12, <2>2
    <3>2. d # c
      BY <1>5, <1>12, <2>1, <2>2, <3>1
    <3> QED BY Zenon, <2>1, <2>2, <3>1, <3>2 DEF RunInv, RunNames
  <2> QED BY Zenon, <2>1, <2>2 DEF RunNames
<1>19. RunPayloads'
  <2>1. ASSUME NEW a \in Addr, kind'[a] \in OwnerKind
        PROVE  /\ kind[a] \in OwnerKind /\ a # c
               /\ a # b => fst'[a] = fst[a]
               /\ fst[a] \in Addr /\ kind[fst[a]] = "tok" /\ fst[a] # c
    <3>1. a # c /\ kind[a] \in OwnerKind
      BY Zenon, <1>12, <1>13, <2>1 DEF OwnerKind
    <3>2. fst[a] \in Addr /\ kind[fst[a]] = "tok"
      BY Zenon, <3>1 DEF RunInv, RunPayloads
    <3>3. Allocated(fst[a])
      BY Zenon, <3>2 DEF RunInv, RunLayout
    <3> QED BY Zenon, <1>8, <1>13, <3>1, <3>2, <3>3
  <2>2. ASSUME NEW a \in Addr, kind'[a] \in OwnerKind
        PROVE  /\ fst'[a] \in Addr /\ kind'[fst'[a]] = "tok"
    <3>1. CASE a = b
      BY Zenon, <1>8, <1>12, <3>1
    <3>2. CASE a # b
      <4>1. fst'[a] = fst[a] /\ fst[a] \in Addr /\ kind[fst[a]] = "tok" /\ fst[a] # c
        BY Zenon, <2>1, <2>2, <3>2
      <4> QED BY Zenon, <1>13, <4>1
    <3> QED BY Zenon, <3>1, <3>2
  <2>3. ASSUME NEW a \in Addr, kind'[a] \in OwnerKind, NEW d \in Addr, kind'[d] \in OwnerKind, fst'[a] = fst'[d]
        PROVE  a = d
    <3>0. fst'[b] = c
      BY Zenon, <1>12
    <3>1. (a = b /\ d # b) \/ (a # b /\ d = b) => FALSE
      <4>1. a # b => fst'[a] # c
        BY Zenon, <2>1, <2>3
      <4>2. d # b => fst'[d] # c
        BY Zenon, <2>1, <2>3
      <4> QED BY Zenon, <2>3, <3>0, <4>1, <4>2
    <3>2. a # b /\ d # b => a = d
      BY Zenon, <2>1, <2>3 DEF RunInv, RunPayloads
    <3> QED BY Zenon, <3>1, <3>2
  <2> QED BY Zenon, <2>2, <2>3 DEF RunPayloads
<1>20. RunControl'
  BY Zenon, <1>4, <1>8, <1>9, <1>13 DEF RunInv, RunControl
<1> QED BY Zenon, <1>4, <1>10, <1>15, <1>16, <1>17, <1>18, <1>19, <1>20 DEF RunInv

---------------------------------------------------------------------------
(* Reading.                                                                *)

\* A register may be given any term.
LEMMA SetRootInv ==
  ASSUME RunInv, NEW r \in Register, NEW p \in Ptr, SetRoot(r, p),
         p \in Const \/ (p \in Addr /\ Allocated(p)), KindAt(p) \in TermKind
  PROVE  RunInv'
<1>1. /\ fst' = [fst EXCEPT ![RootSlot(r)] = p]
      /\ kind' = kind /\ id' = id /\ old' = old /\ age' = age /\ fwd' = fwd /\ snd' = snd
      /\ ytop' = ytop /\ otop' = otop /\ yid' = yid /\ oid' = oid
      /\ phase' = phase /\ oprev' = oprev /\ scan' = scan /\ fld' = fld /\ trav' = trav
      /\ collect_old' = collect_old /\ only_young' = only_young /\ iter' = iter
      /\ size' = size /\ nkind' = nkind /\ nfst' = nfst /\ nsnd' = nsnd
  BY Zenon DEF SetRoot, hdrVars, topVars, spaceVars, cycleVars, nodeVars
<1>2. RootSlot(r) \in Addr /\ IsRoot(RootSlot(r)) /\ kind[RootSlot(r)] = "root" /\ ~Allocated(RootSlot(r))
  <2>1. RootSlot(r) \in Addr /\ SpaceOf(RootSlot(r)) = "R" /\ Index(RootSlot(r)) = r /\ r <= NRoots
    BY RootFacts, RootAssumption DEF Register
  <2>2. yid # "R" /\ oid # "R"
    BY Zenon, SpaceFacts DEF RunInv, TypeOK, ControlType
  <2> QED BY Zenon, <2>1, <2>2 DEF RunInv, RunLayout, IsRoot, Allocated
<1>3. TypeOK'
  <2>1. fst' \in [Addr -> Ptr]
    BY Zenon, <1>1 DEF RunInv, TypeOK, MemoryType
  <2> QED BY Zenon, <1>1, <2>1 DEF RunInv, TypeOK, MemoryType, ControlType, NodeType
<1>4. /\ \A a \in Addr : a # RootSlot(r) => fst'[a] = fst[a]
      /\ fst'[RootSlot(r)] = p
  BY Zenon, <1>1, <1>2 DEF RunInv, TypeOK, MemoryType
<1>5. \A a : Allocated(a)' <=> Allocated(a)
  BY Zenon, <1>1 DEF Allocated
<1>6. RunLayout' /\ RunHeaders' /\ RunNames' /\ RunControl'
  BY Zenon, <1>1, <1>5 DEF RunInv, RunLayout, RunHeaders, RunNames, RunControl
<1>7. RunPayloads'
  <2>1. \A a \in Addr : kind[a] \in OwnerKind => fst'[a] = fst[a]
    BY Zenon, <1>2, <1>4 DEF OwnerKind
  <2> QED BY Zenon, <1>1, <2>1 DEF RunInv, RunPayloads
<1>8. RunFields'
  <2> SUFFICES ASSUME NEW a \in Addr, Allocated(a) \/ IsRoot(a), kind[a] # "tok", NEW i \in 1..2
               PROVE  RunField(a, i)'
    BY Zenon, <1>1, <1>5 DEF RunFields, IsRoot
  <2>1. RunField(a, i)
    BY Zenon DEF RunInv, RunFields
  <2>2. CASE a = RootSlot(r) /\ i = 1
    <3>1. Field(a, i)' = p /\ KindAt(p)' = KindAt(p)
      BY Zenon, <1>1, <1>4, <2>2 DEF Field, KindAt
    <3> QED BY Zenon, <1>1, <1>2, <1>5, <2>2, <3>1, ChildKindFacts DEF RunField
  <2>3. CASE ~(a = RootSlot(r) /\ i = 1)
    <3>1. PICK q : q = Field(a, i)
      BY Zenon
    <3>2. Field(a, i)' = q
      BY Zenon, <1>1, <1>4, <2>3, <3>1 DEF Field
    <3>3. /\ KindAt(q)' = KindAt(q) /\ Id(q)' = Id(q) /\ Rank(q)' = Rank(q) /\ Rank(a)' = Rank(a)
          /\ NodeField(id[a], i)' = NodeField(id[a], i)
      BY Zenon, <1>1 DEF KindAt, Id, Rank, NodeField
    <3> QED BY Zenon, <1>1, <1>5, <2>1, <3>1, <3>2, <3>3 DEF RunField
  <2> QED BY Zenon, <2>2, <2>3
<1> QED BY Zenon, <1>1, <1>3, <1>6, <1>7, <1>8 DEF RunInv

\* An iterator may stand on any node.
LEMMA SetIterInv ==
  ASSUME RunInv, NEW p \in Ptr, SetIter(p),
         p \in Const \/ (p \in Addr /\ Allocated(p) /\ kind[p] \in NodeKind)
  PROVE  RunInv'
<1>1. /\ kind' = kind /\ id' = id /\ old' = old /\ age' = age /\ fwd' = fwd /\ fst' = fst /\ snd' = snd
      /\ ytop' = ytop /\ otop' = otop /\ yid' = yid /\ oid' = oid
      /\ phase' = phase /\ oprev' = oprev /\ scan' = scan /\ fld' = fld /\ trav' = trav
      /\ collect_old' = collect_old /\ only_young' = only_young /\ iter' = p
      /\ size' = size /\ nkind' = nkind /\ nfst' = nfst /\ nsnd' = nsnd
  BY Zenon DEF SetIter, memVars, hdrVars, topVars, spaceVars, cycleVars, nodeVars
<1>3. TypeOK'
  BY Zenon, <1>1 DEF RunInv, TypeOK, MemoryType, ControlType, NodeType
<1>5. \A a : Allocated(a)' <=> Allocated(a)
  BY Zenon, <1>1 DEF Allocated
<1>6. RunLayout' /\ RunHeaders' /\ RunNames' /\ RunPayloads'
  BY Zenon, <1>1, <1>5 DEF RunInv, RunLayout, RunHeaders, RunNames, RunPayloads
<1>7. RunControl'
  BY Zenon, <1>1, <1>5 DEF RunInv, RunControl
<1>8. RunFields'
  <2> SUFFICES ASSUME NEW a \in Addr, Allocated(a) \/ IsRoot(a), kind[a] # "tok", NEW i \in 1..2
               PROVE  RunField(a, i)'
    BY Zenon, <1>1, <1>5 DEF RunFields, IsRoot
  <2>1. RunField(a, i)
    BY Zenon DEF RunInv, RunFields
  <2>2. PICK q : q = Field(a, i)
    BY Zenon
  <2>3. /\ Field(a, i)' = q /\ KindAt(q)' = KindAt(q) /\ Id(q)' = Id(q) /\ Rank(q)' = Rank(q)
        /\ Rank(a)' = Rank(a) /\ NodeField(id[a], i)' = NodeField(id[a], i)
    BY Zenon, <1>1, <2>2 DEF Field, KindAt, Id, Rank, NodeField
  <2> QED BY Zenon, <1>1, <1>5, <2>1, <2>2, <2>3 DEF RunField
<1> QED BY Zenon, <1>1, <1>3, <1>6, <1>7, <1>8 DEF RunInv

\* The fields of an object that a register or an iterator leads to.
LEMMA ReadOK ==
  ASSUME RunInv, NEW a \in Ptr, KindAt(a) \in Kind \ {"free", "root", "tok"},
         a \in Const \/ (a \in Addr /\ Allocated(a)), NEW i \in 1..2
  PROVE  /\ a \in Addr /\ kind[a] = KindAt(a)
         /\ Field(a, i) \in Ptr /\ (Field(a, i) \in Const \/ (Field(a, i) \in Addr /\ Allocated(Field(a, i))))
         /\ KindAt(Field(a, i)) \in ChildKinds(KindAt(a), i)
<1>1. a \in Addr /\ Allocated(a) /\ kind[a] = KindAt(a)
  BY Zenon, PtrFacts DEF KindAt, Kind
<1>2. RunField(a, i)
  BY Zenon, <1>1 DEF RunInv, RunFields
<1>3. Field(a, i) \in Ptr
  BY Zenon, <1>1 DEF RunInv, TypeOK, MemoryType, Field
<1> QED BY Zenon, <1>1, <1>2, <1>3 DEF RunField

\* Every operation that only reads preserves the invariant.
LEMMA ReadInv ==
  ASSUME RunInv, Read
  PROVE  RunInv'
<1>r. \A r \in Register : /\ Root(r) \in Ptr /\ KindAt(Root(r)) \in TermKind
                          /\ Root(r) \in Const \/ (Root(r) \in Addr /\ Allocated(Root(r)))
  BY Zenon, ValueOK DEF Values
<1>i. iter \in Ptr /\ (iter \in Const \/ (iter \in Addr /\ Allocated(iter)))
  BY Zenon DEF RunInv, RunControl, TypeOK, ControlType
<1>1. ASSUME NEW r \in Register, NEW s \in Register, Move(r, s)
      PROVE  RunInv'
  BY Zenon, <1>r, <1>1, SetRootInv DEF Move
<1>2. ASSUME NEW r \in Register, NEW s \in Register, NEW i \in 1..2, Project(r, s, i)
      PROVE  RunInv'
  <2>1. /\ KindAt(Root(s)) = "sym" \/ (KindAt(Root(s)) = "coll" /\ i = 2)
        /\ SetRoot(r, Field(Root(s), i))
    BY Zenon, <1>2 DEF Project
  <2>2. KindAt(Root(s)) \in Kind \ {"free", "root", "tok"}
    BY Zenon, <2>1 DEF Kind
  <2>3. KindAt(Field(Root(s), i)) \in TermKind
    BY <1>r, <2>1, <2>2, ReadOK, ChildKindFacts
  <2> QED BY Zenon, <1>r, <2>1, <2>2, <2>3, ReadOK, SetRootInv
<1>3. ASSUME NEW r \in Register, Forget(r)
      PROVE  RunInv'
  <2>1. Nil \in Ptr /\ Nil \in Const /\ KindAt(Nil) \in TermKind
    BY Zenon, PtrFacts DEF KindAt, TermKind
  <2> QED BY Zenon, <1>3, <2>1, SetRootInv DEF Forget
<1>4. ASSUME NEW r \in Register, NEW i \in 1..2, IterElement(r, i)
      PROVE  RunInv'
  <2>1. KindAt(iter) = "leaf" /\ KindAt(iter) \in Kind \ {"free", "root", "tok"} /\ SetRoot(r, Field(iter, i))
    BY Zenon, <1>4 DEF IterElement, Kind
  <2>2. KindAt(Field(iter, i)) \in TermKind
    BY <1>i, <2>1, ReadOK, ChildKindFacts DEF Items, TermKind
  <2> QED BY Zenon, <1>i, <2>1, <2>2, ReadOK, SetRootInv
<1>5. ASSUME NEW s \in Register, IterBegin(s)
      PROVE  RunInv'
  <2>1. /\ KindAt(Root(s)) = "coll" /\ KindAt(Root(s)) \in Kind \ {"free", "root", "tok"}
        /\ SetIter(Field(Root(s), 1))
    BY Zenon, <1>5 DEF IterBegin, Kind, Field
  <2>2. /\ Field(Root(s), 1) \in Ptr
        /\ Field(Root(s), 1) \in Const \/ (Field(Root(s), 1) \in Addr /\ Allocated(Field(Root(s), 1)))
        /\ KindAt(Field(Root(s), 1)) \in CollectionNodeKind
    BY <1>r, <2>1, ReadOK, ChildKindFacts
  <2>3. Field(Root(s), 1) \in Addr => kind[Field(Root(s), 1)] \in NodeKind
    BY Zenon, <2>2, PtrFacts DEF KindAt, CollectionNodeKind, NodeKind, RunInv, TypeOK, MemoryType, Kind
  <2> QED BY Zenon, <2>1, <2>2, <2>3, SetIterInv
<1>6. ASSUME NEW i \in 1..2, IterDescend(i)
      PROVE  RunInv'
  <2>1. /\ KindAt(iter) = "inner" /\ KindAt(iter) \in Kind \ {"free", "root", "tok"}
        /\ SetIter(Field(iter, i))
    BY Zenon, <1>6 DEF IterDescend, Kind
  <2>2. /\ Field(iter, i) \in Ptr
        /\ Field(iter, i) \in Const \/ (Field(iter, i) \in Addr /\ Allocated(Field(iter, i)))
        /\ KindAt(Field(iter, i)) \in CollectionNodeKind
    BY <1>i, <2>1, ReadOK, ChildKindFacts
  <2>3. Field(iter, i) \in Addr => kind[Field(iter, i)] \in NodeKind
    BY Zenon, <2>2, PtrFacts DEF KindAt, CollectionNodeKind, NodeKind, RunInv, TypeOK, MemoryType, Kind
  <2> QED BY Zenon, <2>1, <2>2, <2>3, SetIterInv
<1> QED BY Zenon, <1>1, <1>2, <1>3, <1>4, <1>5, <1>6 DEF Read

---------------------------------------------------------------------------
\* Generated code and the hooks run outside collections only.
LEMMA MutatorRuns ==
  ASSUME Mutator
  PROVE  phase = "run"
<1> USE DEF Allocate, Running
<1>1. ASSUME NEW r, NEW x, NEW y, NewBlock(r, x, y) \/ NewCollection(r, x, y) \/ ExtendCollection(r, x, y)
      PROVE  phase = "run"
  BY Zenon, <1>1 DEF NewBlock, NewCollection, ExtendCollection
<1>2. ASSUME NEW r, NEW k, NEW big, NewString(r, big) \/ NewOwner(r, k, big) \/ BufferGrow(r, big) \/ BufferAppend(r)
      PROVE  phase = "run"
  BY Zenon, <1>2 DEF NewString, NewOwner, BufferGrow, BufferAppend
<1>3. CASE Build
  BY Zenon, <1>1, <1>2, <1>3 DEF Build
<1>4. CASE Append_
  BY Zenon, <1>2, <1>4 DEF Append_
<1>5. CASE Read
  BY Zenon, <1>5 DEF Read, Move, Project, Forget, IterElement, IterBegin, IterDescend
<1> QED BY Zenon, <1>3, <1>4, <1>5 DEF Mutator

\* Generated code and the hooks preserve the invariant.
LEMMA MutatorInv ==
  ASSUME IInv, Mutator
  PROVE  IInv'
<1>1. phase = "run"
  BY Zenon, MutatorRuns
<1>2. RunInv
  BY Zenon, <1>1, RunInvFromIInv
<1>3. ASSUME Build PROVE RunInv'
  BY Zenon, <1>2, <1>3, NewBlockInv, NewCollectionInv, NewStringInv, NewOwnerInv, ExtendCollectionInv DEF Build
<1>4. ASSUME Append_ PROVE RunInv'
  BY Zenon, <1>2, <1>4, BufferAppendInv, BufferGrowInv DEF Append_
<1>5. ASSUME Read PROVE RunInv'
  BY Zenon, <1>2, <1>5, ReadInv
<1>6. RunInv'
  BY Zenon, <1>3, <1>4, <1>5 DEF Mutator
<1> QED BY Zenon, <1>6, IInvFromRunInvNext
=============================================================================
