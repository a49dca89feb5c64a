------------------------------ MODULE GcInv ------------------------------
(***************************************************************************)
(* The loop invariant of kore_collect: what holds of every object between  *)
(* two calls of a migrate function.  It is checked as an invariant by TLC  *)
(* and is the inductive invariant of the proofs in GcProofs.               *)
(*                                                                         *)
(* During a collection an address is in a space being collected (From), it *)
(* is a copy made by this collection (Copy), or it is an old object that   *)
(* this collection leaves alone (Kept).  Outside a collection every object *)
(* is a Copy.                                                              *)
(***************************************************************************)
EXTENDS GcHeap

Collecting == phase # "run"

FromSpace(s) == /\ Collecting
                /\ \/ s = Other(yid)
                   \/ collect_old /\ s = Other(oid)

From(a) == FromSpace(SpaceOf(a)) /\ kind[a] # "free"
Copy(a) == \/ SpaceOf(a) = yid /\ Index(a) <= ytop
           \/ SpaceOf(a) = oid /\ Index(a) <= otop /\ Index(a) > oprev
Kept(a) == SpaceOf(a) = oid /\ Index(a) <= oprev

IsRoot(a) == SpaceOf(a) = "R" /\ Index(a) <= NRoots
Heap(a) == From(a) \/ Copy(a) \/ Kept(a)

\* Objects whose fields somebody may still read: not bytes, and not forwarded.
Readable(a) == (Heap(a) \/ IsRoot(a)) /\ kind[a] # "tok" /\ a \notin fwd

BlockKind == {"sym", "coll"}
NodeKind == {"inner", "leaf"}
OwnerKind == {"int", "buf"}

---------------------------------------------------------------------------
\* Memory outside the heap is blank, and the kinds of the heap are those of objects.
Layout ==
  \A a \in Addr :
    /\ SpaceOf(a) = "R" => kind[a] = (IF Index(a) <= NRoots THEN "root" ELSE "free")
    /\ SpaceOf(a) # "R" => kind[a] # "root"
    /\ SpaceOf(a) # "R" /\ ~FromSpace(SpaceOf(a)) => (kind[a] = "free" <=> ~Allocated(a))

\* Header bits tell the generation: that of the space an object is in.
Headers ==
  \A a \in Addr : kind[a] \notin {"free", "root", "tok"} =>
    /\ a \in old <=> SpaceOf(a) \in OldSpace
    /\ a \in old => a \in age
    /\ Collecting /\ Copy(a) => a \in age

\* Only objects of the collected spaces are forwarded, each to the copy that replaces it.
Forwarding ==
  \A a \in fwd :
    LET d == Forwarded(a) IN
    /\ From(a) /\ kind[a] # "tok"
    /\ d \in Addr /\ Copy(d)
    /\ kind[d] = kind[a]
    /\ id[d] = id[a]
    /\ d \in old <=> (a \in old \/ a \in age)

---------------------------------------------------------------------------
NodeField(n, i) == IF i = 1 THEN nfst[n] ELSE nsnd[n]

\* A field names the node that the store says it names, of a kind its slot is laid out for.
Faithful(a, i) ==
  LET p == Field(a, i) IN
  /\ p \in Const \/ Heap(p)
  /\ KindAt(p) \in ChildKinds(kind[a], i)
  /\ kind[a] # "root" => Id(p) = NodeField(id[a], i)

\* The rank an object has once this collection is done with it.
RankAfter(p) == IF p \in Const THEN 3
                ELSE IF From(p) THEN (IF p \in old \/ p \in age THEN 2 ELSE 1)
                ELSE Rank(p)

\* The generational order, kept up while objects are aged and promoted.
Ranked(a, i) ==
  LET p == Field(a, i) IN
  IF kind[a] \in OwnerKind /\ i = 1
  THEN a \in old => SpaceOf(p) \in OldSpace
  ELSE IF From(a) THEN Rank(p) >= Rank(a) ELSE RankAfter(p) >= Rank(a)

Pending(p) == p \in Const \/ From(p) \/ Kept(p)
Settled(p) == p \in Const \/ Copy(p) \/ Kept(p)

\* Is the scan (or the loop over the roots) still to migrate field i of a?
NotPassed(a, i) == Index(a) > scan \/ (Index(a) = scan /\ i >= fld)

Todo(a, i) ==
  \/ IsRoot(a) /\ i = 1 /\ phase = "roots" /\ Index(a) >= scan
  \/ /\ Copy(a) /\ kind[a] \in BlockKind
     /\ \/ phase = "roots"
        \/ phase = "young" /\ (SpaceOf(a) = oid \/ NotPassed(a, i))
        \/ phase = "old" /\ SpaceOf(a) = oid /\ NotPassed(a, i)

\* Is the traversal of a collection still to migrate it?
Visiting(a, i) == kind[a] \in NodeKind /\ <<a, i>> \in trav

Reached(a, i) ==
  LET p == Field(a, i) IN
  /\ From(a) => Pending(p)
  /\ Kept(a) => p \in Const \/ Kept(p)

Scanned(a, i) ==
  LET p == Field(a, i) IN
  /\ Todo(a, i) => Pending(p)
  /\ ~Todo(a, i) /\ ~Visiting(a, i) /\ ~From(a) => Settled(p)

Fields ==
  \A a \in Addr : Readable(a) =>
    \A i \in 1..2 : /\ Faithful(a, i)
                    /\ Reached(a, i)
                    /\ Heap(a) => Ranked(a, i)

Progress ==
  \A a \in Addr : Readable(a) => \A i \in 1..2 : Scanned(a, i)

---------------------------------------------------------------------------
\* Every object has the name of a node of its kind; no two objects in use have the same.
Names ==
  /\ \A a \in Addr : Heap(a) => id[a] \in 1..size /\ nkind[id[a]] = kind[a]
  /\ \A a, b \in Addr :
       Heap(a) /\ Heap(b) /\ kind[a] # "tok" /\ a \notin fwd /\ b \notin fwd
         /\ id[a] = id[b] => a = b

\* A payload has one owner; a forwarded integer has lost its pointer to it.
OwnsPayload(a) == kind[a] = "buf" \/ (kind[a] = "int" /\ a \notin fwd)

Payloads ==
  \A a \in Addr : OwnsPayload(a) =>
    /\ fst[a] \in Addr /\ kind[fst[a]] = "tok"
    /\ \A b \in Addr : OwnsPayload(b) /\ fst[a] = fst[b] => a = b

\* The control state of kore_collect.
Control ==
  /\ oprev <= otop
  /\ collect_old => oprev = 0 /\ Collecting
  /\ ~Collecting => oprev = 0 /\ scan = 1
  /\ phase \in {"run", "roots"} => trav = {}
  /\ Collecting => iter = Nil
  /\ iter \in Const \/ (Allocated(iter) /\ kind[iter] \in NodeKind)
  /\ phase = "roots" => scan <= NRoots + 1 /\ fld = 1
  /\ phase = "young" => scan <= ytop + 1
  /\ phase = "old" => scan <= otop + 1 /\ scan > oprev
  /\ (phase = "young" /\ scan > ytop) \/ (phase = "old" /\ scan > otop) \/ ~Collecting => fld = 1
  /\ fld = 2 => phase \in {"young", "old"} /\ kind[ScanAt] \in BlockKind
  /\ \A s \in trav : /\ Copy(s[1]) \/ Kept(s[1])
                     /\ kind[s[1]] \in NodeKind
                     /\ phase = "old" => SpaceOf(s[1]) = oid

\* The inductive invariant: between two calls of a migrate function, every object that can
\* still be reached is either in a space being collected, and then untouched or forwarded to
\* its one copy, or it is a copy whose fields the rest of kore_collect will still migrate or
\* has migrated already.
IInv == /\ TypeOK
        /\ Layout /\ Headers /\ Forwarding
        /\ Fields /\ Progress
        /\ Names /\ Payloads
        /\ Control

---------------------------------------------------------------------------
(* Outside a collection the invariant takes a simpler form.                *)

RunLayout ==
  \A a \in Addr :
    /\ SpaceOf(a) = "R" => kind[a] = (IF Index(a) <= NRoots THEN "root" ELSE "free")
    /\ SpaceOf(a) # "R" => kind[a] # "root"
    /\ SpaceOf(a) # "R" => (kind[a] = "free" <=> ~Allocated(a))

RunHeaders ==
  \A a \in Addr : kind[a] \notin {"free", "root", "tok"} =>
    /\ a \in old <=> SpaceOf(a) \in OldSpace
    /\ a \in old => a \in age

RunField(a, i) ==
  LET p == Field(a, i) IN
  /\ p \in Const \/ (p \in Addr /\ Allocated(p))
  /\ KindAt(p) \in ChildKinds(kind[a], i)
  /\ kind[a] # "root" => Id(p) = NodeField(id[a], i)
  /\ Allocated(a) => IF kind[a] \in OwnerKind /\ i = 1
                     THEN a \in old => SpaceOf(p) \in OldSpace
                     ELSE Rank(p) >= Rank(a)

RunFields ==
  \A a \in Addr : (Allocated(a) \/ IsRoot(a)) /\ kind[a] # "tok" => \A i \in 1..2 : RunField(a, i)

RunNames ==
  /\ \A a \in Addr : Allocated(a) => id[a] \in 1..size /\ nkind[id[a]] = kind[a]
  /\ \A a, b \in Addr : Allocated(a) /\ Allocated(b) /\ kind[a] # "tok" /\ id[a] = id[b] => a = b

RunPayloads ==
  \A a \in Addr : kind[a] \in OwnerKind =>
    /\ fst[a] \in Addr /\ kind[fst[a]] = "tok"
    /\ \A b \in Addr : kind[b] \in OwnerKind /\ fst[a] = fst[b] => a = b

RunControl ==
  /\ oprev = 0 /\ scan = 1 /\ fld = 1 /\ trav = {} /\ ~collect_old /\ fwd = {}
  /\ iter \in Const \/ (iter \in Addr /\ Allocated(iter) /\ kind[iter] \in NodeKind)

RunInv ==
  TypeOK /\ phase = "run" /\ RunLayout /\ RunHeaders /\ RunFields /\ RunNames /\ RunPayloads /\ RunControl
===========================================================================
