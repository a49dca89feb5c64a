----------------------------- MODULE TermStore -----------------------------
(***************************************************************************)
(* What the runtime's memory promises to generated code: a store of nodes  *)
(* that are named once and for all, and registers that hold those names.   *)
(* Nodes never move and are never lost; a node's children never change,    *)
(* except that appending to a string buffer gives the buffer new contents. *)
(* There is no collector here: module Gc shows that kore_collect, which    *)
(* moves every live object and reuses the memory of the others, cannot be  *)
(* noticed by a program that only uses these operations.                   *)
(***************************************************************************)
EXTENDS Naturals

CONSTANTS Const,     \* leaf blocks and static terms: values outside the heap
          Nil,       \* the constant that fills fields without a child
          Register,  \* the pointers that live across a rewrite step
          MaxNodes   \* bound: nodes built in a behaviour

VARIABLES size,               \* nodes are named 1 .. size
          nkind, nfst, nsnd,  \* the kind of a node and its two children
          reg,                \* reg[r]: the name (or constant) register r holds
          iter                \* the collection node an iterator stands on

nodeVars == <<size, nkind, nfst, nsnd>>
absVars == <<nodeVars, reg, iter>>

\* The kind of the node a name stands for; constants have a kind of their own.
KindOf(v) == IF v \in Const THEN "const" ELSE nkind[v]

\* What a collection may contain: a K item is a block or a constant.
Items == {"const", "sym", "coll", "str"}
Owners == {"int", "buf"}

Init == /\ size = 0
        /\ nkind = [n \in 1..MaxNodes |-> "free"]
        /\ nfst = [n \in 1..MaxNodes |-> Nil]
        /\ nsnd = [n \in 1..MaxNodes |-> Nil]
        /\ reg = [r \in Register |-> Nil]
        /\ iter = Nil

Fresh(i) == size + i

\* n nodes are added and register r is given the name of the last one.
Add(n, r) ==
  /\ size + n <= MaxNodes
  /\ size' = size + n
  /\ reg' = [reg EXCEPT ![r] = Fresh(n)]
  /\ UNCHANGED iter

NewBlock(r, x, y) ==
  /\ Add(1, r)
  /\ nkind' = [nkind EXCEPT ![Fresh(1)] = "sym"]
  /\ nfst' = [nfst EXCEPT ![Fresh(1)] = x]
  /\ nsnd' = [nsnd EXCEPT ![Fresh(1)] = y]

NewString(r) ==
  /\ Add(1, r)
  /\ nkind' = [nkind EXCEPT ![Fresh(1)] = "str"]
  /\ nfst' = [nfst EXCEPT ![Fresh(1)] = Nil]
  /\ nsnd' = [nsnd EXCEPT ![Fresh(1)] = Nil]

\* A number or a string buffer: a node and the payload that only it refers to.
NewOwner(r, k) ==
  /\ Add(2, r)
  /\ nkind' = [nkind EXCEPT ![Fresh(1)] = "tok", ![Fresh(2)] = k]
  /\ nfst' = [nfst EXCEPT ![Fresh(2)] = Fresh(1)]
  /\ nsnd' = [nsnd EXCEPT ![Fresh(2)] = Nil]

NewCollection(r, x, y) ==
  /\ KindOf(x) \in Items
  /\ Add(2, r)
  /\ nkind' = [nkind EXCEPT ![Fresh(1)] = "leaf", ![Fresh(2)] = "coll"]
  /\ nfst' = [nfst EXCEPT ![Fresh(1)] = x, ![Fresh(2)] = Fresh(1)]
  /\ nsnd' = [nsnd EXCEPT ![Fresh(1)] = x, ![Fresh(2)] = y]

\* A persistent update: the new collection shares the nodes of the old one.
ExtendCollection(r, s, x) ==
  /\ KindOf(reg[s]) = "coll"
  /\ KindOf(x) \in Items
  /\ Add(3, r)
  /\ nkind' = [nkind EXCEPT ![Fresh(1)] = "leaf", ![Fresh(2)] = "inner", ![Fresh(3)] = "coll"]
  /\ nfst' = [nfst EXCEPT ![Fresh(1)] = x, ![Fresh(2)] = Fresh(1), ![Fresh(3)] = Fresh(2)]
  /\ nsnd' = [nsnd EXCEPT ![Fresh(1)] = x, ![Fresh(2)] = nfst[reg[s]], ![Fresh(3)] = nsnd[reg[s]]]

\* Appending to a buffer replaces its contents in place.
BufferConcat(s) ==
  /\ KindOf(reg[s]) = "buf"
  /\ size + 1 <= MaxNodes
  /\ size' = size + 1
  /\ nkind' = [nkind EXCEPT ![Fresh(1)] = "tok"]
  /\ nfst' = [nfst EXCEPT ![reg[s]] = Fresh(1)]
  /\ UNCHANGED <<nsnd, reg, iter>>

Child(v, i) == IF i = 1 THEN nfst[v] ELSE nsnd[v]

Project(r, s, i) ==
  /\ \/ KindOf(reg[s]) = "sym"
     \/ KindOf(reg[s]) = "coll" /\ i = 2
  /\ reg' = [reg EXCEPT ![r] = Child(reg[s], i)]
  /\ UNCHANGED <<nodeVars, iter>>

Move(r, s) ==
  /\ reg' = [reg EXCEPT ![r] = reg[s]]
  /\ UNCHANGED <<nodeVars, iter>>

IterBegin(s) ==
  /\ KindOf(reg[s]) = "coll"
  /\ iter' = nfst[reg[s]]
  /\ UNCHANGED <<nodeVars, reg>>

IterDescend(i) ==
  /\ KindOf(iter) = "inner"
  /\ iter' = Child(iter, i)
  /\ UNCHANGED <<nodeVars, reg>>

IterElement(r, i) ==
  /\ KindOf(iter) = "leaf"
  /\ reg' = [reg EXCEPT ![r] = Child(iter, i)]
  /\ UNCHANGED <<nodeVars, iter>>

\* Registers and the iterator may be forgotten, never invented.
Forget ==
  /\ reg' \in [Register -> Const \cup {reg[r] : r \in Register}]
  /\ \A r \in Register : reg'[r] = reg[r] \/ reg'[r] \in Const
  /\ iter' \in Const \cup {iter}
  /\ UNCHANGED nodeVars

Values == Const \cup {reg[r] : r \in Register}

Next ==
  \/ \E r \in Register, x, y \in Values : NewBlock(r, x, y) \/ NewCollection(r, x, y)
  \/ \E r \in Register : NewString(r)
  \/ \E r \in Register, k \in Owners : NewOwner(r, k)
  \/ \E r, s \in Register, x \in Values : ExtendCollection(r, s, x)
  \/ \E r, s \in Register, i \in 1..2 : Project(r, s, i)
  \/ \E r, s \in Register : Move(r, s)
  \/ \E s \in Register : BufferConcat(s) \/ IterBegin(s)
  \/ \E i \in 1..2 : IterDescend(i)
  \/ \E r \in Register, i \in 1..2 : IterElement(r, i)
  \/ Forget

Spec == Init /\ [][Next]_absVars
=============================================================================
