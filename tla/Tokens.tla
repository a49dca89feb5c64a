------------------------------ MODULE Tokens ------------------------------
(***************************************************************************)
(* Tokens at the size of a byte (runtime/lto/alloc.cpp, include/runtime/   *)
(* types.h): how much kore_alloc_token takes and from which arena, what    *)
(* init_with_len writes in the header, how much get_size later reads from  *)
(* it, and the two hooks that give back part of the last allocation with   *)
(* kore_resize_last_alloc.  Between two collections, so nothing moves.     *)
(***************************************************************************)
EXTENDS Integers

CONSTANTS BLOCK_SIZE,
          Lengths,      \* lengths of the strings that are made
          ReadLengths,  \* lengths asked of hook_IO_read
          MinRead,      \* the least number of bytes read(2) answers: 0 at end of file
          Room          \* bound: the bytes of an arena that are used

ASSUME BlockAssumption == BLOCK_SIZE \in Nat /\ BLOCK_SIZE % 8 = 0 /\ BLOCK_SIZE >= 16
ASSUME LengthAssumption == Lengths \subseteq Nat /\ ReadLengths \subseteq Nat
ASSUME ReadAssumption == MinRead \in Nat /\ Room \in Nat

VARIABLES young, oldend,  \* youngspace.end_ptr() and oldspace.end_ptr(), from their starts
          objs,           \* the objects with a header
          running         \* FALSE after exit(255)

vars == <<young, oldend, objs, running>>

Word == 8   \* sizeof(blockheader), sizeof(string), sizeof(char *)

Round8(n) == Word * ((n + 7) \div Word)

\* Mutant: a token may be smaller than its forwarding pointer needs.
TokenSize_NoMinimum(requested) == Round8(requested)

\* The bytes kore_alloc_token takes.
TokenSize(requested) == IF Round8(requested) < 16 THEN 16 ELSE Round8(requested)

GoesToOld(requested) == TokenSize(requested) > BLOCK_SIZE

\* Mutant: the header is left out of the comparison.
HeaderOld_Block(l) == l > BLOCK_SIZE

\* init_with_len: does the header say that the token is in the old generation?
HeaderOld(l) == l > BLOCK_SIZE - Word

\* get_size of the header of a token
get_size(l) == LET size == Round8(l + Word) IN IF size < 16 THEN 16 ELSE size

Object == [space : {"young", "old"}, addr : Nat, size : Nat, old : BOOLEAN]
Token(s, p, l) == [space |-> s, addr |-> p, size |-> get_size(l), old |-> HeaderOld(l)]

\* A block with one child, such as hook_IO_read returns: kore_alloc(16).
BlockSize1 == 16
Block1(p) == [space |-> "young", addr |-> p, size |-> BlockSize1, old |-> FALSE]

---------------------------------------------------------------------------
Init == /\ young = 0
        /\ oldend = 0
        /\ objs = {}
        /\ running = TRUE

\* kore_alloc_token and init_with_len: strings, and the limbs of numbers
\* (kore_alloc_mp, kore_realloc_mp) and the nodes of collections (kore_alloc_heap).
MakeToken(l) ==
  /\ running
  /\ \/ /\ ~GoesToOld(Word + l)
        /\ young' = young + TokenSize(Word + l)
        /\ objs' = objs \cup {Token("young", young, l)}
        /\ UNCHANGED oldend
     \/ /\ GoesToOld(Word + l)
        /\ oldend' = oldend + TokenSize(Word + l)
        /\ objs' = objs \cup {Token("old", oldend, l)}
        /\ UNCHANGED young
  /\ UNCHANGED running

\* kore_resize_last_alloc looks for the object at the end of youngspace.
Resizable(requested) == ~GoesToOld(requested) /\ TokenSize(requested) = Round8(requested)

\* exit(255) in kore_resize_last_alloc
Exit == running' = FALSE /\ UNCHANGED <<young, oldend, objs>>

\* Where youngspace ends when a token allocated at its end is cut to newrequest bytes.
Resized(newrequest) == young + Round8(newrequest)

\* hook_IO_read, when read(2) answers a number of bytes.
IORead(length, bytes) ==
  /\ running
  /\ \/ /\ Resizable(Word + length)
        /\ young' = Resized(Word + bytes) + BlockSize1
        /\ objs' = objs \cup {Token("young", young, bytes), Block1(Resized(Word + bytes))}
        /\ UNCHANGED <<oldend, running>>
     \/ ~Resizable(Word + length) /\ Exit

\* hook_IO_read, when read(2) answers -1: the token is left behind without a header.
IOReadError(length) ==
  /\ running
  /\ IF GoesToOld(Word + length)
     THEN /\ oldend' = oldend + TokenSize(Word + length)
          /\ young' = young + BlockSize1
          /\ objs' = objs \cup {Block1(young)}
     ELSE /\ young' = young + TokenSize(Word + length) + BlockSize1
          /\ objs' = objs \cup {Block1(young + TokenSize(Word + length))}
          /\ UNCHANGED oldend
  /\ UNCHANGED running

\* hook_STRING_base2string_long of a number of l digits: the byte of the terminator
\* is given back.
Base2String(l) ==
  /\ running
  /\ l > 0
  /\ \/ /\ Resizable(Word + l + 1)
        /\ young' = Resized(Word + l)
        /\ objs' = objs \cup {Token("young", young, l)}
        /\ UNCHANGED <<oldend, running>>
     \/ ~Resizable(Word + l + 1) /\ Exit

Next == /\ young <= Room /\ oldend <= Room
        /\ \/ \E l \in Lengths : MakeToken(l) \/ Base2String(l)
           \/ \E l \in ReadLengths : IOReadError(l) \/ \E b \in MinRead..l : IORead(l, b)

Spec == Init /\ [][Next]_vars

---------------------------------------------------------------------------
\* Everything is allocated at a multiple of 8 bytes: the three low bits of a pointer to a
\* block are zero, which is what tells it from a leaf block.
TypeOK ==
  /\ young \in Nat /\ young % 8 = 0
  /\ oldend \in Nat /\ oldend % 8 = 0
  /\ objs \subseteq Object
  /\ \A o \in objs : o.addr % 8 = 0
  /\ running \in BOOLEAN

\* The generation that init_with_len writes in a header is that of the arena that
\* kore_alloc_token took the token from, at every length: the two comparisons with
\* BLOCK_SIZE are of different numbers, and hook_IO_read and base2string write a
\* shorter length than they allocate for.  migrate moves an object by its header.
HeaderTellsSpace == \A o \in objs : o.old <=> o.space = "old"

EndOf(o) == o.addr + o.size
EndPtr(s) == IF s = "young" THEN young ELSE oldend

\* What migrate copies and marks, get_size bytes from the header on, is memory that the
\* object has for itself.
ExtentsDisjoint ==
  \A o \in objs :
    /\ EndOf(o) <= EndPtr(o.space)
    /\ \A p \in objs : o # p /\ o.space = p.space => EndOf(o) <= p.addr \/ EndOf(p) <= o.addr

\* "resizes the last allocation": both callers of kore_resize_last_alloc pass the object
\* they allocated last, so it does not stop the program.
LastAllocationResized == running
=============================================================================
