--------------------------- MODULE TokensProofs ---------------------------
(***************************************************************************)
(* Tokens, for every BLOCK_SIZE and all lengths: headers tell the arena,   *)
(* and, as long as no read(2) answers 0 bytes, the extents of two objects  *)
(* are disjoint.                                                           *)
(***************************************************************************)
EXTENDS Tokens, TLAPS

\* Rounding up to a multiple of 8, as kore_alloc_token and get_size do it.
LEMMA Rounding ==
  ASSUME NEW n \in Nat
  PROVE  /\ Round8(n) \in Nat
         /\ Round8(n) % 8 = 0
         /\ n <= Round8(n) /\ Round8(n) < n + 8
BY DEF Round8, Word

\* A token takes at least what get_size will read, and an aligned number of bytes.
LEMMA TokenSizes ==
  ASSUME NEW l \in Nat
  PROVE  /\ TokenSize(Word + l) \in Nat
         /\ TokenSize(Word + l) % 8 = 0
         /\ TokenSize(Word + l) = get_size(l)
         /\ 16 <= get_size(l)
         /\ Round8(Word + l) <= get_size(l)
         /\ l > 0 => get_size(l) = Round8(Word + l)
<1>1. Word + l \in Nat /\ Word + l = l + Word
  BY DEF Word
<1>2. Round8(Word + l) \in Nat /\ Round8(Word + l) % 8 = 0 /\ Word + l <= Round8(Word + l)
  BY Zenon, <1>1, Rounding
<1>3. l > 0 => Round8(Word + l) >= 16
  BY <1>2 DEF Word
<1> QED
  BY <1>1, <1>2, <1>3 DEF TokenSize, get_size

\* The comparison of kore_alloc_token and that of init_with_len agree.
LEMMA SameThreshold ==
  ASSUME NEW l \in Nat
  PROVE  GoesToOld(Word + l) <=> HeaderOld(l)
<1>1. Word + l \in Nat
  BY DEF Word
<1>2. /\ Round8(Word + l) \in Nat /\ Round8(Word + l) % 8 = 0
      /\ Word + l <= Round8(Word + l) /\ Round8(Word + l) < Word + l + 8
  BY Zenon, <1>1, Rounding
<1> QED
  BY <1>2, BlockAssumption DEF GoesToOld, TokenSize, HeaderOld, Word

\* A token that is cut stays on the young side of the threshold.
LEMMA CutStaysYoung ==
  ASSUME NEW l \in Nat, NEW k \in Nat, k <= l, ~GoesToOld(Word + l)
  PROVE  ~HeaderOld(k)
BY SameThreshold, BlockAssumption DEF HeaderOld, Word

\* What the objects that a step adds are, and where the arenas end after it.
Grows ==
  /\ young' \in Nat /\ young' % 8 = 0 /\ young <= young'
  /\ oldend' \in Nat /\ oldend' % 8 = 0 /\ oldend <= oldend'
  /\ running' \in BOOLEAN
  /\ objs \subseteq objs'
  /\ \A o \in objs' \ objs :
       /\ o \in Object /\ o.addr % 8 = 0
       /\ o.old <=> o.space = "old"
       /\ o.space = "young" => young <= o.addr
       /\ o.space = "old" => oldend <= o.addr

\* The same for their extents.
Extends ==
  \A o \in objs' \ objs :
    /\ EndOf(o) <= EndPtr(o.space)'
    /\ \A p \in objs' \ objs : o # p /\ o.space = p.space => EndOf(o) <= p.addr \/ EndOf(p) <= o.addr

\* The fields of a token.
LEMMA TokenFields ==
  ASSUME NEW s \in {"young", "old"}, NEW p \in Nat, p % 8 = 0, NEW l \in Nat
  PROVE  /\ Token(s, p, l) \in Object
         /\ Token(s, p, l).space = s /\ Token(s, p, l).addr = p
         /\ Token(s, p, l).size = get_size(l)
         /\ Token(s, p, l).old <=> HeaderOld(l)
<1>1. get_size(l) \in Nat
  BY Zenon, TokenSizes
<1>2. HeaderOld(l) \in BOOLEAN
  BY DEF HeaderOld
<1> QED
  BY Zenon, <1>1, <1>2 DEF Token, Object

\* The fields of the block that hook_IO_read returns.
LEMMA BlockFields ==
  ASSUME NEW p \in Nat
  PROVE  /\ Block1(p) \in Object
         /\ Block1(p).space = "young" /\ Block1(p).addr = p
         /\ Block1(p).size = 16 /\ Block1(p).old = FALSE
BY Zenon DEF Block1, Object, BlockSize1

Aligned == young \in Nat /\ young % 8 = 0 /\ oldend \in Nat /\ oldend % 8 = 0 /\ running \in BOOLEAN

\* kore_alloc_token followed by init_with_len adds one object at the end of its arena.
LEMMA MakeTokenGrows ==
  ASSUME Aligned, NEW l \in Nat, MakeToken(l)
  PROVE  Grows /\ Extends
<1>1. TokenSize(Word + l) \in Nat /\ TokenSize(Word + l) % 8 = 0 /\ TokenSize(Word + l) = get_size(l)
  BY Zenon, TokenSizes
<1>2. GoesToOld(Word + l) <=> HeaderOld(l)
  BY Zenon, SameThreshold
<1>3. CASE ~GoesToOld(Word + l)
  <2>1. /\ young' = young + TokenSize(Word + l) /\ oldend' = oldend /\ running' = running
        /\ objs' = objs \cup {Token("young", young, l)}
    BY Zenon, <1>3 DEF MakeToken
  <2>2. /\ Token("young", young, l) \in Object
        /\ Token("young", young, l).space = "young" /\ Token("young", young, l).addr = young
        /\ Token("young", young, l).size = get_size(l)
        /\ Token("young", young, l).old <=> HeaderOld(l)
    BY Zenon, TokenFields DEF Aligned
  <2>3. Token("young", young, l).old <=> Token("young", young, l).space = "old"
    BY Zenon, <1>2, <1>3, <2>2
  <2> QED
    BY <1>1, <2>1, <2>2, <2>3 DEF Aligned, Grows, Extends, EndOf, EndPtr
<1>4. CASE GoesToOld(Word + l)
  <2>1. /\ oldend' = oldend + TokenSize(Word + l) /\ young' = young /\ running' = running
        /\ objs' = objs \cup {Token("old", oldend, l)}
    BY Zenon, <1>4 DEF MakeToken
  <2>2. /\ Token("old", oldend, l) \in Object
        /\ Token("old", oldend, l).space = "old" /\ Token("old", oldend, l).addr = oldend
        /\ Token("old", oldend, l).size = get_size(l)
        /\ Token("old", oldend, l).old <=> HeaderOld(l)
    BY Zenon, TokenFields DEF Aligned
  <2>3. Token("old", oldend, l).old <=> Token("old", oldend, l).space = "old"
    BY Zenon, <1>2, <1>4, <2>2
  <2> QED
    BY <1>1, <2>1, <2>2, <2>3 DEF Aligned, Grows, Extends, EndOf, EndPtr
<1> QED
  BY Zenon, <1>3, <1>4

\* exit(255) adds nothing.
LEMMA ExitGrows ==
  ASSUME Aligned, Exit
  PROVE  Grows /\ Extends
<1>1. young' = young /\ oldend' = oldend /\ running' = FALSE /\ objs' = objs
  BY Zenon DEF Exit
<1>2. objs' \ objs = {}
  BY Zenon, <1>1
<1>3. running' \in BOOLEAN
  BY Zenon, <1>1
<1>4. Extends
  BY Zenon, <1>2 DEF Extends
<1>5. /\ young' \in Nat /\ young' % 8 = 0 /\ young <= young'
      /\ oldend' \in Nat /\ oldend' % 8 = 0 /\ oldend <= oldend'
  BY <1>1 DEF Aligned
<1> QED
  BY Zenon, <1>1, <1>2, <1>3, <1>4, <1>5 DEF Grows

\* hook_STRING_base2string_long leaves exactly the extent of its token.
LEMMA Base2StringGrows ==
  ASSUME Aligned, NEW l \in Nat, Base2String(l)
  PROVE  Grows /\ Extends
<1>1. CASE ~Resizable(Word + l + 1)
  BY Zenon, <1>1, ExitGrows DEF Base2String
<1>2. CASE Resizable(Word + l + 1)
  <2>1. /\ l > 0 /\ young' = young + Round8(Word + l) /\ oldend' = oldend /\ running' = running
        /\ objs' = objs \cup {Token("young", young, l)}
    BY Zenon, <1>2 DEF Base2String, Resized
  <2>2. Word + (l + 1) = Word + l + 1 /\ l + 1 \in Nat /\ l <= l + 1
    BY DEF Word
  <2>3. ~HeaderOld(l)
    BY Zenon, <1>2, <2>2, CutStaysYoung DEF Resizable
  <2>4. TokenSize(Word + l) % 8 = 0 /\ get_size(l) \in Nat /\ get_size(l) = Round8(Word + l) /\ get_size(l) % 8 = 0
    BY Zenon, <2>1, TokenSizes
  <2>5. /\ Token("young", young, l) \in Object
        /\ Token("young", young, l).space = "young" /\ Token("young", young, l).addr = young
        /\ Token("young", young, l).size = get_size(l)
        /\ Token("young", young, l).old <=> HeaderOld(l)
    BY Zenon, TokenFields DEF Aligned
  <2>6. Token("young", young, l).old <=> Token("young", young, l).space = "old"
    BY Zenon, <2>3, <2>5
  <2> QED
    BY <2>1, <2>4, <2>5, <2>6 DEF Aligned, Grows, Extends, EndOf, EndPtr
<1> QED
  BY Zenon, <1>1, <1>2

\* The error path of hook_IO_read leaves a gap, and adds a block after it.
LEMMA IOReadErrorGrows ==
  ASSUME Aligned, NEW l \in Nat, IOReadError(l)
  PROVE  Grows /\ Extends
<1>1. TokenSize(Word + l) \in Nat /\ TokenSize(Word + l) % 8 = 0
  BY Zenon, TokenSizes
<1>2. PICK p \in Nat :
        /\ p % 8 = 0 /\ young <= p
        /\ young' = p + 16
        /\ oldend' \in Nat /\ oldend' % 8 = 0 /\ oldend <= oldend'
        /\ objs' = objs \cup {Block1(p)}
        /\ running' = running
  <2>1. CASE GoesToOld(Word + l)
    <3>1. /\ oldend' = oldend + TokenSize(Word + l) /\ young' = young + 16
          /\ objs' = objs \cup {Block1(young)} /\ running' = running
      BY Zenon, <2>1 DEF IOReadError, BlockSize1
    <3> QED
      BY <1>1, <3>1 DEF Aligned
  <2>2. CASE ~GoesToOld(Word + l)
    <3> DEFINE q == young + TokenSize(Word + l)
    <3>1. /\ oldend' = oldend /\ young' = q + 16
          /\ objs' = objs \cup {Block1(q)} /\ running' = running
      BY Zenon, <2>2 DEF IOReadError, BlockSize1
    <3>2. q \in Nat /\ q % 8 = 0 /\ young <= q
      BY <1>1 DEF Aligned
    <3> HIDE DEF q
    <3> QED
      BY <3>1, <3>2 DEF Aligned
  <2> QED
    BY Zenon, <2>1, <2>2
<1>3. /\ Block1(p) \in Object
      /\ Block1(p).space = "young" /\ Block1(p).addr = p
      /\ Block1(p).size = 16 /\ Block1(p).old = FALSE
  BY Zenon, BlockFields
<1>4. Block1(p).old <=> Block1(p).space = "old"
  BY Zenon, <1>3
<1>5. running' \in BOOLEAN
  BY Zenon, <1>2 DEF Aligned
<1>6. Block1(p).addr % 8 = 0 /\ young <= Block1(p).addr
  BY Zenon, <1>2, <1>3
<1>7. young' \in Nat /\ young' % 8 = 0 /\ young <= young'
  BY <1>2 DEF Aligned
<1>8. Grows
  BY Zenon, <1>2, <1>3, <1>4, <1>5, <1>6, <1>7 DEF Grows
<1>9. Extends
  BY <1>2, <1>3 DEF Extends, EndOf, EndPtr
<1> QED
  BY Zenon, <1>8, <1>9

\* hook_IO_read adds a token and the block that holds it.  The extents need a byte to
\* have been read; the rest does not.
LEMMA IOReadGrows ==
  ASSUME Aligned, NEW l \in Nat, NEW b \in Nat, b <= l, IORead(l, b)
  PROVE  Grows /\ (b > 0 => Extends)
<1>1. CASE ~Resizable(Word + l)
  BY Zenon, <1>1, ExitGrows DEF IORead
<1>2. CASE Resizable(Word + l)
  <2> DEFINE q == young + Round8(Word + b)
  <2>1. /\ young' = q + 16 /\ oldend' = oldend /\ running' = running
        /\ objs' = objs \cup {Token("young", young, b), Block1(q)}
    BY Zenon, <1>2 DEF IORead, Resized, BlockSize1
  <2>2. ~HeaderOld(b)
    BY Zenon, <1>2, CutStaysYoung DEF Resizable
  <2>3. Word + b \in Nat
    BY DEF Word
  <2>3a. Round8(Word + b) \in Nat /\ Round8(Word + b) % 8 = 0
    BY Zenon, <2>3, Rounding
  <2>4. q \in Nat /\ q % 8 = 0 /\ young <= q
    BY <2>3a DEF Aligned
  <2>5. get_size(b) \in Nat /\ (b > 0 => q = young + get_size(b))
    BY Zenon, TokenSizes
  <2> HIDE DEF q
  <2>6. /\ Token("young", young, b) \in Object
        /\ Token("young", young, b).space = "young" /\ Token("young", young, b).addr = young
        /\ Token("young", young, b).size = get_size(b)
        /\ Token("young", young, b).old <=> HeaderOld(b)
    BY Zenon, TokenFields DEF Aligned
  <2>7. Token("young", young, b).old <=> Token("young", young, b).space = "old"
    BY Zenon, <2>2, <2>6
  <2>8. /\ Block1(q) \in Object
        /\ Block1(q).space = "young" /\ Block1(q).addr = q
        /\ Block1(q).size = 16 /\ Block1(q).old = FALSE
    BY Zenon, <2>4, BlockFields
  <2>9. Block1(q).old <=> Block1(q).space = "old"
    BY Zenon, <2>8
  <2>10. Grows
    BY <2>1, <2>4, <2>6, <2>7, <2>8, <2>9 DEF Aligned, Grows
  <2>11. b > 0 => Extends
    BY <2>1, <2>4, <2>5, <2>6, <2>8 DEF Aligned, Extends, EndOf, EndPtr
  <2> QED
    BY Zenon, <2>10, <2>11
<1> QED
  BY Zenon, <1>1, <1>2

\* Every step of the allocator adds objects past the ends of the arenas.
LEMMA NextGrows ==
  ASSUME Aligned, Next
  PROVE  Grows /\ (MinRead > 0 => Extends)
<1>1. CASE \E l \in Lengths : MakeToken(l) \/ Base2String(l)
  BY Zenon, <1>1, LengthAssumption, MakeTokenGrows, Base2StringGrows
<1>2. CASE \E l \in ReadLengths : IOReadError(l)
  BY Zenon, <1>2, LengthAssumption, IOReadErrorGrows
<1>3. CASE \E l \in ReadLengths : \E b \in MinRead..l : IORead(l, b)
  <2>0. PICK l \in ReadLengths : \E b \in MinRead..l : IORead(l, b)
    BY Zenon, <1>3
  <2>1. PICK b \in MinRead..l : IORead(l, b)
    BY Zenon, <2>0
  <2>2. l \in Nat /\ b \in Nat /\ b <= l /\ MinRead <= b /\ MinRead \in Nat
    BY <2>1, LengthAssumption, ReadAssumption
  <2>3. Grows /\ (b > 0 => Extends)
    BY Zenon, <2>1, <2>2, IOReadGrows
  <2> QED
    BY <2>2, <2>3
<1> QED
  BY Zenon, <1>1, <1>2, <1>3 DEF Next

---------------------------------------------------------------------------
\* The type invariant of the allocator, alignment included.
THEOREM TokensAligned == Spec => []TypeOK
<1>1. Init => TypeOK
  BY DEF Init, TypeOK
<1>2. ASSUME TypeOK, [Next]_vars PROVE TypeOK'
  <2>1. CASE Next
    <3>1. Grows
      BY Zenon, <1>2, <2>1, NextGrows DEF TypeOK, Aligned
    <3> QED
      BY Zenon, <1>2, <3>1 DEF TypeOK, Grows
  <2>2. CASE UNCHANGED vars
    BY Zenon, <1>2, <2>2 DEF TypeOK, vars
  <2> QED
    BY Zenon, <1>2, <2>1, <2>2
<1> QED
  BY <1>1, <1>2, PTL DEF Spec

\* kore_alloc_token and init_with_len agree on the generation, for every BLOCK_SIZE that
\* is a multiple of 8, all lengths, and through every resize.
THEOREM HeadersTellSpace == Spec => []HeaderTellsSpace
<1>1. Init => HeaderTellsSpace
  BY Zenon DEF Init, HeaderTellsSpace
<1>2. ASSUME TypeOK, HeaderTellsSpace, [Next]_vars PROVE HeaderTellsSpace'
  <2>1. CASE Next
    <3>1. Grows
      BY Zenon, <1>2, <2>1, NextGrows DEF TypeOK, Aligned
    <3> QED
      BY Zenon, <1>2, <3>1 DEF HeaderTellsSpace, Grows
  <2>2. CASE UNCHANGED vars
    BY Zenon, <1>2, <2>2 DEF HeaderTellsSpace, vars
  <2> QED
    BY Zenon, <1>2, <2>1, <2>2
<1> QED
  BY <1>1, <1>2, TokensAligned, PTL DEF Spec

\* If every read(2) answers at least a byte, what migrate copies of an object belongs to
\* no other: the extents get_size computes are disjoint and inside the arenas.
THEOREM DisjointExtents ==
  ASSUME MinRead > 0
  PROVE  Spec => []ExtentsDisjoint
<1>1. Init => ExtentsDisjoint
  BY Zenon DEF Init, ExtentsDisjoint
<1>2. ASSUME TypeOK, ExtentsDisjoint, [Next]_vars PROVE ExtentsDisjoint'
  <2>1. CASE Next
    <3>1. Grows /\ Extends
      BY Zenon, <1>2, <2>1, NextGrows DEF TypeOK, Aligned
    <3>2. \A o \in objs' : o \in Object
      BY Zenon, <1>2, <3>1 DEF TypeOK, Grows
    <3>3. \A o \in objs' : EndOf(o) <= EndPtr(o.space)'
      BY <1>2, <3>1, <3>2 DEF TypeOK, Grows, Extends, ExtentsDisjoint, EndOf, EndPtr, Object
    <3>4. ASSUME NEW o \in objs', NEW p \in objs', o # p, o.space = p.space
          PROVE  EndOf(o) <= p.addr \/ EndOf(p) <= o.addr
      <4>0. o \in Object /\ p \in Object
        BY Zenon, <3>2
      <4>1. CASE o \in objs /\ p \in objs
        BY Zenon, <1>2, <3>4, <4>1 DEF ExtentsDisjoint
      <4>2. CASE o \notin objs /\ p \notin objs
        BY Zenon, <3>1, <3>4, <4>2 DEF Extends
      <4>3. CASE o \in objs /\ p \notin objs
        BY <1>2, <3>1, <3>4, <4>0, <4>3 DEF TypeOK, Grows, ExtentsDisjoint, EndOf, EndPtr, Object
      <4>4. CASE o \notin objs /\ p \in objs
        BY <1>2, <3>1, <3>4, <4>0, <4>4 DEF TypeOK, Grows, ExtentsDisjoint, EndOf, EndPtr, Object
      <4> QED
        BY Zenon, <4>1, <4>2, <4>3, <4>4
    <3> QED
      BY Zenon, <3>3, <3>4 DEF ExtentsDisjoint, EndOf, EndPtr
  <2>2. CASE UNCHANGED vars
    BY Zenon, <1>2, <2>2 DEF ExtentsDisjoint, EndOf, EndPtr, vars
  <2> QED
    BY Zenon, <1>2, <2>1, <2>2
<1> QED
  BY <1>1, <1>2, TokensAligned, PTL DEF Spec
=============================================================================
