---------------------------- MODULE BinaryKore -----------------------------
(***************************************************************************)
(* Binary KORE: the serializer with its table of interned strings          *)
(* (lib/binary/serializer.cpp), the serialization of patterns (AST.cpp)    *)
(* and of configurations (ConfigurationSerializer.cpp), the deserializer   *)
(* (deserializer.h, deserializer.cpp) and the direct reading of a          *)
(* configuration (ConfigurationParser.cpp).  A file is a sequence of       *)
(* bytes, the first at 1.                                                  *)
(***************************************************************************)
EXTENDS KoreText

CONSTANT LengthBase   \* values of a byte of a length without the
                      \* continuation bit: 128 in the code

(* header_byte<...>                                                        *)
CompositeHeader == 4
StringHeader == 5
CompositeSortHeader == 6
SortVariableHeader == 7
SymbolHeader == 8
VariablePatternHeader == 9
VariableHeader == 13

magic_header == <<127, 75, 79, 82, 69>>
Version(maj, min, patch) == <<maj, min, patch>>
compatible(v, w) == v[1] = w[1] /\ v[2] = w[2]
AtLeast(v, w) ==
    \/ v[1] > w[1]
    \/ v[1] = w[1] /\ v[2] > w[2]
    \/ v[1] = w[1] /\ v[2] = w[2] /\ v[3] >= w[3]
version == Version(1, 2, 0)

(* Integers of n bytes, least significant first.                           *)
RECURSIVE LittleEndian(_, _), FromBytes(_, _, _)
LittleEndian(i, n) ==
    IF n = 0 THEN << >> ELSE <<i % 256>> \o LittleEndian(i \div 256, n - 1)
FromBytes(d, at, n) ==
    IF n = 0 THEN 0 ELSE d[at] + 256 * FromBytes(d, at + 1, n - 1)

-----------------------------------------------------------------------------
(* The serializer: what it is asked to emit is a sequence of requests, a   *)
(* byte, a length or a string.  next_idx_ is the length of the buffer.     *)
Byte(b) == [k |-> "byte", n |-> b, s |-> << >>]
Length(n) == [k |-> "length", n |-> n, s |-> << >>]
String(s) == [k |-> "string", n |-> 0, s |-> s]

header_and_zero_size ==
    magic_header \o LittleEndian(version[1], 2) \o LittleEndian(version[2], 2)
    \o LittleEndian(version[3], 2) \o LittleEndian(0, 8)

RECURSIVE emit_length(_), required_chunks(_)
emit_length(len) ==
    IF len < LengthBase THEN <<len>>
    ELSE <<(len % LengthBase) + LengthBase>> \o emit_length(len \div LengthBase)
required_chunks(len) ==
    IF len < LengthBase THEN 1 ELSE 1 + required_chunks(len \div LengthBase)

emit_direct_string(s, str) ==
    [buffer |-> s.buffer \o <<1>> \o emit_length(Len(str)) \o str,
     intern_table |-> s.intern_table \cup {[s |-> str, at |-> Len(s.buffer) + 1]}]

(* A repeated string is written as the distance back from the end of the   *)
(* distance itself to the length of its first copy.                        *)
\* Mutant: the bytes of the distance itself are not counted twice.
BackReference_OneChunk(next_idx, at) == emit_length(next_idx - at + 1)
BackReference(next_idx, at) ==
    LET base_diff == next_idx - at
        chunks == required_chunks(base_diff + required_chunks(base_diff))
    IN emit_length(base_diff + chunks)

emit_string(s, str, use_intern) ==
    LET copies == {e \in s.intern_table : e.s = str}
    IN IF ~use_intern \/ copies = {} THEN emit_direct_string(s, str)
       ELSE [s EXCEPT !.buffer = @ \o <<2>>
                \o BackReference(Len(@) + 1, (CHOOSE e \in copies : TRUE).at)]

Emit(s, r, use_intern) ==
    CASE r.k = "byte" -> [s EXCEPT !.buffer = Append(@, r.n)]
      [] r.k = "length" -> [s EXCEPT !.buffer = @ \o emit_length(r.n)]
      [] r.k = "string" -> emit_string(s, r.s, use_intern)

(* The requests from..to, in two halves.                                   *)
RECURSIVE EmitAll(_, _, _, _, _)
EmitAll(s, reqs, from, to, use_intern) ==
    IF from > to THEN s
    ELSE IF from = to THEN Emit(s, reqs[from], use_intern)
    ELSE LET mid == (from + to) \div 2
             half == EmitAll(s, reqs, from, mid, use_intern)
         IN IF half.buffer = << >> THEN half
            ELSE EmitAll(half, reqs, mid + 1, to, use_intern)
serializer(reqs, use_header, use_intern) ==
    EmitAll([buffer |-> IF use_header THEN header_and_zero_size ELSE << >>,
             intern_table |-> {}], reqs, 1, Len(reqs), use_intern).buffer

correct_emitted_size(d) ==
    LET prefix == 11
    IN SubSeq(d, 1, prefix) \o LittleEndian(Len(d) - (prefix + 8), 8)
       \o SubSeq(d, prefix + 9, Len(d))

-----------------------------------------------------------------------------
(* serialize_to of sorts, symbols and patterns: the requests.              *)
RECURSIVE sort_serialize_to(_), pattern_serialize_to(_, _)
sort_serialize_to(sort) ==
    IF sort.k = "sortvar" THEN <<Byte(SortVariableHeader), String(sort.name)>>
    ELSE Flat(Tuple([i \in DOMAIN sort.args |-> sort_serialize_to(sort.args[i])]))
         \o <<Byte(CompositeSortHeader), Length(Len(sort.args)), String(sort.name)>>

symbol_serialize_to(name, sorts) ==
    Flat(Tuple([i \in DOMAIN sorts |-> sort_serialize_to(sorts[i])]))
    \o <<Byte(SymbolHeader), Length(Len(sorts)), String(name)>>

(* Only the outermost arity is left out when use_arity is FALSE.           *)
\* Mutant: the arity is always written.
composite_serialize_to_Arity(pat, use_arity) ==
    Flat(Tuple([i \in DOMAIN pat.args |-> pattern_serialize_to(pat.args[i], TRUE)]))
    \o symbol_serialize_to(pat.name, pat.sorts)
    \o <<Byte(CompositeHeader), Length(Len(pat.args))>>
composite_serialize_to(pat, use_arity) ==
    Flat(Tuple([i \in DOMAIN pat.args |-> pattern_serialize_to(pat.args[i], TRUE)]))
    \o symbol_serialize_to(pat.name, pat.sorts) \o <<Byte(CompositeHeader)>>
    \o (IF use_arity THEN <<Length(Len(pat.args))>> ELSE << >>)

pattern_serialize_to(pat, use_arity) ==
    CASE pat.k = "string" -> <<Byte(StringHeader), String(pat.s)>>
      [] pat.k = "var" ->
            sort_serialize_to(pat.sort)
            \o <<Byte(VariablePatternHeader), Byte(VariableHeader), String(pat.name)>>
      [] OTHER -> composite_serialize_to(pat, use_arity)

-----------------------------------------------------------------------------
(* The deserializer.  A failed assertion, an unknown string prefix or a    *)
(* bad term gives Invalid.  r holds the bytes, the position read next and  *)
(* the stacks; a position of 0 is Invalid.                                 *)
Bad(r) == [r EXCEPT !.ptr = 0]

(* read_length: the value and the position after it.                       *)
RECURSIVE ReadChunks(_, _, _), BigEndian(_, _, _, _)
ReadChunks(d, at, steps) ==
    IF at > Len(d) \/ steps > 8 THEN [v |-> 0, ptr |-> 0]
    ELSE IF d[at] < LengthBase THEN [v |-> d[at], ptr |-> at + 1]
    ELSE LET rest == ReadChunks(d, at + 1, steps + 1)
         IN [v |-> d[at] - LengthBase + LengthBase * rest.v, ptr |-> rest.ptr]
BigEndian(d, at, n, acc) ==
    IF n = 0 THEN [v |-> acc, ptr |-> at]
    ELSE IF at > Len(d) THEN [v |-> 0, ptr |-> 0]
    ELSE BigEndian(d, at + 1, n - 1, 256 * acc + d[at])
read_length(d, at, ver, v1_bytes) ==
    IF compatible(ver, Version(1, 0, 0)) THEN BigEndian(d, at, v1_bytes, 0)
    ELSE ReadChunks(d, at, 0)

read_string(d, at, ver) ==
    LET none == [s |-> << >>, ptr |-> 0]
        len == read_length(d, at + 1, ver, 4)
        begin == len.ptr - len.v
        copy == read_length(d, begin, ver, 4)
    IN IF at > Len(d) \/ len.ptr = 0 THEN none
       ELSE CASE d[at] = 1 /\ len.ptr + len.v - 1 <= Len(d) ->
                   [s |-> SubSeq(d, len.ptr, len.ptr + len.v - 1),
                    ptr |-> len.ptr + len.v]
              [] d[at] = 2 /\ begin >= 1 /\ copy.ptr # 0
                           /\ copy.ptr + copy.v - 1 <= Len(d) ->
                   [s |-> SubSeq(d, copy.ptr, copy.ptr + copy.v - 1),
                    ptr |-> len.ptr]
              [] OTHER -> none

Top(stack, n) == SubSeq(stack, Len(stack) - n + 1, Len(stack))
Popped(stack, n) == SubSeq(stack, 1, Len(stack) - n)

(* An arity and a name; the name's position is 0 when the arity exceeds    *)
(* the stack.                                                              *)
NamedHead(arity, name) == [arity |-> arity.v, s |-> name.s, ptr |-> name.ptr]
HeadAfter(r, arity) ==
    IF arity.ptr = 0 \/ arity.v > Len(r.sorts)
    THEN [arity |-> 0, s |-> << >>, ptr |-> 0]
    ELSE NamedHead(arity, read_string(r.d, arity.ptr, r.ver))
ReadHead(r) == HeadAfter(r, read_length(r.d, r.ptr + 1, r.ver, 2))

SetSymbol(r, h) ==
    [r EXCEPT !.ptr = h.ptr, !.sorts = Popped(@, h.arity),
              !.symbol = App(h.s, Top(r.sorts, h.arity), << >>)]
read_symbol(r) == SetSymbol(r, ReadHead(r))
PushSort(r, h) ==
    [r EXCEPT !.ptr = h.ptr,
              !.sorts = Append(Popped(@, h.arity),
                               CompositeSort(h.s, Top(@, h.arity)))]
read_composite_sort(r) == PushSort(r, ReadHead(r))
PushSortVariable(r, name) ==
    [r EXCEPT !.ptr = name.ptr, !.sorts = Append(@, SortVariable(name.s))]
ReadSortVariable(r) == PushSortVariable(r, read_string(r.d, r.ptr + 1, r.ver))

(* One turn of the loop of detail::read.                                   *)
NoSymbol == App(<< >>, << >>, << >>)
PushString(r, str) ==
    [r EXCEPT !.ptr = str.ptr, !.terms = Append(@, StringPattern(str.s))]
ReadString(r) == PushString(r, read_string(r.d, r.ptr + 1, r.ver))
ReadComposite(r) ==
    LET arity == read_length(r.d, r.ptr + 1, r.ver, 2)
    IN IF arity.ptr = 0 \/ arity.v > Len(r.terms) THEN Bad(r)
       ELSE [r EXCEPT !.ptr = arity.ptr, !.symbol = NoSymbol,
                      !.terms = Append(Popped(@, arity.v),
                           [r.symbol EXCEPT !.args = Top(r.terms, arity.v)])]
ReadVariable(r) ==
    LET name == read_string(r.d, r.ptr + 2, r.ver)
    IN IF r.ptr = Len(r.d) \/ r.d[r.ptr + 1] # VariableHeader \/ r.sorts = << >>
       THEN Bad(r)
       ELSE [r EXCEPT !.ptr = name.ptr, !.sorts = Popped(@, 1),
                      !.terms = Append(@, VariablePattern(name.s,
                                              r.sorts[Len(r.sorts)]))]

ReadStep(r) ==
    CASE r.d[r.ptr] = StringHeader -> ReadString(r)
      [] r.d[r.ptr] = CompositeHeader -> ReadComposite(r)
      [] r.d[r.ptr] = VariablePatternHeader -> ReadVariable(r)
      [] r.d[r.ptr] = SymbolHeader -> read_symbol(r)
      [] r.d[r.ptr] = SortVariableHeader -> ReadSortVariable(r)
      [] r.d[r.ptr] = CompositeSortHeader -> read_composite_sort(r)
      [] OTHER -> Bad(r)

(* The loop, at most n times: in two halves, so that the recursion is      *)
(* shallow.                                                                *)
RECURSIVE ReadLoop(_, _)
ReadLoop(r, n) ==
    IF r.ptr = 0 \/ r.ptr > Len(r.d) THEN r
    ELSE IF n = 1 THEN ReadStep(r)
    ELSE LET half == ReadLoop(r, n \div 2)
         IN IF half.ptr = 0 THEN half ELSE ReadLoop(half, n - (n \div 2))

Invalid == [k |-> "invalid"]
OnlyTerm(r) == IF r.ptr = 0 \/ Len(r.terms) # 1 THEN Invalid ELSE r.terms[1]
read(d, at, ver) ==
    OnlyTerm(ReadLoop([d |-> d, ptr |-> at, ver |-> ver, terms |-> << >>,
                       sorts |-> << >>, symbol |-> NoSymbol], Len(d)))

(* The header: the version, where the term starts and where it ends.       *)
ReadHeader(d) ==
    LET ver == Version(FromBytes(d, 6, 2), FromBytes(d, 8, 2), FromBytes(d, 10, 2))
        sized == AtLeast(ver, Version(1, 2, 0))
        ptr == IF sized THEN 20 ELSE 12
        size == IF sized THEN FromBytes(d, 12, 8) ELSE 0
    IN [ver |-> ver, ptr |-> ptr,
        end |-> IF size > 0 /\ Len(d) - ptr + 1 > size
                THEN ptr + size - 1 ELSE Len(d)]

strip_raw_term(pat) ==
    IF pat.k = "app" /\ pat.name = Text["rawTerm"] /\ Len(pat.args) = 1
       /\ pat.args[1].k = "app" /\ pat.args[1].name = Text["inj"]
       /\ Len(pat.args[1].args) = 1
    THEN pat.args[1].args[1] ELSE pat

deserialize_pattern(d) ==
    LET h == ReadHeader(d)
    IN strip_raw_term(read(SubSeq(d, 1, h.end), h.ptr, h.ver))

=============================================================================
