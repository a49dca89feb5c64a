--------------------------- MODULE Configurations --------------------------
(***************************************************************************)
(* Configurations in binary: serialize_configuration in version 1          *)
(* (ConfigurationSerializer.cpp) and deserialize_initial_configuration     *)
(* (ConfigurationParser.cpp), which builds terms while it reads; the       *)
(* header file and the terms of version 2 (emit_kore_rich_header,          *)
(* kore_header, read_v2, serialize_configuration_to_proof_trace_internal). *)
(***************************************************************************)
EXTENDS BinaryKore

emit_symbol(name, arity, symbol_arity) ==
    <<Byte(SymbolHeader), Length(symbol_arity), String(name),
      Byte(CompositeHeader), Length(arity)>>
emit_constant_sort(sort) ==
    <<Byte(CompositeSortHeader), Length(0), String(Text[sort])>>
emit_token(sort, str) ==
    <<Byte(StringHeader), String(str)>> \o emit_constant_sort(sort)
    \o emit_symbol(Text["dv"], 1, 1)

(* The names are chosen as in the printer; a variable is written as its    *)
(* suffix alone.                                                           *)
RECURSIVE serialize_configuration_internal(_, _, _, _, _),
          serialize_collection(_, _, _, _)
serialize_int(i, sort) == emit_token(sort, to_string(i))
serialize_child(t, i, bv, names) ==
    CASE cats(t)[i] \in Collections ->
            serialize_collection(t.args[i].elems, CollectionSymbols(cats(t)[i]),
                                 bv, names)
      [] cats(t)[i] = "int" -> serialize_int(t.args[i].i, child_sort(t, i))
      [] OTHER -> serialize_configuration_internal(t.args[i], child_sort(t, i),
                                                   cats(t)[i] = "var", bv, names)
serialize_configuration_internal(t, sort, is_var, bv, names) ==
    CASE t.k = "idx" -> emit_token(sort, SuffixOf(names, Bound(bv, t)))
      [] t.k = "leaf" -> emit_symbol(Text[t.sym], 0, 0)
      [] t.k = "str" -> emit_token(sort, IF is_var THEN SuffixOf(names, t) ELSE t.name)
      [] OTHER ->
           Flat(Tuple([i \in DOMAIN t.args |->
               serialize_child(t, i, Extended(bv, t), names)]))
           \o (IF IsInjection(t)
               THEN emit_constant_sort(Sig[t.sym].inj) \o emit_constant_sort(sort)
                    \o emit_symbol(Text["inj"], 1, 2)
               ELSE emit_symbol(Text[t.sym], Len(t.args), 0))

(* serialize_list, serialize_set, serialize_map and serialize_range_map:   *)
(* the second and every later entry is followed by the concatenation.      *)
\* Mutant: range maps are written like maps.
serialize_collection_Flat(elems, cons, bv, names) ==
    LET item(x) == serialize_configuration_internal(x, "KItem", FALSE, bv, names)
    IN IF elems = << >> THEN emit_symbol(Text[cons.unit], 0, 0)
       ELSE Flat(Tuple([i \in DOMAIN elems |->
                Flat(Tuple([j \in DOMAIN elems[i] |-> item(elems[i][j])]))
                \o emit_symbol(Text[cons.element], Len(elems[i]), 0)
                \o (IF i = 1 THEN << >> ELSE emit_symbol(Text[cons.concat], 2, 0))]))
serialize_collection(elems, cons, bv, names) ==
    LET item(x) == serialize_configuration_internal(x, "KItem", FALSE, bv, names)
        entry(e) ==
            IF Len(e) < 3
            THEN Flat(Tuple([j \in DOMAIN e |-> item(e[j])]))
                 \o emit_symbol(Text[cons.element], Len(e), 0)
            ELSE item(e[1]) \o item(e[2]) \o emit_symbol(Text["range"], 2, 0)
                 \o item(e[3]) \o emit_symbol(Text[cons.element], 2, 0)
    IN IF elems = << >> THEN emit_symbol(Text[cons.unit], 0, 0)
       ELSE Flat(Tuple([i \in DOMAIN elems |-> entry(elems[i])
                \o (IF i = 1 THEN << >> ELSE emit_symbol(Text[cons.concat], 2, 0))]))

Finished(d, emit_size) == IF emit_size THEN correct_emitted_size(d) ELSE d
serialize_configuration(t, sort, emit_size, use_intern) ==
    Finished(serializer(serialize_configuration_internal(
                 t, sort, FALSE, << >>, var_names(t)), TRUE, use_intern), emit_size)

(* serialize_raw_term_to_file: the term wrapped so that its sort is known. *)
construct_raw_term(t, sort) == Blk("rawTerm", <<inject(sort, t)>>)
serialize_raw_term(t, sort, use_intern) ==
    serialize_configuration(construct_raw_term(t, sort), "KItem", TRUE, use_intern)

sorted_term_to_kore_pattern(t, sort) ==
    deserialize_pattern(serialize_raw_term(t, sort, TRUE))

-----------------------------------------------------------------------------
(* deserialize_initial_configuration: as detail::read, with terms built at *)
(* once; strings wait on a stack of their own for their \dv.               *)
PushToken(r, str) == [r EXCEPT !.ptr = str.ptr, !.tokens = Append(@, str.s)]
DirectString(r) == PushToken(r, read_string(r.d, r.ptr + 1, r.ver))

\* Mutant: arguments are popped without putting them back in order.
Arguments_Popped(terms, n) == Tuple([i \in 1..n |-> terms[Len(terms) + 1 - i]])
Arguments(terms, n) == Top(terms, n)

Built(r, sym, n) ==
    IF n > 0
    THEN construct_composite_pattern(sym, Arguments(r.terms, n), <<0, r.ptr>>)
    ELSE IF is_symbol_a_function(sym)
    THEN evaluate_function_symbol(sym, << >>, <<0, r.ptr>>)
    ELSE Leaf(sym)
DirectComposite(r) ==
    LET arity == read_length(r.d, r.ptr + 1, r.ver, 2)
        n == arity.v
        token == get_token(r.symbol.sorts[1].name, r.tokens[Len(r.tokens)],
                           <<0, r.ptr>>)
    IN IF arity.ptr = 0 \/ r.symbol = NoSymbol THEN Bad(r)
       ELSE IF r.symbol.name = Text["dv"]
       THEN [r EXCEPT !.ptr = arity.ptr, !.terms = Append(@, token),
                      !.tokens = Popped(@, 1)]
       ELSE IF n > Len(r.terms) THEN Bad(r)
       ELSE [r EXCEPT !.ptr = arity.ptr, !.symbol = NoSymbol,
                      !.terms = Append(Popped(@, n), Built(r,
                          get_tag_for_symbol(r.symbol.name, r.symbol.sorts), n))]

DirectStep(r) ==
    CASE r.d[r.ptr] = StringHeader -> DirectString(r)
      [] r.d[r.ptr] = CompositeHeader -> DirectComposite(r)
      [] r.d[r.ptr] = SymbolHeader -> read_symbol(r)
      [] r.d[r.ptr] = SortVariableHeader -> ReadSortVariable(r)
      [] r.d[r.ptr] = CompositeSortHeader -> read_composite_sort(r)
      [] OTHER -> Bad(r)

RECURSIVE DirectLoop(_, _)
DirectLoop(r, n) ==
    IF r.ptr = 0 \/ r.ptr > Len(r.d) THEN r
    ELSE IF n = 1 THEN DirectStep(r)
    ELSE LET half == DirectLoop(r, n \div 2)
         IN IF half.ptr = 0 THEN half ELSE DirectLoop(half, n - (n \div 2))

deserialize_configuration(d) ==
    LET h == ReadHeader(d)
    IN OnlyTerm(DirectLoop([d |-> SubSeq(d, 1, h.end), ptr |-> h.ptr, ver |-> h.ver,
                            terms |-> << >>, tokens |-> << >>, sorts |-> << >>,
                            symbol |-> NoSymbol], Len(d)))

-----------------------------------------------------------------------------
(* Version 2.  Tags number the symbols of the definition from 0, and the   *)
(* sorts, for the tokens, after them; the definition is given by the       *)
(* sequences Symbols and Sorts.                                            *)
CONSTANTS Symbols, Sorts

TagOf(seq, x) == (CHOOSE i \in DOMAIN seq : seq[i] = x) - 1
tag_of_symbol(y) == TagOf(Symbols, y)
tag_of_token(sort) == Len(Symbols) + TagOf(Sorts, sort)

TableString(str) == LittleEndian(Len(str), 4) \o str \o <<0>>
SymbolName(y) == IF Sig[y].inj # "" THEN Text["inj"] ELSE Text[y]
FormalSorts(y) == IF Sig[y].inj # "" THEN <<Sig[y].inj, Sig[y].sort>> ELSE << >>

(* The strings, then the sorts, then the symbols and a \dv per sort.       *)
emit_kore_rich_header ==
    LET ns == Len(Symbols)
        nsorts == Len(Sorts)
        strings == Tuple([i \in DOMAIN Symbols |-> TableString(SymbolName(Symbols[i]))])
                   \o Tuple([i \in DOMAIN Sorts |-> TableString(Text[Sorts[i]])])
                   \o <<TableString(Text["dv"])>>
        sorts == Tuple([i \in DOMAIN Sorts |-> LittleEndian(i - 1 + ns, 4) \o <<0>>])
        symbols == Tuple([i \in DOMAIN Symbols |->
            LET f == FormalSorts(Symbols[i])
            IN LittleEndian(i - 1, 4)
               \o <<Len(f), Len(Sig[Symbols[i]].cats)>>
               \o Flat(Tuple([j \in DOMAIN f |-> LittleEndian(TagOf(Sorts, f[j]), 4)]))])
        tokens == Tuple([i \in DOMAIN Sorts |-> LittleEndian(ns + nsorts, 4) \o <<1, 1>>
                                          \o LittleEndian(i - 1, 4)])
    IN <<127, 75, 82, 50>> \o LittleEndian(1, 4)
       \o LittleEndian(ns + nsorts + 1, 4) \o LittleEndian(nsorts, 4)
       \o LittleEndian(ns + nsorts, 4)
       \o Flat(strings \o sorts \o symbols \o tokens)

(* kore_header: an entry of a table, and n entries of it.                  *)
HeaderString(d, h) ==
    LET len == FromBytes(d, h.at, 4)
    IN [h EXCEPT !.at = @ + 4 + len + 1,
                 !.strings = Append(@, SubSeq(d, h.at + 4, h.at + 3 + len))]
HeaderSort(d, h) ==
    LET np == d[h.at + 4]
    IN [h EXCEPT !.at = @ + 5 + 4 * np,
                 !.sorts = Append(@, CompositeSort(
                     h.strings[FromBytes(d, h.at, 4) + 1],
                     Tuple([j \in 1..np |->
                         h.sorts[FromBytes(d, h.at + 1 + 4 * j, 4) + 1]])))]
HeaderSymbol(d, h) ==
    LET np == d[h.at + 4]
    IN [h EXCEPT !.at = @ + 6 + 4 * np,
                 !.symbols = Append(@, [arity |-> d[h.at + 5],
                     symbol |-> App(h.strings[FromBytes(d, h.at, 4) + 1],
                        Tuple([j \in 1..np |->
                            h.sorts[FromBytes(d, h.at + 2 + 4 * j, 4) + 1]]), << >>)])]

RECURSIVE HeaderTable(_, _, _, _)
HeaderTable(d, h, table, n) ==
    IF h.at = 0 \/ n = 0 THEN h
    ELSE IF n > 1
    THEN LET half == HeaderTable(d, h, table, n \div 2)
         IN IF half.at = 0 THEN half ELSE HeaderTable(d, half, table, n - (n \div 2))
    ELSE CASE table = 1 -> HeaderString(d, h)
           [] table = 2 -> HeaderSort(d, h)
           [] table = 3 -> HeaderSymbol(d, h)

kore_header(d) ==
    LET n(i) == FromBytes(d, 5 + 4 * i, 4)
        empty == [at |-> 21, strings |-> << >>, sorts |-> << >>, symbols |-> << >>]
        read_strings == HeaderTable(d, empty, 1, n(1))
        read_sorts == HeaderTable(d, read_strings, 2, n(2))
    IN HeaderTable(d, read_sorts, 3, n(3)).symbols

emit_symbol_to_proof_trace(tag) == <<1>> \o LittleEndian(tag, 4)
emit_token_to_proof_trace(sort, str) ==
    emit_symbol_to_proof_trace(tag_of_token(sort))
    \o <<0>> \o LittleEndian(Len(str), 8) \o str \o <<0>>

(* The concatenations of a collection are written before its entries.      *)
RECURSIVE serialize_to_proof_trace(_, _), ProofTraceCollection(_, _)
serialize_to_proof_trace(t, sort) ==
    IF t.k = "leaf" THEN emit_symbol_to_proof_trace(tag_of_symbol(t.sym))
    ELSE IF t.k = "str" THEN emit_token_to_proof_trace(sort, t.name)
    ELSE emit_symbol_to_proof_trace(tag_of_symbol(t.sym))
         \o Flat(Tuple([i \in DOMAIN t.args |->
              LET s == child_sort(t, i)
              IN CASE cats(t)[i] \in Collections ->
                        ProofTraceCollection(t.args[i].elems,
                                             CollectionSymbols(cats(t)[i]))
                   [] cats(t)[i] = "int" ->
                        emit_token_to_proof_trace(s, to_string(t.args[i].i))
                   [] OTHER -> serialize_to_proof_trace(t.args[i], s)]))

ProofTraceCollection(elems, cons) ==
    LET sym(y) == emit_symbol_to_proof_trace(tag_of_symbol(y))
        term(x) == serialize_to_proof_trace(x, "KItem")
    IN IF elems = << >> THEN sym(cons.unit)
       ELSE Flat(Tuple([i \in 1..(Len(elems) - 1) |-> sym(cons.concat)]))
            \o Flat(Tuple([i \in DOMAIN elems |->
                 sym(cons.element)
                 \o (IF Len(elems[i]) = 3 THEN sym("range") ELSE << >>)
                 \o Flat(Tuple([j \in DOMAIN elems[i] |-> term(elems[i][j])]))]))

(* read_v2: a pattern and the position after it.                           *)
RECURSIVE read_v2(_, _, _), ReadChildren(_, _, _, _, _)
ReadChildren(d, at, header, n, read_) ==
    IF n = 0 THEN Parsed(read_, at)
    ELSE LET c == read_v2(d, at, header)
         IN ReadChildren(d, c.ts, header, n - 1, Append(read_, c.v))
read_v2(d, at, header) ==
    IF at > Len(d) \/ d[at] \notin {0, 1} THEN Parsed(Invalid, Len(d) + 1)
    ELSE IF d[at] = 0
    THEN LET len == FromBytes(d, at + 1, 8)
         IN Parsed(StringPattern(SubSeq(d, at + 9, at + 8 + len)), at + 10 + len)
    ELSE LET h == header[FromBytes(d, at + 1, 4) + 1]
             cs == ReadChildren(d, at + 5, header, h.arity, << >>)
         IN Parsed([h.symbol EXCEPT !.args = cs.v], cs.ts)

=============================================================================
