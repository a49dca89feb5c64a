----------------------------- MODULE KoreText ------------------------------
(***************************************************************************)
(* Configurations as text: print_configuration_internal and the printing   *)
(* of collections (ConfigurationPrinter.cpp, lists.cpp, maps.cpp, sets.cpp,*)
(* rangemaps.cpp), and the recursive-descent parser of patterns            *)
(* (KOREParser.cpp).  The text is a sequence of the scanner's tokens; the  *)
(* escapes inside a string token are left out.                             *)
(***************************************************************************)
EXTENDS Binders

Tok(k) == [k |-> k, s |-> << >>]
Id(s) == [k |-> "Id", s |-> s]
StringTok(s) == [k |-> "String", s |-> s]

(* Patterns and sorts.                                                     *)
App(name, sorts, args) ==
    [k |-> "app", name |-> name, sorts |-> sorts, args |-> args]
StringPattern(s) == [k |-> "string", s |-> s]
VariablePattern(name, sort) == [k |-> "var", name |-> name, sort |-> sort]
CompositeSort(name, args) == [k |-> "sort", name |-> name, args |-> args]
SortVariable(name) == [k |-> "sortvar", name |-> name]

(* sort{}( and symbol{}( as the interpreter's tables hold them.            *)
ConstantName(y) == <<Id(Text[y]), Tok("{"), Tok("}")>>

-----------------------------------------------------------------------------
(* Names.  The variables of a term in the order in which they are visited, *)
(* an index as the variable of its binder; bv holds the variables of the   *)
(* binders around (bound_variables).                                       *)
Bound(bv, t) == bv[Len(bv) - t.i]
Extended(bv, t) == IF is_symbol_a_binder(t) THEN Append(bv, t.args[1]) ELSE bv
RECURSIVE Flat(_)
Flat(seqs) ==
    LET half == Len(seqs) \div 2
    IN CASE Len(seqs) = 0 -> << >>
         [] Len(seqs) = 1 -> seqs[1]
         [] OTHER -> Flat(SubSeq(seqs, 1, half))
                     \o Flat(SubSeq(seqs, half + 1, Len(seqs)))

RECURSIVE Variables(_, _, _)
Variables(t, bv, is_var) ==
    CASE t.k = "idx" -> <<Bound(bv, t)>>
      [] t.k = "str" -> IF is_var THEN <<t>> ELSE << >>
      [] t.k = "blk" -> Flat(Tuple([i \in DOMAIN t.args |->
                            Variables(t.args[i], Extended(bv, t), cats(t)[i] = "var")]))
      [] t.k = "coll" -> Flat(Tuple([i \in DOMAIN t.elems |->
                            Flat(Tuple([j \in DOMAIN t.elems[i] |->
                                Variables(t.elems[i][j], bv, FALSE)]))]))
      [] OTHER -> << >>

to_string(n) == <<48 + n>>

(* The first name, starting with the variable's own, that is not in use.   *)
RECURSIVE FreshSuffix(_, _, _)
\* Mutant: names in use are not looked at.
FreshSuffix_Any(st, str, suffix) ==
    [st EXCEPT !.var_names = @ \cup {[var |-> str, suffix |-> suffix]}]
FreshSuffix(st, str, suffix) ==
    IF str.name \o suffix \in st.used_var_names
    THEN FreshSuffix([st EXCEPT !.var_counter = @ + 1], str,
                     to_string(st.var_counter))
    ELSE [st EXCEPT !.used_var_names = @ \cup {str.name \o suffix},
                    !.var_names = @ \cup {[var |-> str, suffix |-> suffix]}]

(* The suffix of every variable: chosen when it is first met.              *)
RECURSIVE NameAll(_, _)
NameAll(st, vars) ==
    IF vars = << >> THEN st.var_names
    ELSE IF \E e \in st.var_names : hook_STRING_eq(e.var, Head(vars))
    THEN NameAll(st, Tail(vars))
    ELSE NameAll(FreshSuffix(st, Head(vars), << >>), Tail(vars))
var_names(t) ==
    NameAll([var_names |-> {}, used_var_names |-> {}, var_counter |-> 0],
            Variables(t, << >>, FALSE))
SuffixOf(names, str) == (CHOOSE e \in names : hook_STRING_eq(e.var, str)).suffix

-----------------------------------------------------------------------------
Dv(sort, s) == <<Id(Text["dv"]), Tok("{")>> \o ConstantName(sort)
               \o <<Tok("}"), Tok("("), StringTok(s), Tok(")")>>

CollectionSymbols(cat) ==
    CASE cat = "list"  -> [unit |-> "list_unit", element |-> "list_item",
                           concat |-> "list_concat"]
      [] cat = "map"   -> [unit |-> "map_unit", element |-> "map_item",
                           concat |-> "map_concat"]
      [] cat = "set"   -> [unit |-> "set_unit", element |-> "set_item",
                           concat |-> "set_concat"]
      [] cat = "range" -> [unit |-> "range_unit", element |-> "range_item",
                           concat |-> "range_concat"]

Commas(seqs) == Flat(Tuple([i \in DOMAIN seqs |->
                    IF i = 1 THEN seqs[i] ELSE <<Tok(",")>> \o seqs[i]]))
Applied(head, seqs) ==
    IF seqs = << >> THEN head \o <<Tok("("), Tok(")")>>
    ELSE head \o <<Tok("(")>> \o Commas(seqs) \o <<Tok(")")>>

RECURSIVE print_configuration_internal(_, _, _, _, _), print_collection(_, _, _, _)
print_int(i, sort) == Dv(sort, to_string(i))
(* visit_children: the printer for the category of a child.                *)
print_child(t, i, bv, names) ==
    CASE cats(t)[i] \in Collections ->
            print_collection(t.args[i].elems, CollectionSymbols(cats(t)[i]), bv, names)
      [] cats(t)[i] = "int" -> print_int(t.args[i].i, child_sort(t, i))
      [] OTHER -> print_configuration_internal(t.args[i], child_sort(t, i),
                                               cats(t)[i] = "var", bv, names)
print_configuration_internal(t, sort, is_var, bv, names) ==
    CASE t.k = "idx" -> Dv(sort, Bound(bv, t).name \o SuffixOf(names, Bound(bv, t)))
      [] t.k = "leaf" -> Applied(ConstantName(t.sym), << >>)
      [] t.k = "str" -> Dv(sort, IF is_var THEN t.name \o SuffixOf(names, t) ELSE t.name)
      [] OTHER ->
           Applied(IF IsInjection(t)
                   THEN <<Id(Text["inj"]), Tok("{")>>
                        \o Commas(<<ConstantName(Sig[t.sym].inj), ConstantName(sort)>>)
                        \o <<Tok("}")>>
                   ELSE ConstantName(t.sym),
                   Tuple([i \in DOMAIN t.args |->
                       print_child(t, i, Extended(bv, t), names)]))

(* print_list, print_set, print_map and print_range_map.                   *)
print_collection(elems, cons, bv, names) ==
    LET item(x) == print_configuration_internal(x, "KItem", FALSE, bv, names)
        entry(e) == Tuple([j \in DOMAIN e |-> item(e[j])])
        keyed(e) == IF Len(e) < 3 THEN entry(e)
                    ELSE <<Applied(ConstantName("range"), SubSeq(entry(e), 1, 2)),
                           item(e[3])>>
    IN IF elems = << >> THEN Applied(ConstantName(cons.unit), << >>)
       ELSE Applied(<<Id(Text["left-assoc"]), Tok("{"), Tok("}")>>,
                <<Applied(ConstantName(cons.concat), Tuple([i \in DOMAIN elems |->
                    Applied(ConstantName(cons.element), keyed(elems[i]))]))>>)

print_configuration(t) ==
    print_configuration_internal(t, "Exp", FALSE, << >>, var_names(t))

-----------------------------------------------------------------------------
(* The parser.  A function returns what it read and the tokens after it;   *)
(* after a syntax error, where the program exits, no token is left that    *)
(* any function accepts.                                                   *)
Syntax == <<Tok("error")>>
peek(ts) == IF ts = << >> THEN "EOF" ELSE Head(ts).k
consume(k, ts) == IF peek(ts) = k THEN Tail(ts) ELSE Syntax
Parsed(v, ts) == [v |-> v, ts |-> ts]

RECURSIVE parse_sort(_), sorts_ne(_, _)
sorts_ne(read, ts) ==
    LET s == parse_sort(ts)
    IN IF peek(s.ts) = "," THEN sorts_ne(Append(read, s.v), Tail(s.ts))
       ELSE Parsed(Append(read, s.v), s.ts)
parse_sorts(ts) == IF peek(ts) = "Id" THEN sorts_ne(<< >>, ts)
                   ELSE Parsed(<< >>, ts)
parse_sort(ts) ==
    LET rest == consume("Id", ts)
    IN IF peek(rest) = "{"
       THEN LET ss == parse_sorts(Tail(rest))
            IN Parsed(CompositeSort(Head(ts).s, ss.v), consume("}", ss.ts))
       ELSE Parsed(SortVariable(Head(ts).s), rest)

(* \left-assoc and \right-assoc are folded while they are read.            *)
RECURSIVE left_assoc(_, _), right_assoc(_, _)
left_assoc(sym, pats) ==
    IF Len(pats) = 1 THEN pats[1]
    ELSE App(sym.name, sym.sorts,
             <<left_assoc(sym, SubSeq(pats, 1, Len(pats) - 1)), pats[Len(pats)]>>)
right_assoc(sym, pats) ==
    IF Len(pats) = 1 THEN pats[1]
    ELSE App(sym.name, sym.sorts, <<pats[1], right_assoc(sym, Tail(pats))>>)

(* symbol(): a name and its sorts, as a pattern without arguments.         *)
parse_symbol(ts) ==
    LET ss == parse_sorts(consume("{", consume("Id", ts)))
    IN Parsed(App(Head(ts).s, ss.v, << >>), consume("}", ss.ts))

(* \or and \and with no or with one argument are simplified.               *)
Simplified(pat) ==
    LET empty == IF pat.name = Text["or"] THEN Text["bottom"] ELSE Text["top"]
    IN IF pat.name \notin {Text["or"], Text["and"]} \/ Len(pat.args) > 1
       THEN pat
       ELSE IF pat.args = << >> THEN App(empty, <<pat.sorts[1]>>, << >>)
       ELSE pat.args[1]

RECURSIVE pattern_internal(_), patterns_ne(_, _)
patterns_ne(read, ts) ==
    LET p == pattern_internal(ts)
    IN CASE p.ts = << >> -> Parsed(read, Syntax)
         [] peek(p.ts) = "," -> patterns_ne(Append(read, p.v), Tail(p.ts))
         [] OTHER -> Parsed(Append(read, p.v), p.ts)

(* An application, or \left-assoc{}(c(p1, ..., pn)), which is folded.      *)
pattern_internal(ts) ==
    CASE peek(ts) = "String" -> Parsed(StringPattern(Head(ts).s), Tail(ts))
      [] peek(ts) \notin {"String", "Id"} -> Parsed(StringPattern(<< >>), Syntax)
      [] peek(ts) = "Id" /\ peek(Tail(ts)) = ":" ->
         LET s == parse_sort(Tail(Tail(ts)))
         IN Parsed(VariablePattern(Head(ts).s, s.v), s.ts)
      [] OTHER ->
         LET assoc == Head(ts).s \in {Text["left-assoc"], Text["right-assoc"]}
             sym == parse_symbol(IF assoc
                        THEN consume("(", consume("}", consume("{", Tail(ts)))) ELSE ts)
             args == consume("(", sym.ts)
             ps == IF args # << >> /\ args[1].k = ")" THEN Parsed(<< >>, args)
                   ELSE patterns_ne(<< >>, args)
         IN CASE ps.ts = Syntax -> Parsed(sym.v, Syntax)
              [] ps.ts # Syntax /\ ~assoc ->
                 Parsed(Simplified([sym.v EXCEPT !.args = ps.v]), consume(")", ps.ts))
              [] ps.v = << >> /\ assoc -> Parsed(sym.v, Syntax)
              [] OTHER ->
                 Parsed(IF Head(ts).s = Text["left-assoc"]
                        THEN left_assoc(sym.v, ps.v) ELSE right_assoc(sym.v, ps.v),
                        consume(")", consume(")", ps.ts)))

SyntaxError == [k |-> "error"]
Whole(p) == IF p.ts = << >> THEN p.v ELSE SyntaxError
pattern(ts) == Whole(pattern_internal(ts))

parse_configuration(ts, p) == construct_initial_configuration(pattern(ts), p)

=============================================================================
