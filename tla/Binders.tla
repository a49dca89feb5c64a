------------------------------ MODULE Binders ------------------------------
(***************************************************************************)
(* Terms with bound variables: debruijnize, replace_binder_index,          *)
(* increment_debruijn and hook_SUBSTITUTION_substOne                       *)
(* (runtime/meta/substitution.cpp), the construction of a configuration    *)
(* from a KORE pattern (ConfigurationParser.cpp) and its printing          *)
(* (ConfigurationPrinter.cpp).                                             *)
(*                                                                         *)
(* A term is a leaf (leaf_block), an index (variable_block, a bound        *)
(* variable), a string token, an integer, a collection or a block.  A      *)
(* string token has an identity, because hook_STRING_eq compares pointers  *)
(* as soon as one of the two carries VARIABLE_BIT.  The identity of a      *)
(* token made by alpha_rename is the path of the call that made it.  A     *)
(* collection is the sequence of its entries in iteration order: <<x>> in  *)
(* a list or a set, <<key, value>> in a map, <<start, end, value>> in a    *)
(* range map.                                                              *)
(*                                                                         *)
(* Junk is a child that make_dirty left unwritten: the contents of fresh   *)
(* memory.                                                                 *)
(***************************************************************************)
EXTENDS Naturals, Sequences, FiniteSets

CONSTANTS
    Signature,  \* symbol -> [cats, sorts, sort, binder, anywhere, inj, hook]
    Spelling,   \* symbol or sort -> its name, a sequence of bytes
    InjReturn   \* the sort of the instantiation that stands for the tag of
                \* an injection (definition.cpp keeps the last one)

Sig == Signature
Text == Spelling

Leaf(s)  == [k |-> "leaf", sym |-> s]
Idx(i)   == [k |-> "idx", i |-> i]
Blk(s, args) == [k |-> "blk", sym |-> s, args |-> args]
Str(name, id, bit) == [k |-> "str", name |-> name, id |-> id, bit |-> bit]
IntTerm(i) == [k |-> "int", i |-> i]
Coll(elems) == [k |-> "coll", elems |-> elems]
Junk     == [k |-> "junk"]

(* A function on 1..n, as a sequence.                                      *)
Tuple(f) == f \o << >>

cats(t) == Sig[t.sym].cats
child_sort(t, i) == Sig[t.sym].sorts[i]
is_symbol_a_function(sym) == Sig[sym].anywhere
is_symbol_a_binder(t) == Sig[t.sym].binder

(* The injection of sort s; its tag depends on the injected sort alone, and *)
(* an injection of an injection is not built.                               *)
Injection(s) == CHOOSE y \in DOMAIN Sig : Sig[y].inj = s
IsInjection(t) == t.k = "blk" /\ Sig[t.sym].inj # ""
inject(s, t) == IF IsInjection(t) THEN t ELSE Blk(Injection(s), <<t>>)

get_injection_for_sort_of_tag(sym) ==
    Injection(IF Sig[sym].inj # "" THEN InjReturn ELSE Sig[sym].sort)

(* Names are equal by their bytes, variables marked as bound by identity.  *)
hook_STRING_eq(a, b) ==
    IF a.k = "idx" \/ b.k = "idx" THEN a = b
    ELSE IF a.bit \/ b.bit THEN a.id = b.id /\ a.bit = b.bit
    ELSE a.name = b.name

RECURSIVE hook_KEQUAL_eq(_, _)
hook_KEQUAL_eq(a, b) ==
    IF a.k \in {"leaf", "idx"} \/ b.k \in {"leaf", "idx"} THEN a = b
    ELSE IF a.k = "str" /\ b.k = "str" THEN hook_STRING_eq(a, b)
    ELSE IF a.k = "coll" /\ b.k = "coll"
    THEN /\ Len(a.elems) = Len(b.elems)
         /\ \A i \in DOMAIN a.elems : \A j \in DOMAIN a.elems[i] :
                hook_KEQUAL_eq(a.elems[i][j], b.elems[i][j])
    ELSE IF a.k = "blk" /\ b.k = "blk"
    THEN a.sym = b.sym
         /\ \A i \in DOMAIN a.args : hook_KEQUAL_eq(a.args[i], b.args[i])
    ELSE a = b

-----------------------------------------------------------------------------
(* The loop over the children of a block.  sub[i] is the processed child i *)
(* and whether it is stored even into a clean block; the first such store  *)
(* copies the children before it, and a later child is only stored if its  *)
(* category is in kept.                                                    *)
Same(t) == [t |-> t, d |-> FALSE]
New(t)  == [t |-> t, d |-> TRUE]

make_dirty(t, sub, kept) ==
    LET stored == {i \in DOMAIN sub : sub[i].d}
        first == CHOOSE i \in stored : \A j \in stored : i <= j
    IN IF stored = {} THEN Same(t)
       ELSE New([t EXCEPT !.args = Tuple([i \in DOMAIN sub |->
                    IF i < first \/ sub[i].d \/ cats(t)[i] \in kept
                    THEN sub[i].t ELSE Junk])])

(* list_map, map_map, set_map and rangemap_map rebuild the collection with  *)
(* new elements, or new values under the old keys.                         *)
Collections == {"list", "map", "set", "range"}
Elem(c, i) == c.elems[i][Len(c.elems[i])]
MapCollection(c, new) ==
    New([c EXCEPT !.elems = Tuple([i \in DOMAIN c.elems |->
            [c.elems[i] EXCEPT ![Len(c.elems[i])] = new[i].t]])])

RECURSIVE debruijnize_internal(_, _, _)
debruijnize_internal(t, var, idx) ==
    IF t.k # "blk" THEN Same(t)
    ELSE LET b == is_symbol_a_binder(t)
             at == IF b THEN idx + 1 ELSE idx
             F(c, i) == debruijnize_internal(c, var, at)
             Mapped(c) == MapCollection(c, [i \in DOMAIN c.elems |-> F(Elem(c, i), i)])
         IN make_dirty(t, Tuple([i \in DOMAIN t.args |->
                LET c == t.args[i]
                IN CASE cats(t)[i] = "sym"  -> F(c, i)
                     [] cats(t)[i] \in Collections -> Mapped(c)
                     [] cats(t)[i] = "var"  ->
                          IF (i # 1 \/ ~b) /\ hook_STRING_eq(var, c)
                          THEN New(Idx(at)) ELSE Same(c)
                     [] OTHER -> Same(c)]), {"sym"})

(* The body loses the name of its variable, and the variable its name.     *)
\* Mutant: the index starts one too high.
debruijnize_FromOne(t) ==
    LET n == Len(t.args)
        body == debruijnize_internal(t.args[n], t.args[1], 1)
    IN [t EXCEPT !.args = [@ EXCEPT ![n] = body.t, ![1].bit = TRUE]]

debruijnize(t) ==
    LET n == Len(t.args)
        body == debruijnize_internal(t.args[n], t.args[1], 0)
    IN [t EXCEPT !.args = [@ EXCEPT ![n] = body.t, ![1].bit = TRUE]]

RECURSIVE replace_binder_internal(_, _, _)
replace_binder_internal(t, var, idx) ==
    IF t.k = "idx"
    THEN IF idx = t.i THEN New(var)
         ELSE IF idx < t.i THEN New(Idx(t.i - 1)) ELSE Same(t)
    ELSE IF t.k # "blk" THEN Same(t)
    ELSE LET at == IF is_symbol_a_binder(t) THEN idx + 1 ELSE idx
             F(c, i) == replace_binder_internal(c, var, at)
             Mapped(c) == MapCollection(c, [i \in DOMAIN c.elems |-> F(Elem(c, i), i)])
         IN make_dirty(t, Tuple([i \in DOMAIN t.args |->
                IF cats(t)[i] \in Collections
                THEN Mapped(t.args[i])
                ELSE IF cats(t)[i] \in {"sym", "var"} THEN F(t.args[i], i)
                ELSE Same(t.args[i])]), {"sym", "var"})

replace_binder_index(t, var) == replace_binder_internal(t, var, 0).t

alpha_rename(var, id) == Str(var.name, id, TRUE)

(* The free indices of a term that is put under idx binders; its own       *)
(* binders get variables of their own.                                     *)
RECURSIVE increment_debruijn(_, _, _, _)
\* Mutant: the indices bound inside the term are raised with the free ones.
increment_debruijn_All(t, idx, idx2, id) ==
    IF t.k = "idx" THEN New(Idx(t.i + idx))
    ELSE IF t.k # "blk" THEN Same(t)
    ELSE LET F(c, i) == increment_debruijn(c, idx, idx2, Append(id, i))
             Mapped(c) == MapCollection(c, [i \in DOMAIN c.elems |-> F(Elem(c, i), i)])
         IN make_dirty(t, Tuple([i \in DOMAIN t.args |->
                IF cats(t)[i] \in Collections THEN Mapped(t.args[i])
                ELSE IF cats(t)[i] \in {"sym", "var"} THEN F(t.args[i], i)
                ELSE Same(t.args[i])]), {"sym", "var"})
increment_debruijn(t, idx, idx2, id) ==
    IF t.k = "idx" THEN IF t.i >= idx2 THEN New(Idx(t.i + idx)) ELSE Same(t)
    ELSE IF t.k # "blk" THEN Same(t)
    ELSE LET b == is_symbol_a_binder(t)
             at == IF b THEN idx2 + 1 ELSE idx2
             F(c, i) == increment_debruijn(c, idx, at, Append(id, i))
             Mapped(c) == MapCollection(c, [i \in DOMAIN c.elems |-> F(Elem(c, i), i)])
         IN make_dirty(t, Tuple([i \in DOMAIN t.args |->
                LET c == t.args[i]
                IN IF cats(t)[i] \in Collections THEN Mapped(c)
                   ELSE IF i = 1 /\ b THEN New(alpha_rename(c, Append(id, i)))
                   ELSE IF cats(t)[i] \in {"sym", "var"} THEN F(c, i)
                   ELSE Same(c)]), {"sym", "var"})

-----------------------------------------------------------------------------
(* substitute_internal: the term to replace and what replaces it are       *)
(* thread_local variables that evaluate_function_symbol may change and     *)
(* that are restored after it; idx counts the binders above.               *)
RECURSIVE substitute_internal(_, _, _, _), evaluate_function_symbol(_, _, _)
substitute_internal(t, s, idx, id) ==
    IF t.k \in {"leaf", "idx"} THEN Same(t)
    ELSE IF hook_KEQUAL_eq(t, s.to_replace)
    THEN New(increment_debruijn(
             IF t.k = "blk"
                /\ s.replacement_inj.sym # get_injection_for_sort_of_tag(t.sym)
             THEN s.replacement_inj ELSE s.replacement, idx, 0, id).t)
    ELSE IF t.k # "blk" THEN Same(t)
    ELSE LET at == IF is_symbol_a_binder(t) THEN idx + 1 ELSE idx
             F(c, i) == substitute_internal(c, s, at, Append(id, i))
             Mapped(c) == MapCollection(c, [i \in DOMAIN c.elems |-> F(Elem(c, i), i)])
             sub == Tuple([i \in DOMAIN t.args |->
                IF cats(t)[i] \in Collections
                THEN Mapped(t.args[i])
                ELSE IF cats(t)[i] \in {"sym", "var"} THEN F(t.args[i], i)
                ELSE Same(t.args[i])])
         IN IF is_symbol_a_function(t.sym)
            THEN New(evaluate_function_symbol(t.sym,
                        Tuple([i \in DOMAIN sub |-> sub[i].t]), Append(id, 0)))
            ELSE make_dirty(t, sub, {"sym", "var"})

hook_SUBSTITUTION_substOne(body, new_val, var_inj, id) ==
    LET s == IF new_val.sym = var_inj.sym
             THEN [to_replace |-> var_inj.args[1],
                   replacement |-> new_val.args[1],
                   replacement_inj |-> new_val.args[1]]
             ELSE [to_replace |-> var_inj,
                   replacement |-> new_val.args[1],
                   replacement_inj |-> new_val]
    IN substitute_internal(body, s, 0, id).t

(* The code of a rule that matches a binder X.E and builds E[V/X]: the     *)
(* switch on the binder renames X and gives its occurrences that name      *)
(* (switch_node::codegen).                                                 *)
OpenVar(b, id) == alpha_rename(b.args[1], id)
OpenBody(b, id) == replace_binder_index(b.args[Len(b.args)], OpenVar(b, id))
Contract(b, val, id) ==
    hook_SUBSTITUTION_substOne(OpenBody(b, Append(id, 0)), val,
        inject("KVar", OpenVar(b, Append(id, 0))), Append(id, 1))

(* A function symbol met while substituting or while a configuration is    *)
(* built is evaluated: the constructors of the collections, and the rule   *)
(* force(lambda X.E) => E[unit/X] of a symbol with rules anywhere, which   *)
(* is built as it is when no rule applies.                                 *)
HookOf(sym) == Sig[sym].hook

evaluate_function_symbol(sym, args, id) ==
    CASE HookOf(sym) = "unit" -> Coll(<< >>)
      [] HookOf(sym) = "element" -> Coll(<<args>>)
      [] HookOf(sym) = "rangeElement" -> Coll(<<args[1].args \o <<args[2]>>>>)
      [] HookOf(sym) = "concat" -> Coll(args[1].elems \o args[2].elems)
      [] OTHER ->
            IF args[1].k = "blk" /\ args[1].sym = Injection("Val")
               /\ args[1].args[1].k = "blk" /\ args[1].args[1].sym = "lambda"
            THEN Contract(args[1].args[1], inject("Val", Leaf("unit")), id)
            ELSE Blk(sym, args)

-----------------------------------------------------------------------------
(* construct_initial_configuration.  A pattern is an application, a string *)
(* or a variable; Text gives the name of a symbol or a sort as it is       *)
(* written, and p is the path of the pattern.                              *)
get_tag_for_symbol(name, sorts) ==
    CHOOSE y \in DOMAIN Sig :
        IF Sig[y].inj # "" THEN name = Text["inj"] /\ sorts[1].name = Text[Sig[y].inj]
        ELSE name = Text[y]

get_token(sort, s, p) ==
    IF sort = Text["Int"] THEN IntTerm(s[1] - 48) ELSE Str(s, p, FALSE)

construct_composite_pattern(sym, args, p) ==
    IF is_symbol_a_function(sym) THEN evaluate_function_symbol(sym, args, Append(p, 0))
    ELSE IF Sig[sym].inj # "" /\ IsInjection(args[1]) THEN args[1]
    ELSE IF Sig[sym].binder THEN debruijnize(Blk(sym, args))
    ELSE Blk(sym, args)

RECURSIVE construct_initial_configuration(_, _)
construct_initial_configuration(pat, p) ==
    IF pat.name = Text["dv"]
    THEN get_token(pat.sorts[1].name, pat.args[1].s, p)
    ELSE LET sym == get_tag_for_symbol(pat.name, pat.sorts)
             args == Tuple([i \in DOMAIN pat.args |->
                        construct_initial_configuration(pat.args[i], Append(p, i))])
         IN IF pat.args # << >> THEN construct_composite_pattern(sym, args, p)
            ELSE IF is_symbol_a_function(sym)
            THEN evaluate_function_symbol(sym, << >>, p)
            ELSE Leaf(sym)

=============================================================================
