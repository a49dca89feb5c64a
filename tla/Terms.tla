-------------------------------- MODULE Terms ------------------------------
(***************************************************************************)
(* A program of a language with binders: a configuration is read from      *)
(* text or binary, rewritten by rules that open binders, substitute and    *)
(* build binders again, and written.  The rules are those of the lambda    *)
(* calculus of test/defn/k-files/lambda.md and lambda-anywhere.k, with     *)
(* force, the unary symbol of Binders whose rule applies anywhere.         *)
(***************************************************************************)
EXTENDS Configurations

CONSTANTS
    Programs,    \* the initial configurations, as patterns
    MaxSize,     \* configurations with more blocks are not rewritten to,
    MaxName      \* nor are those with longer names (reloading adds suffixes)

VARIABLE config

-----------------------------------------------------------------------------
(* The identities of the tokens with VARIABLE_BIT are renumbered in the    *)
(* order in which they are met; the other tokens have none.                *)
RECURSIVE IdsOf(_), Renumber(_, _), Size(_), NamesFit(_)
Sub(t) == IF t.k = "blk" THEN t.args
          ELSE IF t.k = "coll" THEN Flat(t.elems) ELSE << >>
IdsOf(t) == IF t.k = "str" THEN IF t.bit THEN <<t.id>> ELSE << >>
            ELSE Flat(Tuple([i \in DOMAIN Sub(t) |-> IdsOf(Sub(t)[i])]))
IndexOf(x, s) == CHOOSE i \in DOMAIN s : s[i] = x /\ \A j \in 1..(i - 1) : s[j] # x
Renumber(t, ids) ==
    CASE t.k = "str" -> Str(t.name, IF t.bit THEN <<IndexOf(t.id, ids)>> ELSE << >>,
                            t.bit)
      [] t.k = "blk" ->
           [t EXCEPT !.args = Tuple([i \in DOMAIN @ |-> Renumber(@[i], ids)])]
      [] t.k = "coll" ->
           [t EXCEPT !.elems = Tuple([i \in DOMAIN @ |->
                Tuple([j \in DOMAIN @[i] |-> Renumber(@[i][j], ids)])])]
      [] OTHER -> t
Canonical(t) == Renumber(t, IdsOf(t))

RECURSIVE SumOf(_)
SumOf(s) == IF s = << >> THEN 0 ELSE Head(s) + SumOf(Tail(s))
Size(t) == 1 + SumOf(Tuple([i \in DOMAIN Sub(t) |-> Size(Sub(t)[i])]))

-----------------------------------------------------------------------------
IsBlk(t, sym) == t.k = "blk" /\ t.sym = sym
IsLambda(t) == IsBlk(t, Injection("Val")) /\ IsBlk(t.args[1], "lambda")
IsValue(t) == IsInjection(t)

(* (lambda X.E) V => E[V/X], mu X.E => E[(mu X.E)/X], and                  *)
(* lambda X.E => lambda X.(E X), which opens a binder and builds it again. *)
Redex(rule, t) ==
    CASE rule = "beta" -> IsBlk(t, "app") /\ IsLambda(t.args[1]) /\ IsValue(t.args[2])
      [] rule = "mu"   -> IsBlk(t, "mu")
      [] rule = "eta"  -> IsLambda(t)

RuleBeta(t, id) == Contract(t.args[1].args[1], inject("Val", t.args[2]), id)
RuleMu(t, id) == Contract(t, inject("Exp", t), id)
RuleEta(t, id) ==
    LET b == t.args[1]
        x == OpenVar(b, id)
    IN inject("Val", debruijnize(Blk("lambda",
            <<x, Blk("app", <<OpenBody(b, id), inject("KVar", x)>>)>>)))
Apply(rule, t, id) ==
    CASE rule = "beta" -> RuleBeta(t, id)
      [] rule = "mu"   -> RuleMu(t, id)
      [] rule = "eta"  -> RuleEta(t, id)

(* The results of one rewrite with a rule outside binders.                 *)
RECURSIVE Rewrites(_, _, _)
Rewrites(t, rule, id) ==
    (IF Redex(rule, t) THEN {Apply(rule, t, id)} ELSE {})
    \cup IF ~IsBlk(t, "app") THEN {}
         ELSE UNION {{[t EXCEPT !.args[i] = u] :
                        u \in Rewrites(t.args[i], rule, Append(id, i))} : i \in 1..2}

NamesFit(t) == IF t.k = "str" THEN Len(t.name) <= MaxName
               ELSE \A i \in DOMAIN Sub(t) : NamesFit(Sub(t)[i])

Become(t) == Size(t) <= MaxSize /\ NamesFit(t) /\ config' = Canonical(t)

Rewrite(rule) == \E t \in Rewrites(config, rule, <<0>>) : Become(t)
Beta == Rewrite("beta")
Unfold == Rewrite("mu")
Eta == Rewrite("eta")

(* lambda X.E => E: the variable is left free, a token with VARIABLE_BIT.  *)
Enter == IsLambda(config) /\ Become(OpenBody(config.args[1], <<0>>))

(* E => E E: the two copies share the blocks and the tokens of E.          *)
Duplicate == Become(Blk("app", <<config, config>>))

(* The configuration is printed and read again.                            *)
Reload == Become(parse_configuration(print_configuration(config), <<0>>))

Init == \E p \in Programs : config = Canonical(construct_initial_configuration(p, <<0>>))
Next == Beta \/ Unfold \/ Eta \/ Enter \/ Duplicate \/ Reload
Spec == Init /\ [][Next]_config

-----------------------------------------------------------------------------
(* What a term denotes: the names of bound variables are forgotten.        *)
RECURSIVE Den(_)
Den(t) ==
    CASE t.k = "str" -> IF t.bit THEN Str(<< >>, t.id, TRUE)
                        ELSE Str(t.name, << >>, FALSE)
      [] t.k = "blk" ->
           [t EXCEPT !.args = Tuple([i \in DOMAIN @ |->
                IF i = 1 /\ is_symbol_a_binder(t) THEN Leaf("binder") ELSE Den(@[i])])]
      [] t.k = "coll" -> [t EXCEPT !.elems = Tuple([i \in DOMAIN @ |->
                              Tuple([j \in DOMAIN @[i] |-> Den(@[i][j])])])]
      [] OTHER -> t

(* Standard substitution on denotations: the variable with index n is      *)
(* replaced by v, the variables outside it move in by one.                 *)
OccursAs(t, P(_)) == IsBlk(t, Injection("KVar")) /\ t.args[1].k = "idx" /\ P(t.args[1].i)
RECURSIVE RefSubst(_, _, _), Shift(_, _, _)
(* F applied to the children, one binder deeper under a binder.            *)
Below(t, n, F(_, _)) ==
    CASE t.k = "blk" -> [t EXCEPT !.args = Tuple([i \in DOMAIN @ |->
                            F(@[i], IF is_symbol_a_binder(t) THEN n + 1 ELSE n)])]
      [] t.k = "coll" -> [t EXCEPT !.elems = Tuple([i \in DOMAIN @ |->
                            Tuple([j \in DOMAIN @[i] |-> F(@[i][j], n)])])]
      [] OTHER -> t
Shift(t, n, by) ==
    IF t.k = "idx" THEN Idx(IF t.i >= n THEN t.i + by ELSE t.i)
    ELSE LET F(u, m) == Shift(u, m, by) IN Below(t, n, F)
RefSubst(t, n, v) ==
    IF OccursAs(t, LAMBDA i : i = n) THEN Shift(v, 0, n)
    ELSE IF t.k = "idx" THEN Idx(IF t.i > n THEN t.i - 1 ELSE t.i)
    ELSE LET F(u, m) == RefSubst(u, m, v) IN Below(t, n, F)

(* The normal form for force(lambda X.E) => E[unit/X].                     *)
RECURSIVE RefForce(_)
RefForce(t) ==
    LET F(u, m) == RefForce(u)
        s == Below(t, 0, F)
    IN IF IsBlk(s, "force") /\ IsLambda(s.args[1])
       THEN RefSubst(s.args[1].args[1].args[2], 0, inject("Val", Leaf("unit")))
       ELSE s

(* Subterms outside binders.                                               *)
RECURSIVE Outside(_)
Outside(t) ==
    {t} \cup IF t.k = "blk" /\ ~is_symbol_a_binder(t)
             THEN UNION {Outside(t.args[i]) : i \in DOMAIN t.args} ELSE {}

RefApply(rule, t) ==
    CASE rule = "beta" -> RefSubst(Den(t.args[1]).args[1].args[2], 0, Den(t.args[2]))
      [] rule = "mu"   -> RefSubst(Den(t).args[2], 0, Den(t))
      [] rule = "eta"  -> inject("Val", [Den(t).args[1] EXCEPT !.args[2] =
                              Blk("app", <<@, inject("KVar", Idx(0))>>)])

-----------------------------------------------------------------------------
(* A configuration never holds an index without its binder, a child that   *)
(* was not written, or a child of another sort than its symbol declares    *)
(* (make_dirty, the counters of substitution.cpp, is_same_sort).           *)
RECURSIVE WellFormed(_, _, _)
WellFormed(t, sort, n) ==
    CASE t.k = "idx"  -> sort = "KVar" /\ t.i < n
      [] t.k = "str"  -> sort \in {"KVar", "Tok"}
      [] t.k = "int"  -> sort = "Int"
      [] t.k = "leaf" -> sort = Sig[t.sym].sort
      [] t.k = "coll" -> \A i \in DOMAIN t.elems : \A j \in DOMAIN t.elems[i] :
                            WellFormed(t.elems[i][j], "KItem", n)
      [] t.k = "blk"  ->
           /\ IF IsInjection(t) THEN sort \in {"Exp", "KItem"} ELSE sort = Sig[t.sym].sort
           /\ \A i \in DOMAIN t.args :
                 WellFormed(t.args[i], Sig[t.sym].sorts[i],
                            IF is_symbol_a_binder(t) THEN n + 1 ELSE n)
      [] OTHER -> FALSE
TypeOK == config.k # "junk" /\ WellFormed(config, "Exp", 0)

(* A rule that substitutes under binders, or opens and rebuilds one,       *)
(* yields the term that substitution without names yields: no variable is  *)
(* captured and none escapes, also when a symbol with rules anywhere is    *)
(* evaluated on the way (hook_SUBSTITUTION_substOne, debruijnize,          *)
(* replace_binder_index, increment_debruijn).                              *)
SubstitutionAvoidsCapture ==
    \A t \in Outside(config) : \A rule \in {"beta", "mu", "eta"} :
        Redex(rule, t) =>
            Den(Apply(rule, t, <<0>>)) = RefForce(RefApply(rule, t))

(* Two terms that differ only in the names of their free variables.        *)
RECURSIVE FreePairs(_, _), Anonymous(_)
Anonymous(t) ==
    IF t.k = "str" THEN Str(<< >>, << >>, FALSE)
    ELSE LET F(u, m) == Anonymous(u) IN Below(t, 0, F)
FreePairs(a, b) ==
    IF a.k = "str" THEN {<<a, b>>}
    ELSE UNION {FreePairs(Sub(a)[i], Sub(b)[i]) : i \in DOMAIN Sub(a)}
SameUpToNames(a, b) ==
    /\ Anonymous(a) = Anonymous(b)
    /\ \A p, q \in FreePairs(a, b) : p[1] = q[1] <=> p[2] = q[2]

(* Printing keeps the scopes: the text, read again, is the same term up to *)
(* a renaming that confuses no two free variables, whatever names the      *)
(* bound and the free variables share (the suffixes that                   *)
(* print_configuration_internal chooses).                                  *)
PrintedScopes ==
    SameUpToNames(Den(config),
                  Den(parse_configuration(print_configuration(config), <<0>>)))

Printed == pattern(print_configuration(config))

ReadsAs(pat, d) ==
    /\ deserialize_pattern(d) = pat
    /\ deserialize_pattern(correct_emitted_size(d) \o <<CompositeHeader, 0>>) = pat
RoundTrip(pat) ==
    \A intern \in BOOLEAN :
        ReadsAs(pat, serializer(pattern_serialize_to(pat, TRUE), TRUE, intern))

(* A pattern written in binary is read back as it was, with and without    *)
(* interned strings, and the size in the header keeps what follows the     *)
(* term in the file out of it (emit_string, read_string, read_length,      *)
(* correct_emitted_size).                                                  *)
BinaryRoundTrip == RoundTrip(Printed)

ReadsDirectly(pat) ==
    SameUpToNames(Den(construct_initial_configuration(pat, <<0>>)),
                  Den(deserialize_configuration(correct_emitted_size(serializer(
                      pattern_serialize_to(pat, TRUE), TRUE, TRUE)))))

(* Reading a configuration directly from binary builds the term that       *)
(* parsing it first does (deserialize_initial_configuration).              *)
DirectReading == ReadsDirectly(Printed)

Piece(pat, arity) == serializer(pattern_serialize_to(pat, arity), FALSE, TRUE)
Composes(pat) ==
    deserialize_pattern(
        header_and_zero_size
        \o Flat(Tuple([i \in DOMAIN pat.args |-> Piece(pat.args[i], TRUE)]))
        \o Piece([pat EXCEPT !.args = << >>], FALSE)
        \o emit_length(Len(pat.args))) = pat

(* Serialized arguments, the constructor without its arity and the arity   *)
(* make the application: distances to interned strings survive             *)
(* concatenation (docs/binary-kore.md, composite_serialize_to).            *)
ConcatenationComposes == Composes(Printed)

(* The target sort of an injection is not kept by version 2.               *)
RECURSIVE AnyTarget(_), HasVariables(_)
AnyTarget(pat) ==
    IF pat.k # "app" THEN pat
    ELSE [pat EXCEPT !.args = Tuple([i \in DOMAIN @ |-> AnyTarget(@[i])]),
                     !.sorts = IF pat.name = Text["inj"] THEN <<@[1]>> ELSE @]
HasVariables(t) ==
    \/ t.k = "blk" /\ (t.sym = Injection("KVar") \/ is_symbol_a_binder(t))
    \/ \E i \in DOMAIN Sub(t) : HasVariables(Sub(t)[i])

RichHeader == kore_header(emit_kore_rich_header)

Version2 == read_v2(serialize_to_proof_trace(config, "Exp"), 1, RichHeader).v
AgreeWith(pat) ==
    /\ \A sized, intern \in BOOLEAN :
          deserialize_pattern(serialize_configuration(config, "Exp", sized, intern)) = pat
    /\ sorted_term_to_kore_pattern(config, "Exp")
         = IF IsInjection(config) THEN pat.args[1] ELSE pat
    /\ AnyTarget(Version2) = AnyTarget(pat)

(* Without variables the three ways to write a configuration - text and    *)
(* both binary versions - agree, collections included                      *)
(* (serialize_configuration_internal,                                      *)
(* serialize_configuration_to_proof_trace_internal, read_v2).              *)
SerializersAgree == ~HasVariables(config) => AgreeWith(Printed)

(* The binary output of a configuration is the text output, converted      *)
(* (test/lit.cfg.py compares the two).                                     *)
BinaryOutputIsTextOutput ==
    deserialize_pattern(serialize_configuration(config, "Exp", TRUE, TRUE)) = Printed

=============================================================================
