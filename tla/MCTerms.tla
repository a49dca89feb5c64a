------------------------------ MODULE MCTerms ------------------------------
(* Terms on a lambda calculus with every kind of collection.               *)
EXTENDS Terms, TLC

Symb(cs, sorts, sort) ==
    [cats |-> cs, sorts |-> sorts, sort |-> sort, binder |-> FALSE,
     anywhere |-> FALSE, inj |-> "", hook |-> ""]
Inject(s, cat) == [Symb(<<cat>>, <<s>>, "Exp") EXCEPT !.inj = s]
Hook(h, n) == [Symb([i \in 1..n |-> "sym"], [i \in 1..n |-> "KItem"], "coll")
               EXCEPT !.anywhere = TRUE, !.hook = h]

MCSig ==
    [app |-> Symb(<<"sym", "sym">>, <<"Exp", "Exp">>, "Exp"),
     lambda |-> [Symb(<<"var", "sym">>, <<"KVar", "Exp">>, "Val") EXCEPT !.binder = TRUE],
     mu |-> [Symb(<<"var", "sym">>, <<"KVar", "Exp">>, "Exp") EXCEPT !.binder = TRUE],
     force |-> [Symb(<<"sym">>, <<"Exp">>, "Exp") EXCEPT !.anywhere = TRUE],
     unit |-> Symb(<< >>, << >>, "Val"),
     lit |-> Symb(<<"int">>, <<"Int">>, "Val"),
     tuple |-> Symb(<<"list">>, <<"List">>, "Exp"),
     record |-> Symb(<<"sym", "map">>, <<"Exp", "Map">>, "Exp"),
     bunch |-> Symb(<<"set">>, <<"Set">>, "Exp"),
     spans |-> Symb(<<"range">>, <<"RangeMap">>, "Exp"),
     range |-> Symb(<<"sym", "sym">>, <<"KItem", "KItem">>, "Range"),
     rawTerm |-> Symb(<<"sym">>, <<"KItem">>, "KItem"),
     inj_KVar |-> Inject("KVar", "var"), inj_Val |-> Inject("Val", "sym"),
     inj_Exp |-> Inject("Exp", "sym"), inj_Tok |-> Inject("Tok", "sym"),
     list_unit |-> Hook("unit", 0), list_item |-> Hook("element", 1),
     list_concat |-> Hook("concat", 2),
     map_unit |-> Hook("unit", 0), map_item |-> Hook("element", 2),
     map_concat |-> Hook("concat", 2),
     set_unit |-> Hook("unit", 0), set_item |-> Hook("element", 1),
     set_concat |-> Hook("concat", 2),
     range_unit |-> Hook("unit", 0), range_item |-> Hook("rangeElement", 2),
     range_concat |-> Hook("concat", 2)]

MCSymbols ==
    <<"app", "lambda", "mu", "force", "unit", "lit", "tuple", "record", "bunch",
      "spans", "range", "rawTerm", "inj_KVar", "inj_Val", "inj_Exp", "inj_Tok",
      "list_unit", "list_item", "list_concat", "map_unit", "map_item", "map_concat",
      "set_unit", "set_item", "set_concat", "range_unit", "range_item",
      "range_concat">>
MCSorts == <<"KItem", "Exp", "Val", "KVar", "Tok", "Int">>

(* Names of one and of two bytes, so that they take their place in the     *)
(* length of a distance.                                                   *)
Words == MCSymbols \o MCSorts
         \o <<"dv", "inj", "left-assoc", "right-assoc", "or", "and", "bottom", "top">>
MCText == [w \in {Words[i] : i \in DOMAIN Words} |->
             LET i == CHOOSE i \in DOMAIN Words : Words[i] = w
             IN IF i % 2 = 0 THEN <<100 + i>> ELSE <<100 + i, 99>>]
          @@ [w \in {} |-> << >>]

-----------------------------------------------------------------------------
SortP(s) == CompositeSort(MCText[s], << >>)
Con(s, args) == App(MCText[s], << >>, args)
DvP(sort, s) == App(MCText["dv"], <<SortP(sort)>>, <<StringPattern(s)>>)
InjP(s, to, p) == App(MCText["inj"], <<SortP(s), SortP(to)>>, <<p>>)
Names == {<<120>>, <<120, 48>>}
V(n) == InjP("KVar", "Exp", DvP("KVar", n))
U == InjP("Val", "Exp", Con("unit", << >>))
Lam(n, e) == InjP("Val", "Exp", Con("lambda", <<DvP("KVar", n), e>>))
Mu(n, e) == Con("mu", <<DvP("KVar", n), e>>)
AppP(a, b) == Con("app", <<a, b>>)
Force(e) == Con("force", <<e>>)
K(s, p) == InjP(s, "KItem", p)
KU == K("Val", Con("unit", << >>))
KV(n) == K("KVar", DvP("KVar", n))
KT(n) == K("Tok", DvP("Tok", n))
ListP(a, b) == Con("list_concat", <<Con("list_item", <<a>>), Con("list_item", <<b>>)>>)
MapP(a, b, c, d) ==
    Con("map_concat", <<Con("map_item", <<a, b>>), Con("map_item", <<c, d>>)>>)

X == <<120>>
X0 == <<120, 48>>
Atoms == {V(n) : n \in Names}
Functions == {Lam(n, Lam(m, AppP(a, b))) : n, m \in Names, a, b \in Atoms}
Values == Atoms \cup {Lam(n, V(m)) : n, m \in Names} \cup {U}
MCPrograms ==
    {AppP(f, v) : f \in Functions, v \in Values}
    \cup {Mu(n, Lam(m, AppP(V(X), V(X0)))) : n, m \in Names}
    \cup {AppP(Lam(n, Lam(m, Force(V(X)))), Lam(X0, AppP(V(X0), V(X)))) : n, m \in Names}
    \cup {Force(Lam(X, AppP(V(X), Lam(X, AppP(V(X), V(X0))))))}
    \cup {AppP(Lam(n, Con("tuple", <<ListP(KV(X), K("Val", Con("lambda",
              <<DvP("KVar", m), V(k)>>)))>>)), v) :
          n, m, k \in Names, v \in Atoms \cup {U}}
    \cup {AppP(Lam(X, Con("record", <<V(X), MapP(KT(X), KV(X), KT(X0), KV(X0))>>)), U)}
    \cup {Con("bunch", <<Con("set_concat",
             <<Con("set_concat", <<Con("set_item", <<KU>>), Con("set_item", <<KT(X)>>)>>),
               Con("set_item", <<K("Val", Con("lit", <<DvP("Int", <<51>>)>>))>>)>>)>>),
          Con("spans", <<Con("range_concat",
             <<Con("range_item", <<Con("range", <<KT(X), KT(X0)>>), KU>>),
               Con("range_item", <<Con("range", <<KT(X0), KU>>), KT(X)>>)>>)>>),
          Con("spans", <<Con("range_unit", << >>)>>),
          Con("tuple", <<Con("list_unit", << >>)>>)}
=============================================================================
