----------------------------- MODULE MCMatching -----------------------------
(***************************************************************************)
(* Small definitions for the pattern-matching compiler: for each theme a   *)
(* pool of left-hand sides, of which every two or three are compiled       *)
(* together, and the subjects the compiled code is run on.                 *)
(***************************************************************************)
EXTENDS Matching

MCCategory ==
  [s \in {"E", "X", "Y", "Z", "C"} |-> "sym"]
    @@ [I |-> "int", B |-> "bool", S |-> "str", M |-> "map", T |-> "set", L |-> "list"]
Signature ==
  << <<<<"a">>, << >>, "E">>, <<<<"b">>, << >>, "E">>, <<<<"p">>, <<"E", "E">>, "E">>,
     <<<<"fn">>, <<"E">>, "E">>,
     <<<<"x0">>, << >>, "X">>, <<<<"fooX">>, <<"X">>, "X">>,
     <<<<"y0">>, << >>, "Y">>, <<<<"fooY">>, <<"Y">>, "Y">>, <<<<"inj", "X", "Y">>, <<"X">>, "Y">>,
     <<<<"inj", "X", "Z">>, <<"X">>, "Z">>, <<<<"inj", "Y", "Z">>, <<"Y">>, "Z">>, <<<<"inj", "I", "Z">>, <<"I">>, "Z">>,
     <<<<"k">>, <<"E", "E", "M">>, "C">>,
     <<<<"lconcat">>, <<"L", "L">>, "L">>, <<<<"lunit">>, << >>, "L">>, <<<<"lelem">>, <<"E">>, "L">>,
     <<<<"lupdate">>, <<"L", "I", "E">>, "L">>,
     <<<<"mconcat">>, <<"M", "M">>, "M">>, <<<<"munit">>, << >>, "M">>, <<<<"melem">>, <<"E", "E">>, "M">>,
     <<<<"sconcat">>, <<"T", "T">>, "T">>, <<<<"sunit">>, << >>, "T">>, <<<<"selem">>, <<"E">>, "T">> >>
Symbols == {d[1] : d \in ToSet(Signature)}
Declaration(s) == CHOOSE d \in ToSet(Signature) : d[1] = s
MCArgSorts == [s \in Symbols |-> Declaration(s)[2]]
MCResultSort == [s \in Symbols |-> Declaration(s)[3]]
MCHook ==
  (<<"lconcat">> :> <<"LIST", "concat">>) @@ (<<"lunit">> :> <<"LIST", "unit">>) @@ (<<"lelem">> :> <<"LIST", "element">>)
  @@ (<<"lupdate">> :> <<"LIST", "update">>)
  @@ (<<"mconcat">> :> <<"MAP", "concat">>) @@ (<<"munit">> :> <<"MAP", "unit">>) @@ (<<"melem">> :> <<"MAP", "element">>)
  @@ (<<"sconcat">> :> <<"SET", "concat">>) @@ (<<"sunit">> :> <<"SET", "unit">>) @@ (<<"selem">> :> <<"SET", "element">>)
MCResidualSyms == {<<"fn">>} \union DOMAIN MCHook
MCConstructors ==
  [s \in DOMAIN MCCategory |->
     MapSeq(SelectSeq(Signature, LAMBDA d : d[3] = s /\ d[1] \notin MCResidualSyms), LAMBDA d : d[1])]
MCOverloads == [s \in {<<"fooY">>} |-> << <<"fooX">> >>]
MCElementSorts == [M |-> <<"E", "E">>, T |-> <<"E">>, L |-> <<"E", "I">>]
MCFreshNames == {"!F"}

-----------------------------------------------------------------------------
V(x) == VariableP(x)
P0(s) == SymbolP(<<s>>, << >>)
P1(s, p) == SymbolP(<<s>>, << p >>)
P2(s, p, q) == SymbolP(<<s>>, << p, q >>)
InjP(a, b, p) == SymbolP(<<"inj", a, b>>, << p >>)
\* key |-> value rest, and the like for sets.
Entry(key, v, rest) == P2("mconcat", P2("melem", key, v), rest)
Item(x, rest) == P2("sconcat", P1("selem", x), rest)
A == P0("a")
B == P0("b")

ta == Sym(<<"a">>, << >>)
tb == Sym(<<"b">>, << >>)
tp(x, y) == Sym(<<"p">>, << x, y >>)


Lhs(ps) == [ps |-> ps, cond |-> None, extra |-> << >>]
When(ps, x, accepts) == [Lhs(ps) EXCEPT !.cond = Some([vars |-> << x >>, accepts |-> accepts])]
\* A rule whose right-hand side asks for a fresh constant.
Freshly(ps) == [Lhs(ps) EXCEPT !.extra = <<"!F">>]
x == V("x")
y == V("y")
z == V("z")
m == V("m")
n == V("n")

symbolsTheme ==
  [sorts |-> <<"E", "E">>,
   pool |-> << Lhs(<< A, x >>), Lhs(<< x, x >>), Lhs(<< P2("p", x, A), OrP(A, B) >>),
               Lhs(<< AsP("y", P2("p", B, x)), z >>), When(<< x, P2("p", y, z) >>, "y", {ta}),
               Freshly(<< OrP(A, P2("p", WildcardP, A)), B >>), Lhs(<< x, y >>) >>,
   subjects |-> LET E == {ta, tb, tp(ta, ta), tp(tb, ta)} IN (E \union {tp(ta, tb)}) \X E]
literalsTheme ==
  [sorts |-> <<"I", "B", "S">>,
   pool |-> << Lhs(<< LiteralP(5), x, y >>), Lhs(<< LiteralP(-5), LiteralP(1), y >>), Lhs(<< x, LiteralP(0), LiteralP(7) >>),
               Lhs(<< LiteralP(21), y, LiteralP(8) >>), Lhs(<< LiteralP(0), y, z >>), Lhs(<< x, LiteralP(1), LiteralP(8) >>),
               Lhs(<< x, y, z >>) >>,
   subjects |-> {<< LitT(i), LitT(j), LitT(k) >> : i \in {-5, 0, 1, 5, 21}, j \in {0, 1}, k \in {0, 7, 8}}]
Lists(k) == UNION {[1..j -> {ta, tb}] : j \in 0..k}
listsTheme ==
  [sorts |-> <<"L", "E">>,
   pool |-> << Lhs(<< P0("lunit"), x >>), Lhs(<< P1("lelem", x), x >>), Lhs(<< P2("lconcat", P1("lelem", A), z), x >>),
               Lhs(<< P2("lconcat", z, P1("lelem", x)), x >>),
               Lhs(<< P2("lconcat", P2("lconcat", P1("lelem", y), z), P1("lelem", B)), x >>),
               Lhs(<< P2("lconcat", P1("lelem", x), P1("lelem", y)), B >>), Lhs(<< y, x >>) >>,
   subjects |-> {<< ListT(l), e >> : l \in Lists(3), e \in {ta, tb}}]
listGetTheme ==
  [sorts |-> <<"I", "L">>,
   pool |-> << Lhs(<< x, SymbolP(<<"lupdate">>, << y, x, A >>) >>), Lhs(<< LiteralP(1), y >>),
               Lhs(<< AsP("x", LiteralP(0)), SymbolP(<<"lupdate">>, << y, x, z >>) >>),
               Lhs(<< x, SymbolP(<<"lupdate">>, << SymbolP(<<"lupdate">>, << y, x, z >>), LiteralP(1), B >>) >>),
               Lhs(<< x, y >>) >>,
   subjects |-> {<< LitT(i), ListT(l) >> : i \in 0..2, l \in Lists(2)}]
\* At most two entries, with different values when there are two.
Maps(K) ==
  {MapT(f) : f \in {f \in UNION {[S -> {ta, tb}] : S \in SUBSET K} :
                      Cardinality(DOMAIN f) = Cardinality({f[key] : key \in DOMAIN f})}}
mapsTheme ==
  [sorts |-> <<"E", "M">>,
   pool |-> << Lhs(<< x, Entry(x, y, m) >>), Lhs(<< A, Entry(B, y, m) >>), Lhs(<< x, Entry(y, x, m) >>),
               Lhs(<< x, Entry(y, z, P0("munit")) >>),
               Lhs(<< x, Entry(y, z, Entry(z, n, m)) >>), Lhs(<< x, Entry(P2("p", y, y), B, Entry(A, z, m)) >>),
               Lhs(<< x, m >>) >>,
   subjects |-> {ta, tb} \X Maps({ta, tb, tp(ta, ta)})]
setsTheme ==
  [sorts |-> <<"E", "T">>,
   pool |-> << Lhs(<< x, Item(x, m) >>), Lhs(<< A, Item(B, m) >>), Lhs(<< x, Item(P2("p", y, x), m) >>),
               Lhs(<< x, P0("sunit") >>), Lhs(<< x, Item(y, P0("sunit")) >>),
               Lhs(<< x, Item(y, Item(P2("p", y, z), m)) >>), Lhs(<< x, m >>) >>,
   subjects |-> {ta, tb} \X {SetT(S) : S \in {S \in SUBSET {ta, tb, tp(ta, tb), tp(tb, ta)} : Cardinality(S) <= 2}}]
tx == Sym(<<"x0">>, << >>)
ty == Sym(<<"y0">>, << >>)
ti(a, b, t) == mkSym(<<"inj", a, b>>, << t >>)
injectionsTheme ==
  [sorts |-> <<"Z", "Y">>,
   pool |-> << Lhs(<< InjP("X", "Z", x), y >>),
               Lhs(<< InjP("Y", "Z", P1("fooY", x)), y >>), Lhs(<< InjP("I", "Z", LiteralP(3)), x >>),
               Lhs(<< InjP("I", "Z", x), P1("fooY", y) >>), Lhs(<< AsP("z", InjP("X", "Z", P1("fooX", y))), InjP("X", "Y", x) >>),
               Lhs(<< InjP("Y", "Z", x), x >>), Lhs(<< InjP("Y", "Z", P1("fooY", InjP("X", "Y", P0("x0")))), P1("fooY", x) >>),
               Lhs(<< x, y >>) >>,
   subjects |->
     LET X == {tx, Sym(<<"fooX">>, << tx >>), Sym(<<"fooX">>, << Sym(<<"fooX">>, << tx >>) >>)}
         Y == {ty, Sym(<<"fooY">>, << ty >>), Sym(<<"fooY">>, << ti("X", "Y", tx) >>)}
         YX == {ty, Sym(<<"fooY">>, << ty >>), ti("X", "Y", tx), ti("X", "Y", Sym(<<"fooX">>, << tx >>))}
     IN {<< t, u >> : t \in {ti("X", "Z", t) : t \in X} \union {ti("Y", "Z", t) : t \in Y}
                             \union {ti("I", "Z", LitT(3)), ti("I", "Z", LitT(0))}, u \in YX}]
K(p, q, r) == SymbolP(<<"k">>, << p, q, r >>)
specialTheme ==
  [sorts |-> <<"C">>,
   pool |-> << Lhs(<< K(A, x, m) >>), Lhs(<< K(x, x, m) >>), Lhs(<< K(P2("p", x, y), y, m) >>), Lhs(<< K(x, B, Entry(x, y, m)) >>),
               Lhs(<< K(OrP(B, P2("p", WildcardP, A)), y, m) >>), Lhs(<< K(P2("p", x, y), A, m) >>) >>,
   rights |-> {K(A, x, m), K(x, y, m), K(P2("p", x, B), P1("fn", y), m), K(P2("p", P1("fn", x), y), x, Entry(A, x, m)), K(B, B, P0("munit"))},
   substs |-> [x : {ta, tb}, y : {ta, tb, tp(ta, tb)}, m : {MapT(<< >>), MapT(ta :> ta), MapT(tb :> tp(ta, ta))}]]
Theme(name) ==
  CASE name = "symbols" -> symbolsTheme
    [] name = "literals" -> literalsTheme
    [] name = "lists" -> listsTheme
    [] name = "listget" -> listGetTheme
    [] name = "maps" -> mapsTheme
    [] name = "sets" -> setsTheme
    [] name = "injections" -> injectionsTheme
    [] name = "special" -> specialTheme
Themes == {"symbols", "literals", "lists", "listget", "maps", "sets", "injections", "special"}

RhsVars(l) == Distinct(FlattenSeq(MapSeq(l.ps, genVars))) \o l.extra
MkAxiom(i, l, prio) ==
  [ordinal |-> i, lhs |-> l.ps, cond |-> l.cond, atts |-> {"priority"}, prio |-> prio,
   rhs |-> SymbolP(<<"r">>, MapSeq(RhsVars(l), V))]
Pairs(k) == {<< i, j >> \in (1..k) \X (1..k) : i < j}
Priorities(name) ==
  {<<50, 50>>, <<100, 50>>} \union IF name = "symbols" THEN {<<50, 100>>} ELSE {}
Heuristics(name) ==
  {<<"q", "b", "a", "L">>}
    \union IF name = "symbols" THEN {<<"f", "d", "p", "R">>, <<"l", "r", "n", "o", "N">>} ELSE {}
Axioms(th, pick, prio) ==
  [i \in 1..2 |-> MkAxiom(i, th.pool[pick[i]], prio[i])] \o << MkAxiom(3, Last(th.pool), 200) >>
Prog(name, ps, mode, hs) ==
  [theme |-> name, axioms |-> ps, sorts |-> Theme(name).sorts, hs |-> hs, mode |-> mode, threshold |-> <<1, 1>>]
\* Two rules and a default; two rules; and, specialised for every right-hand
\* side of the default, the step after it.
MCProgs ==
  UNION {LET th == Theme(name)
             rules == {Axioms(th, pick, prio) : pick \in Pairs(Len(th.pool) - 1), prio \in Priorities(name)}
         IN IF name = "special"
            THEN {Prog(name, [r EXCEPT ![3].rhs = rhs], "special", hs) : r \in rules, hs \in Heuristics(name), rhs \in th.rights}
            ELSE {Prog(name, r, "search", hs) : r \in rules, hs \in Heuristics(name)}
                   \union {Prog(name, Front(r), "step", hs) : r \in rules, hs \in Heuristics(name)} : name \in Themes}
MCCompiler(pr) == LET compiled == Compiled(pr) IN compiled
MCSubjectsOf(pr) == Theme(pr.theme).subjects
MCSubstsOf(pr) == Theme(pr.theme).substs
=============================================================================
