------------------------------- MODULE Matrix -------------------------------
(***************************************************************************)
(* The clause matrices that the rules of a function or of the rewrite step *)
(* become, and their compilation to decision trees: matching/Matrix.scala, *)
(* Heuristics.scala and pattern/SortCategory.scala.                        *)
(*                                                                         *)
(* A matrix is [fringe, rows, search, hs]: the fringe of every column, the *)
(* rows [ps, clause] in order of priority, whether all results are         *)
(* searched, and the heuristics that choose the next column.  The cache of *)
(* compiled matrices and the logging are left out: compile is a function.  *)
(***************************************************************************)
EXTENDS Patterns, FiniteSets

CONSTANT Limb  \* a literal's size is counted in digits to this base: 2^64 in the code

Infinity == 1000000
MaxInt == 1000000
AnyOf(s, P(_)) == \E i \in DOMAIN s : P(s[i])
AllOf(s, P(_)) == \A i \in DOMAIN s : P(s[i])
MaxOf(S) == CHOOSE x \in S : \A y \in S : y <= x
SumOf(s) == FoldLeft(LAMBDA acc, x : acc + x, 0, s)

Row(ps, clause) == [ps |-> ps, clause |-> clause]
Matrix(fringe, rows, search, hs) == [fringe |-> fringe, rows |-> rows, search |-> search, hs |-> hs]
clauses(m) == MapSeq(m.rows, LAMBDA r : r.clause)
Column(fringe, ps, cls, hs) == [fringe |-> fringe, ps |-> ps, clauses |-> cls, hs |-> hs]
column(m, j) == Column(m.fringe[j], MapSeq(m.rows, LAMBDA r : r.ps[j]), clauses(m), m.hs)
columns(m) == [j \in DOMAIN m.fringe |-> column(m, j)]
priority(m, i) == m.rows[i].clause.action.priority

-----------------------------------------------------------------------------
(* A column, on its own. *)
columnCategory(c) ==
  LET known == Filter(MapSeq(c.ps, category), LAMBDA k : k # None)
  IN IF known = << >> THEN "sym" ELSE IF known[1] = Some("lit") THEN Category[c.fringe.sort] ELSE known[1][1]
rawSignature(c) == FlattenSeq([i \in DOMAIN c.ps |-> signature(c.ps[i], c.clauses[i])])
isEmptyTested(c) == isCollection(c.fringe) /\ Contains(rawSignature(c), Empty)
isValidForKey(c, key) == ~isCollection(c.fringe) \/ key # None \/ ~AnyOf(c.ps, isChoice)
isChoiceForKey(c, key) == isCollection(c.fringe) /\ key = None
maxPriorityForKey(c, key) == IF isChoiceForKey(c, key) /\ c.clauses # << >> THEN c.clauses[1].action.priority ELSE MaxInt
isWildcardColumn(c) == AllOf(c.ps, isWildcard)
keyVars(c) == MapSeq(c.ps, LAMBDA p : UNION {variables(key) : key \in ToSet(mapOrSetKeys(p))})
\* Whether the column binds a variable that some key needs.
needed(c, vars) == \E i \in DOMAIN c.ps : vars[i] \intersect variables(c.ps[i]) # {}
signatureForKey(c, key) ==
  LET best == IF key = None THEN rawSignature(c) ELSE Filter(rawSignature(c), LAMBDA k : isBest(k, key[1]))
      injs == FlattenSeq(MapSeq(best, LAMBDA k : injections(c.fringe, k)))
      dups == IF c.fringe.exact THEN best ELSE best \o injs
      nodups == Filter(Distinct(dups),
                       LAMBDA k : k.c = "sym" => Contains(nonEmptyConstructors(c.fringe.sort), k.sym))
  IN IF Contains(nodups, Empty) THEN << Empty >> ELSE nodups
signatureForUsefulness(c) ==
  MapSeq(Filter(signatureForKey(c, None), LAMBDA k : k.c # "hasnokey"),
         LAMBDA k : IF k.c = "haskey" THEN HasKey(None) ELSE k)
validKeys(c) ==
  FlattenSeq(MapSeq(rawSignature(c), LAMBDA k : IF k.c = "haskey" THEN k.key ELSE << >>))
RECURSIVE asListP(_)
asListP(p) == CASE p.k = "list" -> << p >> [] p.k = "as" -> asListP(p.ps[1]) [] OTHER -> << >>
maxListSize(c) ==
  LET ls == ToSet(FlattenSeq(MapSeq(c.ps, asListP)))
  IN IF ls = {} THEN <<0, 0>> ELSE << MaxOf({l.hd : l \in ls}), MaxOf({l.tl : l \in ls}) >>

(* Whether constructors other than those of sigma have to be expected. *)
SymbolS_incomplete(sigma, f) ==
  \/ Contains(sigma, Empty)
  \/ Len(sigma) # IF f.exact THEN exactLength(f.sort) ELSE sortLength(f.sort, Len(nonEmptyConstructors(f.sort)))
hasIncompleteSignature(cat, sigma, f) ==
  CASE cat = "sym" -> SymbolS_incomplete(sigma, f)
    [] cat \in {"str", "int"} -> TRUE
    [] cat = "bool" -> Len(sigma) # 2
    [] cat = "list" -> sigma = << >> \/ sigma[1].c = "list"
    [] cat \in {"map", "set"} -> sigma = << >> \/ Contains(sigma, Empty)
RECURSIVE isDefault(_)
isDefault(p) ==
  CASE p.k \in {"wild", "var", "listget"} -> TRUE
    [] p.k = "as" -> isDefault(p.ps[1])
    [] p.k = "list" -> listFrame(p) # None
    [] p.k \in {"map", "set"} -> Len(p.ps) > 0
    [] OTHER -> FALSE

-----------------------------------------------------------------------------
(* Specialising a matrix by a constructor of one of its columns. *)
notCol(m, j) ==
  [m EXCEPT !.fringe = Drop(@, j), !.rows = MapSeq(@, LAMBDA r : Row(Drop(r.ps, j), r.clause))]
\* keep: the rows that stay.
filterMatrix(m, ix, residual, keep, j) ==
  [m EXCEPT !.rows = MapSeq(Filter(Indices(@), LAMBDA i : keep[i]), LAMBDA i :
     LET r == m.rows[i] IN Row(r.ps, addVars(r.clause, ix, residual, r.ps[j], m.fringe[j])))]
\* Replaces column j by the columns that constructor c gives it.
expandColumn(m, j, c, exact, mx) ==
  LET f == m.fringe[j]
      fringes == fringeExpand(f, c)
  IN [m EXCEPT !.fringe = fringes \o Drop(@, j),
               !.rows = MapSeq(@, LAMBDA r :
                  Row(SubSeq(expand(r.ps[j], c, exact, fringes, f, r.clause, mx), 1, Len(fringes)) \o Drop(r.ps, j),
                      r.clause))]
specializeFor(m, c, j, residual, mx) ==
  LET exact == residual = None
      keep == MapSeq(m.rows, LAMBDA r : isSpecialized(r.ps[j], c, exact, m.fringe[j], r.clause, mx))
      filtered == filterMatrix(m, Some(c), residual, keep, j)
  IN expandColumn(filtered, j, c, exact, mx)
defaultConstructor(sigma, listSize) ==
  CASE Contains(sigma, Empty) -> Some(NonEmpty)
    [] sigma # << >> /\ sigma[1].c = "list" -> Some(ListC(listSize[1] + listSize[2]))
    [] OTHER -> None
trueDefault(m, j, sigma, listSize, mx) ==
  LET ctr == defaultConstructor(sigma, listSize)
      filtered == filterMatrix(m, ctr, None, MapSeq(m.rows, LAMBDA r : isDefault(r.ps[j])), j)
  IN IF ctr # None /\ isCollection(m.fringe[j])
     THEN expandColumn(filtered, j, ctr[1], TRUE, mx) ELSE notCol(filtered, j)
defaultMatrix(m, j, sigma, mx) ==
  IF hasIncompleteSignature(Category[m.fringe[j].sort], sigma, m.fringe[j])
  THEN Some(trueDefault(m, j, sigma, maxListSize(column(m, j)), mx)) ELSE None
firstGroup(m) == Filter(m.rows, LAMBDA r : r.clause.action.priority = priority(m, 1))
isWildcardRow(r) == AllOf(r.ps, isWildcard)
bestRowIx(m) ==
  LET done == {i \in DOMAIN firstGroup(m) : isWildcardRow(m.rows[i])}
  IN IF done = {} THEN 0 ELSE CHOOSE i \in done : \A j \in done : i <= j
notRow(m, i) == [m EXCEPT !.rows = Drop(@, i)]

-----------------------------------------------------------------------------
(* The heuristics, by the letter that names them on the command line.  The  *)
(* scores of '_' are counted in twelfths.                                   *)
needsMatrix(h) == h \in {"l", "n", "p"}
RECURSIVE patternScore(_, _, _, _, _)
KeyedP_score(p, f, cl, key, empty) ==
  CASE p.n = 0 /\ keyedFrame(p) = None -> 12
    [] p.n = 0 /\ keyedFrame(p) # None -> IF empty THEN 0 ELSE patternScore(keyedFrame(p)[1], f, cl, key, empty)
    [] p.n > 0 -> IF \/ empty /\ p.k # "listget"
                     \/ key # None /\ ~Contains(canonicalKeys(p, cl), key[1])
                  THEN 0 ELSE 12
patternScore(p, f, cl, key, empty) ==
  CASE p.k \in {"wild", "var"} -> 0
    [] p.k \in {"list", "lit"} -> 12
    [] p.k = "sym" -> 12 \div (Len(overloads(p.sym)) + 1)
    [] p.k \in {"as", "or"} -> SumOf(MapSeq(p.ps, LAMBDA q : patternScore(q, f, cl, key, empty)))
    [] p.k \in Keyed -> KeyedP_score(p, f, cl, key, empty)
firstRows(c) == {i \in DOMAIN c.ps : c.clauses[i].action.priority = c.clauses[1].action.priority}
DefaultHeuristic(c, key) ==
  SumOf([i \in DOMAIN c.ps |-> IF i \in firstRows(c)
                               THEN patternScore(c.ps[i], c.fringe, c.clauses[i], key, isEmptyTested(c)) ELSE 0])
FHeuristic(c) == IF \E i \in firstRows(c) : isWildcard(c.ps[i]) THEN 0 ELSE 1
DHeuristic(c) == -Len(Filter(c.ps, isDefault))
branchingFactor(c, key) ==
  LET sigma == signatureForKey(c, key)
  IN Len(sigma) + IF hasIncompleteSignature(columnCategory(c), sigma, c.fringe) THEN 1 ELSE 0
BHeuristic(c, key) == -branchingFactor(c, key)
AHeuristic(c, key) == -SumOf(MapSeq(signatureForKey(c, key), LAMBDA k : Len(fringeExpand(c.fringe, k))))
RHeuristic(c, key) ==
  LET sigma == signatureForKey(c, key)
      kept == SumOf(MapSeq(sigma, LAMBDA k : Cardinality({i \in DOMAIN c.ps :
                isSpecialized(c.ps[i], k, FALSE, c.fringe, c.clauses[i], maxPriorityForKey(c, key))})))
  IN -kept + IF hasIncompleteSignature(columnCategory(c), sigma, c.fringe) THEN DHeuristic(c) ELSE 0
\* Counts good rows group by group, and stops after a group with a bad row.
countByGroup(c, good) ==
  LET Step(acc, i) ==
        LET p == c.clauses[i].action.priority
        IN CASE acc.stopped -> acc
             [] ~acc.stopped /\ p # acc.p /\ acc.n # i - 1 -> [acc EXCEPT !.stopped = TRUE]
             [] OTHER -> [n |-> acc.n + IF i \in good THEN 1 ELSE 0, p |-> p, stopped |-> FALSE]
  IN FoldLeft(Step, [n |-> 0, p |-> c.clauses[1].action.priority, stopped |-> FALSE],
              Indices(c.ps)).n
QHeuristic(c) == countByGroup(c, {i \in DOMAIN c.ps : ~isWildcard(c.ps[i])})
OHeuristic(c, key) == IF branchingFactor(c, key) = 1 THEN 1 ELSE 0
columnHeuristic(h, c, key) ==
  CASE h = "_" -> DefaultHeuristic(c, key)
    [] h = "f" -> FHeuristic(c)
    [] h = "d" -> DHeuristic(c)
    [] h = "b" -> BHeuristic(c, key)
    [] h = "a" -> AHeuristic(c, key)
    [] h = "r" -> RHeuristic(c, key)
    [] h = "q" -> QHeuristic(c)
    [] h = "o" -> OHeuristic(c, key)
    [] h \in {"N", "L", "R"} -> 0
\* A column of wildcards scores infinity; a known key at least as much as none.
scoreForKey(c, key, without, with) ==
  CASE isWildcardColumn(c) -> Infinity
    [] key = None -> without
    [] OTHER -> MaxOf({without, with})
columnScore(c, key) ==
  MapSeq(c.hs, LAMBDA h :
    IF needsMatrix(h) THEN 0
    ELSE scoreForKey(c, key, columnHeuristic(h, c, None), columnHeuristic(h, c, key)))
Greater(a, b) == \E i \in DOMAIN a : a[i] > b[i] /\ \A j \in 1..(i - 1) : a[j] = b[j]
bestKey(c) ==
  LET ks == validKeys(c)
      s == MapSeq(ks, LAMBDA key : columnScore(c, Some(key)))
      best == CHOOSE i \in DOMAIN ks : \A j \in DOMAIN ks : ~Greater(s[j], s[i]) /\ (s[j] = s[i] => i <= j)
  IN IF ks = << >> THEN None ELSE Some(ks[best])
maxPriority(c) == maxPriorityForKey(c, bestKey(c))
isValid(c) == isValidForKey(c, bestKey(c))
specialize(m, c, j, residual) == specializeFor(m, c, j, residual, maxPriority(column(m, j)))
default(m, j, sigma) == defaultMatrix(m, j, sigma, maxPriority(column(m, j)))

-----------------------------------------------------------------------------
(* Usefulness of a row and exhaustiveness of a matrix. *)
RECURSIVE useful(_, _)
useful(m, r) ==
  LET c == column(m, 1)
      sigma == signatureForUsefulness(c)
      rowSigma == signatureForUsefulness(Column(m.fringe[1], << r.ps[1] >>, << r.clause >>, m.hs))
      single == [m EXCEPT !.rows = << r >>]
      BySpecialization(con) ==
        LET s == specialize(single, con, 1, None)
        IN s.rows # << >> /\ useful(specialize(m, con, 1, None), s.rows[1])
      ByDefault(sig) ==
        LET d == default(m, 1, sig)
            s == trueDefault(single, 1, sig, maxListSize(c), maxPriority(column(single, 1)))
        IN d # None /\ s.rows # << >> /\ useful(d[1], s.rows[1])
  IN CASE m.fringe = << >> -> m.rows = << >>
       [] m.fringe # << >> /\ isWildcard(r.ps[1]) ->
            IF hasIncompleteSignature(Category[c.fringe.sort], sigma, c.fringe)
            THEN ByDefault(sigma) ELSE AnyOf(sigma, BySpecialization)
       [] OTHER -> AnyOf(rowSigma, BySpecialization) \/ ByDefault(rowSigma)
\* Mutant: earlier rows cover a row though their side conditions may fail.
rowUseless_Conditional(m, i) ==
  ~useful([m EXCEPT !.rows = SubSeq(@, 1, i - 1)], m.rows[i])
rowUseless(m, i) ==
  LET others == [m EXCEPT !.rows = SubSeq(@, 1, i - 1) \o
                    Filter(SubSeq(@, i + 1, Len(@)), LAMBDA r : r.clause.action.priority = priority(m, i))]
      withoutSC == [others EXCEPT !.rows = Filter(@, LAMBDA r : r.clause.action.sc = None /\ ~r.clause.action.nonlinear)]
  IN ~useful(withoutSC, m.rows[i])
\* The rules that checkUsefulness warns of, by their rows.
checkUsefulness(m) ==
  {m.rows[i].clause.action.ordinal : i \in {i \in DOMAIN m.rows : rowUseless(m, i)}}
necessary(m, i, j) == ~isWildcard(m.rows[i].ps[j]) \/ rowUseless(notCol(m, j), i)

\* A pattern no row of the column matches, for a signature with one missing.
\* Mutant: the first constructor is taken, missing or not.
missingConstructor_First(cat, sigma, f) ==
  CASE cat = "sym" -> SymbolP(Constructors[f.sort][1], [i \in DOMAIN ArgSorts[Constructors[f.sort][1]] |-> WildcardP])
    [] cat # "sym" -> LiteralP(0)
missingConstructor(cat, sigma, f) ==
  LET lits == {sigma[i].lit : i \in DOMAIN sigma}
      syms == Filter(IF f.exact THEN exactConstructors(f.sort) ELSE Constructors[f.sort],
                     LAMBDA s : ~Contains(sigma, SymbolC(s)))
  IN CASE cat = "sym" -> SymbolP(syms[1], [i \in DOMAIN ArgSorts[syms[1]] |-> WildcardP])
       [] cat = "bool" -> LiteralP(IF 1 \in lits THEN 0 ELSE 1)
       [] cat \in {"int", "str"} -> LiteralP(CHOOSE n \in 0..Len(sigma) : n \notin lits /\ \A i \in 0..(n - 1) : i \in lits)
\* The inverse of expand: the pattern whose children are given.
HasKey_contract(c, f, children) ==
  LET child == Last(children)
      key == IF c.key = None THEN << children[1] >> ELSE << WildcardP >>
      value == IF Category[f.sort] = "set" THEN << >> ELSE << children[IF c.key = None THEN 2 ELSE 1] >>
  IN IF child.k \in Keyed
     THEN Rebuild(child, key \o keys(child), value \o values(child), keyedFrame(child))
     ELSE NewKeyedP(IF Category[f.sort] = "list" THEN "listget" ELSE Category[f.sort], key, value, << child >>)
contract(c, f, children) ==
  CASE c.c = "empty" -> NewKeyedP(Category[f.sort], << >>, << >>, None)
    [] c.c = "nonempty" -> children[1]
    [] c.c = "haskey" -> HasKey_contract(c, f, children)
    [] c.c = "list" -> ListP(children, None, << >>)
    [] c.c = "sym" -> SymbolP(c.sym, children)
    [] c.c = "lit" -> LiteralP(c.lit)
RECURSIVE nonExhaustive(_)
nonExhaustive(m) ==
  LET c == column(m, 1)
      f == m.fringe[1]
      sigma == signatureForUsefulness(c)
      ctr == defaultConstructor(sigma, maxListSize(c))
      child == nonExhaustive(default(m, 1, sigma)[1])
      Contracted(con, ps) == LET arity == Len(fringeExpand(f, con))
                             IN << contract(con, f, SubSeq(ps, 1, arity)) >> \o SubSeq(ps, arity + 1, Len(ps))
      Failing(con) == nonExhaustive(specialize(m, con, 1, None))
      failing == Filter(sigma, LAMBDA con : Failing(con) # None)
  IN CASE m.fringe = << >> -> IF m.rows = << >> THEN Some(<< >>) ELSE None
       [] m.fringe # << >> /\ hasIncompleteSignature(Category[f.sort], sigma, f) ->
            (CASE child = None -> None
               [] child # None /\ sigma = << >> -> Some(<< WildcardP >> \o child[1])
               [] child # None /\ sigma # << >> /\ ctr # None -> Some(Contracted(ctr[1], child[1]))
               [] OTHER -> Some(<< missingConstructor(columnCategory(c), sigma, f) >> \o child[1]))
       [] OTHER -> IF failing = << >> THEN None
                   ELSE Some(Contracted(failing[1], Failing(failing[1])[1]))

-----------------------------------------------------------------------------
(* The choice of the column to test next. *)
LHeuristic(m, j, key) ==
  LET sigma == signatureForKey(column(m, j), key)
      d == default(m, j, sigma)
  IN Len(Filter(sigma, LAMBDA k : bestRowIx(specialize(m, k, j, None)) # 0))
       + IF d # None /\ bestRowIx(d[1]) # 0 THEN 1 ELSE 0
NHeuristic(m, j) == Cardinality({i \in DOMAIN m.rows : necessary(m, i, j)})
PHeuristic(m, j) == countByGroup(column(m, j), {i \in DOMAIN m.rows : necessary(m, i, j)})
matrixHeuristic(h, m, j, key) ==
  CASE h = "l" -> LHeuristic(m, j, key)
    [] h = "n" -> NHeuristic(m, j)
    [] h = "p" -> PHeuristic(m, j)
score(m, j) ==
  LET c == column(m, j)
      key == bestKey(c)
      s == columnScore(c, key)
  IN MapSeq(Indices(m.hs), LAMBDA i :
       IF needsMatrix(m.hs[i])
       THEN scoreForKey(c, key, matrixHeuristic(m.hs[i], m, j, None), matrixHeuristic(m.hs[i], m, j, key))
       ELSE s[i])
validCols(m) ==
  LET Usable(j) ==
        \/ isValid(column(m, j))
        \/ \A i \in DOMAIN m.fringe :
             \/ m.fringe[i] = m.fringe[j] /\ column(m, i).ps = column(m, j).ps
             \/ ~needed(column(m, i), keyVars(column(m, j)))
             \/ needed(column(m, j), keyVars(column(m, i)))
  IN Filter(Indices(m.fringe), Usable)
\* The columns of the best score, the last one first; a column that binds a
\* key of a column that cannot be tested yet scores at least as much as that.
getBest(m, cols) ==
  LET s == MapSeq(Indices(m.fringe), LAMBDA j : score(m, j))
      Waiting(j) == {i \in DOMAIN m.fringe : ~isValid(column(m, i)) /\ needed(column(m, j), keyVars(column(m, i)))}
      Lowest(S) == CHOOSE i \in S : \A k \in S : ~Greater(s[i], s[k]) /\ (s[i] = s[k] => i <= k)
      colBest(j) == IF Waiting(j) # {} /\ Greater(s[Lowest(Waiting(j))], s[j]) THEN s[Lowest(Waiting(j))] ELSE s[j]
  IN Reverse(Filter(cols, LAMBDA j : \A i \in ToSet(cols) : ~Greater(colBest(i), colBest(j))))
breakTies(h, m, cols) ==
  LET size(j) == OccSize(m.fringe[j].occ)
      smallest == Filter(cols, LAMBDA j : \A i \in ToSet(cols) : size(j) <= size(i))
  IN CASE h = "N" -> cols[1]
       [] h = "L" -> smallest[1]
       [] OTHER -> Last(smallest)
bestColIx(m) ==
  LET usable == IF validCols(m) # << >> THEN validCols(m) ELSE Indices(m.fringe)
  IN breakTies(Last(m.hs), m, getBest(m, usable))

-----------------------------------------------------------------------------
(* Decision trees.  A case is <<label, tree>>; dflt is an option. *)
Failure == [n |-> "fail"]
Leaf(ordinal, vars) == [n |-> "leaf", ordinal |-> ordinal, vars |-> vars]
SearchLeaf(ordinal, vars, child) == [n |-> "searchleaf", ordinal |-> ordinal, vars |-> vars, child |-> child]
Switch(o, cases, dflt) == [n |-> "switch", occ |-> o, cases |-> cases, dflt |-> dflt]
SwitchLit(o, cases, dflt) == [n |-> "switchlit", occ |-> o, cases |-> cases, dflt |-> dflt]
CheckNull(o, cases, dflt) == [n |-> "checknull", occ |-> o, cases |-> cases, dflt |-> dflt]
MakePattern(o, p, child) == [n |-> "pattern", occ |-> o, pat |-> p, child |-> child]
Function(fn, o, args, child) == [n |-> "function", fn |-> fn, occ |-> o, args |-> args, child |-> child]
MakeIterator(o, child) == [n |-> "makeiter", occ |-> o, child |-> child]
IterNext(o, binding, child) == [n |-> "iternext", occ |-> o, binding |-> binding, child |-> child]
label(c) == CASE c.c = "sym" -> c.sym
              [] c.c = "lit" -> c.lit
              [] c.c = "list" -> c.len
              [] c.c \in {"empty", "hasnokey"} -> 0
              [] c.c = "haskey" -> 1
Long(n) == Lit(n, "MINT.MInt 64")
Consume(o, child) == Switch(o, << >>, Some(child))

RECURSIVE compile(_)
bestCol(m) == column(m, bestColIx(m))
signatureOf(m) == LET c == bestCol(m) IN signatureForKey(c, bestKey(c))
cases(m) == LET j == bestColIx(m) IN MapSeq(signatureOf(m), LAMBDA c : <<label(c), specialize(m, c, j, None)>>)
compiledCases(m) == MapSeq(cases(m), LAMBDA e : <<e[1], compile(e[2])>>)
compiledDefault(m) == MapSeq(default(m, bestColIx(m), signatureOf(m)), compile)

(* The tree that tests the best column, by its sort category. *)
SymbolS_tree(m) == Switch(bestCol(m).fringe.occ, compiledCases(m), compiledDefault(m))
BoolS_tree(m) == SwitchLit(bestCol(m).fringe.occ, compiledCases(m), compiledDefault(m))
\* A string is compared with one literal after another.
EqualLiteral_tree(m) ==
  LET litO == bestCol(m).fringe.occ
      d == default(m, bestColIx(m), signatureOf(m))
      Test(e, rest) ==
        LET newO == Lit(e[1], "STRING.String")
            eqO == Equal(litO, newO)
        IN MakePattern(newO, LiteralP(e[1]),
             Function("eq", eqO, << litO, newO >>,
               SwitchLit(eqO, << <<1, Consume(litO, compile(e[2]))>>, <<0, rest>> >>, None)))
  IN FoldRight(Test, cases(m), IF d = None THEN Failure ELSE Consume(litO, compile(d[1])))
RECURSIVE sizeOf(_), getLimb(_, _)
sizeOf(n) == CASE n = 0 -> 0
               [] n < 0 -> -sizeOf(-n)
               [] n > 0 -> 1 + sizeOf(n \div Limb)
getLimb(n, i) == IF n < 0 THEN getLimb(-n, i) ELSE IF i = 0 THEN n % Limb ELSE getLimb(n \div Limb, i - 1)
\* Groups the cases of a switch by what part(_) of the literal is tested next.
GroupBy(cs, Part(_), Subtree(_, _)) ==
  LET labels == Distinct(MapSeq(cs, LAMBDA e : Part(e[1])))
  IN MapSeq(labels, LAMBDA l : <<l, Subtree(l, Filter(cs, LAMBDA e : Part(e[1]) = l))>>)
RECURSIVE limbSwitch(_, _, _, _, _)
limbSwitch(litO, size, cs, dflt, i) ==
  IF size = i THEN cs[1][2]
  ELSE Function("INT_limb", Num(i, litO), << litO, Long(i) >>,
         SwitchLit(Num(i, litO),
                   GroupBy(cs, LAMBDA n : getLimb(n, i), LAMBDA l, sub : limbSwitch(litO, size, sub, dflt, i + 1)),
                   dflt))
IntS_tree(m) ==
  LET litO == bestCol(m).fringe.occ
      dflt == compiledDefault(m)
  IN Function("INT_size", Size(litO), << litO >>,
       SwitchLit(Size(litO),
                 GroupBy(compiledCases(m), sizeOf,
                         LAMBDA s, cs : limbSwitch(litO, IF s < 0 THEN -s ELSE s, cs, dflt, 0)),
                 dflt))
\* The elements of a list are fetched before its case is entered: from the
\* front, or, in the default case, the last tl ones from the back.
listGet(listO, index, i, child) ==
  IF child = Failure THEN child ELSE Function("LIST_get", Num(i, listO), << listO, Long(index) >>, child)
expandListPattern(m, listO, len) ==
  FoldLeft(LAMBDA dt, i : listGet(listO, i - 1, i - 1, dt), compile(m), [i \in 1..len |-> i])
expandListPatternDefault(m, listO, sizes) ==
  LET hd == sizes[1]
      tl == sizes[2]
  IN FoldLeft(LAMBDA dt, i : listGet(listO, i - 1 - tl - hd, i - 1, dt),
              expandListPattern(m, listO, hd), [i \in 1..tl |-> hd + i])
ListS_tree(m) ==
  LET c == bestCol(m)
      listO == c.fringe.occ
      sizeO == Size(listO)
      sigma == signatureOf(m)
      k == bestKey(c)[1]
      elements == MapSeq(Indices(sigma), LAMBDA i : <<cases(m)[i][1], expandListPattern(cases(m)[i][2], listO, sigma[i].len)>>)
      longer == MapSeq(default(m, bestColIx(m), sigma),
                       LAMBDA d : expandListPatternDefault(d, listO, maxListSize(c)))
  IN IF sigma[1].c = "list"
     THEN Function("LIST_size", sizeO, << listO >>, SwitchLit(sizeO, elements, longer))
     ELSE MakePattern(sizeO, k, Function("LIST_get_null", Value(k, listO), << listO, sizeO >>,
            CheckNull(Value(k, listO), compiledCases(m), compiledDefault(m))))
\* A map is tested for emptiness, for a known key, or for a key that is
\* chosen: then every entry is tried in turn.
ChoiceTree(o, ended, found) ==
  MakeIterator(o, IterNext(o, Choice(o), CheckNull(Choice(o), << <<0, ended>>, <<1, found>> >>, None)))
MapS_tree(m) ==
  LET c == bestCol(m)
      mapO == c.fringe.occ
      newO == Size(mapO)
      k == bestKey(c)[1]
      cs == compiledCases(m)
      On(l) == Filter(cs, LAMBDA e : e[1] = l)[1][2]
  IN CASE Contains(signatureOf(m), Empty) ->
            Function("MAP_size", newO, << mapO >>, SwitchLit(newO, compiledCases(m), compiledDefault(m)))
       [] ~Contains(signatureOf(m), Empty) /\ bestKey(c) = None ->
            ChoiceTree(mapO, On(0),
              Function("MAP_lookup", ChoiceValue(mapO), << mapO, Choice(mapO) >>,
                Function("MAP_remove", ChoiceRem(mapO), << mapO, Choice(mapO) >>, On(1))))
       [] OTHER ->
            MakePattern(newO, k, Function("MAP_lookup_null", Value(k, mapO), << mapO, newO >>,
              Function("MAP_remove", Rem(k, mapO), << mapO, newO >>,
                CheckNull(Value(k, mapO), compiledCases(m), compiledDefault(m)))))
SetS_tree(m) ==
  LET c == bestCol(m)
      setO == c.fringe.occ
      newO == Size(setO)
      k == bestKey(c)[1]
      cs == compiledCases(m)
      On(l) == Filter(cs, LAMBDA e : e[1] = l)[1][2]
  IN CASE Contains(signatureOf(m), Empty) ->
            Function("SET_size", newO, << setO >>, SwitchLit(newO, compiledCases(m), compiledDefault(m)))
       [] ~Contains(signatureOf(m), Empty) /\ bestKey(c) = None ->
            ChoiceTree(setO, On(0), Function("SET_remove", ChoiceRem(setO), << setO, Choice(setO) >>, On(1)))
       [] OTHER ->
            MakePattern(newO, k, Function("SET_in", Value(k, setO), << newO, setO >>,
              Function("SET_remove", Rem(k, setO), << setO, newO >>,
                SwitchLit(Value(k, setO), compiledCases(m), compiledDefault(m)))))
tree(m) ==
  LET cat == columnCategory(bestCol(m))
  IN CASE cat = "sym" -> SymbolS_tree(m)
       [] cat = "bool" -> BoolS_tree(m)
       [] cat = "str" -> EqualLiteral_tree(m)
       [] cat = "int" -> IntS_tree(m)
       [] cat = "list" -> ListS_tree(m)
       [] cat = "map" -> MapS_tree(m)
       [] cat = "set" -> SetS_tree(m)

-----------------------------------------------------------------------------
(* The row at index i has matched: what remains is to compute its variables, *)
(* compare those bound more than once and evaluate the side condition.       *)
Branch(o, yes, no) == SwitchLit(o, << <<1, yes>>, <<0, no>> >>, None)
makeEquality(o1, o2, dt, child) == Function("eq", Equal(o1, o2), << o1, o2 >>, Branch(Equal(o1, o2), dt, child))
withRange(r, dt) == Function("LIST_range", r[1], << Tail(r[1]), Long(r[2]), Long(r[3]) >>, dt)
withOverload(e, dt) == MakePattern(e.var.occ, SymbolP(e.inj.sym, << VariableP(Some(Tail(e.var.occ))) >>), dt)
withSpecial(e, dt) == MakePattern(e.occ, e.pat, dt)
withFresh(x, dt, arity) ==
  MakePattern(Lit(0, "STRING.String"), LiteralP(0),
    Function("get_fresh_constant", Fresh(x), << Lit(0, "STRING.String"), Num(arity, Base) >>, dt))
getLeaf(m, i, child) ==
  LET r == m.rows[i]
      action == r.clause.action
      vars == r.clause.bindings
                \o FlattenSeq([j \in DOMAIN m.fringe |-> bindings(r.ps[j], None, None, m.fringe[j].occ)])
                \o MapSeq(r.clause.over, LAMBDA e : e.var)
                \o MapSeq(action.fresh, LAMBDA x : VariableBinding(x, Fresh(x), None))
      names == Distinct(MapSeq(vars, LAMBDA v : v.name))
      grouped(x) == MapSeq(Filter(vars, LAMBDA v : v.name = x), LAMBDA v : v.occ)
      newVars == [x \in action.vars |-> IF grouped(x) = << >> THEN Base ELSE grouped(x)[1]]
      rest == [m EXCEPT !.rows = Drop(firstGroup(m), i)]
      atomicLeaf == IF m.search THEN SearchLeaf(action.ordinal, newVars, compile(rest)) ELSE Leaf(action.ordinal, newVars)
      sc == IF action.sc = None THEN atomicLeaf
            ELSE Function("side_condition", SC(action.ordinal),
                          MapSeq(action.sc, LAMBDA x : grouped(x)[1]),
                          Branch(SC(action.ordinal), atomicLeaf, child))
      pairs == FlattenSeq(MapSeq(names, LAMBDA x : [n \in 1..(Len(grouped(x)) - 1) |-> <<grouped(x)[n], grouped(x)[n + 1]>>]))
      nonlinear == FoldRight(LAMBDA e, dt : makeEquality(e[1], e[2], dt, child), pairs, sc)
      ranges == FoldRight(withRange, r.clause.ranges, nonlinear)
      overs == FoldRight(withOverload, r.clause.over, ranges)
      specials == FoldRight(withSpecial, r.clause.spec, overs)
  IN FoldRight(LAMBDA x, dt : withFresh(x, dt, action.arity), action.fresh, specials)
\* A column of wildcards is dropped, its variables bound.
dropColumn(m, j) ==
  notCol([m EXCEPT !.rows = MapSeq(@, LAMBDA r : Row(r.ps, addVars(r.clause, None, None, r.ps[j], m.fringe[j])))], j)
compile(m) ==
  CASE m.rows = << >> -> Failure
    [] m.rows # << >> /\ bestRowIx(m) # 0 -> getLeaf(m, bestRowIx(m), compile(notRow(m, bestRowIx(m))))
    [] OTHER -> LET j == bestColIx(m)
                IN IF score(m, j)[1] = Infinity THEN compile(dropColumn(m, j)) ELSE tree(m)
compileSearch(m) == compile([m EXCEPT !.search = TRUE])

-----------------------------------------------------------------------------
(* Specialising a matrix by what is known of the subject: ps is a pattern    *)
(* for every column, the right-hand side of the rule applied last.           *)
isWildcardOrResidual(p) == isWildcard(p) \/ isResidual(p)
RECURSIVE specializeBy(_, _)
specializeBy(m, ps) ==
  LET known == Filter(Indices(ps), LAMBDA j : ~isWildcardOrResidual(ps[j]))
      j == known[1]
      con == IF ps[j].k = "sym" THEN SymbolC(ps[j].sym) ELSE LiteralC(ps[j].lit)
  IN IF m.rows = << >> \/ known = << >> THEN <<m, ps>>
     ELSE specializeBy(specialize(m, con, j, Some(ps[j])), ps[j].ps \o Drop(ps, j))
\* The patterns of the bound variables in terms of the residual occurrences.
RECURSIVE substituteBy(_, _)
substituteBy(p, residuals) ==
  LET at == Filter(residuals, LAMBDA e : e[1] = p)
  IN IF at # << >> THEN VariableP(Some(Last(at)[2]))
     ELSE [p EXCEPT !.ps = MapSeq(@, LAMBDA q : substituteBy(q, residuals))]
specializeClause(cl, residuals) ==
  LET all == cl.bindings \o MapSeq(cl.over, LAMBDA e : e.var)
      known == Filter(all, LAMBDA b : b.pat # None)
      translated == MapSeq(known, LAMBDA b : [occ |-> b.occ, pat |-> substituteBy(b.pat[1], residuals)])
  IN [cl EXCEPT !.bindings = all, !.over = << >>, !.spec = @ \o Distinct(translated)]
=============================================================================
