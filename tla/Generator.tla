----------------------------- MODULE Generator ------------------------------
(***************************************************************************)
(* From the axioms of a definition to clause matrices and decision trees:  *)
(* matching/Parser.scala (which axioms are rules and in which order) and   *)
(* Generator.scala (the patterns of a rule and the matrix of its rows).    *)
(*                                                                         *)
(* An axiom is a record [ordinal, lhs, rhs, cond, atts, prio]: lhs is a    *)
(* sequence of KORE patterns, rhs one, cond an option of the variables of  *)
(* the side condition (with the values it accepts, see Decision), atts the *)
(* set of its attributes and prio the value of its priority attribute.     *)
(* KORE patterns are the variable, literal, symbol, as and or patterns of  *)
(* module Patterns: the collections are still applications of their hooks. *)
(***************************************************************************)
EXTENDS Matrix

CONSTANTS
  Hook,       \* the hook of every symbol that has one: <<"MAP", "concat">>
  FreshNames  \* the names of the variables that stand for fresh constants

-----------------------------------------------------------------------------
(* Parser.scala *)
hasAtt(a, att) == att \in a.atts
rulePriority(a, search) ==
  CASE hasAtt(a, "owise") -> 200
    [] ~hasAtt(a, "owise") /\ hasAtt(a, "cool") /\ ~search -> 150
    [] ~hasAtt(a, "owise") /\ ~(hasAtt(a, "cool") /\ ~search) /\ hasAtt(a, "cool-like") /\ ~search -> 100
    [] OTHER -> IF hasAtt(a, "priority") THEN a.prio ELSE 50
\* Axioms that state properties of symbols are no rules.
parseAxiomSentence(a, simplification, search) ==
  IF \/ a.atts \intersect {"comm", "assoc", "idem", "unit", "non-executable"} # {}
     \/ hasAtt(a, "simplification") /\ ~simplification
  THEN << >> ELSE << [a EXCEPT !.prio = rulePriority(a, search)] >>
\* The stable sort by priority.
\* Mutant: the rules stay in the order of the definition.
sortByPriority_Unsorted(rules) == rules
sortByPriority(rules) ==
  FoldLeft(LAMBDA sorted, a : SelectSeq(sorted, LAMBDA b : b.prio <= a.prio) \o << a >>
                                \o SelectSeq(sorted, LAMBDA b : b.prio > a.prio), << >>, rules)
parseTopAxioms(axioms, search) ==
  sortByPriority(FlattenSeq(MapSeq(axioms, LAMBDA a : parseAxiomSentence(a, FALSE, search))))

-----------------------------------------------------------------------------
(* Generator.scala: the concatenations, units and elements of a collection  *)
(* become one pattern, with at most one frame.                              *)
isFrame(p) == p.k \in {"var", "wild"}
isListP(p) == p.k = "list"
NoFrame(p) == listFrame(p) = None
elements(p) == SubSeq(p.ps, 1, p.hd + p.tl)
head(p) == SubSeq(p.ps, 1, p.hd)
tail(p) == SubSeq(p.ps, p.hd + 1, p.hd + p.tl)
listConcat(p1, p2) ==
  CASE isListP(p1) /\ isListP(p2) /\ NoFrame(p1) -> NewListP(elements(p1) \o head(p2), listFrame(p2), tail(p2))
    [] isListP(p1) /\ isListP(p2) /\ ~NoFrame(p1) /\ NoFrame(p2) ->
         NewListP(head(p1), listFrame(p1), tail(p1) \o elements(p2))
    [] isListP(p1) /\ NoFrame(p1) /\ isFrame(p2) -> ListP(elements(p1), Some(p2), << >>)
    [] isFrame(p1) /\ isListP(p2) /\ NoFrame(p2) -> ListP(<< >>, Some(p1), elements(p2))
    [] OTHER -> NewListP(<< >>, None, << >>)
listGetPattern(p, key, v) ==
  IF isFrame(p) THEN ListGetP(<< key >>, << v >>, p)
  ELSE ListGetP(keys(p) \o << key >>, values(p) \o << v >>, keyedFrame(p)[1])
\* Maps and sets alike: kind is "map" or "set".
keyedConcat(kind, p1, p2) ==
  LET Closed(p) == p.k = kind /\ keyedFrame(p) = None
      Join(fr) == NewKeyedP(kind, keys(p1) \o keys(p2), values(p1) \o values(p2), fr)
  IN CASE Closed(p1) /\ p2.k = kind -> Join(keyedFrame(p2))
       [] p1.k = kind /\ ~Closed(p1) /\ Closed(p2) -> Join(keyedFrame(p1))
       [] Closed(p1) /\ isFrame(p2) -> Rebuild(p1, keys(p1), values(p1), Some(p2))
       [] isFrame(p1) /\ Closed(p2) -> Rebuild(p2, keys(p2), values(p2), Some(p1))
       [] OTHER -> NewKeyedP(kind, << >>, << >>, None)
listPattern(cons, ps) ==
  CASE cons = "concat" -> listConcat(ps[1], ps[2])
    [] cons \in {"unit", "element"} -> NewListP(ps, None, << >>)
    [] cons = "update" -> listGetPattern(ps[1], ps[2], ps[3])
mapPattern(cons, ps) ==
  CASE cons = "concat" -> keyedConcat("map", ps[1], ps[2])
    [] cons = "unit" -> NewKeyedP("map", << >>, << >>, None)
    [] cons = "element" -> NewKeyedP("map", << ps[1] >>, << ps[2] >>, None)
setPattern(cons, ps) ==
  IF cons = "concat" THEN keyedConcat("set", ps[1], ps[2]) ELSE NewKeyedP("set", ps, << >>, None)
RECURSIVE genPattern(_), genVars(_)
genPattern(p) ==
  LET ps == MapSeq(p.ps, genPattern)
      hook == IF p.k = "sym" /\ p.sym \in DOMAIN Hook THEN Hook[p.sym] ELSE <<"none">>
  IN CASE hook[1] = "LIST" -> listPattern(hook[2], ps)
       [] hook[1] = "MAP" -> mapPattern(hook[2], ps)
       [] hook[1] = "SET" -> setPattern(hook[2], ps)
       [] OTHER -> [p EXCEPT !.ps = ps]
\* The variables of a pattern, once for every place they are in.
genVars(p) ==
  FlattenSeq(MapSeq(p.ps, genVars)) \o IF p.k \in {"var", "as"} THEN << p.name >> ELSE << >>

-----------------------------------------------------------------------------
Action(a) ==
  LET lhsVars == FlattenSeq(MapSeq(a.lhs, genVars))
      rhsVars == genVars(a.rhs)
      scVars == FlattenSeq(MapSeq(a.cond, LAMBDA c : c.vars))
  IN [ordinal |-> a.ordinal, priority |-> a.prio, vars |-> ToSet(rhsVars), sc |-> Distinct(scVars),
      fresh |-> Filter(rhsVars \o scVars, LAMBDA x : x \in FreshNames),
      arity |-> Len(a.lhs), nonlinear |-> Len(Distinct(lhsVars)) # Len(lhsVars)]
\* The rows of a rule: one for every choice of the alternatives of its
\* or-patterns, the choices of the last column varying fastest.
expandRow(r) ==
  FoldLeft(LAMBDA rows, j : FlattenSeq(MapSeq(rows, LAMBDA q :
                              MapSeq(expandOr(q.ps[j]), LAMBDA alt : Row([q.ps EXCEPT ![j] = alt], q.clause)))),
           << r >>, Indices(r.ps))
genClauseMatrix(axioms, sorts, hs) ==
  LET rows == MapSeq(axioms, LAMBDA a : Row(MapSeq(a.lhs, genPattern), Clause(Action(a))))
  IN Matrix([i \in DOMAIN sorts |-> Fringe(sorts[i], Num(i, Base), FALSE)],
            FlattenSeq(MapSeq(rows, expandRow)), FALSE, hs)
mkDecisionTree(axioms, sorts, hs) == compile(genClauseMatrix(axioms, sorts, hs))
isPoorlySpecialized(final, original, threshold) ==
  Len(original.rows) * threshold[1] <= Len(final.rows) * threshold[2]
\* The tree for the step after rule a, which knows the term the rule leaves:
\* the tree, if it is worth having, and the occurrences of the unknown parts.
mkSpecialDecisionTree(m, a, threshold) ==
  LET spec == specializeBy(m, << genPattern(a.rhs) >>)
      residualMap == [i \in DOMAIN spec[2] |-> <<spec[2][i], spec[1].fringe[i].occ>>]
      final == [spec[1] EXCEPT !.fringe = MapSeq(@, LAMBDA f : [f EXCEPT !.exact = FALSE]),
                               !.rows = MapSeq(@, LAMBDA r : Row(r.ps, specializeClause(r.clause, residualMap)))]
  IN IF isPoorlySpecialized(final, m, threshold) THEN None
     ELSE Some([dt |-> compile(final), residuals |-> residualMap])
=============================================================================
