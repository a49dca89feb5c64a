------------------------------ MODULE Matching ------------------------------
(***************************************************************************)
(* What matching a rule means, and what the compiled code owes to it.      *)
(*                                                                         *)
(* MatchSet(p, t) is the set of the substitutions under which the KORE     *)
(* pattern p denotes the term t, defined on the pattern as it is written:  *)
(* a concatenation matches every way of splitting the collection.  Nothing *)
(* of it is taken from the compiler.                                       *)
(***************************************************************************)
EXTENDS Decision

CONSTANTS
  Progs,         \* the programs: sets of rules, heuristics and modes
  SubjectsOf(_), \* the subjects a program is run on
  SubstsOf(_)    \* the substitutions of the last rule's right-hand side

\* The substitutions that agree with one of either set.
Join(S1, S2) ==
  {f @@ g : <<f, g>> \in {fg \in S1 \X S2 : \A x \in DOMAIN fg[1] \intersect DOMAIN fg[2] : fg[1][x] = fg[2][x]}}
Bind(x, t) == {[y \in {x} |-> t]}
Nothing == {<< >>}
JoinAll(sets) == FoldLeft(Join, Nothing, sets)
inject(a, b, t) == IF a = b THEN t ELSE mkSym(<<"inj", a, b>>, << t >>)

RECURSIVE MatchSet(_, _)
MatchArgs(ps, ts) == JoinAll([i \in DOMAIN ps |-> MatchSet(ps[i], ts[i])])
\* An overloaded symbol also stands for its lesser overloads, injected.
MatchOverload(p, t) ==
  IF t.t = "sym" /\ isInj(t.sym) /\ t.args[1].t = "sym" /\ Contains(overloads(p.sym), t.args[1].sym)
  THEN LET g == t.args[1].sym
       IN MatchArgs(p.ps, [i \in DOMAIN p.ps |-> inject(ArgSorts[g][i], ArgSorts[p.sym][i], t.args[1].args[i])])
  ELSE {}
MatchInj(p, t) ==
  CASE ~(t.t = "sym" /\ isInj(t.sym)) -> {}
    [] t.t = "sym" /\ isInj(t.sym) /\ t.sym[2] = p.sym[2] -> MatchSet(p.ps[1], t.args[1])
    [] OTHER -> IF isSubsorted(t.sym[2], p.sym[2])
                THEN MatchSet(p.ps[1], t) ELSE {}
MatchList(cons, ps, t) ==
  CASE cons = "unit" -> IF t.s = << >> THEN Nothing ELSE {}
    [] cons = "element" -> IF Len(t.s) = 1 THEN MatchSet(ps[1], t.s[1]) ELSE {}
    [] cons = "concat" ->
         UNION {Join(MatchSet(ps[1], ListT(SubSeq(t.s, 1, i))), MatchSet(ps[2], ListT(SubSeq(t.s, i + 1, Len(t.s))))) :
                i \in 0..Len(t.s)}
    [] cons = "update" ->
         UNION {JoinAll(<< MatchSet(ps[1], t), MatchSet(ps[2], LitT(i - 1)), MatchSet(ps[3], t.s[i]) >>) : i \in DOMAIN t.s}
Part(m, K) == MapT([key \in K |-> m[key]])
MatchMap(cons, ps, t) ==
  LET K == DOMAIN t.m
  IN CASE cons = "unit" -> IF K = {} THEN Nothing ELSE {}
       [] cons = "element" -> UNION {Join(MatchSet(ps[1], key), MatchSet(ps[2], t.m[key])) : key \in {x \in K : K = {x}}}
       [] cons = "concat" -> UNION {Join(MatchSet(ps[1], Part(t.m, L)), MatchSet(ps[2], Part(t.m, K \ L))) : L \in SUBSET K}
MatchSets(cons, ps, t) ==
  CASE cons = "unit" -> IF t.set = {} THEN Nothing ELSE {}
    [] cons = "element" -> UNION {MatchSet(ps[1], x) : x \in {y \in t.set : t.set = {y}}}
    [] cons = "concat" -> UNION {Join(MatchSet(ps[1], SetT(L)), MatchSet(ps[2], SetT(t.set \ L))) : L \in SUBSET t.set}
MatchSymbol(p, t) ==
  LET hook == IF p.sym \in DOMAIN Hook THEN Hook[p.sym] ELSE <<"none">>
  IN CASE hook[1] = "LIST" -> MatchList(hook[2], p.ps, t)
       [] hook[1] = "MAP" -> MatchMap(hook[2], p.ps, t)
       [] hook[1] = "SET" -> MatchSets(hook[2], p.ps, t)
       [] isInj(p.sym) -> MatchInj(p, t)
       [] OTHER -> IF t.t = "sym" /\ t.sym = p.sym THEN MatchArgs(p.ps, t.args) ELSE MatchOverload(p, t)
MatchSet(p, t) ==
  CASE p.k = "wild" -> Nothing
    [] p.k = "var" -> Bind(p.name, t)
    [] p.k = "lit" -> IF t = LitT(p.lit) THEN Nothing ELSE {}
    [] p.k = "as" -> Join(Bind(p.name, t), MatchSet(p.ps[1], t))
    [] p.k = "or" -> UNION {MatchSet(p.ps[i], t) : i \in DOMAIN p.ps}
    [] p.k = "sym" -> MatchSymbol(p, t)

\* The ways rule a applies to the subject, as the variables it needs.
Accepts(a, f) == a.cond = None \/ f[a.cond[1].vars[1]] \in a.cond[1].accepts
Substitutions(a) == {f \in MatchArgs(a.lhs, subject) : Accepts(a, f)}
Needed(a) == ToSet(genVars(a.rhs))
Applications(a) ==
  {[ordinal |-> a.ordinal, subst |-> [x \in Needed(a) \intersect DOMAIN f |-> f[x]]] : f \in Substitutions(a)}
Rules == ToSet(code.rules)
Applicable == {a \in Rules : Substitutions(a) # {}}
Best == {a \in Applicable : \A b \in Applicable : a.prio <= b.prio}
Expected == UNION {Applications(a) : a \in Best}
\* A result without the fresh constants it was given.
Known(r) == [r EXCEPT !.subst = [x \in DOMAIN @ \ FreshNames |-> @[x]]]

-----------------------------------------------------------------------------
Next ==
  \/ Compile
  \/ prog.mode # "special" /\ \E args \in SubjectsOf(prog) : Call(args)
  \/ prog.mode = "special" /\ code # None /\ \E At \in SubstsOf(prog) : Continue(At)
  \/ Run
  \/ status \in {"applied", "stuck"} /\ UNCHANGED vars
Spec == Init(Progs) /\ [][Next]_vars /\ WF_vars(Run)

-----------------------------------------------------------------------------
Ended == status \in {"applied", "stuck"}
Searching == prog.mode = "search"

\* The generated code reads no stack slot before it has written it, no
\* element outside a list and no key that is not in the map (Decision.cpp's
\* load emits an uninitialised slot silently).
ReadsDefined ==
  /\ \A o \in DOMAIN env : env[o] # Undefined
  /\ status = "run" /\ node.n \in {"switchlit", "checknull", "makeiter"} => load(node.occ) # Undefined
  /\ status = "run" /\ node.n = "switch" /\ node.cases # << >> => load(node.occ) # Undefined
  /\ status = "run" /\ node.n = "function" => \A i \in DOMAIN node.args : load(node.args[i]) # Undefined
  /\ \A r \in results : \A x \in DOMAIN r.subst : r.subst[x] \notin {Undefined, Null}

\* A rule is applied only where it matches, with the variables the match
\* gives it, and only if no rule of a higher priority matches.
AppliesBestRule == status = "applied" => \A r \in results : Known(r) \in Expected

\* The subject is left as it is only if no rule matches it.
StuckOnlyWithoutMatch == status = "stuck" /\ ~Searching => Applicable = {}

\* Searching collects the applications of the rules of the best priority:
\* nothing else at any time, and in the end all of them.
SearchIsExact ==
  Searching => /\ \A r \in results : Known(r) \in Expected
               /\ status = "stuck" => Expected \subseteq {Known(r) : r \in results}

\* A rule that checkUsefulness calls useless is never needed: where it
\* matches, another one without a side condition that comes no later does.
\* (A rule with alternatives is reported for one of them.)
Alternatives(a) == \E i \in DOMAIN a.lhs : Len(expandOr(a.lhs[i])) > 1
Covers(b, a) == b.prio <= a.prio /\ b # a /\ b.cond = None /\ ~Action(b).nonlinear
UselessIsCovered ==
  Ended => \A a \in Applicable : a.ordinal \in code.useless /\ ~Alternatives(a) => \E b \in Applicable : Covers(b, a)

\* checkExhaustiveness: a matrix that it accepts leaves no subject without a
\* rule, side conditions and repeated variables aside; the example it gives
\* for one that it does not accept has an instance that no rule matches.
RECURSIVE Plain(_)
Plain(p) == p.k \notin {"list", "listget", "map", "set"} /\ \A i \in DOMAIN p.ps : Plain(p.ps[i])
ExhaustivenessIsRight ==
  status = "compiled" /\ prog.mode = "step" =>
    LET missing == code.missing
        Unmatched(s) == \A a \in Rules : MatchArgs(a.lhs, s) = {}
    IN IF missing = None
       THEN (\A a \in Rules : a.cond = None /\ ~Action(a).nonlinear) => \A s \in SubjectsOf(prog) : ~Unmatched(s)
       ELSE (\A i \in DOMAIN missing[1] : Plain(missing[1][i])) =>
              \E s \in SubjectsOf(prog) : MatchArgs(missing[1], s) # {} /\ Unmatched(s)

\* The jumps out of a choice stay within the buffer that init_choice_buffer
\* allocates from the depth that preprocess computes.
ChoicesFit == status = "run" => Len(choices) <= choiceDepth(code.dt)

\* A specialised step that is stuck returns the term the rule left: the
\* partial term is put back together from the parts it was called with.
StuckRebuildsTerm ==
  status = "stuck" /\ prog.mode = "special" /\ code.residuals # None =>
    makePartialTerm(genPattern(Last(prog.axioms).rhs), Num(1, Base)) = subject[1]

\* Every call of the generated function ends.
Terminates == (status = "run") ~> Ended
=============================================================================
