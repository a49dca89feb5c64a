------------------------------ MODULE Decision ------------------------------
(***************************************************************************)
(* The code that a decision tree becomes, run on a subject:                *)
(* codegen/DecisionParser.cpp, include/kllvm/codegen/Decision.h and        *)
(* codegen/Decision.cpp.  The generated function keeps one stack slot per  *)
(* occurrence (env), which backtracking does not restore, and a stack of   *)
(* the choices that can still be resumed; a failing test jumps to the last *)
(* of them.  One action is one node.                                       *)
(*                                                                         *)
(* mode tells which function is run: "step" applies one rule, "search"     *)
(* collects the results of all of them, "special" is the step after the    *)
(* last of the rules, specialised for what that rule left behind.          *)
(*                                                                         *)
(* The terms: [t |-> "sym", sym, args], [t |-> "lit", lit], the lists,     *)
(* maps and sets of terms, the machine integers (the results of size and   *)
(* equality functions), iterators, and null.                               *)
(***************************************************************************)
EXTENDS Generator, TLC

CONSTANT
  Compiler(_)  \* the compiler that is run: Compiled, below

VARIABLES
  prog,     \* [axioms, sorts, hs, mode, threshold]: what is compiled
  code,     \* what it was compiled to
  subject,  \* the terms to match
  node,     \* the node about to be run
  env,      \* the values stored so far, by occurrence
  choices,  \* choice_buffer: the iter_next nodes to resume, innermost last
  loop,     \* choice_block_: the iter_next node that the next switch belongs to
  found,    \* has_search_results
  results,  \* what was applied: the rule and its variables
  status,   \* "axioms", "compiled", "run", "applied", "stuck"
  fresh     \* the counter of fresh constants

vars == <<prog, code, subject, node, env, choices, loop, found, results, status, fresh>>

-----------------------------------------------------------------------------
(* Terms. *)
Sym(s, args) == [t |-> "sym", sym |-> s, args |-> args]
LitT(n) == [t |-> "lit", lit |-> n]
ListT(s) == [t |-> "list", s |-> s]
MapT(m) == [t |-> "map", m |-> m]
SetT(S) == [t |-> "set", set |-> S]
LongT(n) == [t |-> "long", n |-> n]
Null == [t |-> "null"]
Undefined == [t |-> "undefined"]
BoolT(b) == LongT(IF b THEN 1 ELSE 0)
\* definition.cpp gives equal symbols one tag, and kore_symbol::operator==
\* compares arguments only: the tag of an injection tells the injected sort
\* and not the sort it is injected into.
tag(s) == IF isInj(s) THEN <<"inj", s[2]>> ELSE s
\* create_allocation: what is an injection already is not injected again.
mkSym(s, args) == IF isInj(s) /\ args[1].t = "sym" /\ isInj(args[1].sym) THEN args[1] ELSE Sym(tag(s), args)

\* The term a pattern builds (CreateTerm), At giving its variables; a
\* function symbol stands for the projection to its first argument.
RECURSIVE createTerm(_, _)
keyedTerm(k, ks, vs, frame) ==
  IF k = "set" THEN SetT(ToSet(ks) \union UNION {fr.set : fr \in ToSet(frame)})
  ELSE LET own == [key \in ToSet(ks) |-> vs[CHOOSE i \in DOMAIN ks : ks[i] = key]]
       IN MapT(IF frame = None THEN own ELSE own @@ frame[1].m)
createTerm(p, At) ==
  LET args == MapSeq(p.ps, LAMBDA q : createTerm(q, At))
  IN CASE p.k = "var" -> At[p.name]
       [] p.k = "lit" -> LitT(p.lit)
       [] p.k = "as" -> args[1]
       [] p.k = "sym" -> IF p.sym \in ResidualSyms THEN args[1] ELSE mkSym(p.sym, args)
       [] p.k = "list" -> LET frame == IF listFrame(p) = None THEN << >> ELSE Last(args).s
                          IN ListT(SubSeq(args, 1, p.hd) \o frame \o SubSeq(args, p.hd + 1, p.hd + p.tl))
       [] p.k \in {"map", "set"} ->
            LET q == [p EXCEPT !.ps = args] IN keyedTerm(p.k, keys(q), values(q), keyedFrame(q))

-----------------------------------------------------------------------------
(* The hooks a decision tree calls (external: their code is elsewhere).     *)
Position(l, n) == IF n < 0 THEN Len(l.s) + n + 1 ELSE n + 1
Get(l, n) == IF Position(l, n) \in DOMAIN l.s THEN l.s[Position(l, n)] ELSE Undefined
Hooked(fn, a) ==
  CASE fn = "eq" -> BoolT(a[1] = a[2])
    [] fn = "INT_size" -> LongT(sizeOf(a[1].lit))
    [] fn = "INT_limb" -> LongT(getLimb(a[1].lit, a[2].n))
    [] fn = "LIST_size" -> LongT(Len(a[1].s))
    [] fn = "LIST_get" -> Get(a[1], a[2].n)
    [] fn = "LIST_get_null" -> IF Get(a[1], a[2].lit) = Undefined THEN Null ELSE Get(a[1], a[2].lit)
    [] fn = "LIST_range" -> ListT(SubSeq(a[1].s, a[2].n + 1, Len(a[1].s) - a[3].n))
    [] fn = "MAP_size" -> LongT(Cardinality(DOMAIN a[1].m))
    [] fn = "MAP_lookup" -> IF a[2] \in DOMAIN a[1].m THEN a[1].m[a[2]] ELSE Undefined
    [] fn = "MAP_lookup_null" -> IF a[2] \in DOMAIN a[1].m THEN a[1].m[a[2]] ELSE Null
    [] fn = "MAP_remove" -> MapT([key \in DOMAIN a[1].m \ {a[2]} |-> a[1].m[key]])
    [] fn = "SET_size" -> LongT(Cardinality(a[1].set))
    [] fn = "SET_in" -> BoolT(a[1] \in a[2].set)
    [] fn = "SET_remove" -> SetT(a[1].set \ {a[2]})
    [] fn = "get_fresh_constant" -> [t |-> "fresh", n |-> fresh]

-----------------------------------------------------------------------------
(* The generated function. *)
load(o) ==
  CASE o = Base -> Null
    [] o # Base /\ o[1][1] = "lit" /\ o[1][3] = "MINT.MInt 64" -> LongT(o[1][2])
    [] OTHER -> IF o \in DOMAIN env THEN env[o] ELSE Undefined
loads(s) == MapSeq(s, load)
stored(bs) == [o \in {b[1] : b \in bs} |-> (CHOOSE b \in bs : b[1] = o)[2]] @@ env
store(o, v) == stored({<<o, v>>})
Iter(o) == << <<"iter">> >> \o o

\* Decision.h, preprocess: how many choices can be open at once.
RECURSIVE choiceDepth(_)
children(n) ==
  CASE n.n \in {"fail", "leaf"} -> {}
    [] n.n \in {"switch", "switchlit", "checknull"} -> {e[2] : e \in ToSet(n.cases)} \union ToSet(n.dflt)
    [] OTHER -> {n.child}
\* Mutant: a choice inside another one is not counted.
choiceDepth_Flat(n) ==
  IF n.n = "iternext" THEN 1 ELSE MaxOf({0} \union {choiceDepth(c) : c \in children(n)})
choiceDepth(n) ==
  MaxOf({0} \union {choiceDepth(c) : c \in children(n)}) + IF n.n = "iternext" THEN 1 ELSE 0

Running(kinds) == status = "run" /\ node.n \in kinds
Unchanged == UNCHANGED <<prog, code, subject>>
Goto(n) == node' = n /\ UNCHANGED status

\* Mutant: without a choice the failure block goes back to the start of the function.
Fail_Restarts ==
  /\ Running({"fail"})
  /\ node' = IF choices = << >> THEN code.dt ELSE Last(choices)
  /\ choices' = IF choices = << >> THEN choices ELSE Front(choices)
  /\ loop' = None
  /\ Unchanged /\ UNCHANGED <<status, env, found, results, fresh>>

\* The failure block: resume the innermost choice; without one the function
\* is stuck.
Fail ==
  /\ Running({"fail"})
  /\ IF choices = << >> THEN status' = "stuck" /\ UNCHANGED <<node, choices>>
     ELSE /\ node' = Last(choices)
          /\ choices' = Front(choices)
          /\ UNCHANGED status
  /\ loop' = None
  /\ Unchanged /\ UNCHANGED <<env, found, results, fresh>>

\* switch_node::codegen
Matches(n, e, v) ==
  CASE n.n = "switch" -> tag(e[1]) = v.sym
    [] n.n = "switchlit" -> e[1] = IF v.t = "lit" THEN v.lit ELSE v.n
    [] n.n = "checknull" -> e[1] = IF v = Null THEN 0 ELSE 1
Taken(n, v) ==
  LET hits == IF n.cases = << >> THEN << >> ELSE Filter(n.cases, LAMBDA e : Matches(n, e, v))
  IN IF hits # << >> THEN << hits[1][2] >> ELSE n.dflt
\* Mutant: the end of the choices goes on to other rules though some were found.
SwitchStep_GoesOn ==
  /\ Running({"switch", "switchlit", "checknull"})
  /\ LET v == load(node.occ)
         hit == Taken(node, v)
         isCase == Taken([node EXCEPT !.dflt = None], v) # None
         entered == isCase /\ hit[1] # Failure
         leavesChoice == loop # None /\ Matches(node, <<0, Failure>>, v)
     IN /\ node' = IF hit = None THEN Failure ELSE hit[1]
        /\ choices' = IF entered /\ loop # None /\ ~leavesChoice THEN choices \o loop ELSE choices
        /\ env' = IF entered /\ node.n = "switch"
                  THEN stored({<<Num(i - 1, node.occ), v.args[i]>> : i \in DOMAIN v.args}) ELSE env
  /\ loop' = None
  /\ Unchanged /\ UNCHANGED <<found, results, status, fresh>>
SwitchStep ==
  /\ Running({"switch", "switchlit", "checknull"})
  /\ LET v == load(node.occ)
         hit == Taken(node, v)
         isCase == Taken([node EXCEPT !.dflt = None], v) # None
         entered == isCase /\ hit[1] # Failure
         leavesChoice == loop # None /\ Matches(node, <<0, Failure>>, v)
     IN /\ node' = IF hit = None \/ (entered /\ leavesChoice /\ found) THEN Failure ELSE hit[1]
        /\ choices' = IF entered /\ loop # None /\ ~leavesChoice THEN choices \o loop ELSE choices
        /\ env' = IF entered /\ node.n = "switch"
                  THEN stored({<<Num(i - 1, node.occ), v.args[i]>> : i \in DOMAIN v.args}) ELSE env
  /\ loop' = None
  /\ Unchanged /\ UNCHANGED <<found, results, status, fresh>>

\* make_pattern_node::codegen
MakePatternStep ==
  /\ Running({"pattern"})
  /\ LET At == [o \in {Some(x) : x \in DOMAIN env} |-> env[o[1]]]
     IN env' = store(node.occ, createTerm(node.pat, At))
  /\ Goto(node.child)
  /\ Unchanged /\ UNCHANGED <<choices, loop, found, results, fresh>>

\* function_node::codegen.  A side condition accepts some values of its first
\* variable.
sideCondition(ordinal, args) ==
  LET a == CHOOSE a \in ToSet(code.rules) : a.ordinal = ordinal IN BoolT(args[1] \in a.cond[1].accepts)
FunctionStep ==
  /\ Running({"function"})
  /\ env' = store(node.occ, IF node.fn = "side_condition" THEN sideCondition(node.occ[1][2], loads(node.args))
                            ELSE Hooked(node.fn, loads(node.args)))
  /\ fresh' = IF node.fn = "get_fresh_constant" THEN fresh + 1 ELSE fresh
  /\ Goto(node.child)
  /\ Unchanged /\ UNCHANGED <<choices, loop, found, results>>

\* make_iterator_node::codegen and iter_next_node::codegen.  The order of the
\* entries is the hash table's: any.
MakeIteratorStep ==
  /\ Running({"makeiter"})
  /\ LET v == load(node.occ)
     IN env' = store(Iter(node.occ), [t |-> "iter", rest |-> IF v.t = "set" THEN v.set ELSE DOMAIN v.m])
  /\ Goto(node.child)
  /\ Unchanged /\ UNCHANGED <<choices, loop, found, results, fresh>>
IterNextStep ==
  /\ Running({"iternext"})
  /\ LET rest == load(Iter(node.occ)).rest
     IN \/ /\ rest = {}
           /\ env' = store(node.binding, Null)
        \/ \E key \in rest :
             env' = stored({<<node.binding, key>>, <<Iter(node.occ), [t |-> "iter", rest |-> rest \ {key}]>>})
  /\ loop' = Some(node)
  /\ Goto(node.child)
  /\ Unchanged /\ UNCHANGED <<choices, found, results, fresh>>

\* leaf_node::codegen: a rule is applied to the values of its variables.
applied(n) == [ordinal |-> n.ordinal, subst |-> [x \in DOMAIN n.vars |-> load(n.vars[x])]]
LeafStep ==
  /\ Running({"leaf"})
  /\ results' = {applied(node)}
  /\ status' = "applied"
  /\ Unchanged /\ UNCHANGED <<node, env, choices, loop, found, fresh>>
SearchLeafStep ==
  /\ Running({"searchleaf"})
  /\ results' = results \union {applied(node)}
  /\ found' = TRUE
  /\ Goto(node.child)
  /\ Unchanged /\ UNCHANGED <<env, choices, loop, fresh>>

-----------------------------------------------------------------------------
(* Matching.scala compiles the rules; the functions make_step_function and  *)
(* make_eval_or_anywhere_function generate set up the arguments.            *)
Compiled(p) ==
  LET rules == parseTopAxioms(p.axioms, p.mode = "search")
      m == genClauseMatrix(rules, p.sorts, p.hs)
      special == IF p.mode = "special" THEN mkSpecialDecisionTree(m, Last(p.axioms), p.threshold) ELSE None
  IN [rules |-> rules,
      dt |-> CASE p.mode = "search" -> compileSearch(m)
               [] special # None -> special[1].dt
               [] OTHER -> compile(m),
      residuals |-> IF special = None THEN None ELSE Some(special[1].residuals),
      useless |-> checkUsefulness(m), missing |-> nonExhaustive(m)]
Compile ==
  /\ status = "axioms"
  /\ code' = Compiler(prog)
  /\ status' = "compiled"
  /\ UNCHANGED <<prog, subject, node, env, choices, loop, found, results, fresh>>
Start(args, arguments) ==
  /\ status = "compiled"
  /\ subject' = args
  /\ node' = code.dt
  /\ env' = arguments
  /\ status' = "run"
  /\ UNCHANGED <<prog, code, choices, loop, found, results, fresh>>
Call(args) == Start(args, [o \in {Num(i, Base) : i \in DOMAIN args} |-> args[o[1][2]]])
\* The specialised step gets the unknown parts of the term that the rule with
\* the substitution At left: make_step_function for an axiom.
rhsOf(At) == createTerm(genPattern(Last(prog.axioms).rhs), At)
Residuals(At) == IF code.residuals = None THEN { <<Num(1, Base), rhsOf(At)>> }
                 ELSE {<<e[2], createTerm(e[1], At)>> : e \in ToSet(code.residuals[1])}
Continue(At) ==
  Start(<< rhsOf(At) >>, [o \in {e[1] : e \in Residuals(At)} |-> (CHOOSE e \in Residuals(At) : e[1] = o)[2]])
\* make_partial_term: the term that a stuck specialised step returns.
RECURSIVE makePartialTerm(_, _)
\* Mutant: the parts are put back in the other order.
makePartialTerm_Order(p, o) ==
  IF \E e \in ToSet(code.residuals[1]) : e[2] = o THEN env[o]
  ELSE IF p.k = "lit" THEN LitT(p.lit)
  ELSE mkSym(p.sym, [i \in DOMAIN p.ps |-> makePartialTerm(p.ps[Len(p.ps) + 1 - i], Num(Len(p.ps) - i, o))])
makePartialTerm(p, o) ==
  IF \E e \in ToSet(code.residuals[1]) : e[2] = o THEN env[o]
  ELSE IF p.k = "lit" THEN LitT(p.lit)
  ELSE mkSym(p.sym, [i \in DOMAIN p.ps |-> makePartialTerm(p.ps[i], Num(i - 1, o))])

Init(progs) ==
  /\ prog \in progs
  /\ status = "axioms"
  /\ code = None /\ subject = << >> /\ node = Failure /\ env = << >> /\ choices = << >>
  /\ loop = None /\ found = FALSE /\ results = {} /\ fresh = 0

Run ==
  \/ Fail \/ SwitchStep \/ MakePatternStep \/ FunctionStep \/ MakeIteratorStep
  \/ IterNextStep \/ LeafStep \/ SearchLeafStep
=============================================================================
