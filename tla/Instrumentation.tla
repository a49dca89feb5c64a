-------------------------- MODULE Instrumentation ---------------------------
(***************************************************************************)
(* The code that create_term, leaf_node, function_node and make_function   *)
(* generate for a definition, with the events of the proof trace that      *)
(* proof_event weaves into it (CreateTerm.cpp, Decision.cpp,               *)
(* ProofEvent.cpp).                                                        *)
(*                                                                         *)
(* A pattern is a variable <<"var", x>>, a domain value <<"dv", s>> or an  *)
(* application <<symbol, arguments>>; a term has no variables.  Running    *)
(* the generated code gives the value, the events in the order in which    *)
(* they are written, and whether a partial function was undefined, which   *)
(* ends the interpreter.  Which rule matches is Decision's subject: here   *)
(* the rules of a symbol are tried in the order of their ordinals.         *)
(***************************************************************************)
EXTENDS Naturals, Sequences

CONSTANTS
    Signature,      \* for a symbol its kind, arity and hook
    Rules,          \* the axioms by ordinal: symbol, lhs, requires, rhs
    NameOrder,      \* the variables in the order of a std::map
    HashOrder       \* the same in the order of an llvm::StringMap

Sig == Signature
Axioms == Rules
None == <<"none", << >> >>
Tuple(f) == f \o << >>

RECURSIVE Flat(_)
Flat(seqs) ==
    CASE Len(seqs) = 0 -> << >>
      [] Len(seqs) = 1 -> seqs[1]
      [] OTHER -> LET half == Len(seqs) \div 2
                  IN Flat(SubSeq(seqs, 1, half)) \o Flat(SubSeq(seqs, half + 1, Len(seqs)))

IsVariable(t) == t[1] = "var"
IsToken(t) == t[1] = "dv"
Bool(b) == <<"dv", IF b THEN "true" ELSE "false">>

RECURSIVE mark_variables(_)
mark_variables(t) ==
    CASE IsVariable(t) -> {t[2]}
      [] IsToken(t) -> {}
      [] OTHER -> UNION {mark_variables(t[2][i]) : i \in DOMAIN t[2]}

InOrder(order, names) == SelectSeq(order, LAMBDA x : x \in names)

-----------------------------------------------------------------------------
(* The events.  A substitution is a function of the names.                 *)
HookEvent(name, symbol, location, args, term) ==
    [kind |-> "hook", name |-> name, symbol |-> symbol, location |-> location,
     args |-> args, term |-> term]
FunctionEvent(symbol, location, args) ==
    [kind |-> "function", symbol |-> symbol, location |-> location, args |-> args]
RuleEvent(ordinal, subst) == [kind |-> "rule", ordinal |-> ordinal, subst |-> subst]
SideConditionEvent(ordinal, subst) ==
    [kind |-> "side", ordinal |-> ordinal, subst |-> subst]
SideConditionEnd(ordinal, result) ==
    [kind |-> "side_end", ordinal |-> ordinal, result |-> result]
FailureEvent(symbol) == [kind |-> "failure", symbol |-> symbol]
FunctionExit(ordinal, is_tail) ==
    [kind |-> "exit", ordinal |-> ordinal, is_tail |-> is_tail]
ConfigEvent(term, initial) == [kind |-> "config", term |-> term, initial |-> initial]

(* Without the slow instrumentation the arguments of a function are not    *)
(* part of its event.                                                      *)
Recorded(e, slow) ==
    IF e.kind = "function" /\ ~slow THEN [e EXCEPT !.args = << >>] ELSE e

-----------------------------------------------------------------------------
Result(val, events) == [val |-> val, events |-> events, error |-> FALSE]
Preceded(events, r) == [r EXCEPT !.events = events \o @]

(* The pattern of a left-hand side against a term: the substitutions, none *)
(* or one.                                                                 *)
RECURSIVE Matches(_, _)
Matches(p, t) ==
    CASE IsVariable(p) -> {[x \in {p[2]} |-> t]}
      [] IsToken(p) -> IF p = t THEN {[x \in {} |-> t]} ELSE {}
      [] p[1] # t[1] -> {}
      [] OTHER ->
           LET ms == Tuple([i \in DOMAIN p[2] |-> Matches(p[2][i], t[2][i])])
           IN IF \E i \in DOMAIN ms : ms[i] = {} THEN {}
              ELSE LET one == [i \in DOMAIN ms |-> CHOOSE m \in ms[i] : TRUE]
                   IN {[x \in mark_variables(p) |->
                          LET i == CHOOSE i \in DOMAIN one : x \in DOMAIN one[i]
                          IN one[i][x]]}

(* alloc_arg, not_injection_case: where a subterm stands in the pattern.   *)
ArgLocation(location, idx) ==
    IF location = << >> THEN <<48 + idx>> ELSE location \o <<58, 48 + idx>>

(* An injection is not a position of its own.                              *)
\* Mutant: it is one.
InjectionLocation_Position(location) == ArgLocation(location, 0)
InjectionLocation(location) == location

(* The hooks that do not evaluate all of their arguments: which ones they  *)
(* do evaluate once the first is known.                                    *)
ShortCircuits(name) == name \in {"BOOL.and", "BOOL.or", "BOOL.implies", "KEQUAL.ite"}
Selected(name, first) ==
    CASE name = "KEQUAL.ite" -> IF first = Bool(TRUE) THEN <<1, 2>> ELSE <<1, 3>>
      [] name = "BOOL.or" -> IF first = Bool(TRUE) THEN <<1>> ELSE <<1, 2>>
      [] OTHER -> IF first = Bool(TRUE) THEN <<1, 2>> ELSE <<1>>

(* The value of a hook on the arguments it has evaluated.                  *)
create_hardcoded_hook(symbol, name, vals) ==
    CASE name = "KEQUAL.ite" -> vals[2]
      [] name \in {"BOOL.and", "BOOL.or"} -> vals[Len(vals)]
      [] name = "BOOL.implies" -> IF Len(vals) = 1 THEN Bool(TRUE) ELSE vals[2]
      [] name = "BOOL.not" -> Bool(vals[1] = Bool(FALSE))
      [] name = "KEQUAL.eq" -> Bool(vals[1] = vals[2])
      [] OTHER -> <<symbol, vals>>

hook_is_collection_unit_or_element(name) == name \in {"LIST.unit", "LIST.element"}

(* What create_hook records as arguments: for the hooks that short-circuit *)
(* the first argument and, for the branch taken, the result.               *)
HookArguments(name, vals, result) ==
    IF ShortCircuits(name)
    THEN IF Len(vals) = 1 THEN vals ELSE <<vals[1], result>>
    ELSE vals

RECURSIVE create_allocation(_, _, _), apply_rules(_, _, _)

(* The arguments with the given indices, in that order, up to one that     *)
(* ends the interpreter.                                                   *)
Evaluated(rs) ==
    LET bad == {i \in DOMAIN rs : rs[i].error}
        ran == IF bad = {} THEN DOMAIN rs
               ELSE 1..(CHOOSE i \in bad : \A j \in bad : i <= j)
    IN [val |-> [i \in DOMAIN rs |-> rs[i].val],
        events |-> Flat([i \in ran |-> rs[i].events]),
        error |-> bad # {}]
AllocArgs(t, s, location, indices) ==
    Evaluated(Tuple([i \in DOMAIN indices |->
        create_allocation(t[2][indices[i]], s, ArgLocation(location, indices[i] - 1))]))
All(t) == [i \in DOMAIN t[2] |-> i]

(* create_hook: the arguments and the value come first, the whole event    *)
(* after them.                                                             *)
IndicesAfter(name, first) ==
    IF first.error THEN <<1>> ELSE Selected(name, first.val)
HookIndices(t, s, location) ==
    IF ShortCircuits(Sig[t[1]].hook)
    THEN IndicesAfter(Sig[t[1]].hook,
                      create_allocation(t[2][1], s, ArgLocation(location, 0)))
    ELSE All(t)
HookOn(t, name, location, args) ==
    LET result == create_hardcoded_hook(t[1], name, args.val)
        event == HookEvent(name, t[1], location, HookArguments(name, args.val, result), result)
    IN CASE args.error -> args
         [] hook_is_collection_unit_or_element(name) -> Result(result, args.events)
         [] OTHER -> Result(result, Append(args.events, event))
create_hook(t, s, location) ==
    HookOn(t, Sig[t[1]].hook, location,
           AllocArgs(t, s, location, HookIndices(t, s, location)))

RulesOf(f) == SelectSeq([i \in DOMAIN Axioms |-> i], LAMBDA i : Axioms[i].symbol = f)
IsCall(t) == ~IsVariable(t) /\ ~IsToken(t) /\ Sig[t[1]].kind \in {"function", "anywhere"}

(* create_function_call: the arguments, the event, what the caller writes  *)
(* before the call, and the function.                                      *)
CallOn(t, location, args, before) ==
    IF args.error THEN args
    ELSE Preceded(Append(args.events, FunctionEvent(t[1], location, args.val)) \o before,
                  apply_rules(t[1], args.val, RulesOf(t[1])))
create_function_call(t, s, location, before) ==
    CallOn(t, location, AllocArgs(t, s, location, All(t)), before)

create_allocation(t, s, location) ==
    CASE IsVariable(t) -> Result(s[t[2]], << >>)
      [] IsToken(t) -> Result(t, << >>)
      [] Sig[t[1]].kind = "hook" -> create_hook(t, s, location)
      [] IsCall(t) -> create_function_call(t, s, location, << >>)
      [] Sig[t[1]].kind = "injection" ->
           [create_allocation(t[2][1], s, InjectionLocation(location))
              EXCEPT !.val = <<t[1], <<@>> >>]
      [] OTHER -> [AllocArgs(t, s, location, All(t)) EXCEPT !.val = <<t[1], @>>]

(* function_node: a side condition between its two events.                 *)
ConditionOn(r, s, e) ==
    LET pre == SideConditionEvent(r, [x \in mark_variables(Axioms[r].requires) |-> s[x]])
        all == <<pre>> \o e.events
    IN IF e.error THEN [e EXCEPT !.events = all]
       ELSE Result(e.val, Append(all, SideConditionEnd(r, e.val = Bool(TRUE))))
side_condition(r, s) ==
    IF Axioms[r].requires = None THEN Result(Bool(TRUE), << >>)
    ELSE ConditionOn(r, s, create_allocation(Axioms[r].requires, s, << >>))

(* The function of a rule (make_function): a rule of the top cell has no   *)
(* exit, a call in tail position exits the rule before the callee runs.    *)
ExitOn(r, e) ==
    IF e.error THEN e ELSE [e EXCEPT !.events = Append(@, FunctionExit(r, FALSE))]
apply_rule(r, s) ==
    LET rhs == Axioms[r].rhs
    IN CASE Axioms[r].symbol = "top" -> create_allocation(rhs, s, << >>)
         [] Axioms[r].symbol # "top" /\ IsCall(rhs) ->
              create_function_call(rhs, s, << >>, <<FunctionExit(r, TRUE)>>)
         [] OTHER -> ExitOn(r, create_allocation(rhs, s, << >>))

(* leaf_node: the rule with the values of its variables.                   *)
rewrite_event_pre(r, s) ==
    RuleEvent(r, [x \in mark_variables(<<"lhs", Axioms[r].lhs>>)
                        \cup mark_variables(Axioms[r].rhs) |-> s[x]])

(* The function of a symbol: a rule whose side condition fails is followed *)
(* by the next; without a rule an anywhere symbol is rebuilt (add_owise)   *)
(* and a function ends the interpreter (abort_when_stuck); the step        *)
(* function returns the configuration.                                     *)
NoRule(f, vals) ==
    CASE f = "top" -> Result(vals[1], << >>)
      [] f # "top" /\ Sig[f].kind = "anywhere" -> Result(<<f, vals>>, <<FailureEvent(f)>>)
      [] OTHER -> [val |-> <<f, vals>>, events |-> << >>, error |-> TRUE]
RuleOn(f, vals, rules, s, c) ==
    CASE c.error -> c
      [] c.val = Bool(FALSE) -> Preceded(c.events, apply_rules(f, vals, Tail(rules)))
      [] OTHER -> Preceded(Append(c.events, rewrite_event_pre(Head(rules), s)),
                           apply_rule(Head(rules), s))
Matched(f, vals, rules, ms) ==
    IF ms = {} THEN apply_rules(f, vals, Tail(rules))
    ELSE LET s == CHOOSE m \in ms : TRUE
         IN RuleOn(f, vals, rules, s, side_condition(Head(rules), s))
apply_rules(f, vals, rules) ==
    IF rules = << >> THEN NoRule(f, vals)
    ELSE Matched(f, vals, rules, Matches(<<f, Axioms[Head(rules)].lhs>>, <<f, vals>>))
=============================================================================
