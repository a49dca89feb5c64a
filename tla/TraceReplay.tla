---------------------------- MODULE TraceReplay -----------------------------
(***************************************************************************)
(* What a proof trace promises its reader: the events determine the run.   *)
(* The reader has the initial configuration and the definition; it matches *)
(* nothing and evaluates no hook and no condition but takes the rules,     *)
(* their substitutions, and the results of hooks and of conditions from    *)
(* the events, and checks that every event stands where the definition     *)
(* says.                                                                   *)
(***************************************************************************)
EXTENDS TraceParser

(* The positions in a location.                                            *)
parse_relative_location(text) ==
    LET digits == SelectSeq(text, LAMBDA c : c # 58) IN [i \in DOMAIN digits |-> digits[i] - 48]

RECURSIVE Instance(_, _)
Instance(p, s) ==
    CASE IsVariable(p) -> s[p[2]]
      [] IsToken(p) -> p
      [] OTHER -> <<p[1], Tuple([i \in DOMAIN p[2] |-> Instance(p[2][i], s)])>>

Read(val, rest) == [ok |-> TRUE, val |-> val, rest |-> rest]
Refuted == [ok |-> FALSE, val |-> None, rest |-> << >>]
Next1(es, kind) == es # << >> /\ Head(es).kind = kind

(* An event of the given symbol and arguments at the given positions.      *)
Stands(e, symbol, at, args) ==
    e.symbol = symbol /\ parse_relative_location(e.location) = at /\ e.args = args

RECURSIVE ReplayTerm(_, _, _, _, _, _), ReplayCall(_, _, _, _), ReplayArgs(_, _, _, _, _, _)

(* The arguments with the given indices, after the ones in so.             *)
ArgAfter(so, arg) == IF arg.ok THEN Read(Append(so.val, arg.val), arg.rest) ELSE Refuted
ReplayArgs(t, s, at, indices, slow, so) ==
    IF ~so.ok \/ indices = << >> THEN so
    ELSE ReplayArgs(t, s, at, Tail(indices), slow,
             ArgAfter(so, ReplayTerm(t[2][Head(indices)], s, Append(at, Head(indices) - 1),
                                     so.rest, slow, 0)))
ReplayRest(t, s, at, slow, one) ==
    IF ~one.ok THEN one
    ELSE ReplayArgs(t, s, at, Tail(Selected(Sig[t[1]].hook, one.val[1])), slow, one)
ReplayArguments(t, s, at, es, slow) ==
    IF Sig[t[1]].kind = "hook" /\ ShortCircuits(Sig[t[1]].hook)
    THEN ReplayRest(t, s, at, slow, ReplayArgs(t, s, at, <<1>>, slow, Read(<< >>, es)))
    ELSE ReplayArgs(t, s, at, All(t), slow, Read(<< >>, es))

(* The term t under s at the position at; exit is the ordinal of the rule  *)
(* of a function whose right-hand side it is, which must say that it exits *)
(* before the call in tail position and otherwise after its last event.    *)
Exits(r, exit, is_tail) ==
    CASE exit = 0 \/ ~r.ok -> r
      [] exit # 0 /\ r.ok /\ r.rest # << >> /\ Head(r.rest) = FunctionExit(exit, is_tail) ->
           Read(r.val, Tail(r.rest))
      [] OTHER -> Refuted
CallAfter(f, enter, slow) ==
    IF enter.ok THEN ReplayCall(f, enter.val, enter.rest, slow) ELSE Refuted
ReplayApplied(t, at, slow, exit, args) ==
    LET sym == Sig[t[1]]
    IN CASE ~args.ok -> Refuted
         [] \/ sym.kind = "constructor"
            \/ sym.kind = "hook" /\ hook_is_collection_unit_or_element(sym.hook) ->
              Exits(Read(<<t[1], args.val>>, args.rest), exit, FALSE)
         [] /\ sym.kind = "hook" /\ Next1(args.rest, "hook")
            /\ Stands(Head(args.rest), t[1], at, args.val) ->
              Exits(Read(Head(args.rest).term, Tail(args.rest)), exit, FALSE)
         [] /\ sym.kind # "hook" /\ Next1(args.rest, "function")
            /\ Stands(Head(args.rest), t[1], at, IF slow THEN args.val ELSE << >>) ->
              CallAfter(t[1], Exits(Read(args.val, Tail(args.rest)), exit, TRUE), slow)
         [] OTHER -> Refuted
ReplayTerm(t, s, at, es, slow, exit) ==
    CASE IsVariable(t) -> Exits(Read(s[t[2]], es), exit, FALSE)
      [] IsToken(t) -> Exits(Read(t, es), exit, FALSE)
      [] Sig[t[1]].kind = "injection" ->
           Exits([ReplayTerm(t[2][1], s, at, es, slow, 0) EXCEPT !.val = <<t[1], <<@>> >>],
                 exit, FALSE)
      [] OTHER -> ReplayApplied(t, at, slow, exit, ReplayArguments(t, s, at, es, slow))

(* A call of f, or with f = "top" a step: conditions that failed, then the *)
(* rule with, if it has one, its condition, or the failure of the match;   *)
(* the last step finds no rule.                                            *)
Agrees(cond, e) ==
    /\ cond.ok /\ Next1(cond.rest, "side_end")
    /\ Head(cond.rest).ordinal = e.ordinal
    /\ cond.val = Bool(Head(cond.rest).result)
    /\ Head(cond.rest).result =>
         /\ Next1(Tail(cond.rest), "rule")
         /\ cond.rest[2].ordinal = e.ordinal
         /\ \A x \in DOMAIN e.subst : cond.rest[2].subst[x] = e.subst[x]
AfterCondition(f, vals, e, slow, cond) ==
    IF Agrees(cond, e) THEN ReplayCall(f, vals, Tail(cond.rest), slow) ELSE Refuted
ReplayCall(f, vals, es, slow) ==
    LET e == Head(es)
        axiom == Axioms[e.ordinal]
    IN CASE Next1(es, "failure") /\ e.symbol = f -> Read(<<f, vals>>, Tail(es))
         [] Next1(es, "side") /\ axiom.symbol = f ->
              AfterCondition(f, vals, e, slow,
                             ReplayTerm(axiom.requires, e.subst, << >>, Tail(es), slow, 0))
         [] /\ Next1(es, "rule") /\ axiom.symbol = f
            /\ Instance(<<f, axiom.lhs>>, e.subst) = <<f, vals>> ->
              ReplayTerm(axiom.rhs, e.subst, << >>, Tail(es), slow,
                         IF f = "top" THEN 0 ELSE e.ordinal)
         [] f = "top" /\ (es = << >> \/ Next1(es, "config")) -> Read(vals[1], es)
         [] OTHER -> Refuted

(* The steps from a configuration; a configuration event restates it.      *)
RECURSIVE ReplaySteps(_, _)
ReplaySteps(step, slow) ==
    CASE ~step.ok \/ step.rest = << >> -> step
      [] /\ step.ok /\ Next1(step.rest, "config")
         /\ Head(step.rest).term = step.val -> ReplaySteps(Read(step.val, Tail(step.rest)), slow)
      [] step.ok /\ step.rest # << >> /\ ~Next1(step.rest, "config") ->
           ReplaySteps(ReplayCall("top", <<step.val>>, step.rest, slow), slow)
      [] OTHER -> Refuted
=============================================================================
