---------------------------- MODULE TraceParser -----------------------------
(***************************************************************************)
(* The parsers of proof traces over a buffer (deserializer.h,              *)
(* ProofTraceParser.h, ProofTraceParser.cpp).  d is the data and p how far *)
(* it is read.  A parsing function ends "ok" with a value, "null" when it  *)
(* returns nothing, or "throw".  The memory buffer and the file buffer     *)
(* differ only in what they do after the end of the data.                  *)
(***************************************************************************)
EXTENDS ProofTrace

Ok(p, v) == [st |-> "ok", p |-> p, v |-> v]
Null(p) == [st |-> "null", p |-> p, v |-> None]
Throw(p) == [st |-> "throw", p |-> p, v |-> None]

eof(d, p) == p = Len(d)
has_word(d, p) == Len(d) - p >= WordBytes
peek_word(d, p) == SubSeq(d, p + 1, p + WordBytes)
read_number(d, p, width) == IF Len(d) - p < width THEN Null(p) ELSE Ok(p + width, d[p + 1])
read_uint64(d, p) == read_number(d, p, WordBytes)
read_uint32(d, p) == read_number(d, p, HalfBytes)
read_bool(d, p) == IF eof(d, p) THEN Null(p) ELSE Ok(p + 1, d[p + 1] # 0)
check_word(d, p, w) == has_word(d, p) /\ peek_word(d, p) = w
read_string(d, p) ==
    LET ends == {i \in (p + 1)..Len(d) : d[i] = 0}
        end == CHOOSE i \in ends : \A j \in ends : i <= j
    IN IF ends = {} THEN Null(p) ELSE Ok(end, SubSeq(d, p + 1, end - 1))

(* A parsing function reads its parts one after the other: c is what has   *)
(* been read so far, and the first part that fails ends it.                *)
From(p) == Ok(p, << >>)
And(c, r) == IF r.st = "ok" THEN Ok(r.p, Append(c.v, r.v)) ELSE r
ReadString(d, c) == IF c.st = "ok" THEN And(c, read_string(d, c.p)) ELSE c
ReadNumber(d, c) == IF c.st = "ok" THEN And(c, read_uint64(d, c.p)) ELSE c
ReadBool(d, c) == IF c.st = "ok" THEN And(c, read_bool(d, c.p)) ELSE c

RECURSIVE read_v2(_, _), ReadChildren(_, _, _, _)
(* The byte after a string is skipped without a look.                      *)
StringOf(d, p, len, end) ==
    IF len.st # "ok" \/ Len(d) < end THEN Throw(p)
    ELSE Ok(IF end < Len(d) THEN end + 1 ELSE end, NameOf(SubSeq(d, len.p + 1, end)))
SymbolOf(d, p, offset) ==
    IF offset.st # "ok" THEN Throw(p)
    ELSE ReadChildren(d, From(offset.p), NameOf(<<offset.v>>), Sig[NameOf(<<offset.v>>)].arity)
read_v2(d, p) ==
    CASE eof(d, p) -> Throw(p)
      [] ~eof(d, p) /\ d[p + 1] = 0 ->
           LET len == read_uint64(d, p + 1) IN StringOf(d, p, len, len.p + len.v)
      [] OTHER -> SymbolOf(d, p, read_uint32(d, p + 1))
ReadChildren(d, c, symbol, n) ==
    CASE c.st # "ok" -> c
      [] n = 0 -> Ok(c.p, IF symbol = "dv" THEN <<"dv", c.v[1]>> ELSE <<symbol, c.v>>)
      [] OTHER -> ReadChildren(d, And(c, read_v2(d, c.p)), symbol, n - 1)

parse_kore_term(d, p) ==
    IF Len(d) - p < 4 \/ SubSeq(d, p + 1, p + 4) # TermMagic THEN Null(p)
    ELSE read_v2(d, p + 4)

parse_argument(d, p) ==
    IF eof(d, p) \/ d[p + 1] # 127 THEN Null(p) ELSE parse_kore_term(d, p)

ReadTerm(d, c) == IF c.st = "ok" THEN And(c, parse_kore_term(d, c.p)) ELSE c

(* The arguments up to the word that ends them, and that word.             *)
RECURSIVE ParseArguments(_, _, _)
ParseArguments(d, c, sentinel) ==
    CASE c.st # "ok" -> c
      [] check_word(d, c.p, sentinel) -> Ok(c.p + WordBytes, c.v)
      [] OTHER -> ParseArguments(d, And(c, parse_argument(d, c.p)), sentinel)
ReadArguments(d, c, sentinel) ==
    IF c.st = "ok" THEN And(c, ParseArguments(d, From(c.p), sentinel)) ELSE c

(* parse_variable, arity times; a name seen before keeps its first term.   *)
Extended(subst, x, term) ==
    [y \in DOMAIN subst \cup {x} |-> IF y \in DOMAIN subst THEN subst[y] ELSE term]
parse_variable(subst, c) ==
    IF c.st = "ok" THEN Ok(c.p, Extended(subst, NameOf(c.v[1]), c.v[2])) ELSE c
RECURSIVE ParseVariables(_, _, _)
\* Mutant: the end of the data ends the substitution.
ParseVariables_Eof(d, c, arity) ==
    IF c.st # "ok" \/ arity = 0 \/ eof(d, c.p) THEN c
    ELSE ParseVariables(d, parse_variable(c.v, ReadTerm(d, ReadString(d, From(c.p)))), arity - 1)
ParseVariables(d, c, arity) ==
    IF c.st # "ok" \/ arity = 0 THEN c
    ELSE ParseVariables(d, parse_variable(c.v, ReadTerm(d, ReadString(d, From(c.p)))), arity - 1)
ReadVariables(d, c) ==
    IF c.st = "ok" THEN And(c, ParseVariables(d, Ok(c.p, NoSubst), c.v[2])) ELSE c

HookFrom(c) ==
    IF c.st # "ok" THEN c
    ELSE Ok(c.p, HookEvent(NameOf(c.v[1]), NameOf(c.v[2]), c.v[3], c.v[4], c.v[5]))
parse_hook(d, p) ==
    HookFrom(ReadTerm(d, ReadArguments(d,
        ReadString(d, ReadString(d, ReadString(d, From(p)))), hook_result_sentinel)))

FunctionFrom(c) ==
    IF c.st # "ok" THEN c ELSE Ok(c.p, FunctionEvent(NameOf(c.v[1]), c.v[2], c.v[3]))
parse_function(d, p) ==
    FunctionFrom(ReadArguments(d, ReadString(d, ReadString(d, From(p))), function_end_sentinel))

(* parse_rule, parse_side_condition.                                       *)
RuleFrom(c, side) ==
    IF c.st # "ok" THEN c
    ELSE Ok(c.p, IF side THEN SideConditionEvent(c.v[1], c.v[3]) ELSE RuleEvent(c.v[1], c.v[3]))
parse_rule(d, p, side) ==
    RuleFrom(ReadVariables(d, ReadNumber(d, ReadNumber(d, From(p)))), side)

(* parse_side_condition_end, parse_function_exit.                          *)
ExitFrom(c, side) ==
    IF c.st # "ok" THEN c
    ELSE Ok(c.p, IF side THEN SideConditionEnd(c.v[1], c.v[2]) ELSE FunctionExit(c.v[1], c.v[2]))
parse_exit(d, p, side) == ExitFrom(ReadBool(d, ReadNumber(d, From(p))), side)

FailureFrom(c) == IF c.st # "ok" THEN c ELSE Ok(c.p, FailureEvent(NameOf(c.v[1])))
parse_pattern_matching_failure(d, p) == FailureFrom(ReadString(d, From(p)))

ConfigFrom(c, initial) == IF c.st # "ok" THEN c ELSE Ok(c.p, ConfigEvent(c.v[1], initial))
parse_config(d, p, initial) ==
    IF check_word(d, p, config_sentinel)
    THEN ConfigFrom(ReadTerm(d, From(p + WordBytes)), initial) ELSE Null(p)

parse_event(d, p) ==
    LET w == peek_word(d, p)
        q == p + WordBytes
    IN CASE ~has_word(d, p) -> Null(p)
         [] w = config_sentinel -> parse_config(d, p, FALSE)
         [] w = hook_event_sentinel -> parse_hook(d, q)
         [] w = function_event_sentinel -> parse_function(d, q)
         [] w = rule_event_sentinel -> parse_rule(d, q, FALSE)
         [] w = side_condition_event_sentinel -> parse_rule(d, q, TRUE)
         [] w = side_condition_end_sentinel -> parse_exit(d, q, TRUE)
         [] w = pattern_matching_failure_sentinel -> parse_pattern_matching_failure(d, q)
         [] w = function_exit_sentinel -> parse_exit(d, q, FALSE)
         [] OTHER -> Null(p)

(* parse_header: the kind of the file, if it has one.                      *)
HeaderSize == 4 + HalfBytes
parse_header(d) ==
    LET magic == SubSeq(d, 1, 4)
    IN IF Len(d) < HeaderSize \/ d[5] # Version THEN "none"
       ELSE CASE magic = HINT -> "Hint"
              [] magic = PTRC -> "PreTrace"
              [] magic = CHNK -> "Chunk"
              [] OTHER -> "none"

-----------------------------------------------------------------------------
(* A parse so far: where it is, the events, whether the initial            *)
(* configuration has been read, and how it ended.                          *)
Begin(initial) == [p |-> HeaderSize, events |-> << >>, initial |-> initial, st |-> "go"]

(* One round of the loops of parse_trace.                                  *)
AtConfig(d, p) == ~has_word(d, p) \/ peek_word(d, p) = config_sentinel
RoundWith(r, e, config) ==
    IF e.st # "ok" THEN [r EXCEPT !.st = e.st]
    ELSE [r EXCEPT !.p = e.p, !.events = Append(@, e.v), !.initial = @ \/ config]
ParseRound(d, r) ==
    CASE r.initial /\ eof(d, r.p) -> [r EXCEPT !.st = "ok"]
      [] ~r.initial /\ AtConfig(d, r.p) -> RoundWith(r, parse_config(d, r.p, TRUE), TRUE)
      [] OTHER -> RoundWith(r, parse_event(d, r.p), FALSE)

(* llvm_rewrite_trace_iterator::get_next_event: the end of the data ends   *)
(* the iteration also before the initial configuration.                    *)
StreamRound(d, r) == IF eof(d, r.p) THEN [r EXCEPT !.st = "ok"] ELSE ParseRound(d, r)

RECURSIVE ParseLoop(_, _, _), ParseMore(_, _, _), StreamLoop(_, _, _), StreamMore(_, _, _)
ParseMore(d, r, n) == IF r.st # "go" THEN r ELSE ParseLoop(d, r, n)
ParseLoop(d, r, n) ==
    IF n = 1 THEN ParseRound(d, r)
    ELSE ParseMore(d, ParseLoop(d, r, n \div 2), n - (n \div 2))
StreamMore(d, r, n) == IF r.st # "go" THEN r ELSE StreamLoop(d, r, n)
StreamLoop(d, r, n) ==
    IF n = 1 THEN StreamRound(d, r)
    ELSE StreamMore(d, StreamLoop(d, r, n \div 2), n - (n \div 2))

(* parse_trace: the events of a file with its kind's loops.                *)
parse_trace(d) ==
    LET kind == parse_header(d)
    IN IF kind = "none" THEN [Begin(FALSE) EXCEPT !.st = "null"]
       ELSE ParseLoop(d, Begin(kind = "Chunk"), Len(d))

(* The streaming parser, which takes whole traces only.                    *)
stream_trace(d) ==
    IF parse_header(d) # "Hint" THEN [Begin(FALSE) EXCEPT !.st = "throw"]
    ELSE StreamLoop(d, Begin(FALSE), Len(d))
=============================================================================
