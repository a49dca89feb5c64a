----------------------------- MODULE ProofTrace -----------------------------
(***************************************************************************)
(* The two writers of the proof trace (proof_trace_writer.h) and the two   *)
(* parsers of its files (ProofTraceParser.h, ProofTraceParser.cpp).        *)
(*                                                                         *)
(* A file is a sequence of bytes.  A name takes one byte, above 255; a     *)
(* number its low byte and zeros; a word has WordBytes bytes (8 in the     *)
(* code) and a uint32_t HalfBytes (4).                                     *)
(***************************************************************************)
EXTENDS Instrumentation

CONSTANTS
    Names,          \* every symbol, hook, variable and token
    WordBytes, HalfBytes

Version == 13
Letters == Names
CodeOf == [n \in {Letters[i] : i \in DOMAIN Letters} |->
             255 + (CHOOSE i \in DOMAIN Letters : Letters[i] = n)] 
NameOf(chars) == Letters[chars[1] - 255]
NoSubst == [x \in {} |-> None]

-----------------------------------------------------------------------------
(* The calls of the writer's methods that an event's code makes            *)
(* (proof_event).                                                          *)
Call(op) == [op |-> op]
TermCall(op, term) == [op |-> op, term |-> term]
Variables(order, subst) ==
    LET xs == InOrder(order, DOMAIN subst)
    IN [i \in DOMAIN xs |-> [op |-> "variable", name |-> xs[i], term |-> subst[xs[i]]]]
Arguments(args) == [i \in DOMAIN args |-> TermCall("argument", args[i])]
RuleCall(op, e) == [op |-> op, ordinal |-> e.ordinal, arity |-> Len(InOrder(NameOrder, DOMAIN e.subst))]

calls(e, slow) ==
    CASE e.kind = "hook" ->
           <<[op |-> "hook_event_pre", name |-> e.name, symbol |-> e.symbol,
              location |-> e.location]>>
           \o Arguments(e.args) \o <<TermCall("hook_event_post", e.term)>>
      [] e.kind = "function" ->
           <<[op |-> "function_event_pre", symbol |-> e.symbol, location |-> e.location]>>
           \o (IF slow THEN Arguments(e.args) ELSE << >>) \o <<Call("function_event_post")>>
      [] e.kind = "rule" ->
           <<RuleCall("rewrite_event_pre", e)>> \o Variables(HashOrder, e.subst)
      [] e.kind = "side" ->
           <<RuleCall("side_condition_event_pre", e)>> \o Variables(NameOrder, e.subst)
      [] e.kind = "side_end" -> <<[op |-> "side_condition_event_post",
                                   ordinal |-> e.ordinal, result |-> e.result]>>
      [] e.kind = "failure" -> <<[op |-> "pattern_matching_failure", symbol |-> e.symbol]>>
      [] e.kind = "exit" -> <<[op |-> "function_exit",
                               ordinal |-> e.ordinal, is_tail |-> e.is_tail]>>
      [] e.kind = "config" /\ slow /\ ~e.initial -> <<TermCall("rewrite_event_post", e.term)>>
      [] e.kind = "config" -> <<[op |-> "configuration", term |-> e.term,
                                 is_initial |-> e.initial]>>

-----------------------------------------------------------------------------
(* proof_trace_file_writer.                                                *)
Word(byte) == [i \in 1..WordBytes |-> byte]
Number(n, width) == [i \in 1..width |-> IF i = 1 THEN n ELSE 0]
write_uint64(n) == Number(n, WordBytes)
write_uint32(n) == Number(n, HalfBytes)
write_bool(b) == <<IF b THEN 1 ELSE 0>>
write_name(n) == <<CodeOf[n], 0>>
write_location(chars) == Append(chars, 0)

config_sentinel == Word(255)
function_event_sentinel == Word(221)
function_end_sentinel == Word(17)
hook_event_sentinel == Word(170)
hook_result_sentinel == Word(187)
rule_event_sentinel == Word(34)
side_condition_event_sentinel == Word(238)
side_condition_end_sentinel == Word(51)
pattern_matching_failure_sentinel == Word(68)
function_exit_sentinel == Word(85)

(* A term in the second version of the binary format: a domain value is    *)
(* the symbol \dv on a string, which carries its length and a zero.        *)
RECURSIVE TermNodes(_)
TermNodes(t) ==
    IF IsToken(t)
    THEN <<1>> \o write_uint32(CodeOf["dv"]) \o <<0>> \o write_uint64(1) \o write_name(t[2])
    ELSE <<1>> \o write_uint32(CodeOf[t[1]])
         \o Flat(Tuple([i \in DOMAIN t[2] |-> TermNodes(t[2][i])]))
TermMagic == <<127, 75, 82, 50>>
serialize_term_to_proof_trace(t) == TermMagic \o TermNodes(t)

(* print_statistics writes to output_file, which is the writer's file.     *)
StatisticsText == <<49, 10>>

(* What one call appends to the current file.                              *)
Written(c) ==
    CASE c.op = "hook_event_pre" -> hook_event_sentinel \o write_name(c.name)
                \o write_name(c.symbol) \o write_location(c.location)
      [] c.op = "hook_event_post" -> hook_result_sentinel
                \o serialize_term_to_proof_trace(c.term)
      [] c.op = "argument" -> serialize_term_to_proof_trace(c.term)
      [] c.op = "rewrite_event_pre" -> rule_event_sentinel
                \o write_uint64(c.ordinal) \o write_uint64(c.arity)
      [] c.op = "variable" -> write_name(c.name) \o serialize_term_to_proof_trace(c.term)
      [] c.op = "function_event_pre" -> function_event_sentinel
                \o write_name(c.symbol) \o write_location(c.location)
      [] c.op = "function_event_post" -> function_end_sentinel
      [] c.op = "side_condition_event_pre" -> side_condition_event_sentinel
                \o write_uint64(c.ordinal) \o write_uint64(c.arity)
      [] c.op = "side_condition_event_post" -> side_condition_end_sentinel
                \o write_uint64(c.ordinal) \o write_bool(c.result)
      [] c.op = "pattern_matching_failure" -> pattern_matching_failure_sentinel
                \o write_name(c.symbol)
      [] c.op = "function_exit" -> function_exit_sentinel
                \o write_uint64(c.ordinal) \o write_bool(c.is_tail)
      [] c.op \in {"configuration", "rewrite_event_post"} -> config_sentinel \o serialize_term_to_proof_trace(c.term)
      [] c.op = "statistics" -> StatisticsText
      [] OTHER -> << >>

HINT == <<72, 73, 78, 84>>
PTRC == <<80, 84, 82, 67>>
CHNK == <<67, 72, 78, 75>>

proof_trace_header(chunk_size) ==
    (IF chunk_size = 0 THEN HINT ELSE PTRC) \o write_uint32(Version)

\* Mutant: the version is not kept for the chunks.
start_new_chunk_Unversioned(files) == Append(files, CHNK \o write_uint32(0))
start_new_chunk(files) == Append(files, CHNK \o write_uint32(Version))

FileCall(files, c, chunk_size) ==
    LET fs == [files EXCEPT ![Len(files)] = @ \o Written(c)]
    IN IF \/ c.op = "configuration" /\ chunk_size > 0 /\ c.is_initial
          \/ c.op = "start_new_chunk"
       THEN start_new_chunk(fs) ELSE fs

RECURSIVE FileCalls(_, _, _)
FileCalls(files, cs, chunk_size) ==
    CASE Len(cs) = 0 -> files
      [] Len(cs) = 1 -> FileCall(files, cs[1], chunk_size)
      [] OTHER -> LET half == Len(cs) \div 2
                      fs == FileCalls(files, SubSeq(cs, 1, half), chunk_size)
                  IN IF fs = << >> THEN fs
                     ELSE FileCalls(fs, SubSeq(cs, half + 1, Len(cs)), chunk_size)

-----------------------------------------------------------------------------
(* proof_trace_callback_writer: the two events under construction, the     *)
(* pending flag, which the constructor does not set, and the events handed *)
(* to the callbacks so far.                                                *)
NewCallbackWriter(pending) ==
    [name |-> "", symbol |-> "", location |-> << >>, args |-> << >>,
     ordinal |-> 0, arity |-> 0, pos |-> 0, substitution |-> << >>,
     rewrite_callback_pending |-> pending, out |-> << >>]

Deliver(w, e) == [w EXCEPT !.out = Append(@, e)]
(* A substitution vector as the map it stands for.                         *)
AsSubst(vec) == [x \in {vec[i].name : i \in DOMAIN vec} |->
                   LET i == CHOOSE i \in DOMAIN vec : vec[i].name = x IN vec[i].term]
rewrite_event_callback(w) == Deliver(w, RuleEvent(w.ordinal, AsSubst(w.substitution)))
side_condition_event_callback(w) ==
    Deliver(w, SideConditionEvent(w.ordinal, AsSubst(w.substitution)))

(* vector::resize keeps the entries it has room for.                       *)
Resized(vec, n) ==
    [i \in 1..n |-> IF i <= Len(vec) THEN vec[i] ELSE [name |-> "", term |-> None]]
reinitialize(w, c) ==
    [w EXCEPT !.ordinal = c.ordinal, !.arity = c.arity, !.pos = 0,
              !.substitution = Resized(@, c.arity)]

\* Mutant: the flag stays set once the variables are complete.
CallbackVariable_Pending(w, c) ==
    LET v == [w EXCEPT !.substitution[w.pos + 1] = [name |-> c.name, term |-> c.term],
                       !.pos = @ + 1]
    IN CASE v.pos # v.arity -> v
         [] v.rewrite_callback_pending -> rewrite_event_callback(v)
         [] OTHER -> side_condition_event_callback(v)
CallbackVariable(w, c) ==
    LET v == [w EXCEPT !.substitution[w.pos + 1] = [name |-> c.name, term |-> c.term],
                       !.pos = @ + 1]
    IN CASE v.pos # v.arity -> v
         [] v.rewrite_callback_pending ->
              [rewrite_event_callback(v) EXCEPT !.rewrite_callback_pending = FALSE]
         [] OTHER -> side_condition_event_callback(v)

CallbackCall(w, c) ==
    CASE c.op = "hook_event_pre" ->
           [w EXCEPT !.name = c.name, !.symbol = c.symbol, !.location = c.location,
                     !.args = << >>]
      [] c.op = "function_event_pre" ->
           [w EXCEPT !.name = "", !.symbol = c.symbol, !.location = c.location,
                     !.args = << >>]
      [] c.op = "argument" -> [w EXCEPT !.args = Append(@, c.term)]
      [] c.op = "hook_event_post" ->
           Deliver(w, HookEvent(w.name, w.symbol, w.location, w.args, c.term))
      [] c.op = "function_event_post" ->
           Deliver(w, FunctionEvent(w.symbol, w.location, w.args))
      [] c.op = "rewrite_event_pre" ->
           IF c.arity = 0 THEN rewrite_event_callback(reinitialize(w, c))
           ELSE [reinitialize(w, c) EXCEPT !.rewrite_callback_pending = TRUE]
      [] c.op = "side_condition_event_pre" ->
           IF c.arity = 0 THEN side_condition_event_callback(reinitialize(w, c))
           ELSE reinitialize(w, c)
      [] c.op = "variable" -> CallbackVariable(w, c)
      [] c.op = "side_condition_event_post" ->
           Deliver(w, SideConditionEnd(c.ordinal, c.result))
      [] c.op = "pattern_matching_failure" -> Deliver(w, FailureEvent(c.symbol))
      [] c.op = "function_exit" -> Deliver(w, FunctionExit(c.ordinal, c.is_tail))
      [] c.op = "configuration" -> Deliver(w, ConfigEvent(c.term, c.is_initial))
      [] c.op = "rewrite_event_post" -> Deliver(w, ConfigEvent(c.term, FALSE))
      [] OTHER -> w

RECURSIVE CallbackCalls(_, _)
CallbackCalls(w, cs) ==
    CASE Len(cs) = 0 -> w
      [] Len(cs) = 1 -> CallbackCall(w, cs[1])
      [] OTHER -> LET half == Len(cs) \div 2
                      v == CallbackCalls(w, SubSeq(cs, 1, half))
                  IN IF v.arity < 0 THEN v ELSE CallbackCalls(v, SubSeq(cs, half + 1, Len(cs)))
=============================================================================
