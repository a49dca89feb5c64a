------------------------------ MODULE Tracing -------------------------------
(***************************************************************************)
(* An interpreter that runs with a proof trace: main (main.ll), the        *)
(* construction of the initial configuration (ConfigurationParser.cpp),    *)
(* the steps (llvm_header.inc), finish_rewriting (finish_rewriting.cpp),   *)
(* and a crash between any two bytes of the trace.                         *)
(***************************************************************************)
EXTENDS TraceReplay, Integers

CONSTANTS
    Options,        \* slow, chunk_size, depth (-1 none), statistics, safe_partial, writer
    Inputs          \* the initial configurations, possibly with calls

VARIABLES
    options,
    phase,          \* start, step, done, error, crashed
    subject,        \* the configuration
    steps, depth,
    events,         \* the events of the run
    files,          \* the files of the file writer
    callback,       \* the state of the callback writer
    flushed         \* the trace before the last action: files and bytes

vars == <<options, phase, subject, steps, depth, events, files, callback, flushed>>

(* The events of an action and the calls of the writer's methods it makes. *)
EventCalls(es) == Flat([i \in DOMAIN es |-> calls(es[i], options.slow)])
Record(es, cs) ==
    /\ events' = events \o Tuple([i \in DOMAIN es |-> Recorded(es[i], options.slow)])
    /\ flushed' = <<Len(files), Len(files[Len(files)])>>
    /\ IF options.writer = "file"
       THEN files' = FileCalls(files, cs, options.chunk_size) /\ UNCHANGED callback
       ELSE callback' = CallbackCalls(callback, cs) /\ UNCHANGED files

(* check_for_emit_new_chunk.                                               *)
\* Mutant: the step being taken is not counted.
NewChunk_Early(n) == IF options.chunk_size # 0 /\ (n + 1) % options.chunk_size = 0
                     THEN <<Call("start_new_chunk")>> ELSE << >>
NewChunk(n) == IF options.chunk_size # 0 /\ n % options.chunk_size = 0
               THEN <<Call("start_new_chunk")>> ELSE << >>

Init ==
    /\ options \in Options
    /\ phase = "start" /\ subject \in Inputs
    /\ steps = 0 /\ depth = 0 /\ events = << >>
    /\ files = <<proof_trace_header(options.chunk_size)>>
    /\ \E pending \in IF options.writer = "file" THEN {FALSE} ELSE BOOLEAN :
         callback = NewCallbackWriter(pending)
    /\ flushed = <<1, 0>>

(* construct_initial_configuration: the work list is a stack, so that the  *)
(* last child is built first; a function is called on built arguments.     *)
RECURSIVE construct_initial_configuration(_)
BuiltFrom(t, n, rs) ==
    LET vals == Tuple([i \in 1..n |-> rs[n + 1 - i].val])
        bad == {i \in 1..n : rs[i].error}
        ran == IF bad = {} THEN n ELSE CHOOSE i \in bad : \A j \in bad : i <= j
        es == Flat([i \in 1..ran |-> rs[i].events])
        call == <<t[1], [i \in 1..n |-> <<"var", i>>]>>
    IN CASE bad # {} -> [val |-> rs[ran].val, events |-> es, error |-> TRUE]
         [] bad = {} /\ Sig[t[1]].kind \in {"constructor", "injection"} ->
              Result(<<t[1], vals>>, es)
         [] OTHER -> Preceded(es, create_allocation(call, vals, << >>))
construct_initial_configuration(t) ==
    IF IsToken(t) THEN Result(t, << >>)
    ELSE BuiltFrom(t, Len(t[2]),
                   Tuple([i \in DOMAIN t[2] |->
                       construct_initial_configuration(t[2][Len(t[2]) + 1 - i])]))

(* What finish_rewriting writes before the final configuration.            *)
Statistics(error) ==
    IF options.statistics /\ ~(error /\ options.safe_partial)
    THEN <<Call("statistics")>> ELSE << >>

(* parse_configuration and take_steps up to the first step.                *)
StartWith(r, es) ==
    /\ subject' = r.val
    /\ IF r.error
       THEN phase' = "error" /\ Record(r.events, EventCalls(r.events) \o Statistics(TRUE))
       ELSE phase' = "step" /\ Record(es, EventCalls(es))
Start ==
    /\ phase = "start"
    /\ \E r \in {construct_initial_configuration(subject)} :
         StartWith(r, Append(r.events, ConfigEvent(r.val, TRUE)))
    /\ depth' = options.depth
    /\ UNCHANGED <<options, steps>>

(* finished_rewriting.                                                     *)
finished_rewriting == depth = 0
CountStep == steps' = steps + 1 /\ depth' = IF depth >= 0 THEN depth - 1 ELSE depth

Rewrites(es) == \E i \in DOMAIN es : es[i].kind = "rule" /\ Axioms[es[i].ordinal].symbol = "top"

(* One turn of k_step that applies a rule, with rewrite_event_post.        *)
StepWith(r, es) ==
    /\ Rewrites(r.events)
    /\ subject' = r.val
    /\ IF r.error
       THEN phase' = "error" /\ Record(r.events, EventCalls(r.events) \o Statistics(TRUE))
       ELSE phase' = "step" /\ Record(es, EventCalls(es) \o NewChunk(steps + 1))
Step ==
    /\ phase = "step" /\ ~finished_rewriting
    /\ \E r \in {apply_rules("top", <<subject>>, RulesOf("top"))} :
         StepWith(r, r.events \o IF options.slow THEN <<ConfigEvent(r.val, FALSE)>> ELSE << >>)
    /\ CountStep
    /\ UNCHANGED options

(* The last turn, which finds no rule or no depth left, then               *)
(* finish_rewriting.                                                       *)
FinishWith(r, final) ==
    /\ ~Rewrites(r.events)
    /\ phase' = IF r.error THEN "error" ELSE "done"
    /\ Record(r.events \o final,
              EventCalls(r.events) \o Statistics(r.error) \o EventCalls(final))
    /\ subject' = r.val
Finish ==
    /\ phase = "step"
    /\ \E r \in {IF finished_rewriting THEN Result(subject, << >>)
                 ELSE apply_rules("top", <<subject>>, RulesOf("top"))} :
         FinishWith(r, IF options.slow \/ r.error THEN << >> ELSE <<ConfigEvent(subject, FALSE)>>)
    /\ CountStep
    /\ UNCHANGED options

(* The process dies during the last action, or before it lost its buffer:  *)
(* the bytes of that action reach the disk up to some point.               *)
Crash ==
    /\ phase # "crashed" /\ options.writer = "file"
    /\ \E i \in flushed[1]..Len(files) :
         \E n \in (IF i = flushed[1] THEN flushed[2] ELSE 0)..Len(files[i]) :
           /\ i < Len(files) \/ n < Len(files[i])
           /\ files' = Append(SubSeq(files, 1, i - 1), SubSeq(files[i], 1, n))
    /\ phase' = "crashed"
    /\ UNCHANGED <<options, subject, steps, depth, events, callback, flushed>>

Next == Start \/ Step \/ Finish \/ Crash

Spec == Init /\ [][Next]_vars

-----------------------------------------------------------------------------
InFiles(p) == phase \in p /\ options.writer = "file"
Intact == ~options.statistics \/ phase = "step"
InitialAt(es) == {i \in DOMAIN es : es[i].kind = "config" /\ es[i].initial}
Parsed == Tuple([i \in DOMAIN files |-> parse_trace(files[i])])
Prefix(s, t) == Len(s) <= Len(t) /\ s = SubSeq(t, 1, Len(s))

Events(parsed) == Flat([i \in DOMAIN parsed |-> parsed[i].events])
Streamed == Tuple([i \in DOMAIN files |-> stream_trace(files[i])])

ReadsBack(parsed, stream) ==
    IF InitialAt(events) = {}
    THEN parsed[1].st = "null" /\ (options.chunk_size = 0 => stream[1].events = events)
    ELSE /\ \A i \in DOMAIN files : parsed[i].st = "ok"
         /\ Events(parsed) = events
         /\ IF options.chunk_size = 0
            THEN stream[1].st = "ok" /\ stream[1].events = events
            ELSE \A i \in DOMAIN files : stream[i].st = "throw"
ReadsPrefix(parsed, stream) ==
    /\ \A i \in 1..(Len(files) - 1) : parsed[i].st = "ok"
    /\ parsed[Len(files)].st = "ok" => Prefix(Events(parsed), events)
    /\ Prefix(stream.events, events)
Replays(r) ==
    LET configs == SelectSeq(events, LAMBDA e : e.kind = "config")
    IN /\ r.ok /\ r.val = subject
       /\ phase = "done" => configs[Len(configs)].term = subject
StepsIn(es) == Len(SelectSeq(es, LAMBDA e : Rewrites(<<e>>)))
ChunksFull(parsed) ==
    /\ \A i \in 2..(Len(files) - 1) : StepsIn(parsed[i].events) = options.chunk_size
    /\ Len(files) > 1 => StepsIn(parsed[Len(files)].events) < options.chunk_size
                            + (IF phase = "error" THEN 1 ELSE 0)

(* The parser reads back what the instrumented interpreter recorded: each  *)
(* file of a trace parses, the events of the files one after the other are *)
(* the events of the run, in fast and in slow mode, with and without       *)
(* chunks.  The streaming parser agrees on a whole trace and refuses the   *)
(* parts of one.  A run that ends before its initial configuration has a   *)
(* trace for the streaming parser only.  (Statistics, which are printed    *)
(* into the same file, end the trace.)                                     *)
TraceRecovered ==
    InFiles({"step", "done", "error"}) /\ Intact => ReadsBack(Parsed, Streamed)

(* A trace cut off by a crash is refused or read as a prefix of the run:   *)
(* no parser returns an event that did not happen, or one with a part      *)
(* missing, and the files closed before the crash still parse.             *)
CutTraceIsPrefix ==
    InFiles({"crashed"}) => ReadsPrefix(Parsed, stream_trace(files[Len(files)]))

(* The callbacks get the events of the run, each once and whole, though    *)
(* the writer reuses one event for all calls and one for all rules and     *)
(* side conditions.  The flag that tells these two apart is not            *)
(* initialised, so that the first side condition may come as a rule when   *)
(* no rule with variables came before it.                                  *)
CallbacksDeliverEvents ==
    options.writer = "callback" =>
        LET out == callback.out
            ToFirst == {i \in DOMAIN events : /\ events[i].kind = "side"
                                             /\ DOMAIN events[i].subst # {}
                                             /\ \A j \in 1..(i - 1) :
                                                  events[j].kind \in {"rule", "side"} =>
                                                      DOMAIN events[j].subst = {}}
        IN /\ Len(out) = Len(events)
           /\ \A i \in DOMAIN out :
                \/ out[i] = events[i]
                \/ i \in ToFirst /\ out[i] = RuleEvent(events[i].ordinal, events[i].subst)

(* The events determine the run: from the initial configuration, with the  *)
(* rules, substitutions, hook results and conditions the trace names, a    *)
(* reader arrives at the configuration of the interpreter, every event     *)
(* stands where the definition puts it (its location, its arguments, the   *)
(* exit of a rule before a tail call and after its last event otherwise),  *)
(* no event is left over, every substitution is one of the left-hand side, *)
(* and the configurations in the trace are the ones passed; at the end the *)
(* last of them is the result, in both modes.                              *)
TraceReplays ==
    phase \in {"step", "done"} =>
        \E i \in InitialAt(events) :
            Replays(ReplaySteps(Read(events[i].term, SubSeq(events, i + 1, Len(events))),
                                options.slow))

(* A chunk that is complete holds exactly proof_chunk_size steps and the   *)
(* last one fewer, except that a step that fails still counts to its       *)
(* chunk: the number of a step tells its file.                             *)
ChunksHoldTheirSteps ==
    InFiles({"step", "done", "error"}) /\ Intact /\ options.chunk_size > 0 => ChunksFull(Parsed)
=============================================================================
