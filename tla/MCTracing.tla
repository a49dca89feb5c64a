------------------------------ MODULE MCTracing -----------------------------
(***************************************************************************)
(* A definition with every kind of symbol the instrumentation tells apart: *)
(* functions with calls in tail position (add) and elsewhere (dbl), a      *)
(* predicate (le), a partial function (pred), an anywhere symbol with a    *)
(* side condition (nrm), hooks that short-circuit and hooks that do not,   *)
(* a collection element and an injection; rules of the top cell with and   *)
(* without side conditions.                                                *)
(***************************************************************************)
EXTENDS Tracing

MCSignature ==
    LET Con(n) == [kind |-> "constructor", arity |-> n, hook |-> ""]
        Fun(n) == [kind |-> "function", arity |-> n, hook |-> ""]
        Hook(n, h) == [kind |-> "hook", arity |-> n, hook |-> h]
    IN [z |-> Con(0), s |-> Con(1), cfg |-> Con(2), fin |-> Con(1), dv |-> Con(1),
        inj |-> [kind |-> "injection", arity |-> 1, hook |-> ""],
        add |-> Fun(2), dbl |-> Fun(1), le |-> Fun(2), pred |-> Fun(1),
        nrm |-> [kind |-> "anywhere", arity |-> 1, hook |-> ""],
        and |-> Hook(2, "BOOL.and"), or |-> Hook(2, "BOOL.or"),
        implies |-> Hook(2, "BOOL.implies"), not |-> Hook(1, "BOOL.not"),
        ite |-> Hook(3, "KEQUAL.ite"), eq |-> Hook(2, "KEQUAL.eq"),
        item |-> Hook(1, "LIST.element")]

z == <<"z", << >> >>
S(t) == <<"s", <<t>> >>
A(f, args) == <<f, args>>

MCRules ==
    LET M == <<"var", "M">>
        N == <<"var", "N">>
        True == Bool(TRUE)
        False == Bool(FALSE)
        Rule(f, lhs, requires, rhs) ==
            [symbol |-> f, lhs |-> lhs, requires |-> requires, rhs |-> rhs]
    IN
    <<Rule("add", <<z, N>>, None, N),
      Rule("add", <<S(M), N>>, None, A("add", <<M, S(N)>>)),
      Rule("dbl", <<M>>, None, A("inj", <<S(A("add", <<M, M>>))>>)),
      Rule("le", <<z, N>>, None, True),
      Rule("le", <<S(M), S(N)>>, None, A("le", <<M, N>>)),
      Rule("le", <<S(M), z>>, None, False),
      Rule("pred", <<S(M)>>, None, M),
      Rule("nrm", <<S(M)>>, A("le", <<M, z>>), z),
      Rule("nrm", <<z>>, A("not", <<False>>), A("item", <<z>>)),
      Rule("top", <<A("cfg", <<S(M), N>>)>>,
           A("and", <<A("le", <<M, z>>), A("not", <<A("eq", <<N, z>>)>>)>>),
           A("cfg", <<M, A("ite", <<A("eq", <<N, S(z)>>), A("add", <<S(M), z>>),
                                    A("dbl", <<M>>)>>)>>)),
      Rule("top", <<A("cfg", <<S(M), N>>)>>,
           A("or", <<A("eq", <<N, z>>), A("implies", <<A("le", <<N, z>>), False>>)>>),
           A("cfg", <<M, A("nrm", <<N>>)>>)),
      Rule("top", <<A("cfg", <<z, N>>)>>, A("le", <<S(z), S(N)>>),
           A("fin", <<A("inj", <<A("nrm", <<A("pred", <<N>>)>>)>>)>>))>>

MCNameOrder == <<"M", "N">>
MCHashOrder == <<"N", "M">>
MCNames == <<"z", "s", "cfg", "fin", "dv", "inj", "add", "dbl", "le", "pred", "nrm", "and",
             "or", "implies", "not", "ite", "eq", "item", "BOOL.and", "BOOL.or",
             "BOOL.implies", "BOOL.not", "KEQUAL.ite", "KEQUAL.eq", "M", "N", "true", "false">>

Option(slow, chunk, depth_, stats, safe, writer_) ==
    [slow |-> slow, chunk_size |-> chunk, depth |-> depth_, statistics |-> stats,
     safe_partial |-> safe, writer |-> writer_]
MCOptions ==
    {Option(slow, chunk, -1, FALSE, FALSE, "file") :
        slow \in BOOLEAN, chunk \in {0, 1, 2}}
    \cup {Option(slow, 1, 1, FALSE, FALSE, "file") : slow \in BOOLEAN}
    \cup {Option(slow, 0, -1, TRUE, safe, "file") : slow, safe \in BOOLEAN}
    \cup {Option(slow, 0, -1, FALSE, FALSE, "callback") : slow \in BOOLEAN}

Config(m, n) == A("cfg", <<m, n>>)
MCInputs ==
    {Config(z, z), Config(z, S(S(z))), Config(S(z), S(z)), Config(S(z), S(S(z)))}
    \cup {Config(S(S(z)), n) : n \in {z, S(z), S(S(z))}}
    \cup {Config(A("pred", <<S(z)>>), A("ite", <<A("le", <<z, z>>), A("dbl", <<z>>), z>>)),
          Config(A("pred", <<z>>), A("add", <<S(z), z>>)),
          A("fin", <<Bool(TRUE)>>)}
=============================================================================
