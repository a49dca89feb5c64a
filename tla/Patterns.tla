------------------------------ MODULE Patterns ------------------------------
(***************************************************************************)
(* The patterns of the pattern-matching compiler and the constructors a    *)
(* column of patterns can be specialised by: matching/pattern/Pattern.scala *)
(* and Constructor.scala.                                                  *)
(*                                                                         *)
(* A pattern is a record [k, ps, ...]: k is its class and ps the sequence  *)
(* of its children, so that the methods every class implements by visiting *)
(* its children are one definition here.  A symbol is a tuple, << "f" >>   *)
(* or << "inj", A, B >>; an option is a sequence of length at most one; a  *)
(* literal is an integer.  What a pattern was written as (ctr and orig in  *)
(* the source) is only used to print it and is left out.                   *)
(***************************************************************************)
EXTENDS Integers, SequencesExt

CONSTANTS
  Category,      \* the sort category of every sort: SortCategory.apply
  ArgSorts,      \* the argument sorts of every symbol
  ResultSort,    \* the result sort of every symbol
  Constructors,  \* the constructors of every sort, in signature order
  Overloads,     \* the lesser overloads of the symbols that have some
  ElementSorts,  \* the sorts of the element constructor of a collection sort
  ResidualSyms   \* the function and anywhere symbols

None == << >>
Some(x) == << x >>
MapSeq(s, F(_)) == [i \in DOMAIN s |-> F(s[i])] \o << >>  \* concatenated: evaluated once
Indices(s) == [i \in DOMAIN s |-> i]
Distinct(s) == FoldLeft(LAMBDA acc, x : IF Contains(acc, x) THEN acc ELSE Append(acc, x), << >>, s)
Filter(s, F(_)) == SelectSeq(s, F)
Drop(s, i) == RemoveAt(s, i)
IndexOf(s, x) == IF Contains(s, x) THEN CHOOSE i \in DOMAIN s : s[i] = x /\ \A j \in 1..(i - 1) : s[j] # x ELSE 0
Collections == {"list", "map", "set"}

-----------------------------------------------------------------------------
(* Occurrences: the path from a subterm to the subject, innermost first. *)
Base == << >>
Num(i, o) == << <<"num", i>> >> \o o
Inj(o) == << <<"inj">> >> \o o
Size(o) == << <<"size">> >> \o o
Value(k, o) == << <<"val", k>> >> \o o
Rem(k, o) == << <<"rem", k>> >> \o o
Choice(o) == << <<"key">> >> \o o
ChoiceValue(o) == << <<"choiceval">> >> \o o
ChoiceRem(o) == << <<"choicerem">> >> \o o
Lit(n, hook) == << <<"lit", n, hook>> >>
Fresh(x) == << <<"fresh", x>> >>
SC(i) == << <<"sc", i>> >>
Equal(o1, o2) == << <<"eq", o1, o2>> >>
\* The size of an occurrence: an equality counts as its left side.
OccSize(o) == IF o # Base /\ o[1][1] = "eq" THEN Len(o[1][2]) ELSE Len(o)

-----------------------------------------------------------------------------
(* The symbol library and what a sort knows about its constructors. *)
isInj(s) == s[1] = "inj"
isSubsorted(a, b) == <<"inj", a, b>> \in DOMAIN ArgSorts
exactConstructors(s) == Filter(Constructors[s], LAMBDA c : ~isInj(c))
sortLength(s, n) == IF Category[s] = "bool" THEN 2 ELSE n
exactLength(s) == sortLength(s, Len(exactConstructors(s)))
\* An injection from a sort without values of its own is never in a signature.
nonEmptyConstructors(s) ==
  Filter(Constructors[s], LAMBDA c : isInj(c) => Category[c[2]] # "sym" \/ exactLength(c[2]) # 0)
trueInjMap(s, sym) ==
  IF isInj(sym)
  THEN Filter(Constructors[s], LAMBDA a : isInj(a) /\ isSubsorted(a[2], sym[2]))
  ELSE MapSeq(Overloads[sym], LAMBDA g : <<"inj", ResultSort[g], ResultSort[sym]>>)

\* A fringe is the sort and the occurrence of a column.
Fringe(s, o, exact) == [sort |-> s, occ |-> o, exact |-> exact]
overloads(sym) == IF sym \in DOMAIN Overloads THEN Overloads[sym] ELSE << >>
isCollection(f) == Category[f.sort] \in Collections

-----------------------------------------------------------------------------
(* Constructors. *)
Empty == [c |-> "empty"]
NonEmpty == [c |-> "nonempty"]
HasKey(key) == [c |-> "haskey", key |-> key]
HasNoKey(key) == [c |-> "hasnokey", key |-> key]
ListC(n) == [c |-> "list", len |-> n]
SymbolC(s) == [c |-> "sym", sym |-> s]
LiteralC(n) == [c |-> "lit", lit |-> n]
InjC(a, b) == SymbolC(<<"inj", a, b>>)
isInjC(c) == c.c = "sym" /\ isInj(c.sym)
isBest(c, k) == c.c \in {"haskey", "hasnokey"} => c.key = Some(k)

\* The columns a key of a collection is matched in: the value and the rest
\* for a known key, the key as well for one that has to be chosen.
HasKey_expand(c, f) ==
  LET es == ElementSorts[f.sort]
      cat == Category[f.sort]
      At(s, o) == Fringe(s, o, FALSE)
  IN IF c.key = None
     THEN CASE cat = "set" -> << At(es[1], Choice(f.occ)), At(f.sort, ChoiceRem(f.occ)) >>
            [] cat = "map" -> << At(es[1], Choice(f.occ)), At(es[2], ChoiceValue(f.occ)),
                                 At(f.sort, ChoiceRem(f.occ)) >>
            [] cat = "list" -> << At(es[2], Choice(f.occ)), At(es[1], ChoiceValue(f.occ)),
                                  At(f.sort, ChoiceRem(f.occ)) >>
     ELSE CASE cat = "set" -> << At(f.sort, Rem(c.key[1], f.occ)), f >>
            [] cat = "map" -> << At(es[2], Value(c.key[1], f.occ)), At(f.sort, Rem(c.key[1], f.occ)), f >>
            [] cat = "list" -> << At(es[1], Value(c.key[1], f.occ)), At(f.sort, f.occ), f >>
ListC_expand(c, f) == [i \in 1..c.len |-> Fringe(ElementSorts[f.sort][1], Num(i - 1, f.occ), FALSE)]
SymbolC_expand(c, f) ==
  [i \in DOMAIN ArgSorts[c.sym] |-> Fringe(ArgSorts[c.sym][i], Num(i - 1, f.occ), isInj(c.sym))]
fringeContains(f, c) == c.c = "sym" => ResultSort[c.sym] = f.sort
fringeExpand(f, c) ==
  CASE c.c \in {"empty", "lit"} -> << >>
    [] c.c \in {"nonempty", "hasnokey"} -> << f >>
    [] c.c = "haskey" -> HasKey_expand(c, f)
    [] c.c = "list" -> ListC_expand(c, f)
    [] c.c = "sym" -> SymbolC_expand(c, f)
\* The injections a symbol of the column's signature brings in with it.
injections(f, c) ==
  IF c.c = "sym" /\ (c.sym \in DOMAIN Overloads \/ isInj(c.sym))
  THEN MapSeq(trueInjMap(f.sort, c.sym), SymbolC) ELSE << >>

-----------------------------------------------------------------------------
(* Patterns.  The children of a list pattern are its head, its tail and its *)
(* frame; those of a map, set or list-get pattern its keys, its values and  *)
(* its frame.                                                               *)
WildcardP == [k |-> "wild", ps |-> << >>]
VariableP(x) == [k |-> "var", ps |-> << >>, name |-> x]
LiteralP(n) == [k |-> "lit", ps |-> << >>, lit |-> n]
SymbolP(s, ps) == [k |-> "sym", ps |-> ps, sym |-> s]
AsP(x, p) == [k |-> "as", ps |-> << p >>, name |-> x]
OrP(p1, p2) ==
  LET alts(p) == IF p.k = "or" THEN p.ps ELSE << p >>
  IN [k |-> "or", ps |-> alts(p1) \o alts(p2)]
NewListP(hd, fr, tl) == [k |-> "list", ps |-> hd \o tl \o fr, hd |-> Len(hd), tl |-> Len(tl)]
ListP(hd, fr, tl) == IF hd = << >> /\ tl = << >> /\ fr # None THEN fr[1] ELSE NewListP(hd, fr, tl)
NewKeyedP(k, keys, vals, fr) == [k |-> k, ps |-> keys \o vals \o fr, n |-> Len(keys)]
MapP(keys, vals, fr) ==
  IF keys = << >> /\ fr # None THEN fr[1] ELSE NewKeyedP("map", keys, vals, fr)
SetP(elements, fr) ==
  IF elements = << >> /\ fr # None THEN fr[1] ELSE NewKeyedP("set", elements, << >>, fr)
ListGetP(keys, vals, frame) ==
  IF keys = << >> THEN frame ELSE NewKeyedP("listget", keys, vals, Some(frame))

Keyed == {"map", "set", "listget"}
keys(p) == SubSeq(p.ps, 1, p.n)
values(p) == IF p.k = "set" THEN << >> ELSE SubSeq(p.ps, p.n + 1, 2 * p.n)
keyedFrame(p) == SubSeq(p.ps, (IF p.k = "set" THEN p.n ELSE 2 * p.n) + 1, Len(p.ps))
listFrame(p) == SubSeq(p.ps, p.hd + p.tl + 1, Len(p.ps))
\* The smart constructors, by class: a frame alone stands for the pattern.
Rebuild(p, ks, vs, fr) ==
  CASE p.k = "map" -> MapP(ks, vs, fr)
    [] p.k = "set" -> SetP(ks, fr)
    [] p.k = "listget" -> ListGetP(ks, vs, fr[1])
Normalise(p) ==
  CASE p.k \in Keyed /\ p.n = 0 /\ Len(p.ps) = 1 -> p.ps[1]
    [] p.k = "list" /\ p.hd + p.tl = 0 /\ Len(p.ps) = 1 -> p.ps[1]
    [] OTHER -> p

RECURSIVE variables(_), expandOr(_), mightUnify(_, _), isWildcard(_), isChoice(_), mapOrSetKeys(_)
variables(p) ==
  (IF p.k \in {"var", "as"} THEN {p.name} ELSE {}) \union UNION {variables(p.ps[i]) : i \in DOMAIN p.ps}
\* The or-free patterns a pattern stands for.
expandOr(p) ==
  IF p.k = "or" THEN FlattenSeq(MapSeq(p.ps, expandOr))
  ELSE MapSeq(FoldLeft(LAMBDA accum, i :
                         FlattenSeq(MapSeq(accum, LAMBDA q :
                           MapSeq(expandOr(p.ps[i]), LAMBDA alt : [q EXCEPT !.ps[i] = alt]))),
                       << p >>, Indices(p.ps)),
              Normalise)
mightUnify(p1, p2) ==
  IF {p1.k, p2.k} \intersect {"wild", "var"} # {} THEN TRUE
  ELSE CASE p1.k \in {"or", "as"} -> \E i \in DOMAIN p1.ps : mightUnify(p1.ps[i], p2)
         [] p2.k \in {"or", "as"} -> \E i \in DOMAIN p2.ps : mightUnify(p1, p2.ps[i])
         [] p1.k = "lit" -> p2.k = "lit" /\ p1.lit = p2.lit
         [] p1.k = "sym" -> /\ p2.k = "sym" /\ p1.sym = p2.sym
                            /\ \A i \in DOMAIN p1.ps : mightUnify(p1.ps[i], p2.ps[i])
         [] OTHER -> p1.k = p2.k
isWildcard(p) ==
  CASE p.k \in {"wild", "var"} -> TRUE
    [] p.k \in {"as", "or"} -> \A i \in DOMAIN p.ps : isWildcard(p.ps[i])
    [] p.k \in Keyed -> p.n = 0 /\ keyedFrame(p) # None /\ isWildcard(keyedFrame(p)[1])
    [] OTHER -> FALSE
isChoice(p) ==
  \/ p.k \in Keyed /\ p.n > 0
  \/ p.k \in {"as", "or"} /\ \E i \in DOMAIN p.ps : isChoice(p.ps[i])
mapOrSetKeys(p) ==
  CASE p.k \in Keyed -> keys(p)
    [] p.k \in {"as", "or"} -> FlattenSeq(MapSeq(p.ps, mapOrSetKeys))
    [] OTHER -> << >>
RECURSIVE category(_)
category(p) ==
  CASE p.k = "lit" -> Some("lit")
    [] p.k \in {"list", "listget"} -> Some("list")
    [] p.k \in {"map", "set"} -> Some(p.k)
    [] p.k \in {"as", "or"} ->
         LET known == Filter(MapSeq(p.ps, category), LAMBDA c : c # None)
         IN IF known = << >> THEN None ELSE known[1]
    [] OTHER -> None
RECURSIVE isResidual(_)
isResidual(p) == \/ p.k \in {"list"} \union Keyed
                 \/ p.k = "as" /\ isResidual(p.ps[1])
                 \/ p.k = "sym" /\ p.sym \in ResidualSyms

-----------------------------------------------------------------------------
(* Clauses: the rule of a row and what matching the row has bound so far. *)
VariableBinding(x, o, residual) == [name |-> x, occ |-> o, pat |-> residual]
Clause(action) == [action |-> action, bindings |-> << >>, ranges |-> << >>, over |-> << >>, spec |-> << >>]
bindingOf(cl, x) == SelectSeq(cl.bindings, LAMBDA b : b.name = x)
isBoundName(cl, x) == bindingOf(cl, x) # << >>
occurrenceOf(cl, x) == IF isBoundName(cl, x) THEN Some(bindingOf(cl, x)[1].occ) ELSE None
specializedVar(cl, o) == SelectSeq(cl.spec, LAMBDA e : Some(e.occ) = o)

RECURSIVE isBound(_, _), canonicalize(_, _)
isBound(p, cl) ==
  /\ p.k \in {"var", "as"} => isBoundName(cl, p.name)
  /\ \A i \in DOMAIN p.ps : isBound(p.ps[i], cl)
\* Variables replaced by the occurrences they are bound to.
canonicalize(p, cl) ==
  LET o == occurrenceOf(cl, p.name)
      q == [p EXCEPT !.ps = MapSeq(@, LAMBDA c : canonicalize(c, cl))]
  IN CASE p.k = "var" /\ specializedVar(cl, o) # << >> -> specializedVar(cl, o)[1].pat
       [] p.k = "var" -> [p EXCEPT !.name = o]
       [] p.k = "as" -> [q EXCEPT !.name = o]
       [] OTHER -> q
canonicalKey(cl, p) == IF isBound(p, cl) THEN Some(canonicalize(p, cl)) ELSE None
canonicalKeys(p, cl) == MapSeq(keys(p), LAMBDA key : canonicalize(key, cl))

-----------------------------------------------------------------------------
(* The constructors a pattern tests for. *)
RECURSIVE signature(_, _)
keySignature(p, cl) ==
  FlattenSeq(MapSeq(keys(p), LAMBDA key : << HasKey(canonicalKey(cl, key)), HasNoKey(canonicalKey(cl, key)) >>))
MapP_signature(p, cl) ==
  IF p.n = 0 /\ keyedFrame(p) = None THEN << Empty >>
  ELSE keySignature(p, cl) \o IF keyedFrame(p) = None THEN << >> ELSE signature(keyedFrame(p)[1], cl)
SetP_signature(p, cl) == MapP_signature(p, cl)
ListGetP_signature(p, cl) == keySignature(p, cl) \o signature(keyedFrame(p)[1], cl)
ListP_signature(p) == [i \in 1..(p.hd + p.tl + 1) |-> ListC(i - 1)]
signature(p, cl) ==
  CASE p.k \in {"wild", "var"} -> << >>
    [] p.k \in {"as", "or"} -> FlattenSeq(MapSeq(p.ps, LAMBDA q : signature(q, cl)))
    [] p.k = "lit" -> << LiteralC(p.lit) >>
    [] p.k = "sym" -> << SymbolC(p.sym) >>
    [] p.k = "list" -> ListP_signature(p)
    [] p.k = "map" -> MapP_signature(p, cl)
    [] p.k = "set" -> SetP_signature(p, cl)
    [] p.k = "listget" -> ListGetP_signature(p, cl)

-----------------------------------------------------------------------------
(* Whether a row is kept when its column is specialised by constructor c:   *)
(* f is the fringe of the column, mx the priority above which rows do not   *)
(* take part in the choice of a key.                                        *)
RECURSIVE isSpecialized(_, _, _, _, _, _)
Wildcard_isSpecialized(c, cl, mx) == c = HasKey(None) => cl.action.priority <= mx
\* Mutant: a frame does not match the empty list.
ListP_isSpecialized_Longer(p, c) ==
  c.c = "list" /\ IF listFrame(p) = None THEN c.len = p.hd + p.tl ELSE c.len > p.hd + p.tl
ListP_isSpecialized(p, c) ==
  /\ c.c = "list"
  /\ IF listFrame(p) = None THEN c.len = p.hd + p.tl ELSE c.len >= p.hd + p.tl
MapP_isSpecialized(p, c, cl, mx) ==
  CASE c = Empty -> p.n = 0
    [] c = HasKey(None) -> (keyedFrame(p) = None => p.n > 0) /\ cl.action.priority <= mx
    [] c = HasNoKey(None) -> p.n > 0 /\ cl.action.priority > mx
    [] c.c = "haskey" -> \/ keyedFrame(p) # None
                         \/ \E i \in 1..p.n : mightUnify(c.key[1], canonicalKeys(p, cl)[i])
    [] c.c = "hasnokey" -> ~Contains(canonicalKeys(p, cl), c.key[1])
SetP_isSpecialized(p, c, cl, mx) == MapP_isSpecialized(p, c, cl, mx)
ListGetP_isSpecialized(p, c, cl, mx) ==
  CASE c = HasKey(None) -> cl.action.priority <= mx
    [] c = HasNoKey(None) -> p.n > 0 /\ cl.action.priority > mx
    [] c.c = "haskey" -> TRUE
    [] c.c = "hasnokey" -> ~Contains(canonicalKeys(p, cl), c.key[1])
isValidOverload(p, f, cl, mx, fringePs, less) ==
  /\ fringeContains(f, SymbolC(less))
  /\ \A i \in DOMAIN p.ps :
       LET sP == fringePs[i].sort
           sT == fringeExpand(f, SymbolC(less))[i].sort
       IN \/ sP = sT
          \/ /\ isSubsorted(sT, sP) /\ Category[sP] = "sym"
             /\ isSpecialized(p.ps[i], InjC(sT, sP), FALSE, fringePs[i], cl, mx)
SymbolP_isSpecialized(p, c, exact, f, cl, mx) ==
  LET a == c.sym[2]
      b == p.sym[2]
      f2 == fringeExpand(f, SymbolC(p.sym))[1]
  IN CASE isInj(c.sym) /\ isInj(p.sym) ->
            /\ c.sym[3] = p.sym[3]
            /\ \/ a = b
               \/ isSubsorted(b, a) /\ ~exact
               \/ /\ isSubsorted(a, b) /\ Category[f2.sort] = "sym"
                  /\ isSpecialized(p.ps[1], InjC(a, b), exact, f2, cl, mx)
       [] isInj(c.sym) /\ ~isInj(p.sym) ->
            \E less \in ToSet(overloads(p.sym)) :
              isValidOverload(p, fringeExpand(f, c)[1], cl, mx, fringeExpand(f, SymbolC(p.sym)), less)
       [] OTHER -> c.sym = p.sym
isSpecialized(p, c, exact, f, cl, mx) ==
  CASE p.k \in {"wild", "var"} -> Wildcard_isSpecialized(c, cl, mx)
    [] p.k = "as" -> isSpecialized(p.ps[1], c, exact, f, cl, mx)
    [] p.k = "lit" -> c.c = "lit" /\ c.lit = p.lit
    [] p.k = "sym" -> SymbolP_isSpecialized(p, c, exact, f, cl, mx)
    [] p.k = "list" -> ListP_isSpecialized(p, c)
    [] p.k = "map" -> MapP_isSpecialized(p, c, cl, mx)
    [] p.k = "set" -> SetP_isSpecialized(p, c, cl, mx)
    [] p.k = "listget" -> ListGetP_isSpecialized(p, c, cl, mx)

-----------------------------------------------------------------------------
(* The patterns a row has in the columns (fringes) its column expands to. *)
RECURSIVE expand(_, _, _, _, _, _, _)
Wildcard_expand(fringes) == MapSeq(fringes, LAMBDA f : WildcardP)
ListP_expand(p, c) ==
  SubSeq(p.ps, 1, p.hd) \o [i \in 1..(c.len - p.hd - p.tl) |-> WildcardP] \o SubSeq(p.ps, p.hd + 1, p.hd + p.tl)
\* The columns of a key: its value, when there is one, and the rest.
KeyColumns(p, i) ==
  LET vs == IF p.k = "set" THEN << >> ELSE Drop(values(p), i)
  IN (IF p.k = "set" THEN << >> ELSE << values(p)[i] >>) \o << Rebuild(p, Drop(keys(p), i), vs, keyedFrame(p)) >>
MapP_expand(p, c, exact, fringes, f, cl, mx) ==
  CASE c = Empty -> << >>
    [] c.c \in {"hasnokey", "nonempty"} -> << p >>
    [] c = HasKey(None) -> IF p.n = 0 /\ keyedFrame(p) # None
                           THEN expand(keyedFrame(p)[1], c, exact, fringes, f, cl, mx)
                           ELSE << keys(p)[1] >> \o KeyColumns(p, 1)
    [] OTHER -> LET i == IndexOf(canonicalKeys(p, cl), c.key[1])
                IN IF i = 0 THEN [j \in 1..(Len(fringes) - 1) |-> WildcardP] \o << p >>
                   ELSE KeyColumns(p, i) \o << WildcardP >>
SetP_expand(p, c, exact, fringes, f, cl, mx) == MapP_expand(p, c, exact, fringes, f, cl, mx)
ListGetP_expand(p, c, exact, fringes, f, cl, mx) == MapP_expand(p, c, exact, fringes, f, cl, mx)
SymbolP_expand(p, c, exact, fringes, f, cl, mx) ==
  LET a == c.sym[2]
      b == p.sym[2]
      fringePs == fringeExpand(f, SymbolC(p.sym))
      valid == Filter(overloads(p.sym), LAMBDA g : isValidOverload(p, fringes[1], cl, mx, fringePs, g))[1]
      fringeTs == fringeExpand(fringes[1], SymbolC(valid))
      Child(i) == IF fringePs[i].sort = fringeTs[i].sort THEN p.ps[i]
                  ELSE expand(p.ps[i], InjC(fringeTs[i].sort, fringePs[i].sort), exact, << fringeTs[i] >>,
                              fringePs[i], cl, mx)[1]
  IN CASE isInj(c.sym) /\ isInj(p.sym) ->
            (CASE a = b -> p.ps
               [] a # b /\ isSubsorted(a, b) ->
                    expand(p.ps[1], InjC(a, b), exact, fringes, fringeExpand(f, SymbolC(p.sym))[1], cl, mx)
               [] OTHER -> << SymbolP(<<"inj", b, a>>, p.ps) >>)
       [] isInj(c.sym) /\ ~isInj(p.sym) -> << SymbolP(valid, [i \in DOMAIN p.ps |-> Child(i)]) >>
       [] OTHER -> p.ps
expand(p, c, exact, fringes, f, cl, mx) ==
  CASE p.k \in {"wild", "var"} -> Wildcard_expand(fringes)
    [] p.k = "as" -> expand(p.ps[1], c, exact, fringes, f, cl, mx)
    [] p.k = "lit" -> << >>
    [] p.k = "sym" -> SymbolP_expand(p, c, exact, fringes, f, cl, mx)
    [] p.k = "list" -> ListP_expand(p, c)
    [] p.k = "map" -> MapP_expand(p, c, exact, fringes, f, cl, mx)
    [] p.k = "set" -> SetP_expand(p, c, exact, fringes, f, cl, mx)
    [] p.k = "listget" -> ListGetP_expand(p, c, exact, fringes, f, cl, mx)

-----------------------------------------------------------------------------
(* The variables bound when column o is specialised by the constructor in   *)
(* ix, or dropped when ix is empty.  In a specialised matrix a binding also *)
(* records the pattern the column stands for.                               *)
RECURSIVE bindings(_, _, _, _), overloadChildren(_, _, _, _, _)
SymbolP_bindings(p, ix, residual, o) ==
  IF /\ ix # None /\ isInjC(ix[1]) /\ isInj(p.sym)
     /\ ix[1].sym[2] # p.sym[2] /\ isSubsorted(ix[1].sym[2], p.sym[2])
  THEN bindings(p.ps[1], Some(InjC(ix[1].sym[2], p.sym[2])), residual, o)
  ELSE << >>
ListP_bindings(p, ix, residual, o) ==
  IF listFrame(p) # None /\ ix[1].c = "list"
  THEN bindings(listFrame(p)[1], None, residual, Num(ix[1].len, o)) ELSE << >>
MapP_bindings(p, residual, o) ==
  IF p.n = 0 /\ keyedFrame(p) # None THEN bindings(keyedFrame(p)[1], None, residual, o) ELSE << >>
bindings(p, ix, residual, o) ==
  CASE p.k \in {"wild", "lit"} -> << >>
    [] p.k = "var" -> << VariableBinding(p.name, o, residual) >>
    [] p.k = "as" -> << VariableBinding(p.name, o, residual) >> \o bindings(p.ps[1], ix, residual, o)
    [] p.k = "sym" -> SymbolP_bindings(p, ix, residual, o)
    [] p.k = "list" -> ListP_bindings(p, ix, residual, o)
    [] p.k \in Keyed -> MapP_bindings(p, residual, o)
RECURSIVE listRange(_, _, _)
\* Mutant: the middle of a list is not extracted.
listRange_Never(p, ix, o) == << >>
listRange(p, ix, o) ==
  CASE p.k = "as" -> listRange(p.ps[1], ix, o)
    [] p.k = "list" /\ ix # None /\ ix[1].c = "list" -> << <<Num(ix[1].len, o), p.hd, p.tl>> >>
    [] OTHER -> << >>
\* The injections that variables of an overloaded pattern stand for although
\* they are not in the subject: they are built once the row has matched.
overloadVar(p, i, fringeP, fringeT, residual, o) ==
  LET inj == InjC(fringeT.sort, fringeP.sort)
      vars == bindings(p.ps[i], None, residual, Inj(Num(i - 1, o)))
  IN IF fringeP.sort = fringeT.sort THEN << >>
     ELSE MapSeq(vars, LAMBDA v : [inj |-> inj, fringe |-> fringeP, var |-> v])
            \o overloadChildren(p.ps[i], fringeP, Some(inj), residual, Num(i - 1, o))
SymbolP_overloadChildren(p, f, c, residual, o) ==
  LET f2 == fringeExpand(f, c)[1]
      less == Filter(overloads(p.sym), LAMBDA g : fringeContains(f2, SymbolC(g)))
      fringePs == fringeExpand(f, SymbolC(p.sym))
  IN CASE isInj(p.sym) /\ (c.sym[2] = p.sym[2] \/ ~isSubsorted(c.sym[2], p.sym[2])) -> << >>
       [] isInj(p.sym) /\ c.sym[2] # p.sym[2] /\ isSubsorted(c.sym[2], p.sym[2]) ->
            overloadChildren(p.ps[1], fringePs[1], Some(InjC(c.sym[2], p.sym[2])), residual, o)
       [] OTHER ->
            IF less = << >> THEN << >>
            ELSE FlattenSeq([i \in DOMAIN p.ps |->
                   overloadVar(p, i, fringePs[i], fringeExpand(f2, SymbolC(less[1]))[i], residual, o)])
overloadChildren(p, f, ix, residual, o) ==
  CASE p.k = "as" -> overloadChildren(p.ps[1], f, ix, residual, o)
    [] p.k = "sym" /\ ix # None /\ isInjC(ix[1]) -> SymbolP_overloadChildren(p, f, ix[1], residual, o)
    [] OTHER -> << >>
addVars(cl, ix, residual, p, f) ==
  [cl EXCEPT !.bindings = @ \o bindings(p, ix, residual, f.occ),
             !.ranges = @ \o listRange(p, ix, f.occ),
             !.over = @ \o overloadChildren(p, f, ix, residual, Num(0, f.occ))]
=============================================================================
