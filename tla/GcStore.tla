----------------------------- MODULE GcStore ------------------------------
(*************************************************************************)
(* The heap under the collector as an implementation of TermStore.       *)
(*************************************************************************)
EXTENDS Gc

T == INSTANCE TermStore WITH reg <- [r \in Register |-> Id(Root(r))], iter <- Id(iter)

\* The program cannot notice the collector: with every pointer replaced by the name of the
\* node it leads to, each mutator operation is the operation of TermStore and each step of
\* the collector changes nothing, but for the roots free_all_kore_mem and iterators give up.
ImplementsTermStore == T!Spec
===========================================================================
