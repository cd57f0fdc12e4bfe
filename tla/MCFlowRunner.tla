---------------------------- MODULE MCFlowRunner ----------------------------
(***************************************************************************)
(* Small instances of FlowRunner for TLC.                                  *)
(***************************************************************************)
EXTENDS FlowRunnerProps, TLC

CONSTANTS a, b, c

\* A flow over jobs whose edges are triples <<child, parent, kind>>.
FlowOf(jobs, edges, plan) ==
  [jobs |-> jobs,
   parents |-> [j \in Job |-> {[from |-> e[2], kind |-> e[3]] : e \in {e \in edges : e[1] = j}}],
   plan |-> plan]

\* a <- b, and b <- a.
Pair    == FlowOf({a, b}, {<<b, a, "afterok">>}, {a, b})
Flipped == FlowOf({a, b}, {<<a, b, "afterok">>}, {a, b})
PairAny == FlowOf({a, b}, {<<b, a, "afterany">>}, {a, b})

\* a <- b <- c, and the same with c missing from plan.toml; a <- b, a <- c, b <- c.
Chain    == FlowOf({a, b, c}, {<<b, a, "afterok">>, <<c, b, "afterok">>}, {a, b, c})
ChainCut == FlowOf({a, b, c}, {<<b, a, "afterok">>, <<c, b, "afterok">>}, {a, b})
Triangle == FlowOf({a, b, c}, {<<b, a, "afterok">>, <<c, a, "afterok">>, <<c, b, "afterok">>}, {a, b, c})

\* b runs when a fails, and c after b; c runs after b whatever becomes of it.
Rescue  == FlowOf({a, b, c}, {<<b, a, "afternotok">>, <<c, b, "afterok">>}, {a, b, c})
Cleanup == FlowOf({a, b, c}, {<<b, a, "afterok">>, <<c, b, "afterany">>}, {a, b, c})

PairFlow    == {Pair}
PairAnyFlow == {PairAny}
EditedFlow  == {Pair, Flipped}
TripleFlow  == {ChainCut, Triangle, Rescue, Cleanup}

Symmetric == Permutations(Proc)

\* EditedFlow holds, with a flow, the one in which a and b change places.
JobSymmetric == Permutations(Job)
=============================================================================
