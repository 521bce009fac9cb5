------------------------- MODULE MCStagedTransaction -------------------------
(* Two operations of one job that want the same destination name: two      *)
(* moves of different files, two moves of identical files, and a move      *)
(* beside a copy that transforms its file and must have the exact name.    *)
(* The plans are closed under exchanging the operations, so that the       *)
(* exchange is a symmetry.                                                 *)
EXTENDS StagedTransaction, TLC

CONSTANTS a, b

Plan(o, p, moves, exact, content, published) ==
  [moves |-> moves, exact |-> exact,
   content |-> (o :> content[1]) @@ (p :> content[2]),
   out     |-> (o :> published[1]) @@ (p :> published[2])]
Pairs == {q \in Ops \X Ops : q[1] # q[2]}

TwoMoves   == {Plan(q[1], q[2], Ops, {}, <<a, b>>, <<a, b>>) : q \in Pairs}
Duplicates == {Plan(q[1], q[2], Ops, {}, <<a, a>>, <<a, a>>) : q \in Pairs}
Mixed      == {Plan(q[1], q[2], {q[1]}, {q[2]}, <<a, b>>, <<a, a>>) : q \in Pairs}
AllPlans   == TwoMoves \cup Duplicates \cup Mixed

OpSymmetry == Permutations(Ops)
=============================================================================
