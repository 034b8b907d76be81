------------------------------ MODULE ForkJoin ------------------------------
(***************************************************************************)
(* What warp specialization promises: the regions of one warp_specialize   *)
(* op start together, each warp runs the region the op gives it, and the   *)
(* kernel goes on when all have ended; the workers go when it returns.     *)
(***************************************************************************)
EXTENDS Naturals, Sequences

CONSTANT Warps
VARIABLES
  stage,  \* <<"out">>, <<"in", region>>, <<"left">> or <<"gone">> of each warp
  plan,   \* for each op executed, the region of each warp
  forks   \* ops entered

vars == <<stage, plan, forks>>

All(s) == \A w \in Warps : stage[w] = s

Init == stage = [w \in Warps |-> <<"out">>] /\ forks = 0

Fork ==
  /\ All(<<"out">>) /\ forks < Len(plan)
  /\ forks' = forks + 1
  /\ stage' = [w \in Warps |-> <<"in", plan[forks + 1][w]>>]
  /\ UNCHANGED plan

Leave(w) ==
  /\ stage[w][1] = "in"
  /\ stage' = [stage EXCEPT ![w] = <<"left">>]
  /\ UNCHANGED <<plan, forks>>

Join ==
  /\ All(<<"left">>)
  /\ stage' = [w \in Warps |-> <<"out">>]
  /\ UNCHANGED <<plan, forks>>

\* Any number of warps go, once every op has been joined.
Quit ==
  /\ forks = Len(plan) /\ \A w \in Warps : stage[w] \in {<<"out">>, <<"gone">>}
  /\ \E W \in SUBSET Warps :
       stage' = [w \in Warps |-> IF w \in W THEN <<"gone">> ELSE stage[w]]
  /\ UNCHANGED <<plan, forks>>

Next == Fork \/ (\E w \in Warps : Leave(w)) \/ Join \/ Quit
Spec == Init /\ [][Next]_vars
=============================================================================
