-------------------------- MODULE MCSubscriptions --------------------------
(***************************************************************************)
(* Subscriptions with two checkouts: one subscription that is cancelled,   *)
(* or suspended and then revived or cancelled, and another.                *)
(***************************************************************************)
EXTENDS Subscriptions, TLC

CONSTANTS c1, c2

At(status, at) == [status |-> status, at |-> at]
MCPlan == (c1 :> "PRO") @@ (c2 :> "STUDIO")
Live(first, second) == (c1 :> first) @@ (c2 :> second)
MCLives ==
    {Live(<<At("ACTIVE", 1), At("SUSPENDED", 1), At("CANCELED", 1)>>, <<At("ACTIVE", 1)>>),
     Live(<<At("ACTIVE", 1), At("SUSPENDED", 2), At("ACTIVE", 3)>>, <<At("ACTIVE", 2)>>),
     Live(<<At("ACTIVE", 1), At("EXPIRED", 2)>>, <<At("ACTIVE", 2)>>)}
Symmetry == Permutations(Slots)
=============================================================================
