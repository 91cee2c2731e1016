------------------------------ MODULE CardAuth ------------------------------
(***************************************************************************)
(* What authentication promises: a run yields both keys of one card that   *)
(* was in the slot while it ran, or it yields nothing.                     *)
(***************************************************************************)
CONSTANTS Carts, NoCart
VARIABLES running, keys, slot, seen

NoKeys == <<NoCart, NoCart>>

Init == running = FALSE /\ keys = NoKeys /\ slot \in Carts \cup {NoCart} /\ seen = {}

Start ==
    /\ ~running /\ slot \in Carts
    /\ running' = TRUE /\ keys' = NoKeys /\ seen' = {slot}
    /\ UNCHANGED slot

Succeed ==
    /\ running /\ running' = FALSE
    /\ \E c \in seen : keys' = <<c, c>>
    /\ UNCHANGED <<slot, seen>>

Fail ==
    /\ running /\ running' = FALSE
    /\ keys' = NoKeys
    /\ UNCHANGED <<slot, seen>>

Remove ==
    /\ slot \in Carts /\ slot' = NoCart
    /\ UNCHANGED <<running, keys, seen>>

Insert ==
    /\ slot = NoCart
    /\ \E c \in Carts : slot' = c /\ seen' = seen \cup {c}
    /\ UNCHANGED <<running, keys>>

Next == Start \/ Succeed \/ Fail \/ Remove \/ Insert
Spec == Init /\ [][Next]_<<running, keys, slot, seen>>
=============================================================================
