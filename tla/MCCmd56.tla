----------------------------- MODULE MCCmd56 -----------------------------
(* Instances of Cmd56 for TLC: two cards and an empty slot. *)
EXTENDS Cmd56, TLC
CONSTANTS c1, c2
MCCarts == {c1, c2}
(* A retail card and a prototype card of the id every firmware takes. *)
MCCardKeyId == c1 :> 1 @@ c2 :> 32769
(* A retail card and a prototype card of a later key id. *)
MCProtoKeyId == c1 :> 1 @@ c2 :> 32770
=============================================================================
