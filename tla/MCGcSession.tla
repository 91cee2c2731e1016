---------------------------- MODULE MCGcSession ----------------------------
(* Instances of GcSession for TLC: two copies of one game. *)
EXTENDS GcSession, TLC
CONSTANTS c1, c2, game
MCCarts == {c1, c2}
MCTitles == {game}
MCTitle == c1 :> game @@ c2 :> game
MCSections == {"grw0", "mediaid"}
MCDests == {"ux0", "uma0", "net"}
OneDest == {"ux0"}
NoSections == {}
MCStem == game :> game
=============================================================================
