---------------------------- MODULE MCAppLaunch ----------------------------
(* An instance of AppLaunch for TLC: one card. *)
EXTENDS AppLaunch, TLC
CONSTANTS c1, game
MCCarts == {c1}
MCTitles == {game}
MCTitle == c1 :> game
MCSections == {"mediaid"}
MCDests == {"ux0", "net"}
MCStem == game :> game
=============================================================================
