--------------------------- MODULE MCLocalIntents ---------------------------
(* A finite instance of LocalIntents: two applications and their names.      *)
EXTENDS LocalIntents, TLC

CONSTANTS mail, player, mailName, playerName

EntityDef == (mailName :> mail) @@ (playerName :> player)
DisplayDef == (mail :> mailName) @@ (player :> playerName)

\* The two applications may be exchanged together with their names.
Symmetry == {(mail :> player) @@ (player :> mail)
             @@ (mailName :> playerName) @@ (playerName :> mailName)}
=============================================================================
