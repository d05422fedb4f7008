----------------------------- MODULE MCCommandPath -----------------------------
(* CommandPath for TLC: commands and modes that meet every branch. *)
EXTENDS CommandPath

Fires(p, direct_) == [direct |-> direct_, fires |-> TRUE, power |-> p]
\* Exactly 100: the direct flag without a kick.
DirectOnly == [direct |-> TRUE, fires |-> FALSE, power |-> 0]

MCCommands ==
    { [motion |-> 1, kick |-> NoKick, chip |-> NoKick],
      [motion |-> 0, kick |-> Fires(1, FALSE), chip |-> NoKick],
      [motion |-> 0, kick |-> DirectOnly, chip |-> Fires(1, FALSE)] }

Normal == [robotMode |-> FALSE, dryRun |-> FALSE, velX1000 |-> FALSE]
MCModes == {Normal,
            [Normal EXCEPT !.robotMode = TRUE],
            [Normal EXCEPT !.velX1000 = TRUE],
            [Normal EXCEPT !.velX1000 = TRUE, !.dryRun = TRUE]}
================================================================================
