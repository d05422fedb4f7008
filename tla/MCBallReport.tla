------------------------------ MODULE MCBallReport ------------------------------
(* BallReport for TLC: two neighbouring places, and one far from both. *)
EXTENDS BallReport

MCPlaces == {"left", "middle", "right"}
MCNear == [left   |-> {"left", "middle"},
           middle |-> {"left", "middle"},
           right  |-> {"right"}]
================================================================================
