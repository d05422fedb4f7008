------------------------------ MODULE SpeedFailsafe ------------------------------
(***************************************************************************)
(* What the command path promises about motion, as an abstract             *)
(* specification: whatever is commanded, a frame that moves the robot       *)
(* leaves only while the last DATA is no older than NoRecvTimeout, and the  *)
(* next frame follows within LinkPeriod.  CommandPath implements it; Robot  *)
(* composes it with the session.                                            *)
(***************************************************************************)
EXTENDS Naturals

CONSTANTS NoRecvTimeout, LinkPeriod

VARIABLES
    exempt,   \* robot control mode or -velx1000: the failsafe is off
    cmdAge,   \* now - LastCmdRecvTime, counted one past the longest it matters
    up,       \* the link has started
    busy,     \* the link is inside a cycle
    cycleAge, \* the time since the last cycle began
    moving    \* the last frame on the wire moves the robot

failsafeVars == <<exempt, cmdAge, up, busy, cycleAge, moving>>

Limit == NoRecvTimeout + LinkPeriod

Init ==
    /\ exempt \in BOOLEAN /\ cmdAge = 0
    /\ up = FALSE /\ busy = FALSE /\ cycleAge = 0 /\ moving = FALSE

\* An accepted DATA, whether it moves the robot, stops it or says nothing.
Renew ==
    /\ cmdAge' = 0
    /\ UNCHANGED <<exempt, up, busy, cycleAge, moving>>

\* The link starts and overwrites LastCmdRecvTime.
Start ==
    /\ ~up /\ up' = TRUE
    /\ cmdAge' = Limit + 1
    /\ UNCHANGED <<exempt, busy, cycleAge, moving>>

BeginCycle ==
    /\ up /\ ~busy
    /\ busy' = TRUE /\ cycleAge' = 0
    /\ UNCHANGED <<exempt, cmdAge, up, moving>>

\* The frame goes out: it moves the robot only on a command that is not too old.
EndCycle ==
    /\ busy /\ busy' = FALSE
    /\ moving' \in BOOLEAN
    /\ moving' => exempt \/ cmdAge <= NoRecvTimeout
    /\ UNCHANGED <<exempt, cmdAge, up, cycleAge>>

\* Time passes between the cycles, which follow one another within LinkPeriod.
Pass ==
    /\ ~busy /\ (up => cycleAge < LinkPeriod)
    /\ cmdAge' = IF cmdAge > Limit THEN cmdAge ELSE cmdAge + 1
    /\ cycleAge' = IF up THEN cycleAge + 1 ELSE cycleAge
    /\ UNCHANGED <<exempt, up, busy, moving>>

Next == Renew \/ Start \/ BeginCycle \/ EndCycle \/ Pass

Spec == Init /\ [][Next]_failsafeVars

================================================================================
