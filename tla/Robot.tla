---------------------------------- MODULE Robot ----------------------------------
(***************************************************************************)
(* The session of module Handshake and the command path, as the abstract    *)
(* SpeedFailsafe, in one robot.  They meet in three places: RunClient       *)
(* stores LastRecvTime and LastCmdRecvTime for an accepted DATA             *)
(* (receive.go:77-84), the link's start-up overwrites both (spi.go:74-75,   *)
(* serial.go:39-41), and one clock ages everything.  Nothing else couples   *)
(* them: that a robot whose session is over stands still rests on the three *)
(* durations alone.                                                         *)
(***************************************************************************)
EXTENDS Handshake

CONSTANTS
    NoRecvTimeout, \* state.NoRecvTimeout
    LinkPeriod     \* the longest time between two link cycles

\* 1 s and a few milliseconds against robotTimeout's 3 s.
ASSUME TimeoutsAssumption ==
    /\ NoRecvTimeout \in Nat /\ LinkPeriod \in Nat \ {0}
    /\ NoRecvTimeout + LinkPeriod <= RobotTimeout

VARIABLES exempt, cmdAge, busy, cycleAge, moving

F == INSTANCE SpeedFailsafe WITH up <- linkUp

rvars == <<hvars, exempt, cmdAge, busy, cycleAge, moving>>
speedVars == <<exempt, cmdAge, busy, cycleAge, moving>>

RobotTypeOK ==
    /\ HandshakeTypeOK
    /\ exempt \in BOOLEAN
    /\ cmdAge \in 0..(F!Limit + 1)
    /\ busy \in BOOLEAN
    /\ cycleAge \in 0..LinkPeriod
    /\ moving \in BOOLEAN

RobotInit == HInit /\ F!Init

\* A DATA of the session's PC is a command as well as a sign of life.
Commanded(d) == Accepts(d) /\ d.cmd = "DATA"

HearsFromThePC(cmd) ==
    /\ RobotHears(cmd)
    /\ IF Commanded(FromThePC(cmd)) THEN F!Renew ELSE UNCHANGED speedVars

HearsStray ==
    /\ StrayDatagram
    /\ \/ F!Renew /\ \E d \in Datagram : Commanded(d) /\ RecvRenewal(d)
       \/ UNCHANGED speedVars /\ \E d \in Datagram :
             ~Commanded(d) /\ (RecvOffer(d) \/ RecvOkPc(d) \/ RecvRenewal(d))

LinkStarts == RobotLinkStarts /\ F!Start

LinkCycles == (F!BeginCycle \/ F!EndCycle) /\ UNCHANGED hvars

Passes == TimePasses /\ F!Pass

\* What the session, the PC and the network do beside the command path.
Beside ==
    /\ \/ RobotChecks \/ RobotSends
       \/ PcHearsDiscover \/ PcHearsOkRobot \/ PcHearsStatus \/ PcStops \/ PcStarts
       \/ \E m \in FromPC \cup ToPC : Lose(m)
    /\ UNCHANGED speedVars

RobotNext ==
    \/ \E cmd \in {"OFFER", "OK_PC", "DATA", "KEEP_ALIVE"} : HearsFromThePC(cmd)
    \/ HearsStray \/ LinkStarts \/ LinkCycles \/ Passes \/ Beside

RobotFairness ==
    /\ WF_rvars(RobotChecks /\ Beside) /\ WF_rvars(RobotSends /\ Beside)
    /\ WF_rvars(LinkStarts) /\ WF_rvars(LinkCycles) /\ SF_rvars(Passes)
    /\ \A m \in FromPC \cup ToPC : WF_rvars(Lose(m) /\ Beside)
    /\ SF_rvars(HearsFromThePC("OFFER")) /\ SF_rvars(HearsFromThePC("OK_PC"))
    /\ SF_rvars(PcHearsDiscover /\ Beside) /\ SF_rvars(PcHearsOkRobot /\ Beside)

RobotSpec == RobotInit /\ [][RobotNext]_rvars /\ RobotFairness

-----------------------------------------------------------------------------
\* A robot that has given its PC up no longer moves: by the time RunServer
\* ends the session (mw.go:147), the speed failsafe has already stopped the
\* motors, although the two run in different goroutines on different times
\* and neither looks at the other; robot control mode and -velx1000 excepted.
StoppedWithoutSession == connState = "DISCOVERING" => ~moving \/ exempt

================================================================================
