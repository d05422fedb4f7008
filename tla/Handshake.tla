------------------------------- MODULE Handshake -------------------------------
(***************************************************************************)
(* RobotSession closed with one PC and the network between them, for what   *)
(* must eventually happen: the handshake completes, and a dead PC's session *)
(* ends.                                                                    *)
(*                                                                         *)
(* The PC program is not part of this repository.  It is modelled from how  *)
(* the robot's code uses it: it answers DISCOVER with OFFER and OK_ROBOT    *)
(* with OK_PC, and it discards a DISCOVER that comes within                 *)
(* discoverInterval of the last communication (mw.go:52).                   *)
(*                                                                         *)
(* The network loses, reorders and merges datagrams.  One in flight is      *)
(* heard or lost within one unit of time (0.75 s in the instance checked),  *)
(* and RunServer runs one cycle in each unit, of the dozens its 60 Hz       *)
(* ticker gives it: TimePasses waits for both.                              *)
(***************************************************************************)
EXTENDS RobotSession

CONSTANTS
    ThePC,
    MaxStray   \* bound: the datagrams that come from anywhere else

ASSUME ThePCAssumption == ThePC \in PCs
ASSUME MaxStrayAssumption == MaxStray \in Nat

VARIABLES
    net,     \* the datagrams in flight, both ways
    ran,     \* RunServer has run its cycle of this unit of time
    pcUp,    \* the PC program is running
    pcAge,   \* the time since the PC last heard this robot
    stray    \* the datagrams that came from anywhere else

hvars == <<vars, net, ran, pcUp, pcAge, stray>>

FromPC == [id: {MyID}, cmd: {"OFFER", "OK_PC", "DATA", "KEEP_ALIVE"}, from: {ThePC}]
ToPC == {s \in Sent : s.cmd # "NOTHING"}
FromThePC(cmd) == [id |-> MyID, cmd |-> cmd, from |-> ThePC]

HandshakeTypeOK ==
    /\ TypeOK
    /\ net \in SUBSET (FromPC \cup ToPC)
    /\ ran \in BOOLEAN
    /\ pcUp \in BOOLEAN
    /\ pcAge \in 0..(DiscoverInterval + 1)
    /\ stray \in 0..MaxStray

HInit ==
    /\ Init
    /\ net = {}
    /\ ran = FALSE
    /\ pcUp = TRUE
    /\ pcAge = DiscoverInterval + 1
    /\ stray = 0

\* The robot reads one datagram; RunClient drops it when no case takes it.
RobotHears(cmd) ==
    LET d == FromThePC(cmd) IN
    /\ d \in net
    /\ net' = net \ {d}
    /\ \/ RecvOffer(d) \/ RecvOkPc(d) \/ RecvRenewal(d)
       \/ ~Accepts(d) /\ UNCHANGED vars
    /\ UNCHANGED <<ran, pcUp, pcAge, stray>>

RobotChecks ==
    /\ ~ran /\ ran' = TRUE
    /\ ServerCheck
    /\ UNCHANGED <<net, pcUp, pcAge, stray>>

RobotSends ==
    /\ ServerSend
    /\ net' = IF NothingDue THEN net ELSE net \cup {sent'}
    /\ UNCHANGED <<ran, pcUp, pcAge, stray>>

RobotLinkStarts == LinkStart /\ UNCHANGED <<net, ran, pcUp, pcAge, stray>>

-----------------------------------------------------------------------------
\* The PC hears a DISCOVER: a repeated one is discarded as a duplicate.
PcHearsDiscover ==
    \E s \in net \cap ToPC :
       /\ s.cmd = "DISCOVER" /\ pcUp
       /\ net' = (net \ {s}) \cup
                    (IF pcAge > DiscoverInterval THEN {FromThePC("OFFER")} ELSE {})
       /\ pcAge' = 0
       /\ UNCHANGED <<vars, ran, pcUp, stray>>

PcHearsOkRobot ==
    \E s \in net \cap ToPC :
       /\ s.cmd = "OK_ROBOT" /\ pcUp
       /\ net' = (net \ {s}) \cup {FromThePC("OK_PC")}
       /\ pcAge' = 0
       /\ UNCHANGED <<vars, ran, pcUp, stray>>

\* A status frame: the PC may answer with a command or a keep-alive.
PcHearsStatus ==
    \E s \in net \cap ToPC, answer \in SUBSET {"DATA", "KEEP_ALIVE"} :
       /\ s.cmd = "STATUS" /\ pcUp
       /\ net' = (net \ {s}) \cup {FromThePC(cmd) : cmd \in answer}
       /\ pcAge' = 0
       /\ UNCHANGED <<vars, ran, pcUp, stray>>

\* The PC program stops, and is started again knowing nothing of the robot.
PcStops ==
    /\ pcUp /\ pcUp' = FALSE
    /\ UNCHANGED <<vars, net, ran, pcAge, stray>>

PcStarts ==
    /\ ~pcUp /\ pcUp' = TRUE
    /\ pcAge' = DiscoverInterval + 1
    /\ UNCHANGED <<vars, net, ran, stray>>

Lose(m) ==
    /\ m \in net
    /\ net' = net \ {m}
    /\ UNCHANGED <<vars, ran, pcUp, pcAge, stray>>

\* A datagram of another PC, or one of this PC's that comes late or twice.
StrayDatagram ==
    /\ stray < MaxStray /\ stray' = stray + 1
    /\ RunClient
    /\ UNCHANGED <<net, ran, pcUp, pcAge>>

TimePasses ==
    /\ net = {} /\ ran /\ server = "wait"
    /\ Tick
    /\ ran' = FALSE
    /\ pcAge' = Older(pcAge, DiscoverInterval)
    /\ UNCHANGED <<net, pcUp, stray>>

HNext ==
    \/ \E cmd \in {"OFFER", "OK_PC", "DATA", "KEEP_ALIVE"} : RobotHears(cmd)
    \/ RobotChecks \/ RobotSends \/ RobotLinkStarts
    \/ PcHearsDiscover \/ PcHearsOkRobot \/ PcHearsStatus
    \/ PcStops \/ PcStarts \/ StrayDatagram \/ TimePasses
    \/ \E m \in FromPC \cup ToPC : Lose(m)

(***************************************************************************)
(* The goroutines are scheduled, time passes, and a kind of datagram that   *)
(* is sent again and again is not lost every time.                          *)
(***************************************************************************)
Fairness ==
    /\ WF_hvars(RobotChecks) /\ WF_hvars(RobotSends) /\ WF_hvars(RobotLinkStarts)
    /\ WF_hvars(TimePasses)
    /\ \A m \in FromPC \cup ToPC : WF_hvars(Lose(m))
    /\ SF_hvars(RobotHears("OFFER")) /\ SF_hvars(RobotHears("OK_PC"))
    /\ SF_hvars(PcHearsDiscover) /\ SF_hvars(PcHearsOkRobot)

HSpec == HInit /\ [][HNext]_hvars /\ Fairness

-----------------------------------------------------------------------------
\* While the PC program stays up the robot gets connected again, whatever was
\* lost: no pairing of the DISCOVER period with the PC's duplicate filter, and
\* no half-done handshake, keeps it out for ever.
AlwaysReconnects == <>[]pcUp => []<>(connState = "CONNECTED")

\* When the PC is gone for good, so is its session: the robot ends up
\* discovering, ready for another PC.
DeadPcReleased == <>[]~pcUp => <>[](connState = "DISCOVERING")

================================================================================
