----------------------------- MODULE RobotSession -----------------------------
(***************************************************************************)
(* The session between one robot and the PC that controls it, as two       *)
(* goroutines keep it:                                                      *)
(*                                                                         *)
(*   receive.RunClient  one datagram at a time, its whole handler under     *)
(*                      state.StateMu;                                      *)
(*   mw.RunServer       at 60 Hz: the timeout check and a snapshot under    *)
(*                      state.StateMu, then the send OUTSIDE the lock.      *)
(*                                                                         *)
(* The link goroutine (RunSerial / RunSPI) takes no part in the session,    *)
(* but when it starts it overwrites LastRecvTime, without the lock, after   *)
(* the other two goroutines are running.                                    *)
(*                                                                         *)
(* The PCs are the environment, and an arbitrary one: any PC may deliver    *)
(* any datagram at any moment, which covers loss, duplication, reordering   *)
(* and late datagrams of an old session.                                    *)
(*                                                                         *)
(* Time is discrete.  A time.Time that is only ever compared with now is    *)
(* kept as its age, which stops counting one unit after the largest         *)
(* duration it is compared with.                                            *)
(***************************************************************************)
EXTENDS Naturals

CONSTANTS
    PCs,              \* the IP addresses a datagram may come from
    NoPC,             \* the nil *net.UDPAddr
    RobotIds,         \* the ids a datagram header may carry
    MyID,             \* this robot's id
    RobotTimeout,     \* mw.robotTimeout
    DiscoverInterval, \* mw.discoverInterval
    OkInterval        \* mw.okInterval

ASSUME NoPCAssumption == NoPC \notin PCs
ASSUME IdAssumption == MyID \in RobotIds
ASSUME DurationAssumption ==
    /\ RobotTimeout \in Nat
    /\ DiscoverInterval \in Nat
    /\ OkInterval \in Nat

VARIABLES
    connState,  \* state.ConnectionState
    pcAddress,  \* state.PcAddress (its IP: the port is always PCRecvPort)
    recvAge,    \* now - state.LastRecvTime
    linkUp,     \* the link goroutine has run its start-up code
    server,     \* RunServer: "wait" for the ticker, or "send" after the unlock
    snapshot,   \* RunServer's currentState and currentPcAddr
    discoverAge,\* now - lastDiscoverTime
    okAge,      \* now - lastOkTime
    sent,       \* the last datagram RunServer put on the wire
    \* History variables: no action reads them.
    okFrom,     \* the PC whose OK_PC confirmed the present session, or NoPC
    everOk,     \* the PCs that have ever confirmed a session
    silence,    \* the time since a datagram was last accepted
    forgotten   \* the link overwrote LastRecvTime since then

session == <<connState, pcAddress>>
serverVars == <<server, snapshot, discoverAge, okAge, sent>>
history == <<okFrom, everOk, silence, forgotten>>
vars == <<connState, pcAddress, recvAge, linkUp, server, snapshot,
          discoverAge, okAge, sent, okFrom, everOk, silence, forgotten>>

States == {"DISCOVERING", "OFFERED", "CONNECTED"}
Datagram == [id: RobotIds, cmd: {"OFFER", "OK_PC", "DATA", "KEEP_ALIVE"}, from: PCs]
Sent == [cmd: {"NOTHING", "DISCOVER", "OK_ROBOT", "STATUS"}, to: PCs \cup {NoPC}]

\* One unit later, counting no further than one past limit.
Older(age, limit) == IF age > limit THEN age ELSE age + 1

TypeOK ==
    /\ connState \in States
    /\ pcAddress \in PCs \cup {NoPC}
    /\ recvAge \in 0..(RobotTimeout + 1)
    /\ linkUp \in BOOLEAN
    /\ server \in {"wait", "send"}
    /\ snapshot \in [state: States, addr: PCs \cup {NoPC}]
    /\ discoverAge \in 0..(DiscoverInterval + 1)
    /\ okAge \in 0..(OkInterval + 1)
    /\ sent \in Sent
    /\ okFrom \in PCs \cup {NoPC}
    /\ everOk \in SUBSET PCs
    /\ silence \in 0..(RobotTimeout + 1)
    /\ forgotten \in BOOLEAN

-----------------------------------------------------------------------------
(***************************************************************************)
(* The process starts: state.init() stores now in LastRecvTime, and         *)
(* RunServer's two time.Time are zero, older than any interval.             *)
(***************************************************************************)
Init ==
    /\ connState = "DISCOVERING"
    /\ pcAddress = NoPC
    /\ recvAge = 0
    /\ linkUp = FALSE
    /\ server = "wait"
    /\ snapshot = [state |-> "DISCOVERING", addr |-> NoPC]
    /\ discoverAge = DiscoverInterval + 1
    /\ okAge = OkInterval + 1
    /\ sent = [cmd |-> "NOTHING", to |-> NoPC]
    /\ okFrom = NoPC
    /\ everOk = {}
    /\ silence = 0
    /\ forgotten = FALSE

\* Mutant: the session has a PC, the datagram comes from anybody.
SomePcIP(d) == pcAddress # NoPC

\* isSamePcIP: the datagram comes from the PC the session is with.
IsSamePcIP(d) == pcAddress # NoPC /\ pcAddress = d.from

\* Mutant: the renewal is taken without its two conditions.
AcceptsAnyRenewal(d) ==
    /\ d.id = MyID
    /\ d.cmd = "OK_PC" => connState = "OFFERED" /\ IsSamePcIP(d)

\* What RunClient's filter and switch let through; it drops everything else.
Accepts(d) ==
    /\ d.id = MyID
    /\ \/ d.cmd = "OFFER"
       \/ d.cmd = "OK_PC" /\ connState = "OFFERED" /\ IsSamePcIP(d)
       \/ d.cmd \in {"DATA", "KEEP_ALIVE"} /\ connState = "CONNECTED" /\ IsSamePcIP(d)

\* LastRecvTime.Store(time.Now()) for an accepted datagram.
Heard ==
    /\ recvAge' = 0
    /\ silence' = 0
    /\ forgotten' = FALSE

\* Mutant: an OFFER in a session changes its PC and leaves it confirmed.
RecvOfferKeepsState(d) ==
    /\ Accepts(d) /\ d.cmd = "OFFER"
    /\ pcAddress' = d.from
    /\ connState' = IF connState = "DISCOVERING" THEN "OFFERED" ELSE connState
    /\ okFrom' = NoPC
    /\ Heard
    /\ UNCHANGED <<linkUp, serverVars, everOk>>

\* An OFFER is taken in every state and from every PC: it (re)opens the session.
RecvOffer(d) ==
    /\ Accepts(d) /\ d.cmd = "OFFER"
    /\ pcAddress' = d.from
    /\ connState' = "OFFERED"
    /\ okFrom' = NoPC
    /\ Heard
    /\ UNCHANGED <<linkUp, serverVars, everOk>>

\* OK_PC confirms the session.
RecvOkPc(d) ==
    /\ Accepts(d) /\ d.cmd = "OK_PC"
    /\ connState' = "CONNECTED"
    /\ okFrom' = d.from
    /\ everOk' = everOk \cup {d.from}
    /\ Heard
    /\ UNCHANGED <<pcAddress, linkUp, serverVars>>

\* DATA and KEEP_ALIVE renew a confirmed session (what DATA commands is the
\* subject of module CommandPath).
RecvRenewal(d) ==
    /\ Accepts(d) /\ d.cmd \in {"DATA", "KEEP_ALIVE"}
    /\ Heard
    /\ UNCHANGED <<session, linkUp, serverVars, okFrom, everOk>>

RunClient == \E d \in Datagram : RecvOffer(d) \/ RecvOkPc(d) \/ RecvRenewal(d)

-----------------------------------------------------------------------------
\* Mutants: the timeout one unit early; only for a confirmed session.
TimedOutEarly == connState # "DISCOVERING" /\ recvAge >= RobotTimeout
TimedOutConfirmed == connState = "CONNECTED" /\ recvAge > RobotTimeout

\* RunServer's test of the session's age.
TimedOut == connState # "DISCOVERING" /\ recvAge > RobotTimeout

DropSession ==
    /\ connState' = "DISCOVERING"
    /\ pcAddress' = NoPC
    /\ okFrom' = NoPC

\* The ticker fires: the critical section of one RunServer cycle.
ServerCheck ==
    /\ server = "wait"
    /\ server' = "send"
    /\ IF TimedOut THEN DropSession ELSE UNCHANGED <<session, okFrom>>
    /\ snapshot' = [state |-> connState', addr |-> pcAddress']
    /\ UNCHANGED <<recvAge, linkUp, discoverAge, okAge, sent,
                   everOk, silence, forgotten>>

\* Mutant: a period that is no longer than the PC's duplicate filter.
SendDiscoverSooner ==
    /\ snapshot.state = "DISCOVERING" /\ discoverAge >= DiscoverInterval
    /\ sent' = [cmd |-> "DISCOVER", to |-> NoPC]
    /\ discoverAge' = 0
    /\ UNCHANGED okAge

SendDiscover ==
    /\ snapshot.state = "DISCOVERING" /\ discoverAge > DiscoverInterval
    /\ sent' = [cmd |-> "DISCOVER", to |-> NoPC]
    /\ discoverAge' = 0
    /\ UNCHANGED okAge

SendOkRobot ==
    /\ snapshot.state = "OFFERED" /\ okAge > OkInterval /\ snapshot.addr # NoPC
    /\ sent' = [cmd |-> "OK_ROBOT", to |-> snapshot.addr]
    /\ okAge' = 0
    /\ UNCHANGED discoverAge

\* Mutant: the state is the snapshot's, the address the session's present one.
SendStatusToLive ==
    /\ snapshot.state = "CONNECTED" /\ pcAddress # NoPC
    /\ sent' = [cmd |-> "STATUS", to |-> pcAddress]
    /\ UNCHANGED <<discoverAge, okAge>>

SendStatus ==
    /\ snapshot.state = "CONNECTED" /\ snapshot.addr # NoPC
    /\ sent' = [cmd |-> "STATUS", to |-> snapshot.addr]
    /\ UNCHANGED <<discoverAge, okAge>>

\* The cycle has nothing to send yet, or no one to send it to.
NothingDue ==
    \/ snapshot.state = "DISCOVERING" /\ discoverAge <= DiscoverInterval
    \/ snapshot.state = "OFFERED" /\ (okAge <= OkInterval \/ snapshot.addr = NoPC)
    \/ snapshot.state = "CONNECTED" /\ snapshot.addr = NoPC

SendNothing == NothingDue /\ UNCHANGED <<discoverAge, okAge, sent>>

\* The rest of the cycle, outside the lock: it acts on the snapshot.
ServerSend ==
    /\ server = "send"
    /\ server' = "wait"
    /\ SendDiscover \/ SendOkRobot \/ SendStatus \/ SendNothing
    /\ UNCHANGED <<session, recvAge, linkUp, snapshot, history>>

\* RunSerial / RunSPI reach their loop: LastRecvTime becomes the year 2000, and one
\* statement later LastCmdRecvTime.  (In one step here: a DATA in between would leave
\* the session renewed and the command old, which only stops the robot the sooner.)
LinkStart ==
    /\ ~linkUp
    /\ linkUp' = TRUE
    /\ recvAge' = RobotTimeout + 1
    /\ forgotten' = TRUE
    /\ UNCHANGED <<session, serverVars, okFrom, everOk, silence>>

Tick ==
    /\ recvAge' = Older(recvAge, RobotTimeout)
    /\ silence' = Older(silence, RobotTimeout)
    /\ discoverAge' = Older(discoverAge, DiscoverInterval)
    /\ okAge' = Older(okAge, OkInterval)
    /\ UNCHANGED <<session, linkUp, server, snapshot, sent, okFrom, everOk,
                   forgotten>>

Next == RunClient \/ ServerCheck \/ ServerSend \/ LinkStart \/ Tick

Spec == Init /\ [][Next]_vars

-----------------------------------------------------------------------------
(***************************************************************************)
(* Properties                                                               *)
(***************************************************************************)

\* The lock keeps the two fields of the session together: there is a PC
\* address exactly when the robot is out of DISCOVERING.  (RunServer's nil
\* checks before its sends are never what decides.)
SessionHasAddress == connState = "DISCOVERING" <=> pcAddress = NoPC

\* A session is confirmed only by the PC whose OFFER opened it: a third
\* machine's OK_PC, or one left over from the PC the session was taken from,
\* never confirms it.
ConfirmedByItsPC ==
    /\ connState = "CONNECTED" => okFrom = pcAddress
    /\ connState # "CONNECTED" => okFrom = NoPC

\* RunServer sends on a snapshot taken before the unlock, and by then the
\* session may belong to another PC.  The status frames still go only to a PC
\* that has completed a handshake, never to one that merely sent an OFFER.
StatusOnlyAfterHandshake == sent.cmd = "STATUS" => sent.to \in everOk

\* "PCから3s音沙汰がなければタイムアウト" (mw.go:54): the robot gives a session up
\* only after RobotTimeout of silence from its PC.
DropOnlyWhenSilent ==
    [][connState # "DISCOVERING" /\ connState' = "DISCOVERING"
         => silence > RobotTimeout]_vars

\* What does hold: a session is given up without that silence only when the
\* link's start-up overwrote LastRecvTime after the last accepted datagram.
DropOnlyWhenSilentOrForgotten ==
    [][connState # "DISCOVERING" /\ connState' = "DISCOVERING"
         => silence > RobotTimeout \/ forgotten]_vars

\* The two goroutines, with the sends outside the lock, implement the lease of
\* module PcLease: the session passes from one PC to another only through a
\* new, unconfirmed lease, and ends only when its age is past RobotTimeout.
Lease == INSTANCE PcLease WITH
    Limit <- RobotTimeout,
    holder <- pcAddress,
    confirmed <- connState = "CONNECTED",
    age <- recvAge,
    lapsed <- linkUp

ImplementsPcLease == Lease!Spec

=============================================================================
