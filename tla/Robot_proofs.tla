------------------------------ MODULE Robot_proofs ------------------------------
(***************************************************************************)
(* Proofs about the session in the robot, for any PCs and durations.        *)
(*                                                                         *)
(*   RobotSession  its types, its safety invariants, when a session is       *)
(*                 given up, and that it implements the lease of PcLease;    *)
(*   Robot         the composition keeps the promises of the session and of  *)
(*                 the speed failsafe, and a robot without a session stands  *)
(*                 still, for any number of stray datagrams.                 *)
(***************************************************************************)
EXTENDS Robot, TLAPS

USE NoPCAssumption, DurationAssumption

-----------------------------------------------------------------------------
\* Ages stay within their range when time passes.
LEMMA OlderInRange ==
    ASSUME NEW limit \in Nat, NEW age \in 0..(limit + 1)
    PROVE  Older(age, limit) \in 0..(limit + 1)
BY DEF Older

\* The ages that actions assign are in range.
LEMMA AgeBounds ==
    ASSUME NEW limit \in Nat
    PROVE  0 \in 0..(limit + 1) /\ limit + 1 \in 0..(limit + 1)
OBVIOUS

(***************************************************************************)
(* Every variable of the session keeps its type (state.go:119-125,          *)
(* mw.go:109-126).                                                          *)
(***************************************************************************)
THEOREM TypeCorrect == Spec => []TypeOK
<1>1. Init => TypeOK
  <2> SUFFICES ASSUME Init
               PROVE  TypeOK
    OBVIOUS
  <2>1. /\ recvAge \in 0..(RobotTimeout + 1)
        /\ silence \in 0..(RobotTimeout + 1)
        /\ discoverAge \in 0..(DiscoverInterval + 1)
        /\ okAge \in 0..(OkInterval + 1)
    BY AgeBounds DEF Init
  <2>2. QED
    BY <2>1 DEF Init, TypeOK, States, Sent
<1>2. TypeOK /\ [Next]_vars => TypeOK'
  <2> SUFFICES ASSUME TypeOK, [Next]_vars
               PROVE  TypeOK'
    OBVIOUS
  <2> USE DEF TypeOK, States
  <2>1. ASSUME NEW d \in Datagram, RecvOffer(d)
        PROVE  TypeOK'
    BY <2>1, AgeBounds DEF RecvOffer, Heard, serverVars, Datagram
  <2>2. ASSUME NEW d \in Datagram, RecvOkPc(d)
        PROVE  TypeOK'
    BY <2>2, AgeBounds DEF RecvOkPc, Heard, serverVars, Datagram
  <2>3. ASSUME NEW d \in Datagram, RecvRenewal(d)
        PROVE  TypeOK'
    BY <2>3, AgeBounds DEF RecvRenewal, Heard, session, serverVars
  <2>4. CASE ServerCheck
    <3>1. /\ connState' \in States
          /\ pcAddress' \in PCs \cup {NoPC}
          /\ okFrom' \in PCs \cup {NoPC}
      BY <2>4 DEF ServerCheck, DropSession, session
    <3>2. QED
      BY <2>4, <3>1 DEF ServerCheck
  <2>5. CASE ServerSend
    <3>1. /\ discoverAge' \in 0..(DiscoverInterval + 1)
          /\ okAge' \in 0..(OkInterval + 1)
          /\ sent' \in Sent
      BY <2>5 DEF ServerSend, SendDiscover, SendOkRobot, SendStatus, SendNothing, Sent
    <3>2. QED
      BY <2>5, <3>1 DEF ServerSend, session, history
  <2>6. CASE LinkStart
    BY <2>6 DEF LinkStart, session, serverVars
  <2>7. CASE Tick
    <3>1. /\ recvAge' \in 0..(RobotTimeout + 1)
          /\ silence' \in 0..(RobotTimeout + 1)
          /\ discoverAge' \in 0..(DiscoverInterval + 1)
          /\ okAge' \in 0..(OkInterval + 1)
      BY <2>7, OlderInRange DEF Tick
    <3>2. QED
      BY <2>7, <3>1 DEF Tick, session
  <2>8. CASE UNCHANGED vars
    BY <2>8 DEF vars
  <2>9. QED
    BY <2>1, <2>2, <2>3, <2>4, <2>5, <2>6, <2>7, <2>8 DEF Next, RunClient
<1>3. QED
  BY <1>1, <1>2, PTL DEF Spec

-----------------------------------------------------------------------------
(***************************************************************************)
(* The inductive invariant.  SessionHasAddress and ConfirmedByItsPC are     *)
(* needed to see that a snapshot in CONNECTED carries a PC that confirmed;  *)
(* the snapshot, that outlives the lock, has to carry the same fact on to   *)
(* the send.                                                                *)
(***************************************************************************)
SnapshotConfirmed ==
    server = "send" /\ snapshot.state = "CONNECTED" => snapshot.addr \in everOk

ConfirmedPCsAreKnown == okFrom # NoPC => okFrom \in everOk

SessionInv ==
    /\ SessionHasAddress
    /\ ConfirmedByItsPC
    /\ ConfirmedPCsAreKnown
    /\ SnapshotConfirmed
    /\ StatusOnlyAfterHandshake

\* SessionInv holds initially and every step of the two goroutines keeps it.
THEOREM SessionInvariant == Spec => []SessionInv
<1>1. Init => SessionInv
  BY DEF Init, SessionInv, SessionHasAddress, ConfirmedByItsPC, ConfirmedPCsAreKnown,
         SnapshotConfirmed, StatusOnlyAfterHandshake
<1>2. TypeOK /\ SessionInv /\ [Next]_vars => SessionInv'
  <2> SUFFICES ASSUME TypeOK, SessionInv, [Next]_vars
               PROVE  SessionInv'
    OBVIOUS
  <2> USE DEF TypeOK, States, SessionInv, SessionHasAddress, ConfirmedByItsPC,
              ConfirmedPCsAreKnown, SnapshotConfirmed, StatusOnlyAfterHandshake
  <2>1. ASSUME NEW d \in Datagram, RecvOffer(d)
        PROVE  SessionInv'
    BY <2>1 DEF RecvOffer, Heard, serverVars, Datagram
  <2>2. ASSUME NEW d \in Datagram, RecvOkPc(d)
        PROVE  SessionInv'
    <3>1. d.from \in PCs /\ pcAddress = d.from
      BY <2>2 DEF RecvOkPc, Accepts, IsSamePcIP, Datagram
    <3>2. QED
      BY <2>2, <3>1 DEF RecvOkPc, serverVars
  <2>3. ASSUME NEW d \in Datagram, RecvRenewal(d)
        PROVE  SessionInv'
    BY <2>3 DEF RecvRenewal, Heard, session, serverVars
  <2>4. CASE ServerCheck
    <3>1. CASE TimedOut
      BY <2>4, <3>1 DEF ServerCheck, DropSession
    <3>2. CASE ~TimedOut
      <4>1. snapshot' = [state |-> connState, addr |-> pcAddress]
        BY <2>4, <3>2 DEF ServerCheck, session
      <4>2. QED
        BY <2>4, <3>2, <4>1 DEF ServerCheck, session
    <3>3. QED
      BY <3>1, <3>2
  <2>5. CASE ServerSend
    BY <2>5 DEF ServerSend, SendDiscover, SendOkRobot, SendStatus, SendNothing,
                session, history
  <2>6. CASE LinkStart
    BY <2>6 DEF LinkStart, session, serverVars
  <2>7. CASE Tick
    BY <2>7 DEF Tick, session
  <2>8. CASE UNCHANGED vars
    BY <2>8 DEF vars
  <2>9. QED
    BY <2>1, <2>2, <2>3, <2>4, <2>5, <2>6, <2>7, <2>8 DEF Next, RunClient
<1>3. QED
  BY <1>1, <1>2, TypeCorrect, PTL DEF Spec

\* There is a PC address exactly outside DISCOVERING: StateMu keeps the two
\* fields together through OFFERs, take-overs and timeouts.
THEOREM AddressWithSession == Spec => []SessionHasAddress
BY SessionInvariant, PTL DEF SessionInv

\* No PC but the one that opened a session ever confirms it.
THEOREM SessionConfirmedByItsPC == Spec => []ConfirmedByItsPC
BY SessionInvariant, PTL DEF SessionInv

\* Status frames go only to PCs that completed a handshake, although RunServer
\* sends them after it has released the lock.
THEOREM StatusAfterHandshake == Spec => []StatusOnlyAfterHandshake
BY SessionInvariant, PTL DEF SessionInv

-----------------------------------------------------------------------------
\* Unless the link's start-up has overwritten it, LastRecvTime tells how long
\* the robot has heard nothing.
AgeIsSilence == ~forgotten => recvAge = silence

\* recvAge, as RunServer reads it, is the silence unless LinkStart has intervened.
THEOREM AgeTellsSilence == Spec => []AgeIsSilence
<1>1. Init => AgeIsSilence
  BY DEF Init, AgeIsSilence
<1>2. AgeIsSilence /\ [Next]_vars => AgeIsSilence'
  BY DEF AgeIsSilence, Next, RunClient, RecvOffer, RecvOkPc, RecvRenewal, Heard,
         ServerCheck, ServerSend, history, LinkStart, Tick, vars
<1>3. QED
  BY <1>1, <1>2, PTL DEF Spec

\* mw.go:54: the robot gives up its session only after RobotTimeout of silence,
\* or when the link's start-up overwrote LastRecvTime after the last datagram.
THEOREM SessionDroppedOnlyWhenSilent == Spec => DropOnlyWhenSilentOrForgotten
<1>1. AgeIsSilence /\ [Next]_vars =>
        [connState # "DISCOVERING" /\ connState' = "DISCOVERING"
           => silence > RobotTimeout \/ forgotten]_vars
  BY DEF AgeIsSilence, Next, RunClient, RecvOffer, RecvOkPc, RecvRenewal,
         ServerCheck, TimedOut, ServerSend, LinkStart, Tick, session
<1>2. QED
  BY <1>1, AgeTellsSilence, PTL DEF Spec, DropOnlyWhenSilentOrForgotten

-----------------------------------------------------------------------------
(***************************************************************************)
(* The session implements PcLease: each step of RunClient, RunServer, the   *)
(* link's start and the clock is a step of the lease or leaves it alone.    *)
(***************************************************************************)
THEOREM Refinement == Spec => ImplementsPcLease
<1>1. Init => Lease!Init
  BY DEF Init, Lease!Init
<1>2. TypeOK /\ SessionInv /\ [Next]_vars => [Lease!Next]_(Lease!lease)
  <2> SUFFICES ASSUME TypeOK, SessionInv, [Next]_vars
               PROVE  [Lease!Next]_(Lease!lease)
    OBVIOUS
  <2> USE DEF TypeOK, States, SessionInv, SessionHasAddress, Lease!lease
  <2>1. ASSUME NEW d \in Datagram, RecvOffer(d)
        PROVE  Lease!Acquire(d.from) /\ d.from \in PCs
    BY <2>1 DEF RecvOffer, Heard, Datagram, Lease!Acquire
  <2>2. ASSUME NEW d \in Datagram, RecvOkPc(d)
        PROVE  Lease!Confirm
    BY <2>2 DEF RecvOkPc, Accepts, IsSamePcIP, Heard, Lease!Confirm
  <2>3. ASSUME NEW d \in Datagram, RecvRenewal(d)
        PROVE  Lease!Renew
    BY <2>3 DEF RecvRenewal, Accepts, IsSamePcIP, Heard, session, Lease!Renew
  <2>4. CASE ServerCheck
    BY <2>4 DEF ServerCheck, TimedOut, DropSession, session, Lease!Next, Lease!Expire
  <2>5. CASE ServerSend
    BY <2>5 DEF ServerSend, session
  <2>6. CASE LinkStart
    BY <2>6 DEF LinkStart, session, Lease!Next, Lease!Lapse
  <2>7. CASE Tick
    BY <2>7 DEF Tick, Older, session, Lease!Next, Lease!Pass
  <2>8. CASE UNCHANGED vars
    BY <2>8 DEF vars
  <2>9. QED
    BY <2>1, <2>2, <2>3, <2>4, <2>5, <2>6, <2>7, <2>8
       DEF Next, RunClient, Lease!Next
<1>3. QED
  BY <1>1, <1>2, TypeCorrect, SessionInvariant, PTL
     DEF Spec, ImplementsPcLease, Lease!Spec

USE IdAssumption, ThePCAssumption, TimeoutsAssumption

-----------------------------------------------------------------------------
(***************************************************************************)
(* The composition implements its parts.                                    *)
(***************************************************************************)

\* A datagram of this PC is one of RobotSession's.
LEMMA FromThePCIsDatagram ==
    ASSUME NEW cmd \in {"OFFER", "OK_PC", "DATA", "KEEP_ALIVE"}
    PROVE  FromThePC(cmd) \in Datagram
BY DEF FromThePC, Datagram

\* What the PC and the network do beside the session is a stutter of it.
LEMMA RobotStepOfSession == [RobotNext]_rvars => [Next]_vars
<1> SUFFICES ASSUME [RobotNext]_rvars
             PROVE  [Next]_vars
  OBVIOUS
<1>1. ASSUME NEW cmd \in {"OFFER", "OK_PC", "DATA", "KEEP_ALIVE"}, HearsFromThePC(cmd)
      PROVE  [Next]_vars
  BY <1>1, FromThePCIsDatagram DEF HearsFromThePC, RobotHears, Next, RunClient
<1>2. CASE HearsStray
  BY <1>2 DEF HearsStray, StrayDatagram, Next
<1>3. CASE LinkStarts
  BY <1>3 DEF LinkStarts, RobotLinkStarts, Next
<1>4. CASE LinkCycles
  BY <1>4 DEF LinkCycles, hvars
<1>5. CASE Passes
  BY <1>5 DEF Passes, TimePasses, Next
<1>6. CASE Beside
  BY <1>6 DEF Beside, RobotChecks, RobotSends, PcHearsDiscover, PcHearsOkRobot,
              PcHearsStatus, PcStops, PcStarts, Lose, Next
<1>7. CASE UNCHANGED rvars
  BY <1>7 DEF rvars, hvars
<1>8. QED
  BY <1>1, <1>2, <1>3, <1>4, <1>5, <1>6, <1>7 DEF RobotNext

\* The session in the robot is the session of RobotSession: what is proved of
\* that one for any PCs holds here, between one PC and strangers.
THEOREM SessionInRobot == RobotSpec => Spec
<1>1. RobotInit => Init
  BY DEF RobotInit, HInit
<1>2. QED
  BY <1>1, RobotStepOfSession, PTL DEF RobotSpec, Spec

\* Every step of the robot is a step of the failsafe or leaves it alone.
LEMMA RobotStepOfFailsafe == [RobotNext]_rvars => [F!Next]_(F!failsafeVars)
<1> SUFFICES ASSUME [RobotNext]_rvars
             PROVE  [F!Next]_(F!failsafeVars)
  OBVIOUS
<1> USE DEF F!failsafeVars, speedVars
<1>1. ASSUME NEW d \in Datagram, RecvOffer(d) \/ RecvOkPc(d) \/ RecvRenewal(d)
      PROVE  linkUp' = linkUp
  BY <1>1 DEF RecvOffer, RecvOkPc, RecvRenewal
<1>2. ASSUME NEW cmd \in {"OFFER", "OK_PC", "DATA", "KEEP_ALIVE"}, HearsFromThePC(cmd)
      PROVE  [F!Next]_(F!failsafeVars)
  <2>1. linkUp' = linkUp
    BY <1>1, <1>2, FromThePCIsDatagram DEF HearsFromThePC, RobotHears, vars
  <2>2. QED
    BY <1>2, <2>1 DEF HearsFromThePC, F!Next
<1>3. CASE HearsStray
  BY <1>1, <1>3 DEF HearsStray, F!Next
<1>4. CASE LinkStarts \/ LinkCycles \/ Passes
  BY <1>4 DEF LinkStarts, LinkCycles, Passes, F!Next
<1>5. CASE Beside
  <2>1. linkUp' = linkUp
    BY <1>5 DEF Beside, RobotChecks, ServerCheck, RobotSends, ServerSend, PcHearsDiscover,
                PcHearsOkRobot, PcHearsStatus, PcStops, PcStarts, Lose, vars
  <2>2. QED
    BY <1>5, <2>1 DEF Beside
<1>6. CASE UNCHANGED rvars
  BY <1>6 DEF rvars, hvars, vars
<1>7. QED
  BY <1>2, <1>3, <1>4, <1>5, <1>6 DEF RobotNext

\* The command path in the robot is the abstract failsafe, which CommandPath
\* implements.
THEOREM FailsafeInRobot == RobotSpec => F!Spec
<1>1. RobotInit => F!Init
  BY DEF RobotInit
<1>2. QED
  BY <1>1, RobotStepOfFailsafe, PTL DEF RobotSpec, F!Spec

-----------------------------------------------------------------------------
(***************************************************************************)
(* StoppedWithoutSession is not inductive: it rests on how the two times    *)
(* are related.  A command is also a sign of life, so the age of the last   *)
(* command is never the smaller one, as far as it is counted; a robot that   *)
(* moves has a command no older than the failsafe allows; so by the time    *)
(* the session is dropped the last command is past that.  Before the link   *)
(* is up nothing moves, and its start-up makes the last command an old one. *)
(***************************************************************************)
SpeedTypes ==
    /\ cmdAge \in 0..(F!Limit + 1)
    /\ cycleAge \in 0..LinkPeriod
    /\ recvAge \in 0..(RobotTimeout + 1)

StandsInv ==
    /\ cmdAge <= F!Limit => recvAge <= cmdAge
    /\ ~linkUp => ~busy /\ ~moving /\ cycleAge = 0
    /\ busy => cycleAge = 0
    /\ moving /\ ~exempt =>
          cmdAge <= NoRecvTimeout + (IF busy THEN LinkPeriod ELSE cycleAge)
    /\ linkUp /\ connState = "DISCOVERING" => cmdAge > F!Limit

RobotInv == SpeedTypes /\ StandsInv

\* It holds when the robot is switched on.
LEMMA RobotInvInit == RobotInit => RobotInv
BY DEF RobotInit, HInit, Init, F!Init, RobotInv, SpeedTypes, StandsInv, F!Limit

\* A datagram that is accepted and no command is heard: the session lives on,
\* or a new one begins, while the last command only gets older.
LEMMA HeardKeepsInv ==
    ASSUME RobotInv, recvAge' = 0,
           UNCHANGED <<linkUp, exempt, cmdAge, busy, cycleAge, moving>>,
           connState' # "DISCOVERING" \/ connState' = connState
    PROVE  RobotInv'
BY DEF RobotInv, SpeedTypes, StandsInv, F!Limit

\* A command of a session that is confirmed.
LEMMA CommandedKeepsInv ==
    ASSUME RobotInv, NEW d \in Datagram, Commanded(d), RecvRenewal(d), F!Renew
    PROVE  RobotInv'
BY DEF RobotInv, SpeedTypes, StandsInv, Commanded, Accepts, RecvRenewal, Heard, session,
       F!Renew, F!Limit

\* The handler of any datagram that is no command.
LEMMA OtherDatagramKeepsInv ==
    ASSUME RobotInv, NEW d \in Datagram, RecvOffer(d) \/ RecvOkPc(d) \/ RecvRenewal(d),
           UNCHANGED speedVars
    PROVE  RobotInv'
<1>1. /\ recvAge' = 0 /\ linkUp' = linkUp
      /\ connState' # "DISCOVERING" \/ connState' = connState
  BY DEF RecvOffer, RecvOkPc, RecvRenewal, Heard, session
<1>2. QED
  BY <1>1, HeardKeepsInv DEF speedVars

\* A step that disturbs neither the ages nor the session nor the motion.
LEMMA RobotInvFrame ==
    ASSUME RobotInv, UNCHANGED <<connState, recvAge, linkUp, speedVars>>
    PROVE  RobotInv'
BY DEF RobotInv, SpeedTypes, StandsInv, speedVars

\* RunServer drops a session only when its last command is past the failsafe.
LEMMA CheckKeepsInv ==
    ASSUME RobotInv, RobotChecks, UNCHANGED speedVars
    PROVE  RobotInv'
<1> USE DEF RobotInv, SpeedTypes, StandsInv, F!Limit
<1>1. CASE TimedOut
  <2>1. cmdAge > F!Limit
    BY <1>1 DEF TimedOut
  <2>2. UNCHANGED <<recvAge, linkUp>>
    BY DEF RobotChecks, ServerCheck
  <2>3. QED
    BY <2>1, <2>2 DEF speedVars
<1>2. CASE ~TimedOut
  BY <1>2, RobotInvFrame DEF RobotChecks, ServerCheck, session
<1>3. QED
  BY <1>1, <1>2

\* Time passes for both parts alike, and only between the link's cycles.
LEMMA PassKeepsInv ==
    ASSUME RobotInv, Passes
    PROVE  RobotInv'
<1> USE DEF RobotInv, SpeedTypes, StandsInv, F!Limit
<1>1. /\ recvAge' = IF recvAge > RobotTimeout THEN recvAge ELSE recvAge + 1
      /\ UNCHANGED <<connState, linkUp>>
  BY DEF Passes, TimePasses, Tick, Older, session
<1>2. /\ ~busy /\ (linkUp => cycleAge < LinkPeriod)
      /\ cmdAge' = IF cmdAge > F!Limit THEN cmdAge ELSE cmdAge + 1
      /\ cycleAge' = IF linkUp THEN cycleAge + 1 ELSE cycleAge
      /\ UNCHANGED <<exempt, busy, moving>>
  BY DEF Passes, F!Pass
<1>3. SpeedTypes'
  BY <1>1, <1>2
<1>4. QED
  BY <1>1, <1>2, <1>3

\* A cycle of the link: what moves the robot is a command that is not too old,
\* and then there is a session.
LEMMA CycleKeepsInv ==
    ASSUME RobotInv, LinkCycles
    PROVE  RobotInv'
<1> USE DEF RobotInv, SpeedTypes, StandsInv, F!Limit
<1>1. UNCHANGED <<connState, recvAge, linkUp>>
  BY DEF LinkCycles, hvars, vars
<1>2. CASE F!BeginCycle
  BY <1>1, <1>2 DEF F!BeginCycle
<1>3. CASE F!EndCycle
  BY <1>1, <1>3 DEF F!EndCycle
<1>4. QED
  BY <1>2, <1>3 DEF LinkCycles

\* Every step keeps the invariant.
LEMMA RobotInvStep == RobotInv /\ [RobotNext]_rvars => RobotInv'
<1> SUFFICES ASSUME RobotInv, [RobotNext]_rvars
             PROVE  RobotInv'
  OBVIOUS
<1>1. ASSUME NEW cmd \in {"OFFER", "OK_PC", "DATA", "KEEP_ALIVE"}, HearsFromThePC(cmd)
      PROVE  RobotInv'
  <2> DEFINE d == FromThePC(cmd)
  <2>1. d \in Datagram
    BY FromThePCIsDatagram
  <2>2. CASE Commanded(d)
    <3>1. RecvRenewal(d) /\ F!Renew
      BY <1>1, <2>2 DEF HearsFromThePC, RobotHears, Commanded, RecvOffer, RecvOkPc
    <3>2. QED
      BY <2>1, <2>2, <3>1, CommandedKeepsInv
  <2>3. CASE ~Commanded(d) /\ (RecvOffer(d) \/ RecvOkPc(d) \/ RecvRenewal(d))
    <3>1. UNCHANGED speedVars
      BY <1>1, <2>3 DEF HearsFromThePC
    <3>2. QED
      BY <2>1, <2>3, <3>1, OtherDatagramKeepsInv
  <2>4. CASE ~Commanded(d) /\ UNCHANGED vars
    BY <1>1, <2>4, RobotInvFrame DEF HearsFromThePC, vars
  <2>5. QED
    BY <1>1, <2>2, <2>3, <2>4 DEF HearsFromThePC, RobotHears, Commanded
<1>2. CASE HearsStray
  BY <1>2, CommandedKeepsInv, OtherDatagramKeepsInv DEF HearsStray
<1>3. CASE LinkStarts
  BY <1>3
     DEF LinkStarts, RobotLinkStarts, LinkStart, session, F!Start, F!Limit,
         RobotInv, SpeedTypes, StandsInv
<1>4. CASE LinkCycles
  BY <1>4, CycleKeepsInv
<1>5. CASE Passes
  BY <1>5, PassKeepsInv
<1>6. CASE Beside
  <2>1. UNCHANGED speedVars
    BY <1>6 DEF Beside
  <2>2. CASE RobotChecks
    BY <2>1, <2>2, CheckKeepsInv
  <2>3. CASE ~RobotChecks
    <3>1. UNCHANGED <<connState, recvAge, linkUp>>
      BY <1>6, <2>3 DEF Beside, RobotSends, ServerSend, PcHearsDiscover, PcHearsOkRobot,
                        PcHearsStatus, PcStops, PcStarts, Lose, vars, session
    <3>2. QED
      BY <2>1, <3>1, RobotInvFrame
  <2>4. QED
    BY <2>2, <2>3
<1>7. CASE UNCHANGED rvars
  BY <1>7, RobotInvFrame DEF rvars, hvars, vars, speedVars
<1>8. QED
  BY <1>1, <1>2, <1>3, <1>4, <1>5, <1>6, <1>7 DEF RobotNext

\* The invariant says that a robot without a session stands still.
LEMMA RobotInvStands == RobotInv => StoppedWithoutSession
BY DEF RobotInv, SpeedTypes, StandsInv, StoppedWithoutSession, F!Limit

\* By the time the session is given up (mw.go:119) the speed failsafe
\* (common.go:139) has stopped the motors, for any durations with
\* NoRecvTimeout + LinkPeriod <= RobotTimeout and however the goroutines, the PC
\* and the network interleave.
THEOREM NoSessionNoMotion == RobotSpec => []StoppedWithoutSession
<1>1. QED
  BY RobotInvInit, RobotInvStep, RobotInvStands, PTL DEF RobotSpec

=================================================================================
