-------------------------- MODULE CommandPath_proofs --------------------------
(***************************************************************************)
(* Proofs about CommandPath for every duration, set of commands and mode:   *)
(* its types, failsafes and pulses.                                         *)
(***************************************************************************)
EXTENDS CommandPath, TLAPS

USE PowersAssumption, CommandsAssumption, ModesAssumption, DurationAssumption

-----------------------------------------------------------------------------
\* Growing older by a tick keeps an age within its range.
LEMMA OlderInRange ==
    ASSUME NEW limit \in Nat, NEW age \in 0..(limit + 1)
    PROVE  Older(age, limit) \in 0..(limit + 1)
BY DEF Older

\* The limits the ages are capped at.
LEMMA Limits ==
    /\ ChargeStopTimeout + LinkPeriod \in Nat
    /\ NoRecvTimeout + LinkPeriod \in Nat
    /\ PulseBound + LinkPeriod \in Nat
BY DEF PulseBound

\* The ages that actions assign are in range.
LEMMA AgeBounds ==
    ASSUME NEW limit \in Nat
    PROVE  0 \in 0..(limit + 1) /\ limit + 1 \in 0..(limit + 1)
OBVIOUS

\* A pulse that has just started has an age in range.
LEMMA JustStarted == 0 \in 0..KickHold
OBVIOUS

\* The zero values of the code are a frame, a sent frame and a command.
LEMMA ZeroesAreFrames == NoFrame \in Frame /\ NothingSent \in Sent /\ NoCommand \in Command
BY DEF NoFrame, NothingSent, NoCommand, NoKick, Frame, Sent, Command, Kick

-----------------------------------------------------------------------------
(***************************************************************************)
(* Type correctness, one part per goroutine.                                *)
(***************************************************************************)
ClockTypes ==
    /\ mode \in Mode
    /\ recvAge \in 0..(ChargeStopTimeout + LinkPeriod + 1)
    /\ cmdAge \in 0..(NoRecvTimeout + LinkPeriod + 1)
    /\ cycleAge \in 0..LinkPeriod
    /\ arrivals \in 0..MaxArrivals
    /\ kickAge \in [Devices -> 0..(PulseBound + LinkPeriod + 1)]

GlobalTypes ==
    /\ enable \in [Devices -> BOOLEAN]
    /\ val \in [Devices -> Powers]
    /\ direct \in [Devices -> BOOLEAN]

RxTypes == payload \in Frame /\ rx \in [step: RxSteps, cmd: Command, out: Frame]

CheckerTypes == checker \in [step: CheckerSteps, device: Devices] /\ held \in 0..KickHold

LinkTypes == link \in {"down", "idle", "built"} /\ frame \in Frame /\ sent \in Sent

Types == ClockTypes /\ GlobalTypes /\ RxTypes /\ CheckerTypes /\ LinkTypes

\* The parts the proofs work with make up TypeOK.
LEMMA TypesInParts == Types => TypeOK
BY DEF TypeOK, Types, ClockTypes, GlobalTypes, RxTypes, CheckerTypes, LinkTypes

\* The types hold at start-up.
LEMMA InitTypes == Init => Types
<1> SUFFICES ASSUME Init
             PROVE  Types
  OBVIOUS
<1>1. ClockTypes
  BY AgeBounds, Limits DEF Init, ClockTypes, Devices
<1>2. GlobalTypes /\ CheckerTypes
  BY DEF Init, GlobalTypes, CheckerTypes, CheckerSteps, Devices
<1>3. RxTypes /\ LinkTypes
  BY ZeroesAreFrames DEF Init, RxTypes, LinkTypes, RxSteps
<1>4. QED
  BY <1>1, <1>2, <1>3 DEF Types

\* processCommand keeps the types.
LEMMA RunClientTypes == Types /\ RunClient => Types'
<1> SUFFICES ASSUME Types, RunClient
             PROVE  Types'
  OBVIOUS
<1> USE DEF Types
<1>1. ASSUME RecvOther
      PROVE  Types'
  BY <1>1, AgeBounds, Limits
     DEF RecvOther, Arrives, globals, checkerVars, linkVars,
         ClockTypes, GlobalTypes, RxTypes, CheckerTypes, LinkTypes
<1>2. ASSUME RecvUseless
      PROVE  Types'
  BY <1>2, AgeBounds, Limits
     DEF RecvUseless, Arrives, globals, checkerVars, linkVars,
         ClockTypes, GlobalTypes, RxTypes, CheckerTypes, LinkTypes
<1>3. ASSUME NEW cmd \in Commands, RecvData(cmd)
      PROVE  Types'
  <2>1. RxTypes'
    BY <1>3, ZeroesAreFrames DEF RecvData, RxTypes, RxSteps
  <2>2. QED
    BY <1>3, <2>1, AgeBounds, Limits
       DEF RecvData, Arrives, globals, checkerVars, linkVars,
           ClockTypes, GlobalTypes, CheckerTypes, LinkTypes
<1>4. ASSUME RxDirect
      PROVE  Types'
  <2>1. RxTypes'
    BY <1>4 DEF RxDirect, RxTypes, RxSteps, Frame, Command
  <2>2. GlobalTypes'
    BY <1>4 DEF RxDirect, RxTypes, GlobalTypes, Command, Kick, Devices
  <2>3. QED
    BY <1>4, <2>1, <2>2
       DEF RxDirect, checkerVars, linkVars, ClockTypes, CheckerTypes, LinkTypes
<1>5. ASSUME NEW d \in Devices, RxVal(d)
      PROVE  Types'
  <2>1. RxTypes'
    BY <1>5 DEF RxVal, RxTypes, RxSteps, EnableStep, NextStep
  <2>2. rx.cmd[d].power \in Powers
    BY DEF RxTypes, Command, Kick, Devices
  <2>3. GlobalTypes'
    BY <1>5, <2>2 DEF RxVal, GlobalTypes
  <2>4. QED
    BY <1>5, <2>1, <2>3
       DEF RxVal, checkerVars, linkVars, ClockTypes, CheckerTypes, LinkTypes
<1>6. ASSUME NEW d \in Devices, RxEnable(d)
      PROVE  Types'
  <2>1. RxTypes' /\ GlobalTypes'
    BY <1>6 DEF RxEnable, RxTypes, GlobalTypes, RxSteps, NextStep
  <2>2. ClockTypes'
    BY <1>6, AgeBounds, Limits DEF RxEnable, linkVars, ClockTypes
  <2>3. QED
    BY <1>6, <2>1, <2>2 DEF RxEnable, checkerVars, linkVars, CheckerTypes, LinkTypes
<1>7. ASSUME RxReadChip
      PROVE  Types'
  <2>1. val["chip"] \in Powers
    BY DEF GlobalTypes, Devices
  <2>2. RxTypes'
    BY <1>7, <2>1 DEF RxReadChip, RxTypes, RxSteps, Frame
  <2>3. QED
    BY <1>7, <2>2
       DEF RxReadChip, globals, checkerVars, linkVars,
           ClockTypes, GlobalTypes, CheckerTypes, LinkTypes
<1>8. ASSUME RxPublish
      PROVE  Types'
  <2>1. RxTypes'
    BY <1>8, ZeroesAreFrames DEF RxPublish, RxTypes, RxSteps
  <2>2. QED
    BY <1>8, <2>1
       DEF RxPublish, globals, checkerVars, linkVars,
           ClockTypes, GlobalTypes, CheckerTypes, LinkTypes
<1>9. QED
  BY <1>1, <1>2, <1>3, <1>4, <1>5, <1>6, <1>7, <1>8 DEF RunClient, RxFinishes

\* kickCheck keeps the types.
LEMMA KickCheckTypes == Types /\ KickCheck => Types'
<1> SUFFICES ASSUME Types, KickCheck
             PROVE  Types'
  OBVIOUS
<1> USE DEF Types, CheckerSteps, Devices
<1>1. CASE RoundOver
  BY <1>1 DEF RoundOver, globals, linkVars, ClockTypes, GlobalTypes, RxTypes,
              CheckerTypes, LinkTypes
<1>2. ASSUME NEW d \in Devices, CheckEnabled(d)
      PROVE  Types'
  <2>1. CheckerTypes'
    BY <1>2, JustStarted DEF CheckEnabled, CheckerTypes
  <2>2. QED
    BY <1>2, <2>1 DEF CheckEnabled, globals, linkVars, ClockTypes, GlobalTypes,
                      RxTypes, LinkTypes
<1>3. ASSUME NEW d \in Devices, ClearEnable(d)
      PROVE  Types'
  BY <1>3 DEF ClearEnable, linkVars, ClockTypes, GlobalTypes, RxTypes,
              CheckerTypes, LinkTypes
<1>4. ASSUME NEW d \in Devices, ClearVal(d)
      PROVE  Types'
  BY <1>4 DEF ClearVal, linkVars, ClockTypes, GlobalTypes, RxTypes,
              CheckerTypes, LinkTypes
<1>5. ASSUME NEW d \in Devices, ClearDirect(d)
      PROVE  Types'
  <2>1. CheckerTypes'
    BY <1>5, JustStarted DEF ClearDirect, OtherDevice, CheckerTypes
  <2>2. GlobalTypes'
    BY <1>5 DEF ClearDirect, GlobalTypes
  <2>3. QED
    BY <1>5, <2>1, <2>2 DEF ClearDirect, linkVars, ClockTypes, RxTypes, LinkTypes
<1>6. QED
  BY <1>1, <1>2, <1>3, <1>4, <1>5 DEF KickCheck

\* The link keeps the types.
LEMMA LinkStepTypes == Types /\ Link => Types'
<1> SUFFICES ASSUME Types, Link
             PROVE  Types'
  OBVIOUS
<1> USE DEF Types
<1>1. CASE LinkStart
  BY <1>1, AgeBounds, Limits
     DEF LinkStart, globals, checkerVars, ClockTypes, GlobalTypes, RxTypes,
         CheckerTypes, LinkTypes
<1>2. CASE BuildFrame
  <2>1. LinkTypes'
    BY <1>2 DEF BuildFrame, LinkTypes, RxTypes, Frame
  <2>2. QED
    BY <1>2, <2>1 DEF BuildFrame, globals, checkerVars, ClockTypes, GlobalTypes,
                      RxTypes, CheckerTypes
<1>3. CASE SendFrame
  <2>1. val["kick"] \in Powers
    BY DEF GlobalTypes, Devices
  <2>2. LinkTypes'
    BY <1>3, <2>1, ZeroesAreFrames DEF SendFrame, LinkTypes, Frame, Sent
  <2>3. QED
    BY <1>3, <2>2 DEF SendFrame, globals, checkerVars, ClockTypes, GlobalTypes,
                      RxTypes, CheckerTypes
<1>4. QED
  BY <1>1, <1>2, <1>3 DEF Link

\* Time keeps the types.
LEMMA TickTypes == Types /\ Tick => Types'
<1> SUFFICES ASSUME Types, Tick
             PROVE  Types'
  OBVIOUS
<1> USE DEF Types
<1>1. /\ recvAge' \in 0..(ChargeStopTimeout + LinkPeriod + 1)
      /\ cmdAge' \in 0..(NoRecvTimeout + LinkPeriod + 1)
  BY OlderInRange, Limits DEF Tick, ClockTypes
<1>2. kickAge' \in [Devices -> 0..(PulseBound + LinkPeriod + 1)]
  BY OlderInRange, Limits DEF Tick, ClockTypes
<1>3. cycleAge' \in 0..LinkPeriod /\ arrivals' \in 0..MaxArrivals
  BY DEF Tick, ClockTypes
<1>4. CheckerTypes'
  BY DEF Tick, CheckerTypes, CheckerSleeps
<1>5. QED
  BY <1>1, <1>2, <1>3, <1>4
     DEF Tick, globals, ClockTypes, GlobalTypes, RxTypes, LinkTypes

(***************************************************************************)
(* Every variable keeps its type: in particular each age stays within the   *)
(* range its comparisons need, and no interleaving puts anything but a      *)
(* power into the kick globals.                                             *)
(***************************************************************************)
LEMMA TypesInvariant == Spec => []Types
<1>1. Types /\ UNCHANGED vars => Types'
  BY DEF vars, Types, ClockTypes, GlobalTypes, RxTypes, CheckerTypes, LinkTypes
<1>2. Types /\ [Next]_vars => Types'
  BY <1>1, RunClientTypes, KickCheckTypes, LinkStepTypes, TickTypes DEF Next
<1>3. QED
  BY <1>2, InitTypes, PTL DEF Spec

\* Every variable of the command path keeps its type.
THEOREM TypeCorrect == Spec => []TypeOK
BY TypesInvariant, TypesInParts, PTL


-----------------------------------------------------------------------------
(***************************************************************************)
(* The failsafes.  A cycle zeroes what is stale when it begins, so what is  *)
(* on the wire may be stale by the cycle's own age: the bound of the two    *)
(* properties, LinkPeriod, is that age at its largest.  While a cycle is    *)
(* under way no time passes and the frame it works on is already zeroed.    *)
(***************************************************************************)
Stopped(f) == f.motion = 0 /\ f.chip = 0
MotionOff(f) == f.chip = 0 /\ (f.motion = 0 \/ mode.velX1000)

FrameInv ==
    link = "built" =>
       /\ cmdAge > NoRecvTimeout /\ ~mode.robotMode => Stopped(frame)
       /\ recvAge > ChargeStopTimeout => ~frame.charge

WireInv ==
    link # "built" =>
       /\ cmdAge > NoRecvTimeout + cycleAge /\ ~mode.robotMode => MotionOff(sent)
       /\ recvAge > ChargeStopTimeout + cycleAge => ~sent.charge

FailsafeInv ==
    /\ link = "down" => sent = NothingSent
    /\ FrameInv /\ WireInv
    /\ FailsafeStops /\ ChargeStops

failsafeVars == <<mode, recvAge, cmdAge, link, frame, sent, cycleAge>>

\* A step that leaves the frames and the ages alone cannot disturb the failsafe.
LEMMA FailsafeFrame == FailsafeInv /\ UNCHANGED failsafeVars => FailsafeInv'
BY DEF FailsafeInv, FrameInv, WireInv, FailsafeStops, ChargeStops, Stopped, MotionOff,
       failsafeVars

\* At start-up nothing has been sent.
LEMMA FailsafeInit == Init => FailsafeInv
BY DEF Init, FailsafeInv, FrameInv, WireInv, FailsafeStops, ChargeStops, MotionOff,
       NothingSent

\* Every step keeps what the frames may carry.
LEMMA FailsafeStep == Types /\ FailsafeInv /\ [Next]_vars => FailsafeInv'
<1> SUFFICES ASSUME Types, FailsafeInv, [Next]_vars
             PROVE  FailsafeInv'
  OBVIOUS
<1> USE DEF Types, ClockTypes, LinkTypes
<1>1. ASSUME Arrives, UNCHANGED <<mode, linkVars>>, cmdAge' \in {cmdAge, 0}
      PROVE  FailsafeInv'
  BY <1>1 DEF Arrives, linkVars, FailsafeInv, FrameInv, WireInv, FailsafeStops,
              ChargeStops, Stopped, MotionOff
<1>2. CASE RunClient
  <2>1. CASE RecvOther \/ RecvUseless \/ \E cmd \in Commands : RecvData(cmd)
    BY <1>1, <2>1 DEF RecvOther, RecvUseless, RecvData
  <2>2. CASE RxFinishes
    <3>1. UNCHANGED failsafeVars
      BY <2>2 DEF RxFinishes, RxDirect, RxVal, RxEnable, RxReadChip, RxPublish,
                  linkVars, failsafeVars
    <3>2. QED
      BY <3>1, FailsafeFrame
  <2>3. QED
    BY <1>2, <2>1, <2>2 DEF RunClient
<1>3. CASE KickCheck
  <2>1. UNCHANGED failsafeVars
    BY <1>3 DEF KickCheck, RoundOver, CheckEnabled, ClearEnable, ClearVal, ClearDirect,
                linkVars, failsafeVars
  <2>2. QED
    BY <2>1, FailsafeFrame
<1>4. CASE LinkStart
  <2>1. sent' = NothingSent
    BY <1>4 DEF LinkStart, FailsafeInv
  <2>2. QED
    BY <1>4, <2>1 DEF LinkStart, NothingSent, FailsafeInv, FrameInv, WireInv,
                      FailsafeStops, ChargeStops, MotionOff
<1>5. CASE BuildFrame
  <2>1. FailsafeStops' /\ ChargeStops'
    BY <1>5 DEF BuildFrame, FailsafeInv, FailsafeStops, ChargeStops
  <2>2. FrameInv'
    BY <1>5 DEF BuildFrame, CmdTimedOut, ChargeTimedOut, FrameInv, Stopped
  <2>3. QED
    BY <1>5, <2>1, <2>2 DEF BuildFrame, FailsafeInv, WireInv
<1>6. CASE SendFrame
  <2>1. ASSUME cmdAge > NoRecvTimeout, ~mode.robotMode
        PROVE  MotionOff(sent)'
    BY <1>6, <2>1 DEF SendFrame, FailsafeInv, FrameInv, Stopped, MotionOff
  <2>2. ASSUME recvAge > ChargeStopTimeout
        PROVE  ~sent'.charge
    BY <1>6, <2>2 DEF SendFrame, FailsafeInv, FrameInv
  <2>3. QED
    BY <1>6, <2>1, <2>2 DEF SendFrame, FailsafeInv, FrameInv, WireInv, FailsafeStops,
                            ChargeStops, MotionOff
<1>7. CASE Tick
  <2>1. /\ recvAge' \in {recvAge, recvAge + 1} /\ cmdAge' \in {cmdAge, cmdAge + 1}
        /\ link = "idle" => cycleAge' = cycleAge + 1 /\ cycleAge' <= LinkPeriod
        /\ link \in {"down", "idle"}
        /\ UNCHANGED <<mode, link, frame, sent>>
    BY <1>7 DEF Tick, Older
  <2>2. CASE link = "down"
    BY <2>1, <2>2 DEF NothingSent, FailsafeInv, FrameInv, WireInv, FailsafeStops,
                      ChargeStops, MotionOff
  <2>3. CASE link = "idle"
    BY <2>1, <2>3 DEF FailsafeInv, FrameInv, WireInv, FailsafeStops, ChargeStops,
                      MotionOff
  <2>4. QED
    BY <2>1, <2>2, <2>3
<1>8. CASE UNCHANGED vars
  BY <1>8, FailsafeFrame DEF vars, failsafeVars
<1>9. QED
  BY <1>2, <1>3, <1>4, <1>5, <1>6, <1>7, <1>8 DEF Next, Link

\* What the frames may carry holds in every state.
LEMMA FailsafeInvariant == Spec => []FailsafeInv
<1>1. QED
  BY FailsafeInit, FailsafeStep, TypesInvariant, PTL DEF Spec

\* One second after the last DATA, plus one link cycle, the robot is told to
\* stand still: for every timeout, period, set of commands and interleaving of
\* processCommand, kickCheck and the link (common.go:138-149).
THEOREM FailsafeStopsRobot == Spec => []FailsafeStops
BY FailsafeInvariant, PTL DEF FailsafeInv

\* ChargeStopTimeout after the PC's last datagram the robot no longer charges
\* its kicker, in any mode (common.go:59-61).
THEOREM ChargingStops == Spec => []ChargeStops
BY FailsafeInvariant, PTL DEF FailsafeInv


-----------------------------------------------------------------------------
(***************************************************************************)
(* The refinement of SpeedFailsafe.                                         *)
(***************************************************************************)

\* A frame that moves the robot is built, and leaves, only on a command that is
\* not too old, or in a mode without the failsafe.
LEMMA MovingFrameIsFresh ==
    ASSUME Types, FailsafeInv, link = "built", SendFrame
    PROVE  sent'.motion # 0 =>
              mode.robotMode \/ mode.velX1000 \/ cmdAge <= NoRecvTimeout
<1> USE DEF Types, ClockTypes, LinkTypes
<1>1. ASSUME cmdAge > NoRecvTimeout, ~mode.robotMode, ~mode.velX1000
      PROVE  sent'.motion = 0
  BY <1>1 DEF SendFrame, FailsafeInv, FrameInv, Stopped
<1>2. QED
  BY <1>1

\* Every step of the three goroutines is a step of the abstract failsafe or a
\* stutter.
LEMMA FailsafeStepRefined ==
    Types /\ FailsafeInv /\ [Next]_vars => [Failsafe!Next]_(Failsafe!failsafeVars)
<1> SUFFICES ASSUME Types, FailsafeInv, [Next]_vars
             PROVE  [Failsafe!Next]_(Failsafe!failsafeVars)
  OBVIOUS
<1> USE DEF Failsafe!failsafeVars
<1>1. CASE RecvOther
  BY <1>1 DEF RecvOther, Arrives, linkVars
<1>2. ASSUME Arrives, cmdAge' = 0, UNCHANGED <<mode, linkVars>>
      PROVE  Failsafe!Renew
  BY <1>2 DEF linkVars, Failsafe!Renew
<1>3. CASE RecvUseless \/ \E cmd \in Commands : RecvData(cmd)
  BY <1>2, <1>3 DEF RecvUseless, RecvData, Failsafe!Next
<1>4. CASE RxFinishes
  BY <1>4 DEF RxFinishes, RxDirect, RxVal, RxEnable, RxReadChip, RxPublish, linkVars
<1>5. CASE KickCheck
  BY <1>5 DEF KickCheck, RoundOver, CheckEnabled, ClearEnable, ClearVal, ClearDirect,
              linkVars
<1>6. CASE LinkStart
  BY <1>6 DEF LinkStart, Failsafe!Next, Failsafe!Start, Failsafe!Limit
<1>7. CASE BuildFrame
  BY <1>7 DEF BuildFrame, Failsafe!Next, Failsafe!BeginCycle
<1>8. CASE SendFrame
  BY <1>8, MovingFrameIsFresh DEF SendFrame, Failsafe!Next, Failsafe!EndCycle
<1>9. CASE Tick
  <2>1. cmdAge' = IF cmdAge > Failsafe!Limit THEN cmdAge ELSE cmdAge + 1
    BY <1>9 DEF Tick, Older, Failsafe!Limit
  <2>2. QED
    BY <1>9, <2>1 DEF Tick, Failsafe!Next, Failsafe!Pass
<1>10. CASE UNCHANGED vars
  BY <1>10 DEF vars
<1>11. QED
  BY <1>1, <1>3, <1>4, <1>5, <1>6, <1>7, <1>8, <1>9, <1>10 DEF Next, RunClient, Link

\* RunClient, kickCheck and the link together do what the abstract failsafe says,
\* for every duration, set of commands and mode: the module Robot may use it in
\* their place.
THEOREM FailsafeRefinement == Spec => ImplementsFailsafe
<1>1. Init => Failsafe!Init
  BY DEF Init, NothingSent, Mode, Failsafe!Init
<1>2. QED
  BY <1>1, FailsafeStepRefined, TypesInvariant, FailsafeInvariant, PTL
     DEF Spec, ImplementsFailsafe, Failsafe!Spec

-----------------------------------------------------------------------------
(***************************************************************************)
(* The kick globals under kickCheck's and processCommand's unlocked writes. *)
(***************************************************************************)

\* Every write of a power is followed by that of its flag, and every clearing
\* of a flag by that of its power: between the two, one of the goroutines is
\* at the step NoResidualPower names.
LEMMA ResidualStep == Types /\ NoResidualPower /\ [Next]_vars => NoResidualPower'
<1> SUFFICES ASSUME Types, NoResidualPower, [Next]_vars
             PROVE  NoResidualPower'
  OBVIOUS
<1> USE DEF Types, GlobalTypes, NoResidualPower, Devices, EnableStep
<1>1. ASSUME UNCHANGED <<enable, val, rx, checker>>
      PROVE  NoResidualPower'
  BY <1>1
<1>2. CASE RunClient
  <2>1. CASE RecvOther \/ RecvUseless
    BY <1>1, <2>1 DEF RecvOther, RecvUseless, globals, checkerVars
  <2>2. ASSUME NEW cmd \in Commands, RecvData(cmd)
        PROVE  NoResidualPower'
    BY <2>2 DEF RecvData, Arrives, globals, checkerVars
  <2>3. CASE RxDirect \/ RxReadChip \/ RxPublish
    BY <2>3 DEF RxDirect, RxReadChip, RxPublish, globals, checkerVars
  <2>4. ASSUME NEW d \in Devices, RxVal(d)
        PROVE  NoResidualPower'
    BY <2>4 DEF RxVal, ValStep, checkerVars, RxTypes
  <2>5. ASSUME NEW d \in Devices, RxEnable(d)
        PROVE  NoResidualPower'
    BY <2>5 DEF RxEnable, checkerVars
  <2>6. QED
    BY <1>2, <2>1, <2>2, <2>3, <2>4, <2>5 DEF RunClient, RxFinishes
<1>3. CASE KickCheck
  <2>1. CASE RoundOver
    BY <2>1 DEF RoundOver, globals
  <2>2. ASSUME NEW d \in Devices, CheckEnabled(d)
        PROVE  NoResidualPower'
    <3>1. checker.step # "clear val"
      BY <2>2 DEF CheckEnabled
    <3>2. \A e : [step |-> "clear val", device |-> e].step = "clear val"
      OBVIOUS
    <3>3. QED
      BY <2>2, <3>1, <3>2 DEF CheckEnabled, globals
  <2>3. ASSUME NEW d \in Devices, ClearEnable(d)
        PROVE  NoResidualPower'
    BY <2>3 DEF ClearEnable
  <2>4. ASSUME NEW d \in Devices, ClearVal(d)
        PROVE  NoResidualPower'
    BY <2>4 DEF ClearVal
  <2>5. ASSUME NEW d \in Devices, ClearDirect(d)
        PROVE  NoResidualPower'
    BY <2>5 DEF ClearDirect
  <2>6. QED
    BY <1>3, <2>1, <2>2, <2>3, <2>4, <2>5 DEF KickCheck
<1>4. CASE Link \/ Tick \/ UNCHANGED vars
  BY <1>1, <1>4 DEF Link, LinkStart, BuildFrame, SendFrame, Tick, vars, globals, checkerVars
<1>5. QED
  BY <1>2, <1>3, <1>4 DEF Next

\* No interleaving of kickCheck's and processCommand's writes leaves a power
\* behind on a device that is not enabled (run.go:28-42, receive.go:189-203).
THEOREM ResidualPowerCleared == Spec => []NoResidualPower
<1>1. Init => NoResidualPower
  BY DEF Init, NoResidualPower, Devices
<1>2. QED
  BY <1>1, ResidualStep, TypesInvariant, PTL DEF Spec

(***************************************************************************)
(* The longest pulse.  How old a device's command may be while the device   *)
(* is enabled, by what kickCheck is doing: while it holds the other device  *)
(* a command waits at most KickHold, and between two holds no time passes.  *)
(***************************************************************************)
OldestPulse(d) ==
    CASE checker.step = "wait" -> IF checker.device = d THEN KickHold ELSE 0
      [] checker.step = "hold" -> IF checker.device = d THEN KickHold + held ELSE held
      [] OTHER                 -> IF checker.device = d THEN 0 ELSE KickHold

PulseInv ==
    /\ \A d \in Devices : enable[d] => kickAge[d] <= OldestPulse(d)
    /\ link # "built" /\ sent.kick # 0 => kickAge["kick"] <= PulseBound + cycleAge
    /\ link = "down" => sent = NothingSent
    /\ PulsesEnd

\* What kickCheck is doing bounds the age of a pulse.
LEMMA PulsesWithinBound ==
    ASSUME Types, NEW d \in Devices
    PROVE  OldestPulse(d) \in Nat /\ OldestPulse(d) <= PulseBound
BY DEF Types, CheckerTypes, OldestPulse, PulseBound

pulseVars == <<enable, kickAge, checker, held, link, sent, cycleAge>>

\* A step that leaves kickCheck and the ages alone cannot disturb the pulses.
LEMMA PulseFrame == PulseInv /\ UNCHANGED pulseVars => PulseInv'
BY DEF PulseInv, PulsesEnd, OldestPulse, pulseVars

\* Every step keeps the bound on the pulses.
LEMMA PulseStep == Types /\ Types' /\ PulseInv /\ [Next]_vars => PulseInv'
<1> SUFFICES ASSUME Types, Types', PulseInv, [Next]_vars
             PROVE  PulseInv'
  OBVIOUS
<1> USE DEF Devices
<1>. DEFINE Ages == \A d \in Devices : enable[d] => kickAge[d] <= OldestPulse(d)
            Wire == link # "built" /\ sent.kick # 0
                        => kickAge["kick"] <= PulseBound + cycleAge
<1>1. /\ kickAge \in [Devices -> Nat] /\ enable \in [Devices -> BOOLEAN]
      /\ held \in 0..KickHold /\ cycleAge \in 0..LinkPeriod /\ PulseBound \in Nat
  BY DEF Types, ClockTypes, GlobalTypes, CheckerTypes, PulseBound
<1>2. ASSUME NEW d \in Devices, RxEnable(d)
      PROVE  PulseInv'
  <2>1. Ages'
    BY <1>1, <1>2, PulsesWithinBound DEF RxEnable, checkerVars, PulseInv, OldestPulse
  <2>2. QED
    BY <1>1, <1>2, <2>1 DEF RxEnable, linkVars, PulseInv, PulsesEnd, PulseBound
<1>3. ASSUME KickCheck
      PROVE  PulseInv'
  <2>1. Ages'
    <3>1. ASSUME NEW d \in Devices, CheckEnabled(d)
          PROVE  Ages'
      BY <1>1, <3>1 DEF CheckEnabled, globals, PulseInv, OldestPulse
    <3>2. ASSUME NEW d \in Devices, ClearEnable(d)
          PROVE  Ages'
      BY <1>1, <3>2 DEF ClearEnable, PulseInv, OldestPulse
    <3>3. ASSUME NEW d \in Devices, ClearVal(d)
          PROVE  Ages'
      BY <1>1, <3>3 DEF ClearVal, PulseInv, OldestPulse
    <3>4. ASSUME NEW d \in Devices, ClearDirect(d)
          PROVE  Ages'
      BY <1>1, <3>4 DEF ClearDirect, OtherDevice, PulseInv, OldestPulse
    <3>5. CASE RoundOver
      BY <1>1, <3>5 DEF RoundOver, globals, PulseInv, OldestPulse
    <3>6. QED
      BY <1>3, <3>1, <3>2, <3>3, <3>4, <3>5 DEF KickCheck
  <2>2. /\ UNCHANGED <<kickAge, link, sent, cycleAge>>
        /\ \A d \in Devices : enable'[d] => enable[d]
    BY <1>1, <1>3 DEF KickCheck, RoundOver, CheckEnabled, ClearEnable, ClearVal,
                      ClearDirect, globals, linkVars
  <2>3. QED
    BY <2>1, <2>2 DEF PulseInv, PulsesEnd
<1>4. ASSUME Link
      PROVE  PulseInv'
  <2>1. UNCHANGED <<enable, kickAge, checker, held>>
    BY <1>4 DEF Link, LinkStart, BuildFrame, SendFrame, globals, checkerVars
  <2>2. enable["kick"] => kickAge["kick"] <= PulseBound
    BY DEF PulseInv, PulsesEnd
  <2>3. CASE LinkStart
    BY <2>1, <2>3 DEF LinkStart, NothingSent, PulseInv, PulsesEnd, OldestPulse
  <2>4. CASE BuildFrame
    BY <2>1, <2>4 DEF BuildFrame, PulseInv, PulsesEnd, OldestPulse
  <2>5. CASE SendFrame
    <3>1. sent'.kick # 0 => enable["kick"]
      BY <2>5 DEF SendFrame
    <3>2. QED
      BY <1>1, <2>1, <2>2, <2>5, <3>1 DEF SendFrame, PulseInv, PulsesEnd, OldestPulse
  <2>6. QED
    BY <1>4, <2>3, <2>4, <2>5 DEF Link
<1>5. ASSUME Tick
      PROVE  PulseInv'
  <2>1. /\ \A d \in Devices : kickAge'[d] <= kickAge[d] + 1
        /\ kickAge' \in [Devices -> Nat]
        /\ UNCHANGED <<enable, checker, link, sent>>
        /\ CheckerSleeps
        /\ held' = IF checker.step = "hold" THEN held + 1 ELSE held
        /\ link = "down" \/ (link = "idle" /\ cycleAge' = cycleAge + 1)
    BY <1>1, <1>5 DEF Tick, Older, globals
  <2>2. Ages'
    BY <1>1, <2>1 DEF CheckerSleeps, PulseInv, OldestPulse
  <2>3. Wire'
    BY <1>1, <2>1 DEF PulseInv, NothingSent
  <2>4. cycleAge' \in 0..LinkPeriod
    BY DEF Types, ClockTypes
  <2>5. \A d \in Devices : enable'[d] => kickAge'[d] <= PulseBound
    <3>1. \A d \in Devices : OldestPulse(d)' \in Nat /\ OldestPulse(d)' <= PulseBound
      BY DEF Types, CheckerTypes, OldestPulse, PulseBound
    <3>2. QED
      BY <1>1, <2>1, <2>2, <3>1
  <2>6. QED
    BY <1>1, <2>1, <2>2, <2>3, <2>4, <2>5 DEF PulseInv, PulsesEnd, NothingSent
<1>6. ASSUME UNCHANGED pulseVars
      PROVE  PulseInv'
  BY <1>6, PulseFrame
<1>7. CASE RunClient
  <2>1. CASE \E d \in Devices : RxEnable(d)
    BY <1>2, <2>1
  <2>2. CASE ~ \E d \in Devices : RxEnable(d)
    <3>1. UNCHANGED pulseVars
      BY <1>7, <2>2 DEF RunClient, RecvOther, RecvUseless, RecvData, RxFinishes, RxDirect,
                        RxVal, RxReadChip, RxPublish, globals, linkVars, checkerVars,
                        pulseVars
    <3>2. QED
      BY <1>6, <3>1
  <2>3. QED
    BY <2>1, <2>2
<1>8. QED
  BY <1>3, <1>4, <1>5, <1>6, <1>7 DEF Next, vars, pulseVars

\* A device is enabled for at most two hold times after the command that
\* enabled it, and its power leaves the wire one link cycle later, however the
\* goroutines interleave and however the kicker's and the chip's commands
\* follow one another (run.go:25-52, common.go:65-69).
THEOREM PulsesAreShort == Spec => []PulsesEnd
<1>1. Init => PulseInv
  <2>1. Init => ~enable["kick"] /\ ~enable["chip"] /\ sent = NothingSent
    BY DEF Init, Devices
  <2>2. QED
    BY <2>1 DEF PulseInv, PulsesEnd, NothingSent, Devices
<1>2. PulseInv => PulsesEnd
  BY DEF PulseInv
<1>3. QED
  BY <1>1, <1>2, PulseStep, TypesInvariant, PTL DEF Spec

=============================================================================
