------------------------------ MODULE CommandPath ------------------------------
(***************************************************************************)
(* From a DATA datagram of the PC to the frame on the wire to the motor     *)
(* board.  Three goroutines share package state:                            *)
(*                                                                         *)
(*   receive.RunClient  processCommand: the kick and chip globals, then the *)
(*                      payload (the payload alone has a lock);             *)
(*   app.kickCheck      holds a kick for KickHoldDuration, then clears its  *)
(*                      three globals, one unlocked write after the other;  *)
(*   the link           PrepareSendData, PrepareHardwareTx and the write,   *)
(*                      at its own period.                                  *)
(*                                                                         *)
(* The session of module RobotSession is the environment: it decides which  *)
(* datagrams are accepted, here any at any moment.                          *)
(*                                                                         *)
(* Data is cut to what the properties tell apart: the three velocities and  *)
(* the dribbler are one motion, a kick is a power.  The camera bytes, the   *)
(* log lines, the buzzer and InfoEmgStop (set until the first payload and   *)
(* never again) are left out, and so is the power byte: IdxPowerCmd is -1   *)
(* on both boards, so PrepareHardwareTx never writes it.                    *)
(***************************************************************************)
EXTENDS Naturals

CONSTANTS
    Powers,            \* the values a power byte takes, 0 among them
    Commands,          \* the robot commands the PC sends
    Modes,             \* the command line flags and the button at start-up
    KickHold,          \* state.KickHoldDuration
    NoRecvTimeout,     \* state.NoRecvTimeout
    ChargeStopTimeout, \* state.ChargeStopTimeout
    LinkPeriod,        \* the longest time between two link cycles
    MaxArrivals        \* bound: accepted datagrams in one unit of time

Devices == {"kick", "chip"}

(***************************************************************************)
(* A kick or chip speed as processCommand decodes it: direct when it is at  *)
(* least 100, fires when something positive is left after the 100 comes     *)
(* off, and power is uint8(10 * what is left), which may well be 0: exactly *)
(* 0.05, or 25.6, which does not fit the byte.                              *)
(***************************************************************************)
Kick == [direct: BOOLEAN, fires: BOOLEAN, power: Powers]
Command == [motion: {0, 1}, kick: Kick, chip: Kick]
Mode == [robotMode: BOOLEAN, dryRun: BOOLEAN, velX1000: BOOLEAN]

ASSUME PowersAssumption == 0 \in Powers
ASSUME CommandsAssumption == Commands \subseteq Command
ASSUME ModesAssumption == Modes \subseteq Mode
ASSUME DurationAssumption ==
    /\ KickHold \in Nat \ {0}
    /\ NoRecvTimeout \in Nat
    /\ ChargeStopTimeout \in Nat
    /\ LinkPeriod \in Nat \ {0}
    /\ MaxArrivals \in Nat

VARIABLES
    mode,      \* IsControlByRobotMode, DryRun, VelX1000
    recvAge,   \* now - LastRecvTime
    cmdAge,    \* now - LastCmdRecvTime
    enable,    \* KickerEnable, ChipEnable
    val,       \* KickerVal, ChipVal
    direct,    \* DoDirectKick, DoDirectChipKick
    payload,   \* sendPayload
    rx,        \* RunClient: where in processCommand, on which command, its local payload
    checker,   \* kickCheck: where it is, on which device
    held,      \* how long kickCheck has slept
    link,      \* the link: "down", "idle" between cycles, "built" inside one
    frame,     \* the frame PrepareSendData is working on
    sent,      \* the last frame written to the motor board
    cycleAge,  \* the time since the last cycle began
    arrivals,  \* the datagrams accepted in this unit of time
    kickAge    \* history: the time since the PC last commanded each device

globals == <<enable, val, direct>>
linkVars == <<link, frame, sent, cycleAge>>
checkerVars == <<checker, held>>
vars == <<mode, recvAge, cmdAge, enable, val, direct, payload, rx, checker, held,
          link, frame, sent, cycleAge, arrivals, kickAge>>

\* How long a device can stay enabled: kickCheck may be asleep for the other
\* one when the command comes.
PulseBound == 2 * KickHold

\* The payload's kick power is left out: the link always overwrites it.
Frame == [motion: {0, 1}, chip: Powers, charge: BOOLEAN]
Sent == [motion: {0, 1}, chip: Powers, charge: BOOLEAN, kick: Powers]
NoFrame == [motion |-> 0, chip |-> 0, charge |-> FALSE]
NothingSent == [motion |-> 0, chip |-> 0, charge |-> FALSE, kick |-> 0]
NoKick == [direct |-> FALSE, fires |-> FALSE, power |-> 0]
NoCommand == [motion |-> 0, kick |-> NoKick, chip |-> NoKick]

RxSteps == {"idle", "direct", "val kick", "enable kick",
            "val chip", "enable chip", "read chip", "publish"}
CheckerSteps == {"wait", "hold", "clear enable", "clear val", "clear direct"}

Older(age, limit) == IF age > limit THEN age ELSE age + 1

TypeOK ==
    /\ mode \in Mode
    /\ recvAge \in 0..(ChargeStopTimeout + LinkPeriod + 1)
    /\ cmdAge \in 0..(NoRecvTimeout + LinkPeriod + 1)
    /\ enable \in [Devices -> BOOLEAN]
    /\ val \in [Devices -> Powers]
    /\ direct \in [Devices -> BOOLEAN]
    /\ payload \in Frame
    /\ rx \in [step: RxSteps, cmd: Command, out: Frame]
    /\ checker \in [step: CheckerSteps, device: Devices]
    /\ held \in 0..KickHold
    /\ link \in {"down", "idle", "built"}
    /\ frame \in Frame
    /\ sent \in Sent
    /\ cycleAge \in 0..LinkPeriod
    /\ arrivals \in 0..MaxArrivals
    /\ kickAge \in [Devices -> 0..(PulseBound + LinkPeriod + 1)]

(***************************************************************************)
(* The process starts: state.init() stores now in both times.  No payload   *)
(* yet is the frame of zeroes that EnsureSendFrame makes.                   *)
(***************************************************************************)
Init ==
    /\ mode \in Modes
    /\ recvAge = 0 /\ cmdAge = 0
    /\ enable = [d \in Devices |-> FALSE]
    /\ val = [d \in Devices |-> 0]
    /\ direct = [d \in Devices |-> FALSE]
    /\ payload = NoFrame
    /\ rx = [step |-> "idle", cmd |-> NoCommand, out |-> NoFrame]
    /\ checker = [step |-> "wait", device |-> "kick"] /\ held = 0
    /\ link = "down" /\ frame = NoFrame /\ sent = NothingSent /\ cycleAge = 0
    /\ arrivals = 0
    /\ kickAge = [d \in Devices |-> PulseBound + LinkPeriod + 1]

-----------------------------------------------------------------------------
(***************************************************************************)
(* receive.RunClient                                                        *)
(***************************************************************************)

Arrives ==
    /\ rx.step = "idle" /\ arrivals < MaxArrivals
    /\ arrivals' = arrivals + 1
    /\ recvAge' = 0

\* An accepted OFFER, OK_PC or KEEP_ALIVE.
RecvOther ==
    /\ Arrives
    /\ UNCHANGED <<mode, cmdAge, globals, payload, rx, checkerVars, linkVars, kickAge>>

\* An accepted DATA: both times are stored before anything is decoded.
RecvData(cmd) ==
    /\ Arrives
    /\ cmdAge' = 0
    /\ rx' = [step |-> "direct", cmd |-> cmd, out |-> NoFrame]
    /\ UNCHANGED <<mode, globals, payload, checkerVars, linkVars, kickAge>>

\* An accepted DATA that is empty, does not parse or commands other robots
\* only renews both times all the same, and leaves the old payload in force.
RecvUseless ==
    /\ Arrives
    /\ cmdAge' = 0
    /\ UNCHANGED <<mode, globals, payload, rx, checkerVars, linkVars, kickAge>>

\* processCommand: the direct flags, which it only ever sets, and the local
\* payload with the motion and InfoDoCharge.
RxDirect ==
    /\ rx.step = "direct"
    /\ direct' = [d \in Devices |-> direct[d] \/ rx.cmd[d].direct]
    /\ rx' = [rx EXCEPT !.step = "val kick", !.out.motion = rx.cmd.motion,
                        !.out.charge = TRUE]
    /\ UNCHANGED <<mode, recvAge, cmdAge, enable, val, payload, checkerVars, linkVars,
                   arrivals, kickAge>>

ValStep(d) == IF d = "kick" THEN "val kick" ELSE "val chip"
EnableStep(d) == IF d = "kick" THEN "enable kick" ELSE "enable chip"
NextStep(d) == IF d = "kick" THEN "val chip" ELSE "read chip"

RxVal(d) ==
    /\ rx.step = ValStep(d)
    /\ IF rx.cmd[d].fires
       THEN /\ val' = [val EXCEPT ![d] = rx.cmd[d].power]
            /\ rx' = [rx EXCEPT !.step = EnableStep(d)]
       ELSE /\ rx' = [rx EXCEPT !.step = NextStep(d)]
            /\ UNCHANGED val
    /\ UNCHANGED <<mode, recvAge, cmdAge, enable, direct, payload, checkerVars,
                   linkVars, arrivals, kickAge>>

RxEnable(d) ==
    /\ rx.step = EnableStep(d)
    /\ enable' = [enable EXCEPT ![d] = TRUE]
    /\ kickAge' = [kickAge EXCEPT ![d] = 0]
    /\ rx' = [rx EXCEPT !.step = NextStep(d)]
    /\ UNCHANGED <<mode, recvAge, cmdAge, val, direct, payload, checkerVars, linkVars,
                   arrivals>>

\* "if state.ChipEnable { payload.ChipPower = state.ChipVal }", also for a
\* command that does not chip: an earlier one may still be held.
RxReadChip ==
    /\ rx.step = "read chip"
    /\ rx' = [rx EXCEPT !.step = "publish",
                        !.out.chip = IF enable["chip"] THEN val["chip"] ELSE 0]
    /\ UNCHANGED <<mode, recvAge, cmdAge, globals, payload, checkerVars, linkVars,
                   arrivals, kickAge>>

\* SetSendPayload.
RxPublish ==
    /\ rx.step = "publish"
    /\ payload' = rx.out
    /\ rx' = [step |-> "idle", cmd |-> NoCommand, out |-> NoFrame]
    /\ UNCHANGED <<mode, recvAge, cmdAge, globals, checkerVars, linkVars, arrivals,
                   kickAge>>

RxFinishes ==
    \/ RxDirect \/ RxReadChip \/ RxPublish
    \/ \E d \in Devices : RxVal(d) \/ RxEnable(d)

RunClient ==
    \/ RecvOther \/ RecvUseless \/ \E cmd \in Commands : RecvData(cmd)
    \/ RxFinishes

-----------------------------------------------------------------------------
(***************************************************************************)
(* app.kickCheck.  Its ticker is far shorter than a unit of time, so it     *)
(* looks at the flags, the kicker's first, as soon as it is awake.          *)
(***************************************************************************)

\* In each round it looks at the kicker first, and at the chip once the kicker
\* is not enabled or has been served.
CheckEnabled(d) ==
    /\ checker.step = "wait"
    /\ enable[d]
    /\ IF d = "kick" THEN checker.device = "kick"
                     ELSE checker.device = "chip" \/ ~enable["kick"]
    /\ checker' = [step |-> "hold", device |-> d]
    /\ held' = 0
    /\ UNCHANGED <<mode, recvAge, cmdAge, globals, payload, rx, linkVars, arrivals,
                   kickAge>>

\* The chip is not enabled: the round is over (state.ImuError, which comes
\* last, is never set anywhere).
RoundOver ==
    /\ checker = [step |-> "wait", device |-> "chip"]
    /\ ~enable["chip"]
    /\ checker' = [checker EXCEPT !.device = "kick"]
    /\ UNCHANGED <<mode, recvAge, cmdAge, globals, payload, rx, held, linkVars, arrivals,
                   kickAge>>

OtherDevice(d) == IF d = "kick" THEN "chip" ELSE "kick"

\* Mutant: the flag of a served kick stays up.
ClearEnableForgotten(d) ==
    /\ checker = [step |-> "hold", device |-> d] /\ held = KickHold
    /\ checker' = [checker EXCEPT !.step = "clear val"]
    /\ UNCHANGED <<mode, recvAge, cmdAge, globals, payload, rx, held, linkVars, arrivals,
                   kickAge>>

ClearEnable(d) ==
    /\ checker = [step |-> "hold", device |-> d] /\ held = KickHold
    /\ enable' = [enable EXCEPT ![d] = FALSE]
    /\ checker' = [checker EXCEPT !.step = "clear val"]
    /\ UNCHANGED <<mode, recvAge, cmdAge, val, direct, payload, rx, held, linkVars, arrivals,
                   kickAge>>

\* Mutant: the other device's power is cleared.
ClearOtherVal(d) ==
    /\ checker = [step |-> "clear val", device |-> d]
    /\ val' = [val EXCEPT ![OtherDevice(d)] = 0]
    /\ checker' = [checker EXCEPT !.step = "clear direct"]
    /\ UNCHANGED <<mode, recvAge, cmdAge, enable, direct, payload, rx, held, linkVars, arrivals,
                   kickAge>>

ClearVal(d) ==
    /\ checker = [step |-> "clear val", device |-> d]
    /\ val' = [val EXCEPT ![d] = 0]
    /\ checker' = [checker EXCEPT !.step = "clear direct"]
    /\ UNCHANGED <<mode, recvAge, cmdAge, enable, direct, payload, rx, held, linkVars, arrivals,
                   kickAge>>

\* Mutant: the direct flag is left for the next kick.
ClearDirectForgotten(d) ==
    /\ checker = [step |-> "clear direct", device |-> d]
    /\ checker' = [step |-> "wait", device |-> OtherDevice(d)]
    /\ held' = 0
    /\ UNCHANGED <<mode, recvAge, cmdAge, globals, payload, rx, linkVars, arrivals,
                   kickAge>>

ClearDirect(d) ==
    /\ checker = [step |-> "clear direct", device |-> d]
    /\ direct' = [direct EXCEPT ![d] = FALSE]
    /\ checker' = [step |-> "wait", device |-> OtherDevice(d)]
    /\ held' = 0
    /\ UNCHANGED <<mode, recvAge, cmdAge, enable, val, payload, rx, linkVars, arrivals,
                   kickAge>>

KickCheck ==
    \/ RoundOver
    \/ \E d \in Devices : CheckEnabled(d) \/ ClearEnable(d) \/ ClearVal(d) \/ ClearDirect(d)

-----------------------------------------------------------------------------
(***************************************************************************)
(* The link                                                                 *)
(***************************************************************************)

\* RunSerial / RunSPI before their loop: both times become the year 2000.
LinkStart ==
    /\ link = "down"
    /\ link' = "idle"
    /\ recvAge' = ChargeStopTimeout + LinkPeriod + 1
    /\ cmdAge' = NoRecvTimeout + LinkPeriod + 1
    /\ UNCHANGED <<mode, globals, payload, rx, checkerVars, frame, sent, cycleAge,
                   arrivals, kickAge>>

\* Mutants: the times of the two failsafes mixed up.
CmdTimedOutAnyDatagram == recvAge > NoRecvTimeout /\ ~mode.robotMode
ChargeTimedOutInPcMode == recvAge > ChargeStopTimeout /\ ~mode.robotMode

\* handleReceiveTimeout's test.
CmdTimedOut == cmdAge > NoRecvTimeout /\ ~mode.robotMode
ChargeTimedOut == recvAge > ChargeStopTimeout

\* PrepareSendData up to the kick byte: the payload with the timeouts applied.
BuildFrame ==
    /\ link = "idle"
    /\ link' = "built"
    /\ cycleAge' = 0
    /\ frame' = [motion |-> IF CmdTimedOut THEN 0 ELSE payload.motion,
                 chip   |-> IF CmdTimedOut THEN 0 ELSE payload.chip,
                 charge |-> payload.charge /\ ~ChargeTimedOut]
    /\ UNCHANGED <<mode, recvAge, cmdAge, globals, payload, rx, checkerVars, sent,
                   arrivals, kickAge>>

\* The kick byte, which comes from the globals whatever the timeout said, and
\* VelX1000; then PrepareHardwareTx's dry run, and the write.
SendFrame ==
    /\ link = "built"
    /\ link' = "idle"
    /\ sent' = [motion |-> IF mode.dryRun THEN 0
                           ELSE IF mode.velX1000 THEN 1 ELSE frame.motion,
                chip   |-> IF mode.dryRun THEN 0 ELSE frame.chip,
                charge |-> frame.charge,
                kick   |-> IF ~mode.dryRun /\ enable["kick"] THEN val["kick"] ELSE 0]
    /\ frame' = NoFrame
    /\ UNCHANGED <<mode, recvAge, cmdAge, globals, payload, rx, checkerVars, cycleAge,
                   arrivals, kickAge>>

Link == LinkStart \/ BuildFrame \/ SendFrame

-----------------------------------------------------------------------------
(***************************************************************************)
(* Time.  Code that runs without sleeping takes no time: a datagram's       *)
(* handler, kickCheck between two sleeps, the link within a cycle.  The     *)
(* link's cycles follow one another within LinkPeriod.                      *)
(***************************************************************************)
\* Mutant: a hold one unit too long.
CheckerOversleeps ==
    \/ checker = [step |-> "wait", device |-> "kick"] /\ \A d \in Devices : ~enable[d]
    \/ checker.step = "hold" /\ held <= KickHold

CheckerSleeps ==
    \/ checker = [step |-> "wait", device |-> "kick"] /\ \A d \in Devices : ~enable[d]
    \/ checker.step = "hold" /\ held < KickHold

Tick ==
    /\ rx.step = "idle" /\ CheckerSleeps
    /\ link = "down" \/ (link = "idle" /\ cycleAge < LinkPeriod)
    /\ recvAge' = Older(recvAge, ChargeStopTimeout + LinkPeriod)
    /\ cmdAge' = Older(cmdAge, NoRecvTimeout + LinkPeriod)
    /\ held' = IF checker.step = "hold" THEN held + 1 ELSE held
    /\ arrivals' = 0
    /\ cycleAge' = IF link = "down" THEN cycleAge ELSE cycleAge + 1
    /\ kickAge' = [d \in Devices |-> Older(kickAge[d], PulseBound + LinkPeriod)]
    /\ UNCHANGED <<mode, globals, payload, rx, checker, link, frame, sent>>

Next == RunClient \/ KickCheck \/ Link \/ Tick

Spec == Init /\ [][Next]_vars

(***************************************************************************)
(* The goroutines are scheduled and time passes; the PC owes nothing.       *)
(***************************************************************************)
FairSpec ==
    /\ Spec
    /\ WF_vars(RxFinishes) /\ WF_vars(KickCheck) /\ WF_vars(Link) /\ SF_vars(Tick)

-----------------------------------------------------------------------------
(***************************************************************************)
(* Properties                                                               *)
(***************************************************************************)

\* The speed failsafe (state.go:124): once the last DATA is older than
\* NoRecvTimeout and the link has had one more cycle, the last frame the motor
\* board got commands no motion and no chip, whatever the payload still says.
\* Robot control mode and, for the motion, -velx1000 are the code's exceptions.
FailsafeStops ==
    cmdAge > NoRecvTimeout + LinkPeriod /\ ~mode.robotMode
        => sent.chip = 0 /\ (sent.motion = 0 \/ mode.velX1000)

\* The three goroutines implement the abstract failsafe of module SpeedFailsafe.
Failsafe == INSTANCE SpeedFailsafe WITH
    exempt <- mode.robotMode \/ mode.velX1000,
    up <- link # "down",
    busy <- link = "built",
    moving <- sent.motion # 0

ImplementsFailsafe == Failsafe!Spec

\* The charging failsafe (state.go:123): after ChargeStopTimeout without any
\* datagram of the PC the motor board is no longer told to charge, in any mode.
ChargeStops == recvAge > ChargeStopTimeout + LinkPeriod => ~sent.charge

\* kickCheck serves one device at a time, so a device may stay enabled for two
\* hold times, but never longer; and the kick power, which the link takes from
\* the globals even when the failsafe has zeroed the frame, is off the wire one
\* cycle later.  (A chip's power is part of the payload, in which it may stay until
\* the next command or the failsafe.)
PulsesEnd ==
    /\ \A d \in Devices : enable[d] => kickAge[d] <= PulseBound
    /\ sent.kick # 0 => kickAge["kick"] <= PulseBound + LinkPeriod

\* Between a pulse's end and the next command no power is left behind in the
\* globals: whatever the interleaving, kickCheck's unlocked writes and
\* processCommand's never leave a disabled device with a power.
NoResidualPower ==
    \A d \in Devices :
       ~enable[d] /\ val[d] # 0 =>
          rx.step = EnableStep(d) \/ checker = [step |-> "clear val", device |-> d]

\* Every pulse ends, and with it the direct flag of a kick that fired.
PulseReleased ==
    \A d \in Devices :
       /\ enable[d] ~> ~enable[d]
       /\ (enable[d] /\ direct[d]) ~> ~direct[d]

================================================================================
