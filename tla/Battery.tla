--------------------------------- MODULE Battery ---------------------------------
(***************************************************************************)
(* The battery voltage, from the motor board's bytes to the alarm:          *)
(*                                                                         *)
(*   the link   the report found in them (Framing) into Recvdata, and the   *)
(*              battery error;                                               *)
(*   RunGPIO    the alarm, and its dismissal by a button or by the API.     *)
(*                                                                         *)
(* The board reports what it likes.  On SPI it sends frame after frame, at   *)
(* a phase of the robot's exchanges that changes only when the board is      *)
(* silent for an exchange.  LEDs, wheel speeds, sensors and the sounds that  *)
(* do not end in a decision are left out.                                    *)
(***************************************************************************)
EXTENDS Framing

CONSTANTS
    Boards,   \* the builds: "rock5a", "pi4"
    Reports,  \* the reports the board sends
    Phases,   \* bound: how many bytes of a frame may be left over for the next exchange
    Low,      \* state.BatteryLowThreshold
    Critical  \* state.BatteryCriticalThreshold

ASSUME BoardAssumption == Boards \subseteq {"rock5a", "pi4"}
ASSUME ReportsAssumption ==
    /\ Reports \subseteq Seq(Nat) /\ Reports # {}
    /\ \A report \in Reports : Len(report) = RecvSize
    /\ Phases \subseteq 0..(FrameSize - 1) /\ Phases # {}
ASSUME ThresholdAssumption == Low \in Nat /\ Critical \in Nat /\ Critical < Low

VARIABLES
    board,
    sending,      \* the report the board is sending when an exchange ends
    phase,        \* the bytes of its frame that the exchange left over
    window,       \* spiRxWindow: the last two chunks
    volt,         \* Recvdata.Volt
    error,        \* IsRobotError and RobotErrorMessage
    gpio,         \* where RunGPIO is
    alarmVoltage, \* its threshold
    ignore,       \* AlarmIgnore
    \* History variables: no action reads them.
    lowSent,      \* the board has reported a voltage below Low
    headerSent,   \* the board has reported a byte that looks like a header
    heard,        \* a frame has been found
    blind,        \* a link cycle has ended before that
    dipped        \* volt has been critical since the alarm was dismissed

linkVars == <<sending, phase, window, volt, error, lowSent, headerSent, heard, blind>>
vars == <<board, linkVars, gpio, alarmVoltage, ignore, dipped>>

\* A wheel that turns slowly backwards sends 0xFF.
HasHeader(report) == \E i \in 1..RecvSize : report[i] = Header

Silence == [i \in 1..FrameSize |-> 0]
Bytes == {0, Header, Footer} \cup UNION {{r[i] : i \in 1..RecvSize} : r \in Reports}

TypeOK ==
    /\ board \in Boards
    /\ sending \in Reports /\ phase \in Phases
    /\ Len(window) = 2 * FrameSize /\ \A i \in 1..Len(window) : window[i] \in Bytes
    /\ volt \in Bytes
    /\ error \in {"none", "battery", "circuit"}
    /\ gpio \in {"melody", "look", "normal", "alarm", "critical", "beep", "dismiss"}
    /\ alarmVoltage \in {Low, Critical}
    /\ {ignore, lowSent, headerSent, heard, blind, dipped} \subseteq BOOLEAN

Init ==
    /\ board \in Boards
    /\ sending \in Reports /\ phase \in Phases
    /\ window = Silence \o Silence
    /\ volt = 0 /\ error = "none"
    /\ gpio = "melody" /\ alarmVoltage = Low /\ ignore = FALSE
    /\ lowSent = (sending[1] < Low) /\ headerSent = HasHeader(sending)
    /\ heard = FALSE /\ blind = FALSE /\ dipped = FALSE

-----------------------------------------------------------------------------
(***************************************************************************)
(* The link                                                                 *)
(***************************************************************************)

\* Mutant: <= as in the alarm.
ErrorAtThreshold(v) ==
    CASE v <= Critical -> "circuit"
      [] v > Critical /\ v <= Low -> "battery"
      [] OTHER -> error

\* CheckBatteryStatus: an error is never taken back.
CheckBatteryStatus(v) ==
    CASE v < Critical -> "circuit"
      [] v >= Critical /\ v < Low -> "battery"
      [] OTHER -> error

\* The board goes on to its next report.
Sends(report) ==
    /\ sending' = report
    /\ lowSent' = (lowSent \/ report[1] < Low)
    /\ headerSent' = (headerSent \/ HasHeader(report))

\* The bytes of one exchange: the rest of a frame, and the beginning of the next.
Chunk(report) ==
    SubSeq(Wrapped(sending), FrameSize - phase + 1, FrameSize)
       \o SubSeq(Wrapped(report), 1, FrameSize - phase)

\* Recvdata, and CheckBatteryStatus at the end of the cycle.
Taken(v) ==
    /\ volt' = v
    /\ error' = CheckBatteryStatus(v)
    /\ heard' = TRUE
    /\ dipped' = (dipped \/ v <= Critical)
    /\ UNCHANGED blind

\* resolveSPIRxFrame and the rest of the cycle, which checks the battery also
\* without a frame, and does not ask whether there ever was one.
Received ==
    IF ValidOffsets(window') # {}
    THEN Taken(VoltAt(window', FindFrame(window')))
    ELSE /\ error' = CheckBatteryStatus(volt)
         /\ blind' = (blind \/ ~heard)
         /\ UNCHANGED <<volt, heard, dipped>>

\* processSPICommunication.
SpiCycle(report) ==
    /\ board = "rock5a"
    /\ window' = Pushed(window, Chunk(report))
    /\ Sends(report) /\ UNCHANGED phase
    /\ Received
    /\ UNCHANGED <<board, gpio, alarmVoltage, ignore>>

\* An exchange the board takes no part in; it may come back at another phase.
SpiSilence ==
    /\ board = "rock5a"
    /\ window' = Pushed(window, Silence)
    /\ Received
    /\ phase' \in Phases
    /\ UNCHANGED <<board, sending, lowSent, headerSent, gpio, alarmVoltage, ignore>>

\* processSerialCommunication: the input is dropped in the middle of anything.
SerialCycle(report) ==
    /\ board = "pi4"
    /\ LET stream == Packet(sending) \o Packet(report) \o Packet(report)
       IN \E start \in 0..(RecvSize + 2) : Taken(At(stream, Preamble(stream, start) + 1))
    /\ Sends(report)
    /\ UNCHANGED <<board, phase, window, gpio, alarmVoltage, ignore>>

-----------------------------------------------------------------------------
(***************************************************************************)
(* RunGPIO                                                                  *)
(***************************************************************************)
Goes(from, to) == gpio = from /\ gpio' = to

GpioOnly == UNCHANGED <<board, linkVars, alarmVoltage, ignore, dipped>>

\* The start-up melody is over, or a blink of normal operation, or the sound
\* that confirms a dismissal.
BackToLook == (\E from \in {"melody", "normal", "dismiss"} : Goes(from, "look")) /\ GpioOnly

\* Mutant: the threshold the dismissal lowered is not the one that is used.
LookAtLow ==
    /\ Goes("look", IF volt <= Low THEN "alarm" ELSE "normal")
    /\ GpioOnly

Look ==
    /\ Goes("look", IF volt <= alarmVoltage THEN "alarm" ELSE "normal")
    /\ GpioOnly

\* Mutant: < as in CheckBatteryStatus.
IsCriticalBelow == volt < Critical

IsCritical == volt <= Critical

\* handleBatteryAlarm's loop: below the critical voltage it only sounds...
AlarmRound ==
    /\ Goes("alarm", IF IsCritical THEN "critical" ELSE "beep")
    /\ GpioOnly

CriticalOver == Goes("critical", "alarm") /\ GpioOnly

\* ... and above it, it sounds until the button is pressed or the API was
\* asked to ignore it, even when the voltage has recovered.
KeepBeeping == ~ignore /\ Goes("beep", "alarm") /\ GpioOnly

\* Mutant: the threshold stays what it was.
DismissOnce ==
    /\ Goes("beep", "dismiss")
    /\ dipped' = (volt <= Critical)
    /\ UNCHANGED <<board, linkVars, alarmVoltage, ignore>>

Dismiss ==
    /\ Goes("beep", "dismiss")
    /\ alarmVoltage' = Critical
    /\ dipped' = (volt <= Critical)
    /\ UNCHANGED <<board, linkVars, ignore>>

RunGPIO == BackToLook \/ Look \/ AlarmRound \/ CriticalOver \/ KeepBeeping \/ Dismiss

\* /ignorebatterylow; nothing takes it back.
HandleIgnoreBatteryLow ==
    /\ ignore' = TRUE
    /\ UNCHANGED <<board, linkVars, gpio, alarmVoltage, dipped>>

Next ==
    \/ \E report \in Reports : SpiCycle(report) \/ SerialCycle(report)
    \/ SpiSilence
    \/ RunGPIO
    \/ HandleIgnoreBatteryLow

Spec == Init /\ [][Next]_vars

\* RunGPIO's goroutine is scheduled.
FairSpec == Spec /\ WF_vars(RunGPIO)

-----------------------------------------------------------------------------
(***************************************************************************)
(* Properties                                                               *)
(***************************************************************************)

\* The robot's error flag, which nothing ever clears, has a cause: the board
\* reported a low voltage, the link of the Rock 5A ran before the first frame and
\* took the initial 0 for a voltage, or a wheel speed looked like a header.
ErrorHasCause == error # "none" => lowSent \/ blind \/ headerSent

\* The newest complete report is the one that is taken.  In step with the board's
\* frames that holds whatever its bytes look like; out of step it takes two
\* exchanges at the same phase, and no header byte in the report.
NewestTaken ==
    [][\A report \in Reports :
          SpiCycle(report) =>
             \/ volt' = (IF phase = 0 THEN report[1] ELSE sending[1])
             \/ phase > 0 /\ (window'[phase + 1] # Header \/ HasHeader(sending))]_vars

\* An alarm that was dismissed does not come back for a low voltage, only for a
\* critical one.
DismissedStaysQuiet == alarmVoltage = Critical /\ gpio = "beep" => dipped

\* Once the operator has asked to ignore it, the alarm ends and does not start
\* again while the voltage stays above the critical one.
IgnoreSilences ==
    <>[](ignore /\ volt > Critical) => <>[](gpio \in {"look", "normal"})

\* A voltage that stays critical is heard for ever, dismissed or not.
CriticalIsHeard == <>[](volt <= Critical) => <>[](gpio \in {"alarm", "critical"})

================================================================================
