# TLA+ models of ssl-RACOON-Pi2

ssl-RACOON-Pi2 is the program on the single-board computer of a RoboCup SSL
robot (Raspberry Pi 4 or Rock 5A). It keeps a session with the PC that plays the
game, turns the PC's commands into frames for the motor board, runs the camera
process that finds the ball, watches the battery, serves a small HTTP API and
updates itself. This directory models the parts of it that keep state and
interact, checks them with TLC, and proves their safety properties with TLAPS.

Run a check with `tlc -config X.cfg M`, a proof with `tlapm M_proofs.tla`.

## 1. Inventory

| component | state | operations | interacts with |
|---|---|---|---|
| PC session (`receive.go` RunClient, `mw.go` RunServer) | ConnectionState, PcAddress under StateMu; LastRecvTime | OFFER, OK_PC, DATA, KEEP_ALIVE; timeout; DISCOVER, OK_ROBOT, status | the PC; the link, which overwrites LastRecvTime when it starts |
| command path (`receive.go` processCommand, `run.go` kickCheck, `link/common.go`, the two links) | kick and chip globals, sendPayload, LastCmdRecvTime | decode a command, hold and release a kick, build and write a frame | the session admits the datagrams; the motor board |
| threshold.json (`mw.go`, `api.go`, `color_tuner.go`, `camera/main.py`, `camera/settings.py`, the two camera servers) | the file, Go's cache, the camera's settings, the detector's range | load, merge-and-rewrite, calibrate, set, relax, restart | two processes, four writers, no lock |
| camera supervision (`api.go`, `run.go` signal handler) | pythonCmd, the processes, the camera device | start, stop, restart, interrupt | every API request that changes a setting |
| ball detection and report (`color.py`, `main.py`, `encoder.py`, `receive.go` ReceiveData, three readers) | search window and miss count; ImageDataPtr | detect, send, receive, read | camera process to status frame, API and motor board |
| battery (`spi.go`, `serial.go`, `common.go`, `setup.go` of both boards) | Recvdata.Volt, the error flag, the alarm threshold, AlarmIgnore | frame received, check, alarm loop, dismissal | link goroutine, GPIO goroutine, API |
| camera overlay selection (`scripts/select-*-camera.sh`) | boot configuration, state file | look for a sensor, choose, record, reboot | power cuts, people who change the camera |
| self-update (`upgrade.go`) | the binary, the camera package | detect, apply, extract, exit | the release server, the service manager |
| SPI and serial framing | a window of two frames; the preamble | shift, search, parse | the links |
| status, image, buzzer and shutdown API | reads shared state; PowerShutdownMode | format and send | |
| HSV calibration, sensor set-up, frame post-processing | per call | image processing | camera process |
| wheel graph | ring of samples behind a mutex | record, serve | off by default |
| bench tool kick_test (`cmd/kick_test/main.go`) | the pulse, the settings, the display's copies, behind two locks | menu commands, SPI loop, shutdown | a person, the signal goroutine, the motor board |
| board start-up, buzzer, spi_test and dip_test, streaming and install scripts, generated protobuf | | | |

Goroutines (`internal/app/run.go` 99-105): RunClient, RunServer, the link,
kickCheck, RunGPIO, api.Run (and one per connection), ReceiveData, and the
updater. The only locks are StateMu (session), the payload's, the two
AtomicTime values and the cache's. Everything else that two goroutines share
is read and written without one.

What is hard, component by component, and what makes it correct:

* Session: handlers interleave with a server that sends after it has unlocked;
  datagrams are lost, late or from another PC. Correct: one session at a time,
  confirmed by its own PC, ended by silence only; a PC that stays gets
  connected, a PC that is gone is forgotten.
* Command path: three goroutines, unlocked globals, two timeouts. Correct: the
  robot stops when commands stop, a kick is a short pulse, nothing of it is left.
* threshold.json: read-merge-truncate-write in two processes, killed in between.
  Correct: four copies agree once things are quiet, keys of others survive.
* Camera supervision: restarts that overlap on a global. Correct: one camera,
  and not none.
* Ball report: torn reads, a search that may look in the wrong place, frames that come to
  nothing. Correct: what is reported is what the camera sees, once nothing fails.
* Battery: a latch and an alarm loop with several ways out. Correct: no error
  without a cause, no critical voltage in silence.
* Overlay selection and self-update: files changed one by one and not synced, power cuts.
  Correct: no reboot or restart loop, alone or one started by the other, no half-way
  state that nobody announced.
* Session and command path together: two goroutines that time out on their own, on
  stamps a third one overwrites. Correct: no session, no motion.
* kick_test: a menu, a periodic sender and a shutdown that runs once, whoever
  calls it, on two locks (main alone takes one inside the other, in both orders).
  Correct: kicks are short and apart, the program always ends, and ends without a kick and
  with what shutdown switched off still off.

The hazards, each at its line, are in PROJECT.json.

## 2. Modules

Time is discrete throughout; a time stamp that is only compared with now is kept
as its age, counted no further than one past the largest duration it is compared
with. History variables are marked where they are declared; no action reads them.

| module | models | composes |
|---|---|---|
| `PcLease` | abstract specification: the robot is leased to at most one PC | |
| `RobotSession` | RunClient (one action per datagram, atomic under StateMu), RunServer (`ServerCheck` under the lock, `ServerSend` on the snapshot after it), `LinkStart` | implements `PcLease` |
| `Handshake` | the session with one PC program and a network that loses, reorders and merges, and stray datagrams of anybody | EXTENDS `RobotSession` |
| `SpeedFailsafe` | abstract specification: no motion on old commands, a frame every LinkPeriod | |
| `CommandPath` | processCommand and kickCheck one shared access at a time, the link in two steps | implements `SpeedFailsafe` |
| `Robot` | session, PC, network and speed failsafe in one robot | EXTENDS `Handshake`, INSTANCE `SpeedFailsafe` |
| `ThresholdFile` | every access to the file, cache, settings and detector by the API goroutines, RunServer's first load and the two camera threads, with the backlogs of the threads' sockets | |
| `CameraProcess` | restartPythonProcess and stopPythonProcess statement by statement, camera processes, the device | |
| `BallDetector` | the detector's search state as operators on a record | |
| `BallReport` | main loop, datagram, ImageDataPtr and its readers | EXTENDS `BallDetector` |
| `Framing` | the SPI window and the last valid frame in it, the serial preamble, as operators on byte sequences | |
| `Battery` | what the board sends, byte by byte; link cycle of both boards, alarm loop, dismissal | EXTENDS `Framing` |
| `CameraAutoselect` | both scripts, power cuts, camera changes | |
| `SelfUpdate` | updater, release server, service manager, crashes | |
| `BootSequence` | from the power switch to the running program: one disk, one power switch | EXTENDS `SelfUpdate`, INSTANCE `CameraAutoselect` |
| `KickTest` | the bench tool: menu, loop and shutdown, each critical section a step, the nested locks step by step | |
| `*_proofs` | theorems (section 4) | EXTEND their component and TLAPS |
| `MC*` | values for TLC | |

Definitions keep the names of the code (PROJECT.json "map" has the lines). An
operator whose comment begins with "Mutant" is a plausible mistake in the
definition after it; it is used by nothing, and replacing that definition by it
must break the property it is listed with.

### Abstractions

* `RobotSession`: a PC is any PC and may deliver any datagram at any time. Errors of the
  sockets are logged by the code and change nothing. PcAddress is its IP, the
  port being constant.
* `Handshake`: the PC program is external. It answers DISCOVER with OFFER and OK_ROBOT with
  OK_PC, and drops a DISCOVER within the discover interval of the last one, as `mw.go:52`
  says it does. A datagram is heard or lost within one unit of time, and a number
  (`MaxStray`) of any others comes from anywhere.
* `CommandPath`: velocities and dribbler are one motion bit, powers a small set that has 0
  (what a power above 25.5 or below 0.1 may wrap or truncate to). `MaxArrivals` bounds the
  datagrams per unit; code that does not sleep takes no time; the link
  cycles at least once per LinkPeriod.
  Of a chip only the enable flag and the global power are followed to the end of the pulse: in
  the payload its power may stay until the next command or the failsafe.
* `RobotSession`, `Robot`: the two stores of the link's start-up are one step.
* `Robot`: of the command path only the speed failsafe is there, which `CommandPath` is shown to
  implement. Session and failsafe share the accepted DATA, the link's start-up,
  which overwrites both time stamps, and the clock.
* `ThresholdFile`: a threshold is how wide it is, the same at both ends as a request asks for
  it. A kill of the camera is the one a restart makes. A client that gives up while the
  thread is busy leaves its request in the backlog, which is carried out when its
  turn comes; one given up in service is finished without an addressee.
  Preview requests read only. The Go program itself does not die between its truncate and
  its write.
* `CameraProcess`: `pkill` matches every camera process; SIGTERM may leave some alive, SIGKILL
  none. When the Go program ends the kernel kills its cameras (Pdeathsig). A
  request is accepted only while an exec.Cmd is left for it (`MaxCmds`).
* `BallDetector`: the places of a picture are abstract, `Near` tells which are within
  ballDetectRadius. Clutter is of the ball's colour, larger and not round. A ball
  cut by the edge of the window counts as outside.
* `BallReport`: what may fail is one state of the world (`fault`): the capture, and then the loop
  sleeps and tries again; the encoder, and then nothing is sent; the decoder, and then the
  datagram is dropped. A preview searches a frame with the same detector and
  sends nothing. The socket buffer holds one datagram. Reading shared data is one step per field.
  The three readers write nothing another one reads, so one is checked; they differ in what
  they do with the coordinates of no ball.
* `Framing`, `Battery`: a byte is a number, the header and the footer are two of them, a frame has
  its structure but fewer bytes. The board sends its frames one after the other,
  at a phase that changes only in an exchange it takes no part in; what the link
  reads on the serial line begins in the middle of anything. GPIO requests that fail end
  RunGPIO at once and are left out, and so are sounds that decide nothing.
* `CameraAutoselect`: what was written before `sync` may be lost, each file for itself. Each of
  the two files may be one that cannot be written (`writable`, `configurable`), which
  neither script notices; some of the single writes to the boot configuration may go through
  all the same (`Partly`). Other overlays are kept by the scripts and left out, as is a
  working camera_auto_detect.
* `SelfUpdate`: update.Apply, of a library, takes two renames (`Swap`, `Apply`) and puts the binary
  back when the second fails, or cannot (`SwapFailed`). Nothing is synced: `oldBinary` and
  `oldCamera` are what a power cut may leave instead of each file, a former content
  or `Broken`, until the kernel has written it back (`WriteBack`). A binary
  reports the version of its release.
* `BootSequence`: the unit files order the script before the program
  (`scripts/` and the services they install); an exit of the program does not
  run the script again.
* `KickTest`: kick and chip are one power, on or off, and the base velocity is zero or not; it
  goes into every frame, the safe ones of shutdown included. A read outside its lock is one step and finds
  the old or the new value. The person types anything at any time, or nothing.

## 3. Runs

| run | module | properties | shows |
|---|---|---|---|
| robot | Robot | ConfirmedByItsPC, StatusOnlyAfterHandshake, DropOnlyWhenSilentOrForgotten, ImplementsPcLease | the session and the stale snapshot stay sound against strays of another PC, and the lease is implemented |
| | | StoppedWithoutSession | a robot whose session is over has stopped already, although session and failsafe never look at one another |
| | | AlwaysReconnects, DeadPcReleased | liveness over the lossy network |
| command_path | MCCommandPath | FailsafeStops, ChargeStops, PulsesEnd, NoResidualPower, PulseReleased | failsafes and kick pulses under every interleaving |
| | | ImplementsFailsafe | the three goroutines implement the abstract failsafe that `Robot` uses |
| threshold_file | ThresholdFile | SettledAgrees, EmptyOnlyWhileWritten, RequestsEnd | agreement without overlap; no lost file with it; no request held for ever |
| camera_process | CameraProcess | CameraRunsWhenQuiet, PanicNeedsOverlap, StartsAlone | overlapping restarts never leave the robot blind |
| ball_report | MCBallReport | ReportIsWhole, BlindBounded, KeepsTrack, ReportsFollowCamera | from the picture to the report, frames that fail and previews in between |
| battery | MCBattery | NewestTaken | which of the frames in the window is taken |
| | | ErrorHasCause, DismissedStaysQuiet, IgnoreSilences, CriticalIsHeard | the latch, and the alarm's ways out |
| boot | MCBootSequence | BoundedReboots, GivesUpOnlyWithoutCamera | no reboot loop while both files can be written, no camera given up that is there while the boot configuration can |
| | | InSyncUnlessCutShort, NeverOlder | no mixture of two releases but by an update cut short or lost before it was written back, no downgrade |
| | | RobotComesUp | reboots and restarts do not keep one another going; only a cut or a failed swap leaves no program |
| kick_test | KickTest | KickEnds, PulsesApart, EndsUnarmed, Terminates | short pulses apart from one another, an end in spite of the locks, without a kick and with nothing switched on that shutdown switched off, but for the exceptions named; a velocity in the last frame is one that was set |
| session_startup (violation) | RobotSession | DropOnlyWhenSilent | finding 1 |
| threshold_extra_keys (violation) | ThresholdFile | ExtraKeysPreserved | finding 2 |
| one_client (violation) | CameraProcess | OneClient | finding 3 |
| kick_test_end (violation) | KickTest | EndsDischarged | finding 4 |

The runs command_path, camera_process and kick_test check the module's type invariant
too; these, BootTypeOK and the TypeOK of `RobotSession`, `ThresholdFile` and `BallReport`
are proved. The remaining ones (RobotTypeOK, and TypeOK of `Battery`) hold on the same
instances when they are added to the configuration.

### Bounds, and why they are enough

* robot: one PC with the handshake and another one for the strays, so that it can take over at
  every step; two robot ids, one foreign; two strays, one to break a session and one
  to open another. RobotTimeout 3 > DiscoverInterval 1 > OkInterval 0, the order of
  the code's 3 s, 1.5 s and 100 ms; NoRecvTimeout 1 and LinkPeriod 1, which leaves no
  more than one unit to spare. The proofs remove all these bounds.
* session_startup: timeouts 4, 2 and 1.
* command_path: a plain command, a kick, and a chip with a direct flag alone: each
  branch of processCommand for both devices; normal, robot control, -velx1000 and dry-run
  modes; one datagram per unit; hold 1, timeouts 2 and
  3. The proofs remove these bounds, save for PulseReleased.
* threshold_file: two requests overlap with each other, with the first load and with
  both camera threads; two tries of the tuner, so that one request can be abandoned, served
  late and made again; two widths.
* camera_process: three requests and the start-up and the signal handler, five
  commands, so that a third restart meets the leftovers of two that overlapped.
* ball_report: two neighbouring places and a far one, a miss limit of 2, one reader; any
  failure, at any time.
* battery: a report of four bytes in a frame of seven: a voltage in each of the ranges the code
  distinguishes and at both boundaries, a wheel speed that looks like a header
  with or without a footer where it is looked for; two phases, in step and not.
* boot: the two overlays of the Rock 5A and two of the Pi 4's four, of either sensor; any change
  of the camera, each file writable or not; one camera file besides the binary,
  which is enough to be out of step with it; two releases, two power cuts that hit the script, the
  program or both, at any stage of writing back. The proofs are for any overlays and files.
* kick_test: a hold of one period, and cooldowns from none to one that outlasts a hold and a
  period, so that PulsesApart meets both sides of its condition; a discharge of
  two units and one final frame. Longer periods and holds are left to the proofs, which
  are for any.

CHECK_DEADLOCK FALSE is used where a bound on requests or commands runs
out, and where the program has ended or panicked.

### Fairness

Only what the scheduler, the clock and deadlines give.

* `Robot`, `Handshake`: WF on RunServer's cycle, the link and time; SF on Tick where code that
  takes no time may disable it for a moment again and again. A datagram does not stay in
  the network for ever, and SF on the delivery of each kind of handshake datagram: one that is
  sent again and again is not lost every time. Without it no handshake completes.
  PCs come and go as they like.
* `CommandPath`: WF on the receiver's remaining steps, kickCheck and the link; SF on Tick.
* `ThresholdFile`: each goroutine and each camera thread runs, and an attempt ends by an answer or
  by its deadline (`Asks`), which `net.Conn.SetDeadline` gives. Nobody has to make a request.
* `BallReport`: the camera's main loop while the process runs and captures, ReceiveData, the periodic readers.
* `Battery`: RunGPIO's goroutine. Not the link, nor the board.
* `BootSequence`: the service manager runs the script and the program. Not releases, cameras, cuts.
* `KickTest`: the three goroutines and time. Not the person, and not the signal: Terminates
  begins when it has arrived.

### Findings

1. `spi.go:44` and `serial.go:40` store the year 2000 in LastRecvTime after RunClient and
   RunServer are running. A session opened by then is dropped although its PC has just
   been heard, against `mw.go:54`.
2. Two rewrites of threshold.json that overlap lose the camera keys that
   `mw.go:183` and `settings.py:122` promise to keep.
3. Two overlapping camera restarts leave two camera processes alive, against
   `api.go:440-441`; one of them then exits for lack of the device.
4. kick_test's shutdown switches charging off once, while the menu goes on: charging
   typed during the discharge, or a Ctrl-C just before the charge phase, puts it into
   the last frames again, against `cmd/kick_test/main.go:290`.
5. Neither overlay script notices a file it cannot write. Without the state file, and on the
   Rock 5A also without the boot configuration, the robot reboots at every boot, against
   `select-rock5a-camera.sh:10-11`, `select-pi4-camera.sh:7` and the repository's
   README (line 117). BoundedReboots (run boot) states that the two
   files can be written, in its hypothesis `writable /\ configurable`; without the
   hypothesis TLC shows the loop.
6. With a boot configuration that cannot be written the Pi 4's script lists overlays as tried
   that it never booted with, and then says "Already tried all camera overlays
   without success." (`select-pi4-camera.sh:103`) with the camera attached.
   GivesUpOnlyWithoutCamera (run boot) has the hypothesis `configurable`; without it TLC
   shows the case.

Findings 1 to 4 have a run of their own that TLC must refute; 5 and 6 are the hypotheses of
properties that hold. Other weaknesses contradict no sentence of the repository and are
part of the properties as exceptions: a camera package mixed from two releases, or
lost before it was written back, stays so until the next release
(InSyncUnlessCutShort), a cut during the swap leaves no executable (RobotComesUp), a
camera that captures nothing leaves its last ball reported (ReportsFollowCamera), the
base velocity stays in the last frame of kick_test (EndsUnarmed), a reader torn by a new datagram reports
a ball at 9999 (ReportIsWhole), a wheel speed of 0xFF may be taken for the header of a frame
(NewestTaken, ErrorHasCause), overlapping requests may leave the detector
with one end of its range from each (SettledAgrees).

## 4. Proofs

Every safety invariant and every action property that a passing run checks is proved, for
every value of the constants that satisfies the modules' named assumptions:

* durations are naturals, NoPC is no PC, NoCmd is no command, 0 is a power, the set of
  connections is finite (`HandlersAssumption`);
* `BoardsAssumption`: the overlays of each script are a list, of two on the Rock 5A (the
  scripts' arrays);
* `FramingAssumption`: a frame has room for a report, and its header is not its
  footer (0xFF and 0xAA in the code), or the end of one frame could be taken for
  the beginning of another;
* `TimeoutsAssumption`: NoRecvTimeout + LinkPeriod <= RobotTimeout (the code's 1 s,
  some milliseconds and 3 s).

The inductive invariants, what each adds to the property, and why the property alone does not
suffice:

* `Robot_proofs`, first about the session on its own: TypeOK; SessionHasAddress, ConfirmedByItsPC and
  StatusOnlyAfterHandshake; DropOnlyWhenSilentOrForgotten; ImplementsPcLease. The inductive
  invariant `SessionInv` adds to the three that a snapshot in CONNECTED waiting to
  be sent names a PC that confirmed (`SnapshotConfirmed`), and that okFrom does:
  StatusOnlyAfterHandshake alone is not inductive because ServerSend works on the
  snapshot. `AgeIsSilence` relates the age RunServer tests with the silence the
  property speaks of. The refinement maps RunClient's actions to Acquire, Confirm
  and Renew, a timed-out ServerCheck to Expire, LinkStart to Lapse and Tick to
  Pass or a stutter.
  Then about the composition: each of its steps is a step or a stutter of `RobotSession`
  (SessionInRobot), so its theorems hold there, and of `SpeedFailsafe` (FailsafeInRobot);
  StoppedWithoutSession under TimeoutsAssumption: in the inductive invariant `StandsInv` the last
  command is never younger than the session's last sign of life, the motion on the wire is
  bounded by the age of the link's cycle, and a robot that discovers has an old command.
* `CommandPath_proofs`: TypeOK; FailsafeStops and ChargeStops from `FailsafeInv`, which says what
  the frame under work (`FrameInv`) and the frame on the wire (`WireInv`) may carry at
  each age of the cycle; NoResidualPower, which is inductive; PulsesEnd from `PulseInv`, which bounds
  the age of a device's command by what kickCheck is doing (`OldestPulse`);
  ImplementsFailsafe: the frame a cycle has built moves the robot only if the command was
  fresh when it was built (`MovingFrameIsFresh`), so writing it is an EndCycle.
* `ThresholdFile_proofs`, for any number of handlers, requests, tries and widths: TypeOK;
  EmptyOnlyWhileWritten from `WriteInv`. A truncate and its write are consecutive steps of one
  writer, so what is to be shown is that nobody takes a writer out of its write: a kill does, and
  is recorded; the answer of a camera thread would, and does not because the client
  of a thread waits, for that thread (`ClientsWait`).
  SettledAgrees from `OneAtATime`: while the history is calm at most one request is at
  work, a goroutine (`GoAlone`) or a camera thread whose client waits (`ThreadAlone`), and
  at each of its steps what it has read, the file, the cache and the settings are
  known in terms of one another; between requests (`Resting`) all agree.
* `Battery_proofs`, for any reports, phases, frame sizes and thresholds: DismissedStaysQuiet from
  `DismissedInv`: after a dismissal a critical voltage is remembered, and the alarm is
  entered only for one. NewestTaken and ErrorHasCause from `LinkInv`: the last chunk of the
  window is silent or in step with the frame the board is sending, byte by byte, and the
  history of what the board reported is complete. So a header that the backward search of
  `FindLastValid` meets is a frame's own or a byte of a report, and what a frame's own
  header gives is a voltage the board sent (`CauseInv`). That the search
  finds the last frame is a lemma from the well-founded order of the naturals (`GreatestExists`).
* `CameraProcess_proofs`, for any number of connections and restarts (`MaxCmds` is no
  part of the argument): CameraRunsWhenQuiet from `QuietInv`: when no camera is alive
  somebody will still assign a command, or start one that was never started; a Start
  that finds its command started already is covered by whoever else restarts.
  PanicNeedsOverlap and StartsAlone from `SeqInv`: until two restarts overlap, one
  goroutine is at work and what it has read of pythonCmd still holds. TypeOK, which bounds the
  commands, from `Counted`: those created and those that goroutines at work will still create
  are within `MaxCmds`; the signal handler creates none.
* `BallReport_proofs`, for any places, nearness, miss limit and readers: TypeOK; BlindBounded from
  `MissInv`: the misses of a lone ball are among those the detector counts, and before the limit
  is exceeded it looks everywhere; KeepsTrack from `TrackInv`: after a hit the window
  is around the hit; ReportIsWhole from `ReadersInv`: what a reader has read is of what
  is stored, unless that was replaced since.
* `BootSequence_proofs`, for any overlays, files, releases and cuts. Of the script, from `ScriptInv`:
  each reboot lists another overlay, but for the first one after a cut, whose overlay may be
  listed already (`Progress`, for BoundedReboots); and as long as nobody interfered a listed overlay has been
  booted with and showed no sensor, the configured one excepted (`RuledOut`, for GivesUpOnlyWithoutCamera);
  the hypotheses about files that can be written are the properties' own.
  Of the program, from `UpdateInv`: the release that was found stays newer than the program until it is
  applied (`Found`), the files already extracted have the binary's version, and during
  the swap they have the running program's (`Extracted`), and what a power cut may leave is of
  some release or `Broken` (`Disk`), for InSyncUnlessCutShort and NeverOlder. Both carry over because the boot sequence implements
  the script's specification and the updater's steps (BootImplementsSelect,
  BootImplementsUpdate), in which the power cut is the one common step.
* `KickTest_proofs`, for any settings: TypeOK; KickEnds from `AgeInv`: a kick on the wire is
  replaced within a period by whoever is in charge of it, the loop or the closer
  (`Covered`); PulsesApart from `PulseInv`: main sleeps at least as long as the pulse is in force,
  and a cooldown that is long enough outlasts the last frame with it; EndsUnarmed from `EndInv` and
  `MeddledInv`: once the deadline has begun to run the loop has nothing left to send, so no frame
  of it follows the last safe one, and what is switched on, or what velocity is set, after the closer looked is recorded.

Only model-checked: the liveness properties (AlwaysReconnects, DeadPcReleased, PulseReleased,
RequestsEnd, ReportsFollowCamera, IgnoreSilences, CriticalIsHeard, RobotComesUp, Terminates),
which are out of the prover's reach, as is ENABLED; RobotTypeOK and the TypeOK of `Battery`. The four
violations are counterexamples of TLC.

## 5. Not modelled, and why

* Conversions of velocities, powers and coordinates to bytes: single expressions without state,
  abstracted in `CommandPath`; planned as operators of their own.
* HSV calibration and image processing: numerical.
* Sensor set-up, frame post-processing: straight-line calls of v4l2-ctl and of an image library.
* /status, /image, /buzzer: they format shared state; the reads of the ball are in `BallReport`.
  /powershutdown: its flag reaches no frame, IdxPowerCmd being -1 on both boards.
* Wheel graph: a debugging ring of samples behind one mutex, off by default.
* Start-up flags, host name, DIP switches: constants for the goroutines.
* Buzzer and LEDs: output. (Sounds that queue up behind the PWM mutex are listed as a hazard.)
* spi_test and dip_test: loops that show a person what the SPI board answers and how the
  switches stand, without state of their own; streaming and installation scripts: straight-line.
* Generated protobuf code.
* Wall-clock jumps: AtomicTime keeps Unix time, and a jump would refute every
  timeout alike.

## 6. Plan

Done, in this order, the most important first: session and lease, handshake, command
path, threshold.json, camera process, battery, ball report, overlay selection, self-update;
then framing under the battery, the backlogs of threshold.json, the boot sequence, the composed robot
with the abstract failsafe, kick_test; then the proofs of every safety property the passing runs check.

Next, the proofs:

1. RobotTypeOK and the TypeOK of `Battery`.
2. The safety part of `Handshake` as a step of the session: `Robot` implements it by extension.
3. Abstract specifications for `CameraProcess` (one owner of the device at a time, in a history
   without overlap) and `ThresholdFile` (one register), with their refinements.

Next, the model:

1. The conversions of receive.go to bytes, as operators checked against their intended values.
2. `BallReport` with the camera restarts of `CameraProcess`.
3. The GPIO failure path and the buzzer's overlap in `Battery`; the wheel graph's ring.
