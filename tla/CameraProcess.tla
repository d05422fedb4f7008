------------------------------ MODULE CameraProcess ------------------------------
(***************************************************************************)
(* The camera process as the Go program starts and stops it                 *)
(* (api.restartPythonProcess, api.stopPythonProcess).                       *)
(*                                                                         *)
(* restartPythonProcess runs in api.Run at boot, then in the goroutine of   *)
(* every /updatepython and /changeadjustment request; stopPythonProcess     *)
(* also runs in the signal handler.  All of them read and write the global  *)
(* pythonCmd without a lock, and read it afresh in every statement.  A read *)
(* that finds nil, or a command that was never started, dereferences a nil  *)
(* pointer: the panic takes the whole program down.                         *)
(*                                                                         *)
(* A camera process opens the one camera device or exits; it may also fail  *)
(* on its own.  When the Go program is gone the kernel terminates the       *)
(* cameras it started (Pdeathsig).                                          *)
(***************************************************************************)
EXTENDS Naturals, FiniteSets

CONSTANTS
    Handlers, \* API connections being served at the same time
    NoCmd,    \* a nil pythonCmd
    MaxCmds   \* bound: the exec.Cmd values of a behaviour

ASSUME MaxCmdsAssumption == MaxCmds \in Nat \ {0}
ASSUME NoCmdAssumption == NoCmd \notin Nat
ASSUME HandlersAssumption == IsFiniteSet(Handlers)

VARIABLES
    pythonCmd, \* the global: an exec.Cmd or NoCmd
    created,   \* how many exec.Cmd values there are: they are 1..created
    started,   \* those whose Process is set
    cameras,   \* the camera processes alive, named by their exec.Cmd (0: an orphan)
    device,    \* the process that has the camera device open, or NoCmd
    go,        \* each goroutine: its statement, and the process it waits for
    program,   \* the Go program: "up", "panicked" or "exited"
    \* History variables: no action reads them.
    overlap,   \* a restart or stop has begun while another was under way
    failed     \* a camera failed on its own, or could not be started

vars == <<pythonCmd, created, started, cameras, device, go, program, overlap, failed>>
history == <<overlap, failed>>

Goroutines == Handlers \cup {"api", "signal"}
Steps == {"idle", "is nil", "is started", "kill", "wait", "waiting", "forget",
          "pkill term", "pkill kill", "assign", "start"}
Cmds == 1..MaxCmds

TypeOK ==
    /\ pythonCmd \in Cmds \cup {NoCmd}
    /\ created \in 0..MaxCmds
    /\ started \subseteq 1..created
    /\ cameras \subseteq started \cup {0}
    /\ device \in cameras \cup {NoCmd}
    /\ go \in [Goroutines -> [step: Steps, on: Cmds \cup {NoCmd}]]
    /\ program \in {"up", "panicked", "exited"}
    /\ overlap \in BOOLEAN /\ failed \in BOOLEAN

At(step) == [step |-> step, on |-> NoCmd]

\* api.Run begins with a restart.  A camera of an earlier run may be left.
Init ==
    /\ pythonCmd = NoCmd /\ created = 0 /\ started = {}
    /\ cameras \in {{}, {0}}
    /\ device \in cameras \cup {NoCmd}
    /\ go = [g \in Goroutines |-> IF g = "api" THEN At("is nil") ELSE At("idle")]
    /\ program = "up"
    /\ overlap = FALSE /\ failed = FALSE

Busy == {g \in Goroutines : go[g].step # "idle"}

-----------------------------------------------------------------------------
Goes(g, from, to) ==
    /\ program = "up" /\ go[g].step = from
    /\ go' = [go EXCEPT ![g] = At(to)]

\* A nil dereference; the kernel terminates what the program had started.
Panics(g, from) ==
    /\ Goes(g, from, "idle")
    /\ program' = "panicked"
    /\ cameras' = cameras \cap {0}
    /\ device' = IF device = 0 THEN 0 ELSE NoCmd
    /\ UNCHANGED <<pythonCmd, created, started, history>>

\* Mutant: the device stays taken.
DiesHolding(gone) ==
    /\ cameras' = cameras \ gone
    /\ UNCHANGED device

\* Camera processes die; with its holder the device becomes free.
Dies(gone) ==
    /\ cameras' = cameras \ gone
    /\ device' = IF device \in gone THEN NoCmd ELSE device

\* api.Run accepts a connection only after its own restart.
Request(h) ==
    /\ go["api"].step = "idle" /\ created + Cardinality(Busy) < MaxCmds
    /\ Goes(h, "idle", "is nil")
    /\ overlap' = (overlap \/ Busy # {})
    /\ UNCHANGED <<pythonCmd, created, started, cameras, device, program, failed>>

\* Ctrl+C: the handler's loop takes one signal at a time, and exits.
Interrupt ==
    /\ Goes("signal", "idle", "is nil")
    /\ overlap' = (overlap \/ Busy # {})
    /\ UNCHANGED <<pythonCmd, created, started, cameras, device, program, failed>>

-----------------------------------------------------------------------------
(***************************************************************************)
(* stopPythonProcess                                                        *)
(***************************************************************************)
\* Mutant: the first test of the condition is missing.
IsNilForgotten(g) ==
    /\ Goes(g, "is nil", "is started")
    /\ UNCHANGED <<pythonCmd, created, started, cameras, device, program, history>>

IsNil(g) ==
    /\ Goes(g, "is nil", IF pythonCmd = NoCmd THEN "pkill term" ELSE "is started")
    /\ UNCHANGED <<pythonCmd, created, started, cameras, device, program, history>>

IsStarted(g) ==
    \/ pythonCmd = NoCmd /\ Panics(g, "is started")
    \/ /\ pythonCmd # NoCmd
       /\ Goes(g, "is started", IF pythonCmd \in started THEN "kill" ELSE "pkill term")
       /\ UNCHANGED <<pythonCmd, created, started, cameras, device, program, history>>

Kill(g) ==
    \/ pythonCmd \notin started /\ Panics(g, "kill")
    \/ /\ pythonCmd \in started
       /\ Goes(g, "kill", "wait")
       /\ Dies({pythonCmd})
       /\ UNCHANGED <<pythonCmd, created, started, program, history>>

\* Wait reads pythonCmd once more, and blocks until THAT process is gone.
Wait(g) ==
    \/ pythonCmd \notin started /\ Panics(g, "wait")
    \/ /\ pythonCmd \in started
       /\ program = "up" /\ go[g].step = "wait"
       /\ go' = [go EXCEPT ![g] = [step |-> "waiting", on |-> pythonCmd]]
       /\ UNCHANGED <<pythonCmd, created, started, cameras, device, program, history>>

Reaped(g) ==
    /\ go[g].on \notin cameras
    /\ Goes(g, "waiting", "forget")
    /\ UNCHANGED <<pythonCmd, created, started, cameras, device, program, history>>

Forget(g) ==
    /\ Goes(g, "forget", "pkill term")
    /\ pythonCmd' = NoCmd
    /\ UNCHANGED <<created, started, cameras, device, program, history>>

\* pkill finds every camera process, whoever started it; one that is in the
\* middle of a driver call may not be gone 0.3 s after the SIGTERM.
PkillTerm(g) ==
    /\ Goes(g, "pkill term", "pkill kill")
    /\ \E gone \in SUBSET cameras : Dies(gone)
    /\ UNCHANGED <<pythonCmd, created, started, program, history>>

\* Mutant: no second pkill.
PkillKillForgotten(g) ==
    /\ IF g = "signal"
       THEN Goes(g, "pkill kill", "idle") /\ program' = "exited"
       ELSE Goes(g, "pkill kill", "assign") /\ UNCHANGED program
    /\ UNCHANGED <<pythonCmd, created, started, cameras, device, history>>

\* The second one is SIGKILL; the signal handler then exits the program.
PkillKill(g) ==
    /\ IF g = "signal"
       THEN Goes(g, "pkill kill", "idle") /\ program' = "exited"
       ELSE Goes(g, "pkill kill", "assign") /\ UNCHANGED program
    /\ Dies(cameras)
    /\ UNCHANGED <<pythonCmd, created, started, history>>

-----------------------------------------------------------------------------
(***************************************************************************)
(* The rest of restartPythonProcess                                         *)
(***************************************************************************)

\* Mutant: a command that another restart has assigned is kept.
AssignIfNil(g) ==
    /\ Goes(g, "assign", "start")
    /\ created' = created + 1
    /\ pythonCmd' = IF pythonCmd = NoCmd THEN created' ELSE pythonCmd
    /\ UNCHANGED <<started, cameras, device, program, history>>

Assign(g) ==
    /\ Goes(g, "assign", "start")
    /\ created' = created + 1
    /\ pythonCmd' = created'
    /\ UNCHANGED <<started, cameras, device, program, history>>

\* pythonCmd.Start(), on the command the global holds by now: one that is
\* already started is an error, and so is a python3 that does not run.
Start(g) ==
    \/ pythonCmd = NoCmd /\ Panics(g, "start")
    \/ /\ pythonCmd \in started
       /\ Goes(g, "start", "idle")
       /\ UNCHANGED <<pythonCmd, created, started, cameras, device, program, history>>
    \/ /\ pythonCmd \in Cmds \ started
       /\ Goes(g, "start", "idle")
       /\ \/ /\ started' = started \cup {pythonCmd}
             /\ cameras' = cameras \cup {pythonCmd}
             /\ UNCHANGED failed
          \/ /\ failed' = TRUE
             /\ UNCHANGED <<started, cameras>>
       /\ UNCHANGED <<pythonCmd, created, device, program, overlap>>

-----------------------------------------------------------------------------
(***************************************************************************)
(* camera/main.py                                                           *)
(***************************************************************************)

\* create_capture: one process at a time has the device.
OpenCamera(c) ==
    /\ c \in cameras /\ device = NoCmd
    /\ device' = c
    /\ UNCHANGED <<pythonCmd, created, started, cameras, go, program, history>>

\* "Initialization Error": another one has it.
DeviceTaken(c) ==
    /\ c \in cameras /\ device \notin {NoCmd, c}
    /\ Dies({c})
    /\ UNCHANGED <<pythonCmd, created, started, go, program, history>>

\* No camera attached, or an error in the main loop.
Fails(c) ==
    /\ c \in cameras
    /\ Dies({c})
    /\ failed' = TRUE
    /\ UNCHANGED <<pythonCmd, created, started, go, program, overlap>>

Restart(g) ==
    \/ IsNil(g) \/ IsStarted(g) \/ Kill(g) \/ Wait(g) \/ Reaped(g) \/ Forget(g)
    \/ PkillTerm(g) \/ PkillKill(g) \/ Assign(g) \/ Start(g)

Next ==
    \/ \E h \in Handlers : Request(h)
    \/ Interrupt
    \/ \E g \in Goroutines : Restart(g)
    \/ \E c \in cameras : OpenCamera(c) \/ DeviceTaken(c) \/ Fails(c)

Spec == Init /\ [][Next]_vars

-----------------------------------------------------------------------------
(***************************************************************************)
(* Properties                                                               *)
(***************************************************************************)

\* However restarts overlap, and whichever command each of them ends up
\* starting, the robot is not left blind: once they are all over a camera
\* process runs, unless one failed for a reason of its own.
CameraRunsWhenQuiet ==
    program = "up" /\ Busy = {} /\ ~failed => cameras # {}

\* The unlocked reads of pythonCmd are safe as long as restarts come one at a
\* time: the program panics only when two have overlapped.
PanicNeedsOverlap == program = "panicked" => overlap

\* A restart that overlaps no other starts its camera when every older copy is
\* gone, an orphan of an earlier run among them.
StartsAlone ==
    [][\A c \in Cmds : c \in cameras' \ cameras => overlap \/ cameras = {}]_vars

\* "terminates the camera Python process and any stale copies still holding the
\* MIPI camera (libcamera allows only one client)" (api.go:440-441).
OneClient == Cardinality(cameras) <= 1

================================================================================
