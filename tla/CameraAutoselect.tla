---------------------------- MODULE CameraAutoselect ----------------------------
(***************************************************************************)
(* scripts/select-rock5a-camera.sh and scripts/select-pi4-camera.sh: run    *)
(* once at every boot, they look for a camera sensor and, when there is     *)
(* none, write another overlay into the boot configuration, note it in a    *)
(* state file and reboot, until the overlays have all been tried.           *)
(*                                                                         *)
(* The two files are on the disk of a robot that people switch off.  What   *)
(* is written before the script's sync may be lost by a power cut, each     *)
(* file for itself; a state file that was just opened may be left empty.    *)
(* Nothing in the scripts notices that a file cannot be written, as on a     *)
(* disk that was mounted read-only after an error.                          *)
(*                                                                         *)
(* Overlays other than the camera's are kept by both scripts and left out,  *)
(* and so is a working camera_auto_detect on the Pi 4.                      *)
(***************************************************************************)
EXTENDS Naturals, FiniteSets, Sequences, SequencesExt

CONSTANTS
    Boards,    \* a function: the camera overlays each board's script knows, in order
    NoCamera,
    MaxCuts    \* bound: the times the robot is switched off and on

\* What is assumed of the constants (module BootSequence states it).
BoardsAssumption ==
    /\ MaxCuts \in Nat
    /\ \A b \in DOMAIN Boards : Boards[b] \in Seq(ToSet(Boards[b]))
    /\ DOMAIN Boards \subseteq {"rock5a", "pi4"}
    /\ "rock5a" \in DOMAIN Boards => Len(Boards["rock5a"]) = 2

VARIABLES
    board,
    writable, \* the state file's directory can be written
    configurable, \* the boot configuration can be written
    camera,   \* the overlay the attached camera needs, or NoCamera
    env,      \* the camera overlays in the boot configuration, as last written
    tried,    \* those listed in the state file, as last written
    disk,     \* both files as a power cut is sure to leave them
    pc,       \* where the script is, or how it has ended
    chosen,   \* the overlay it has chosen in this boot, or NoCamera
    cuts,
    \* History variables: no action reads them.
    reboots,  \* the script's reboots since the robot was switched on, counted
              \* no further than one past the number of overlays
    steady    \* since the state file was last absent: the same camera, no power cut

files == <<env, tried, disk>>
static == <<board, writable, configurable>>
vars == <<static, camera, files, pc, chosen, cuts, reboots, steady>>

Known == ToSet(Boards[board])

TypeOK ==
    /\ board \in DOMAIN Boards
    /\ writable \in BOOLEAN /\ configurable \in BOOLEAN
    /\ camera \in Known \cup {NoCamera}
    /\ env \subseteq Known /\ tried \subseteq Known
    /\ disk \in [env: SUBSET Known, tried: SUBSET Known]
    /\ pc \in {"boot", "choose", "record", "reboot", "found", "gave up"}
    /\ chosen \in Known \cup {NoCamera}
    /\ cuts \in 0..MaxCuts
    /\ reboots \in 0..(Len(Boards[board]) + 1)
    /\ pc \in {"record", "reboot"} => chosen \in Known
    /\ steady \in BOOLEAN

Init ==
    /\ board \in DOMAIN Boards
    /\ writable \in BOOLEAN /\ configurable \in BOOLEAN
    /\ camera \in Known \cup {NoCamera}
    /\ env \in SUBSET Known /\ tried = {}
    /\ disk = [env |-> env, tried |-> tried]
    /\ pc = "boot" /\ chosen = NoCamera /\ cuts = 0
    /\ reboots = 0 /\ steady = TRUE

-----------------------------------------------------------------------------
(***************************************************************************)
(* main()                                                                   *)
(***************************************************************************)

\* A sensor comes up when its overlay is the only one.
SensorPresent == env = {camera}

Found ==
    /\ pc = "boot" /\ SensorPresent
    /\ pc' = "found"
    /\ IF writable THEN tried' = {} /\ steady' = TRUE ELSE UNCHANGED <<tried, steady>>
    /\ UNCHANGED <<static, camera, env, disk, chosen, cuts, reboots>>

\* Mutant: one overlay tried is enough.
GiveUpEarly ==
    /\ pc = "boot" /\ ~SensorPresent
    /\ tried # {}
    /\ pc' = "gave up"
    /\ UNCHANGED <<static, camera, files, chosen, cuts, reboots, steady>>

GiveUp ==
    /\ pc = "boot" /\ ~SensorPresent
    /\ tried = Known
    /\ pc' = "gave up"
    /\ UNCHANGED <<static, camera, files, chosen, cuts, reboots, steady>>

NotDetected ==
    /\ pc = "boot" /\ ~SensorPresent
    /\ tried # Known
    /\ pc' = "choose"
    /\ UNCHANGED <<static, camera, files, chosen, cuts, reboots, steady>>

\* The next overlay, by its place in the list: on the Pi 4 the first that is not
\* in the state file; on the Rock 5A the other one than the one configured, the
\* first of two configured ones, or IMX219 when there is none.
Chosen ==
    CASE board = "pi4" -> {SelectInSeq(Boards[board], LAMBDA o : o \notin tried)}
      [] board = "rock5a" /\ env = {} -> {1}
      [] board = "rock5a" /\ Cardinality(env) = 1 ->
            {i \in 1..2 : Boards[board][i] \notin env}
      [] OTHER -> {1, 2}

\* What set_camera_overlay may leave when the boot configuration cannot be written:
\* on the Pi 4 a sed for every overlay and the echo of the new one, each of which may
\* fail; on the Rock 5A a single sed or echo.
Partly(before, overlay) ==
    IF board = "pi4"
    THEN {kept \cup added : kept \in SUBSET before, added \in SUBSET {overlay}}
    ELSE {before, {overlay}}

\* set_camera_overlay: the chosen overlay is the only one left; or some writes fail,
\* which is not noticed.
SetCameraOverlay ==
    /\ pc = "choose"
    /\ \E i \in Chosen : chosen' = Boards[board][i]
    /\ env' \in IF configurable THEN {{chosen'}} ELSE Partly(env, chosen')
    /\ pc' = "record"
    /\ UNCHANGED <<static, camera, tried, disk, cuts, reboots, steady>>

\* Mutant: only the last overlay is in the state file.
RecordLast ==
    /\ pc = "record"
    /\ tried' = IF writable THEN {chosen} ELSE tried
    /\ pc' = "reboot"
    /\ UNCHANGED <<static, camera, env, disk, chosen, cuts, reboots, steady>>

\* printf > STATE_FILE: the overlays tried before, and this one.
Record ==
    /\ pc = "record"
    /\ tried' = IF writable THEN tried \cup {chosen} ELSE tried
    /\ pc' = "reboot"
    /\ UNCHANGED <<static, camera, env, disk, chosen, cuts, reboots, steady>>

\* sync, and the reboot.
Reboot ==
    /\ pc = "reboot"
    /\ disk' = [env |-> env, tried |-> tried]
    /\ pc' = "boot" /\ chosen' = NoCamera
    /\ reboots' = IF reboots > Len(Boards[board]) THEN reboots ELSE reboots + 1
    /\ UNCHANGED <<static, camera, env, tried, cuts, steady>>

-----------------------------------------------------------------------------
(***************************************************************************)
(* People                                                                   *)
(***************************************************************************)

\* The robot is switched off and on again: of what was not synced, each write may be
\* lost, or leave an empty file.
PowerCycle ==
    /\ cuts < MaxCuts /\ cuts' = cuts + 1
    /\ LET writing == pc \in {"record", "reboot"}
       IN  /\ env' \in {env, disk.env}
                     \cup (IF writing THEN Partly(disk.env, chosen) \cup {{}} ELSE {})
           /\ tried' \in {tried, disk.tried}
                     \cup (IF writing /\ writable THEN {{}} ELSE {})
    /\ disk' = [env |-> env', tried |-> tried']
    /\ pc' = "boot" /\ chosen' = NoCamera
    /\ reboots' = 0
    /\ steady' = (tried' = {})
    /\ UNCHANGED <<static, camera>>

\* A camera is attached, exchanged or removed.
ChangeCamera ==
    /\ pc \in {"boot", "found", "gave up"}
    /\ camera' \in (Known \cup {NoCamera}) \ {camera}
    /\ steady' = (tried = {})
    /\ UNCHANGED <<static, files, pc, chosen, cuts, reboots>>

Next ==
    \/ Found \/ GiveUp \/ NotDetected \/ SetCameraOverlay \/ Record \/ Reboot
    \/ PowerCycle \/ ChangeCamera

Spec == Init /\ [][Next]_vars

-----------------------------------------------------------------------------
(***************************************************************************)
(* Properties                                                               *)
(***************************************************************************)

\* "A state file prevents reboot loops (at most one full cycle)"
\* (select-pi4-camera.sh:7), with the conditions it takes: between two times it is
\* switched on, the robot reboots at most once per overlay, whatever is plugged in or
\* out meanwhile, as long as no camera was found in between and both files can be
\* written.  (Without the state file neither script stops; without the boot
\* configuration the Rock 5A's chooses the same overlay every time.)
BoundedReboots == writable /\ configurable => reboots <= Len(Boards[board])

\* "Already tried all camera overlays without success." (select-pi4-camera.sh:103),
\* with the conditions it takes: it gives up only without a camera, if the boot
\* configuration can be written and nobody interfered, that is, no other camera was
\* plugged in, and the power was not cut, since the search began.
GivesUpOnlyWithoutCamera ==
    pc = "gave up" /\ steady /\ configurable => camera = NoCamera

================================================================================
