------------------------------ MODULE BootSequence ------------------------------
(***************************************************************************)
(* From the power switch to the running program: the camera's overlay       *)
(* selection (CameraAutoselect), which reboots the computer while it looks  *)
(* for the camera, and the self-update (SelfUpdate), which restarts the     *)
(* program.  racoon-camera-autoselect.service is a oneshot with             *)
(* Before=ssl-racoon.service: at every boot the service manager starts the  *)
(* program when the script has ended, and does not run the script again     *)
(* when the program restarts.  Both write to the one disk, and a power cut  *)
(* hits whichever of them is at work.                                       *)
(***************************************************************************)
EXTENDS SelfUpdate

CONSTANTS Boards, NoCamera

VARIABLES board, writable, configurable, sensor, env, tried, bootDisk, script, chosen,
          reboots, steady

Select == INSTANCE CameraAutoselect WITH camera <- sensor, disk <- bootDisk, pc <- script

ASSUME SelectionAssumption == Select!BoardsAssumption

scriptVars == <<board, writable, configurable, sensor, env, tried, bootDisk, script,
                chosen, reboots, steady>>
updateVars == <<published, latest, disk, running, pc, release, todo, mixed>>
bootVars == <<vars, scriptVars>>

BootTypeOK == TypeOK /\ Select!TypeOK

BootInit == Init /\ Select!Init

ScriptEnded == script \in {"found", "gave up"}

\* main() of the script; its reboot comes before the program was ever started.
RunScript ==
    /\ \/ Select!Found \/ Select!GiveUp \/ Select!NotDetected
       \/ Select!SetCameraOverlay \/ Select!Record \/ Select!Reboot
    /\ UNCHANGED vars

StartProgram ==
    /\ ScriptEnded
    /\ Boot
    /\ UNCHANGED scriptVars

RunProgram ==
    /\ \/ Detect \/ ApplyFailed \/ Swap \/ SwapFailed \/ ExtractFailed \/ Exit \/ Apply
       \/ \E f \in Files : Extract(f)
    /\ UNCHANGED scriptVars

\* The switch, or the battery, while the script or the program is at work.
Off == PowerCut /\ Select!PowerCycle

World ==
    \/ (Publish \/ Withdraw \/ WriteBack) /\ UNCHANGED scriptVars
    \/ Select!ChangeCamera /\ UNCHANGED updateVars

BootNext == RunScript \/ StartProgram \/ RunProgram \/ Off \/ World

(***************************************************************************)
(* The service manager runs the script and the program; the world owes      *)
(* nothing.                                                                 *)
(***************************************************************************)
BootSpec ==
    /\ BootInit /\ [][BootNext]_bootVars
    /\ WF_bootVars(RunScript) /\ WF_bootVars(StartProgram) /\ WF_bootVars(RunProgram)

-----------------------------------------------------------------------------
(***************************************************************************)
(* Properties                                                               *)
(***************************************************************************)

\* The names under which the run checks the script's own properties.
BoundedReboots == Select!BoundedReboots
GivesUpOnlyWithoutCamera == Select!GivesUpOnlyWithoutCamera

\* Whatever is plugged in or out, published, withdrawn or cut off, the robot's
\* program comes up and stays: neither the script's reboots nor the program's own
\* restarts go on for ever, nor does one start the other again.  There are two
\* exceptions.  The script may reboot at every boot when it cannot write one of its
\* files; and a power cut may leave no executable, during the swap or before the new
\* binary has been written back, or after a swap that could not be undone.
RobotComesUp ==
    writable /\ configurable =>
       <>[](pc = "steady" \/ (pc = "off" /\ binary = Broken))

================================================================================
