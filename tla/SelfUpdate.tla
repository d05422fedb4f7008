------------------------------- MODULE SelfUpdate -------------------------------
(***************************************************************************)
(* upgrade.ConfirmAndSelfUpdate: at every start the program asks for the    *)
(* latest release; when that is newer it replaces its own binary, then the  *)
(* files of the camera package one by one, and exits for the service        *)
(* manager to start it again.                                               *)
(*                                                                         *)
(* Any request may fail, an archive may be unreadable from some entry on,   *)
(* and the robot may be switched off at any moment.  A file of the camera   *)
(* package is replaced by a rename.  The library's update.Apply takes two:  *)
(* it renames the binary away and then the new one to its place, and        *)
(* renames the first one back if that fails.  Nothing is synced: until the  *)
(* kernel has written a file back, a power cut may leave a former one, or   *)
(* none that is any good, each file for itself.                             *)
(*                                                                         *)
(* A development version, which does nothing, and the YOLO weights, which   *)
(* an update keeps, are left out; a binary reports the version of the       *)
(* release it came from.                                                    *)
(***************************************************************************)
EXTENDS Integers

CONSTANTS
    Files,       \* the files of the camera package
    MaxReleases, \* bound: the releases that are ever published
    MaxCuts      \* bound: the times the robot is switched off or crashes

ASSUME BoundAssumption == MaxReleases \in Nat /\ MaxCuts \in Nat

VARIABLES
    published, \* the releases published so far are 1..published; 0 was installed by hand
    latest,    \* the one the server calls the latest
    binary,    \* the version of the binary on the disk, or Broken
    camera,    \* and of each file of the camera package
    oldBinary, \* what a power cut may leave instead of it
    oldCamera, \* and instead of each file
    running,   \* the version of the running program
    pc,        \* where it is
    release,   \* the release Detect found
    todo,      \* the archive's entries still to be extracted
    cuts,
    mixed      \* history: the last update was cut short, or lost before it was
               \* written back

disk == <<binary, camera, oldBinary, oldCamera>>
vars == <<published, latest, disk, running, pc, release, todo, cuts, mixed>>

Versions == 0..MaxReleases

\* A file that is missing, empty or cut off.
Broken == -1
Contents == Versions \cup {Broken}

TypeOK ==
    /\ published \in Versions /\ latest \in 0..published
    /\ binary \in Contents /\ oldBinary \subseteq Contents
    /\ camera \in [Files -> Contents] /\ oldCamera \in [Files -> SUBSET Contents]
    /\ running \in 0..published
    /\ pc \in {"off", "detect", "apply", "swap", "extract", "steady"}
    /\ release \in 0..published
    /\ todo \subseteq Files /\ (todo # {} => pc = "extract")
    /\ cuts \in 0..MaxCuts
    /\ mixed \in BOOLEAN

Init ==
    /\ published = 0 /\ latest = 0
    /\ binary = 0 /\ camera = [f \in Files |-> 0]
    /\ oldBinary = {} /\ oldCamera = [f \in Files |-> {}]
    /\ running = 0 /\ pc = "off" /\ release = 0 /\ todo = {}
    /\ cuts = 0 /\ mixed = FALSE

-----------------------------------------------------------------------------
\* A release is published; one may also be withdrawn.
Publish ==
    /\ published < MaxReleases
    /\ published' = published + 1 /\ latest' = published'
    /\ UNCHANGED <<disk, running, pc, release, todo, cuts, mixed>>

Withdraw ==
    /\ latest > 0 /\ latest = published
    /\ latest' = latest - 1
    /\ UNCHANGED <<published, disk, running, pc, release, todo, cuts, mixed>>

\* The service manager starts the program, if there is one.
Boot ==
    /\ pc = "off" /\ binary # Broken
    /\ pc' = "detect" /\ running' = binary
    /\ UNCHANGED <<published, latest, disk, release, todo, cuts, mixed>>

\* Mutant: any other version is taken for a newer one.
OtherVersion == latest # running

NewVersion == latest > running

\* DetectLatest: no answer, nothing new, or an update.
Detect ==
    /\ pc = "detect"
    /\ \/ pc' = "steady" /\ UNCHANGED release
       \/ NewVersion /\ pc' = "apply" /\ release' = latest
    /\ UNCHANGED <<published, latest, disk, running, todo, cuts, mixed>>

\* Mutant: the program exits whether the update worked or not.
ApplyFailedExits ==
    /\ pc = "apply"
    /\ pc' = "off"
    /\ UNCHANGED <<published, latest, disk, running, release, todo, cuts, mixed>>

\* The download or the binary is no good, or cannot be renamed: all stays as it is.
ApplyFailed ==
    /\ pc = "apply"
    /\ pc' = "steady"
    /\ UNCHANGED <<published, latest, disk, running, release, todo, cuts, mixed>>

\* fetchReleaseAsset, applyBinary and the first rename of update.Apply: the binary is
\* out of its place.
Swap ==
    /\ pc = "apply"
    /\ binary' = Broken /\ oldBinary' = oldBinary \cup {binary}
    /\ pc' = "swap"
    /\ UNCHANGED <<published, latest, camera, oldCamera, running, release, todo, cuts,
                   mixed>>

\* The second rename: the release Detect found, whatever has been published or
\* withdrawn since.
Apply ==
    /\ pc = "swap"
    /\ binary' = release /\ oldBinary' = oldBinary \cup {Broken}
    /\ pc' = "extract" /\ todo' = Files
    /\ UNCHANGED <<published, latest, camera, oldCamera, running, release, cuts, mixed>>

\* It fails: the binary is put back, or that fails as well.
SwapFailed ==
    /\ pc = "swap"
    /\ binary' \in {running, Broken} /\ oldBinary' = oldBinary \cup {Broken}
    /\ pc' = "steady"
    /\ UNCHANGED <<published, latest, camera, oldCamera, running, release, todo, cuts,
                   mixed>>

\* Mutant: an existing file is kept, as the YOLO weights are.
ExtractSkips(f) ==
    /\ pc = "extract" /\ f \in todo
    /\ todo' = todo \ {f}
    /\ UNCHANGED <<published, latest, disk, running, pc, release, cuts, mixed>>

\* extractCameraFiles, one entry: writeFileAtomic.
Extract(f) ==
    /\ pc = "extract" /\ f \in todo
    /\ camera' = [camera EXCEPT ![f] = release]
    /\ oldCamera' = [oldCamera EXCEPT ![f] = @ \cup {camera[f], Broken}]
    /\ todo' = todo \ {f}
    /\ UNCHANGED <<published, latest, binary, oldBinary, running, pc, release, cuts, mixed>>

\* "best-effort": an extraction that fails is logged, no more.
ExtractFailed ==
    /\ pc = "extract" /\ todo # {}
    /\ pc' = "off" /\ todo' = {}
    /\ mixed' = TRUE
    /\ UNCHANGED <<published, latest, disk, running, release, cuts>>

\* os.Exit(1).
Exit ==
    /\ pc = "extract" /\ todo = {}
    /\ pc' = "off"
    /\ mixed' = FALSE
    /\ UNCHANGED <<published, latest, disk, running, release, todo, cuts>>

-----------------------------------------------------------------------------
\* The kernel writes a file back.
WriteBack ==
    /\ \/ oldBinary # {} /\ oldBinary' = {} /\ UNCHANGED oldCamera
       \/ \E f \in Files : /\ oldCamera[f] # {}
                           /\ oldCamera' = [oldCamera EXCEPT ![f] = {}]
                           /\ UNCHANGED oldBinary
    /\ UNCHANGED <<published, latest, binary, camera, running, pc, release, todo, cuts,
                   mixed>>

WrittenBack == oldBinary = {} /\ \A f \in Files : oldCamera[f] = {}

PowerCut ==
    /\ cuts < MaxCuts /\ cuts' = cuts + 1
    /\ binary' \in {binary} \cup oldBinary
    /\ camera' \in {c \in [Files -> Contents] :
                       \A f \in Files : c[f] \in {camera[f]} \cup oldCamera[f]}
    /\ oldBinary' = {} /\ oldCamera' = [f \in Files |-> {}]
    /\ pc' = "off" /\ todo' = {}
    /\ mixed' = CASE ~WrittenBack \/ pc = "swap" -> TRUE
                  [] WrittenBack /\ pc = "extract" -> todo # {}
                  [] OTHER -> mixed
    /\ UNCHANGED <<published, latest, running, release>>

Update ==
    \/ Boot \/ Detect \/ ApplyFailed \/ Swap \/ SwapFailed \/ ExtractFailed \/ Exit
    \/ Apply
    \/ \E f \in Files : Extract(f)

Next == Publish \/ Withdraw \/ WriteBack \/ PowerCut \/ Update

\* The program runs, and the service manager restarts it.
Spec == Init /\ [][Next]_vars /\ WF_vars(Update)

-----------------------------------------------------------------------------
(***************************************************************************)
(* Properties                                                               *)
(***************************************************************************)

\* "keeps the camera package in sync with the binary" (upgrade.go:220): outside
\* an update every camera file has the version of the binary, if there is one;
\* unless the last update was cut short, or the power was cut before all of it had
\* been written back.  (Then nothing repairs the package before the next release:
\* the binary is up to date, so the next start extracts nothing.)
InSyncUnlessCutShort ==
    pc \notin {"swap", "extract"} /\ ~mixed /\ binary # Broken =>
       \A f \in Files : camera[f] = binary

\* A withdrawn release is not undone: what the program writes comes from a release
\* newer than itself, but for the binary it puts back when the swap fails.
NeverOlder ==
    [][cuts' = cuts =>
         /\ binary' \in {binary, Broken, running} \/ binary' > running
         /\ \A f \in Files : camera'[f] = camera[f] \/ camera'[f] > running]_vars

================================================================================
