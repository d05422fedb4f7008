--------------------------- MODULE BootSequence_proofs ---------------------------
(***************************************************************************)
(* Proofs about the boot sequence: the self-update (SelfUpdate) for any     *)
(* number of files, releases and power cuts, and the camera's overlay       *)
(* selection (CameraAutoselect) for any overlays, each on its own and with  *)
(* the other before or after it.                                            *)
(***************************************************************************)
EXTENDS BootSequence, Sequences, FiniteSetTheorems, WellFoundedInduction, TLAPS

-----------------------------------------------------------------------------
(***************************************************************************)
(* SelfUpdate                                                               *)
(***************************************************************************)

(***************************************************************************)
(* The inductive invariant.  An update never goes back because the release  *)
(* that was found stays newer than the running program until it is applied. *)
(* While the archive is extracted the files that are done have the new      *)
(* binary's version; during the swap they all still have the running one's, *)
(* unless an update was cut short before.  What a power cut may leave is of *)
(* some release, or Broken.                                                 *)
(***************************************************************************)
Released == 0..published \cup {Broken}

Disk ==
    /\ binary \in Released /\ oldBinary \subseteq Released
    /\ camera \in [Files -> Released] /\ oldCamera \in [Files -> SUBSET Released]

Releases ==
    /\ published \in Nat /\ published <= MaxReleases
    /\ latest \in Nat /\ latest <= published
    /\ release \in Nat /\ release <= published

Program ==
    /\ running \in Nat /\ running <= published
    /\ pc \in {"off", "detect", "apply", "swap", "extract", "steady"}
    /\ todo \subseteq Files /\ (todo # {} => pc = "extract")
    /\ cuts \in 0..MaxCuts /\ mixed \in BOOLEAN

Found ==
    /\ pc \in {"detect", "apply"} => running = binary
    /\ pc \in {"apply", "swap", "extract"} => release > running
    /\ pc = "extract" => binary = release

Extracted ==
    /\ pc = "extract" => \A f \in Files \ todo : camera[f] = binary
    /\ pc = "swap" /\ ~mixed => \A f \in Files : camera[f] = running
    /\ pc \notin {"swap", "extract"} /\ ~mixed /\ binary # Broken =>
          \A f \in Files : camera[f] = binary

UpdateInv == Disk /\ Releases /\ Program /\ Found /\ Extracted

\* A robot is installed with the binary and the camera package of one release.
LEMMA UpdateInit == Init => UpdateInv
<1> SUFFICES ASSUME Init
             PROVE  UpdateInv
  OBVIOUS
<1>1. Disk /\ Releases
  BY BoundAssumption DEF Init, Disk, Releases, Released
<1>2. Program
  <2>1. cuts \in 0..MaxCuts
    BY BoundAssumption DEF Init
  <2>2. mixed \in BOOLEAN
    BY DEF Init
  <2>3. QED
    BY <2>1, <2>2 DEF Init, Program
<1>3. Found /\ Extracted
  BY DEF Init, Found, Extracted
<1>4. QED
  BY <1>1, <1>2, <1>3 DEF UpdateInv

\* What is released stays so.
LEMMA ReleasedGrows ==
    ASSUME Disk, published \in Nat, published' \in Nat, published' >= published, UNCHANGED disk
    PROVE  Disk'
<1>1. Released \subseteq Released'
  BY DEF Released
<1>2. QED
  BY <1>1 DEF Disk, disk

\* A power cut leaves what was written back: all of it, unless an update was under
\* way or not yet written back.
LEMMA PowerCutStep ==
    ASSUME UpdateInv, PowerCut
    PROVE  UpdateInv'
<1> USE BoundAssumption DEF UpdateInv, Disk, Releases, Program, Found, Extracted
<1>1. /\ pc' = "off" /\ todo' = {} /\ oldBinary' = {} /\ oldCamera' = [f \in Files |-> {}]
      /\ UNCHANGED <<published, latest, running, release>>
      /\ cuts' \in 0..MaxCuts
  BY DEF PowerCut
<1>2. binary' \in {binary} \cup oldBinary
  BY DEF PowerCut
<1>3. /\ camera' \in [Files -> Contents]
      /\ \A f \in Files : camera'[f] \in {camera[f]} \cup oldCamera[f]
  BY DEF PowerCut
<1>4. mixed' \in BOOLEAN
  <2>1. mixed' \in {TRUE, mixed, todo # {}}
    BY DEF PowerCut
  <2>2. (todo # {}) \in BOOLEAN /\ mixed \in BOOLEAN
    OBVIOUS
  <2>3. QED
    BY <2>1, <2>2, Zenon
<1>5. Disk'
  <2>1. \A f \in Files : camera'[f] \in Released
    BY <1>3
  <2>2. camera' \in [Files -> Released]
    BY <1>3, <2>1
  <2>3. QED
    BY <1>1, <1>2, <2>2 DEF Released
<1>6. Releases' /\ Program' /\ Found'
  BY <1>1, <1>4
<1>7. Extracted'
  <2> SUFFICES ASSUME ~mixed', binary' # Broken
               PROVE  \A f \in Files : camera'[f] = binary'
    BY <1>1
  <2>1. WrittenBack /\ pc # "swap" /\ (pc = "extract" => todo = {})
    BY DEF PowerCut
  <2>2. pc # "extract" => ~mixed
    BY <2>1 DEF PowerCut
  <2>3. binary' = binary /\ \A f \in Files : camera'[f] = camera[f]
    BY <1>2, <1>3, <2>1 DEF WrittenBack
  <2>4. QED
    BY <2>1, <2>2, <2>3
<1>8. QED
  BY <1>5, <1>6, <1>7

\* Every step of the updater, the release server, the kernel and the power keeps it.
LEMMA UpdateStep == UpdateInv /\ [Next]_vars => UpdateInv'
<1> SUFFICES ASSUME UpdateInv, [Next]_vars
             PROVE  UpdateInv'
  OBVIOUS
<1> USE BoundAssumption DEF UpdateInv, Releases, Program, Found, Extracted
<1>1. CASE Publish
  <2>1. Disk'
    BY <1>1, ReleasedGrows DEF Publish
  <2>2. QED
    BY <1>1, <2>1 DEF Publish, disk
<1>2. CASE Withdraw
  <2>1. Disk'
    BY <1>2, ReleasedGrows DEF Withdraw
  <2>2. QED
    BY <1>2, <2>1 DEF Withdraw, disk
<1>3. CASE PowerCut
  BY <1>3, PowerCutStep
<1>4. CASE WriteBack
  <2>1. /\ oldBinary' \in {oldBinary, {}}
        /\ oldCamera' \in [Files -> SUBSET Released]
        /\ UNCHANGED <<published, latest, binary, camera, running, pc, release, todo, cuts,
                       mixed>>
    BY <1>4 DEF WriteBack, Disk
  <2>2. Disk'
    BY <2>1 DEF Disk, Released
  <2>3. QED
    BY <2>1, <2>2
<1>5. CASE Boot
  <2>1. running' = binary /\ binary # Broken /\ pc' = "detect"
        /\ UNCHANGED <<published, latest, disk, release, todo, cuts, mixed>>
    BY <1>5 DEF Boot
  <2>2. Disk' /\ running' \in Nat /\ running' <= published
    BY <2>1, ReleasedGrows DEF Disk, Released
  <2>3. QED
    BY <1>5, <2>1, <2>2 DEF Boot, disk
<1>6. CASE Detect
  <2>1. Disk'
    BY <1>6, ReleasedGrows DEF Detect
  <2>2. QED
    BY <1>6, <2>1 DEF Detect, NewVersion, disk
<1>7. CASE ApplyFailed
  <2>1. Disk'
    BY <1>7, ReleasedGrows DEF ApplyFailed
  <2>2. QED
    BY <1>7, <2>1 DEF ApplyFailed, disk
<1>8. CASE Swap
  <2>1. Disk'
    BY <1>8 DEF Swap, Disk, Released
  <2>2. binary # Broken
    BY <1>8 DEF Swap, Broken
  <2>3. QED
    BY <1>8, <2>1, <2>2 DEF Swap
<1>9. CASE Apply
  <2>1. binary' = release /\ oldBinary' = oldBinary \cup {Broken}
        /\ UNCHANGED <<published, camera, oldCamera>>
    BY <1>9 DEF Apply
  <2>2. Released' = Released /\ release \in Released /\ Broken \in Released
    BY <2>1 DEF Released
  <2>3. Disk'
    BY <2>1, <2>2 DEF Disk
  <2>4. QED
    BY <1>9, <2>3 DEF Apply
<1>10. CASE SwapFailed
  <2>1. binary' \in {running, Broken} /\ oldBinary' = oldBinary \cup {Broken}
        /\ UNCHANGED <<published, camera, oldCamera>>
    BY <1>10 DEF SwapFailed
  <2>2. Released' = Released /\ running \in Released /\ Broken \in Released
    BY <2>1 DEF Released
  <2>3. Disk'
    BY <2>1, <2>2 DEF Disk
  <2>4. QED
    BY <1>10, <2>3 DEF SwapFailed
<1>11. ASSUME NEW f \in Files, Extract(f)
       PROVE  UpdateInv'
  <2>1. release \in Released /\ Broken \in Released
    BY DEF Released
  <2>2. /\ camera' = [camera EXCEPT ![f] = release]
        /\ oldCamera' = [oldCamera EXCEPT ![f] = @ \cup {camera[f], Broken}]
        /\ UNCHANGED <<published, binary, oldBinary>>
    BY <1>11 DEF Extract
  <2>3. Disk'
    BY <2>1, <2>2 DEF Disk, Released
  <2>4. \A g \in Files : camera'[g] = IF g = f THEN release ELSE camera[g]
    BY <2>2 DEF Disk
  <2>5. QED
    BY <1>11, <2>3, <2>4 DEF Extract
<1>12. CASE ExtractFailed
  <2>1. Disk'
    BY <1>12, ReleasedGrows DEF ExtractFailed
  <2>2. QED
    BY <1>12, <2>1 DEF ExtractFailed, disk
<1>13. CASE Exit
  <2>1. Disk'
    BY <1>13, ReleasedGrows DEF Exit
  <2>2. QED
    BY <1>13, <2>1 DEF Exit, disk
<1>14. CASE UNCHANGED vars
  <2>1. Disk'
    BY <1>14, ReleasedGrows DEF vars
  <2>2. QED
    BY <1>14, <2>1 DEF vars, disk
<1>15. QED
  BY <1>1, <1>2, <1>3, <1>4, <1>5, <1>6, <1>7, <1>8, <1>9, <1>10, <1>11, <1>12, <1>13, <1>14
     DEF Next, Update

\* The safety part of SelfUpdate's specification.
UpdateSteps == Init /\ [][Next]_vars

\* Every variable keeps its type.
LEMMA UpdateTypes == UpdateInv => TypeOK
<1> SUFFICES ASSUME UpdateInv
             PROVE  TypeOK
  OBVIOUS
<1> USE BoundAssumption DEF UpdateInv, Disk, Releases, Program
<1>1. Released \subseteq Contents
  BY DEF Released, Contents, Versions
<1>2. /\ binary \in Contents /\ oldBinary \subseteq Contents
      /\ camera \in [Files -> Contents] /\ oldCamera \in [Files -> SUBSET Contents]
  BY <1>1
<1>3. QED
  BY <1>2 DEF TypeOK, Versions

\* What the program writes comes from a release newer than itself.
LEMMA StepNeverOlder ==
    UpdateInv /\ [Next]_vars =>
       [cuts' = cuts =>
          /\ binary' \in {binary, Broken, running} \/ binary' > running
          /\ \A f \in Files : camera'[f] = camera[f] \/ camera'[f] > running]_vars
<1> SUFFICES ASSUME UpdateInv, Next, cuts' = cuts
             PROVE  /\ binary' \in {binary, Broken, running} \/ binary' > running
                    /\ \A f \in Files : camera'[f] = camera[f] \/ camera'[f] > running
  OBVIOUS
<1> USE DEF UpdateInv, Disk, Releases, Program, Found
<1>1. CASE Swap \/ Apply \/ SwapFailed
  BY <1>1 DEF Swap, Apply, SwapFailed
<1>2. ASSUME NEW f \in Files, Extract(f)
      PROVE  /\ binary' = binary
             /\ \A g \in Files : camera'[g] = camera[g] \/ camera'[g] > running
  BY <1>2 DEF Extract
<1>3. CASE UNCHANGED <<binary, camera>>
  BY <1>3
<1>4. ~PowerCut
  <2>1. PowerCut => cuts' = cuts + 1
    BY DEF PowerCut
  <2>2. cuts' # cuts + 1
    BY BoundAssumption
  <2>3. QED
    BY <2>1, <2>2
<1>5. QED
  BY <1>1, <1>2, <1>3, <1>4 DEF Next, Update, Publish, Withdraw, WriteBack, Boot, Detect,
                               ApplyFailed, ExtractFailed, Exit, disk

\* The updater on its own.
LEMMA UpdateInvariant == UpdateSteps => []UpdateInv
BY UpdateInit, UpdateStep, PTL DEF UpdateSteps

-----------------------------------------------------------------------------
(***************************************************************************)
(* The smallest element of a set of numbers, which SelectInSeq returns.     *)
(***************************************************************************)

LEMMA SmallestExists ==
    ASSUME NEW S \in SUBSET Nat, S # {}
    PROVE  \E m \in S : \A n \in S : m <= n
<1>1. PICK m \in S : \A n \in S : <<n, m>> \notin OpToRel(<, Nat)
  BY NatLessThanWellFounded, WFMin
<1>2. \A n \in S : ~(n < m)
  BY <1>1 DEF OpToRel
<1>3. QED
  BY <1>2

LEMMA MinIsMember ==
    ASSUME NEW S \in SUBSET Nat, S # {}
    PROVE  Select!Min(S) \in S
BY SmallestExists DEF Select!Min

-----------------------------------------------------------------------------
(***************************************************************************)
(* CameraAutoselect                                                         *)
(*                                                                         *)
(* Why the reboots are bounded: each lists another overlay in the state     *)
(* file.  This is not so for the first one after a power cut, which may     *)
(* come to an overlay that is listed already, but from then on the overlay  *)
(* that is configured is listed too, and one that is not is chosen next.    *)
(*                                                                         *)
(* Why it gives up only without a camera: as long as nobody interfered, an  *)
(* overlay that is listed has been booted with and showed no sensor, the    *)
(* one that is configured excepted.  Both need the boot configuration to be *)
(* written.                                                                 *)
(***************************************************************************)
Known == Select!Known

Search ==
    /\ board \in DOMAIN Boards
    /\ sensor \in Known \cup {NoCamera}
    /\ env \subseteq Known /\ tried \subseteq Known
    /\ bootDisk \in [env: SUBSET Known, tried: SUBSET Known]
    /\ script \in {"boot", "choose", "record", "reboot", "found", "gave up"}
    /\ reboots \in 0..(Len(Boards[board]) + 1)
    /\ chosen \in Known \cup {NoCamera}
    /\ script \in {"record", "reboot"} => chosen \in Known
    /\ script \in {"record", "reboot"} /\ configurable => env = {chosen}
    /\ script = "choose" => tried # Known
    /\ script = "gave up" => tried = Known

Progress ==
    /\ script \in {"boot", "choose", "gave up"} =>
          reboots <= Cardinality(tried) /\ (reboots > 0 => \E o \in tried : env = {o})
    /\ script = "record" => reboots + 1 <= Cardinality(tried \cup {chosen})
    /\ script = "reboot" => reboots + 1 <= Cardinality(tried) /\ chosen \in tried
    /\ script = "found" => reboots <= Cardinality(Known)

RuledOut ==
    configurable /\ steady /\ sensor # NoCamera =>
       /\ script \in {"choose", "record", "gave up"} => sensor \notin tried
       /\ sensor \in tried => env = {sensor}

ScriptInv == Search /\ (writable /\ configurable => Progress) /\ RuledOut

\* The overlays a board's script knows.
LEMMA KnownOverlays ==
    ASSUME board \in DOMAIN Boards
    PROVE  /\ Len(Boards[board]) \in Nat
           /\ Known = {Boards[board][i] : i \in 1..Len(Boards[board])}
           /\ IsFiniteSet(Known) /\ Cardinality(Known) <= Len(Boards[board])
<1> DEFINE overlays == Boards[board]
<1>1. Len(overlays) \in Nat /\ DOMAIN overlays = 1..Len(overlays)
  BY SelectionAssumption DEF Select!BoardsAssumption
<1>2. Known = {overlays[i] : i \in 1..Len(overlays)}
  BY <1>1 DEF Known, Select!Known, Select!ToSet
<1>3. [i \in 1..Len(overlays) |-> overlays[i]] \in Surjection(1..Len(overlays), Known)
  BY <1>2 DEF Surjection
<1>4. ExistsSurjection(1..Len(overlays), Known)
  BY <1>3 DEF ExistsSurjection
<1>5. QED
  BY <1>1, <1>2, <1>4, FS_NatSurjection, FS_SurjCardinalityBound

\* The numbers in Search.
LEMMA SearchCounts ==
    ASSUME Search
    PROVE  /\ Len(Boards[board]) \in Nat /\ reboots \in Nat
           /\ 0 \in 0..(Len(Boards[board]) + 1)
<1>1. board \in DOMAIN Boards /\ reboots \in 0..(Len(Boards[board]) + 1)
  BY DEF Search
<1>2. Len(Boards[board]) \in Nat
  BY <1>1, KnownOverlays
<1>3. QED
  BY <1>1, <1>2

\* How many of them a set has.
LEMMA CountOverlays ==
    ASSUME board \in DOMAIN Boards, NEW T \in SUBSET Known
    PROVE  /\ IsFiniteSet(T) /\ Cardinality(T) \in Nat
           /\ Cardinality(T) <= Cardinality(Known) /\ Cardinality(Known) \in Nat
           /\ \A o \in T : Cardinality(T \cup {o}) = Cardinality(T) /\ 1 <= Cardinality(T)
           /\ \A o : o \notin T => Cardinality(T \cup {o}) = Cardinality(T) + 1
<1>1. IsFiniteSet(T) /\ Cardinality(T) <= Cardinality(Known)
  BY KnownOverlays, FS_Subset
<1>2. Cardinality(T) \in Nat /\ Cardinality(Known) \in Nat
  BY <1>1, KnownOverlays, FS_CardinalityType
<1>3. \A o \in T : 1 <= Cardinality(T)
  BY <1>1, <1>2, FS_EmptySet
<1>4. \A o : Cardinality(T \cup {o}) = IF o \in T THEN Cardinality(T) ELSE Cardinality(T) + 1
  BY <1>1, FS_AddElement
<1>5. QED
  BY <1>1, <1>2, <1>3, <1>4

\* On the Pi 4 the overlay that is chosen is not in the state file.
LEMMA ChosenOnPi4 ==
    ASSUME board \in DOMAIN Boards, board = "pi4", tried \subseteq Known, tried # Known
    PROVE  Select!Chosen \subseteq
              {i \in 1..Len(Boards[board]) : Boards[board][i] \notin tried}
<1> DEFINE I == {i \in 1..Len(Boards[board]) : Boards[board][i] \notin tried}
<1>1. I # {} /\ I \in SUBSET Nat
  <2>1. PICK o \in Known : o \notin tried
    OBVIOUS
  <2>2. PICK i \in 1..Len(Boards[board]) : Boards[board][i] = o
    BY KnownOverlays
  <2>3. QED
    BY <2>1, <2>2, KnownOverlays
<1>2. Select!Min(I) \in I
  BY <1>1, MinIsMember
<1>3. QED
  BY <1>1, <1>2 DEF Select!SelectInSeq, Select!Chosen

\* Every board's script chooses an overlay it knows.
LEMMA ChosenIsKnown ==
    ASSUME Search, script = "choose"
    PROVE  \A i \in Select!Chosen : Boards[board][i] \in Known
<1>1. board \in {"pi4", "rock5a"} /\ (board = "rock5a" => Len(Boards[board]) = 2)
  BY SelectionAssumption DEF Search, Select!BoardsAssumption
<1>2. CASE board = "pi4"
  BY <1>2, ChosenOnPi4, KnownOverlays DEF Search
<1>3. CASE board = "rock5a"
  <2>1. Select!Chosen \subseteq 1..2
    BY <1>3 DEF Select!Chosen
  <2>2. QED
    BY <1>1, <1>3, <2>1, KnownOverlays DEF Search
<1>4. QED
  BY <1>1, <1>2, <1>3

\* And, once the configured overlay is in the state file, one that is not.
LEMMA ChosenIsNew ==
    ASSUME Search, script = "choose", NEW p \in tried, env = {p}
    PROVE  \A i \in Select!Chosen : Boards[board][i] \notin tried
<1>1. board \in {"pi4", "rock5a"} /\ (board = "rock5a" => Len(Boards[board]) = 2)
  BY SelectionAssumption DEF Search, Select!BoardsAssumption
<1>2. CASE board = "pi4"
  BY <1>2, ChosenOnPi4 DEF Search
<1>3. CASE board = "rock5a"
  <2>1. Select!Cardinality(env) = 1 /\ env # {}
    BY FS_Singleton DEF Select!Cardinality, Cardinality
  <2>2. Select!Chosen = {i \in 1..2 : Boards[board][i] \notin env}
    BY <1>3, <2>1 DEF Select!Chosen
  <2>3. Known = {Boards[board][1], Boards[board][2]}
    BY <1>1, <1>3, KnownOverlays DEF Search
  <2>4. ASSUME NEW i \in Select!Chosen, Boards[board][i] \in tried
        PROVE  FALSE
    <3>1. i \in {1, 2} /\ Boards[board][i] # p
      BY <2>2, <2>4
    <3>2. p \in Known
      BY DEF Search
    <3>3. Known = {p, Boards[board][i]}
      BY <2>3, <3>1, <3>2
    <3>4. QED
      BY <2>4, <3>3 DEF Search
  <2>5. QED
    BY <2>4
<1>4. QED
  BY <1>1, <1>2, <1>3

\* Writes that fail leave no other overlays.
LEMMA PartlyKnown ==
    ASSUME NEW before \in SUBSET Known, NEW overlay \in Known
    PROVE  \A left \in Select!Partly(before, overlay) : left \subseteq Known
BY DEF Select!Partly

\* Every step of the script and of the people keeps the types and what the script
\* knows of the overlays.
LEMMA SearchStep == Search /\ [Select!Next]_(Select!vars) => Search'
<1> SUFFICES ASSUME Search, [Select!Next]_(Select!vars)
             PROVE  Search'
  OBVIOUS
<1>1. Known' = Known /\ UNCHANGED Select!static
  BY DEF Known, Select!Known, Select!Next, Select!vars, Select!static, Select!Found, Select!GiveUp,
         Select!NotDetected, Select!SetCameraOverlay, Select!Record, Select!Reboot,
         Select!PowerCycle, Select!ChangeCamera
<1>2. Len(Boards[board]) \in Nat
  BY KnownOverlays DEF Search
<1> USE DEF Search, Select!static
<1>3. CASE Select!Found
  BY <1>1, <1>3 DEF Select!Found
<1>4. CASE Select!GiveUp
  BY <1>1, <1>4 DEF Select!GiveUp, Select!files, Known
<1>5. CASE Select!NotDetected
  BY <1>1, <1>5 DEF Select!NotDetected, Select!files, Known
<1>6. CASE Select!SetCameraOverlay
  <2>1. PICK i \in Select!Chosen : chosen' = Boards[board][i]
    BY <1>6 DEF Select!SetCameraOverlay
  <2>2. chosen' \in Known
    BY <1>6, <2>1, ChosenIsKnown DEF Select!SetCameraOverlay
  <2>3. env' \subseteq Known /\ (configurable => env' = {chosen'})
    BY <1>6, <2>2, PartlyKnown DEF Select!SetCameraOverlay
  <2>4. QED
    BY <1>1, <1>6, <2>2, <2>3 DEF Select!SetCameraOverlay
<1>7. CASE Select!Record
  BY <1>1, <1>7 DEF Select!Record
<1>8. CASE Select!Reboot
  BY <1>1, <1>2, <1>8 DEF Select!Reboot
<1>9. CASE Select!PowerCycle
  <2>1. env' \subseteq Known /\ tried' \subseteq Known
    BY <1>9, PartlyKnown DEF Select!PowerCycle
  <2>2. bootDisk' = [env |-> env', tried |-> tried'] /\ script' = "boot" /\ reboots' = 0
        /\ sensor' = sensor /\ chosen' = NoCamera
    BY <1>9 DEF Select!PowerCycle
  <2>3. reboots' \in 0..(Len(Boards[board]) + 1)
    BY <2>2, SearchCounts
  <2>4. QED
    BY <1>1, <2>1, <2>2, <2>3
<1>10. CASE Select!ChangeCamera
  BY <1>1, <1>10 DEF Select!ChangeCamera, Select!files, Known
<1>11. CASE UNCHANGED Select!vars
  <2>1. UNCHANGED <<sensor, env, tried, bootDisk, script, chosen, reboots>>
    BY <1>11 DEF Select!vars, Select!files
  <2>2. QED
    BY <1>1, <2>1
<1>12. QED
  BY <1>3, <1>4, <1>5, <1>6, <1>7, <1>8, <1>9, <1>10, <1>11 DEF Select!Next

\* The reboots stay below the number of overlays that are listed.
LEMMA ProgressStep ==
    Search /\ writable /\ configurable /\ Progress /\ [Select!Next]_(Select!vars) => Progress'
<1> SUFFICES ASSUME Search, writable, configurable, Progress, [Select!Next]_(Select!vars)
             PROVE  Progress'
  OBVIOUS
<1>1. Known' = Known
  BY DEF Known, Select!Known, Select!Next, Select!vars, Select!static, Select!Found, Select!GiveUp,
         Select!NotDetected, Select!SetCameraOverlay, Select!Record, Select!Reboot,
         Select!PowerCycle, Select!ChangeCamera
<1>2. reboots \in Nat /\ tried \in SUBSET Known /\ board \in DOMAIN Boards
  <2>1. tried \in SUBSET Known /\ board \in DOMAIN Boards
    BY DEF Search
  <2>2. QED
    BY <2>1, SearchCounts
<1>3. /\ Cardinality(tried) \in Nat /\ Cardinality(Known) \in Nat
      /\ Cardinality(tried) <= Cardinality(Known)
  BY <1>2, CountOverlays
<1>4. CASE Select!Found
  BY <1>1, <1>2, <1>3, <1>4 DEF Select!Found, Progress
<1>5. CASE Select!GiveUp
  BY <1>5 DEF Select!GiveUp, Select!files, Progress
<1>6. CASE Select!NotDetected
  BY <1>6 DEF Select!NotDetected, Select!files, Progress
<1>7. CASE Select!SetCameraOverlay
  <2>1. PICK i \in Select!Chosen : chosen' = Boards[board][i]
    BY <1>7 DEF Select!SetCameraOverlay
  <2> DEFINE o == Boards[board][i]
  <2>2. script = "choose" /\ script' = "record" /\ UNCHANGED <<tried, reboots>>
    BY <1>7 DEF Select!SetCameraOverlay
  <2>3. reboots + 1 <= Cardinality(tried \cup {o})
    <3>1. CASE reboots = 0
      <4>1. 1 <= Cardinality(tried \cup {o})
        <5>1. CASE o \in tried
          BY <1>2, <5>1, CountOverlays
        <5>2. CASE o \notin tried
          BY <1>2, <1>3, <5>2, CountOverlays
        <5>3. QED
          BY <5>1, <5>2
      <4>2. QED
        BY <3>1, <4>1
    <3>2. CASE reboots > 0
      <4>1. PICK p \in tried : env = {p}
        BY <2>2, <3>2 DEF Progress
      <4>2. o \notin tried
        BY <2>2, <4>1, ChosenIsNew
      <4>3. Cardinality(tried \cup {o}) = Cardinality(tried) + 1
        BY <1>2, <4>2, CountOverlays
      <4>4. QED
        BY <1>2, <1>3, <2>2, <4>3 DEF Progress
    <3>3. QED
      BY <1>2, <3>1, <3>2
  <2>4. QED
    BY <2>1, <2>2, <2>3 DEF Progress
<1>8. CASE Select!Record
  BY <1>8 DEF Select!Record, Progress
<1>9. CASE Select!Reboot
  <2>1. env = {chosen}
    BY <1>9 DEF Search, Select!Reboot
  <2>2. chosen \in tried /\ reboots + 1 <= Cardinality(tried)
    BY <1>9 DEF Progress, Select!Reboot
  <2>3. reboots' <= reboots + 1 /\ UNCHANGED <<env, tried>> /\ script' = "boot"
    BY <1>2, <1>9 DEF Select!Reboot
  <2>4. reboots' \in Nat
    BY <1>2, <1>9 DEF Select!Reboot
  <2>5. reboots' <= Cardinality(tried)
    BY <1>2, <1>3, <2>2, <2>3, <2>4
  <2>6. QED
    BY <2>1, <2>2, <2>3, <2>5 DEF Progress
<1>10. CASE Select!PowerCycle
  <2>1. tried' \in SUBSET Known
    BY <1>2, <1>10 DEF Select!PowerCycle, Search
  <2>2. Cardinality(tried') \in Nat
    BY <1>2, <2>1, CountOverlays
  <2>3. reboots' = 0 /\ script' = "boot"
    BY <1>10 DEF Select!PowerCycle
  <2>4. 0 <= Cardinality(tried')
    BY <2>2
  <2>5. script' = "boot" /\ reboots' <= Cardinality(tried') /\ ~(reboots' > 0)
    BY <2>2, <2>3
  <2>6. QED
    BY <2>5 DEF Progress
<1>11. CASE Select!ChangeCamera
  BY <1>1, <1>11 DEF Select!ChangeCamera, Select!files, Progress
<1>12. CASE UNCHANGED Select!vars
  BY <1>1, <1>12 DEF Select!vars, Select!files, Progress
<1>13. QED
  BY <1>4, <1>5, <1>6, <1>7, <1>8, <1>9, <1>10, <1>11, <1>12 DEF Select!Next

\* What is listed stays ruled out.
LEMMA RuledOutStep == Search /\ RuledOut /\ [Select!Next]_(Select!vars) => RuledOut'
<1> SUFFICES ASSUME Search, RuledOut, [Select!Next]_(Select!vars)
             PROVE  RuledOut'
  OBVIOUS
<1> USE DEF RuledOut, Select!static
<1>1. CASE Select!Found
  BY <1>1 DEF Select!Found
<1>2. CASE Select!GiveUp
  BY <1>2 DEF Select!GiveUp, Select!SensorPresent, Select!files
<1>3. CASE Select!NotDetected
  BY <1>3 DEF Select!NotDetected, Select!SensorPresent, Select!files
<1>4. CASE Select!SetCameraOverlay
  BY <1>4 DEF Select!SetCameraOverlay
<1>5. CASE Select!Record
  BY <1>5 DEF Select!Record, Search
<1>6. CASE Select!Reboot
  BY <1>6 DEF Select!Reboot
<1>7. CASE Select!PowerCycle
  BY <1>7 DEF Select!PowerCycle
<1>8. CASE Select!ChangeCamera
  BY <1>8 DEF Select!ChangeCamera, Select!files, Search
<1>9. CASE UNCHANGED Select!vars
  BY <1>9 DEF Select!vars, Select!files
<1>10. QED
  BY <1>1, <1>2, <1>3, <1>4, <1>5, <1>6, <1>7, <1>8, <1>9 DEF Select!Next

\* The script on its own.
LEMMA ScriptInvariant == Select!Spec => []ScriptInv
<1>1. Select!Init => ScriptInv
  <2> SUFFICES ASSUME Select!Init
               PROVE  ScriptInv
    OBVIOUS
  <2>1. Search
    BY KnownOverlays DEF Select!Init, Search, Known
  <2>2. Cardinality(tried) = 0
    BY FS_EmptySet DEF Select!Init
  <2>3. Progress
    BY <2>2 DEF Select!Init, Progress
  <2>4. RuledOut
    BY DEF Select!Init, RuledOut
  <2>5. QED
    BY <2>1, <2>3, <2>4 DEF ScriptInv
<1>2. ScriptInv /\ [Select!Next]_(Select!vars) => ScriptInv'
  <2>1. [Select!Next]_(Select!vars) => UNCHANGED <<writable, configurable>>
    BY DEF Select!Next, Select!vars, Select!static, Select!Found, Select!GiveUp, Select!NotDetected,
           Select!SetCameraOverlay, Select!Record, Select!Reboot, Select!PowerCycle,
           Select!ChangeCamera
  <2>2. QED
    BY <2>1, SearchStep, ProgressStep, RuledOutStep DEF ScriptInv
<1>3. QED
  BY <1>1, <1>2, PTL DEF Select!Spec

-----------------------------------------------------------------------------
(***************************************************************************)
(* The boot sequence.  A step of it is a step of the script's specification *)
(* or leaves the script alone, and likewise for the program's; only the     *)
(* power cut is a step of both.                                             *)
(***************************************************************************)

\* The script behaves as on its own, whatever the program does after it.
THEOREM BootImplementsSelect == BootSpec => Select!Spec
<1>1. [BootNext]_bootVars => [Select!Next]_(Select!vars)
  <2>1. ASSUME UNCHANGED scriptVars, UNCHANGED cuts
        PROVE  UNCHANGED Select!vars
    BY <2>1 DEF scriptVars, Select!vars, Select!static, Select!files
  <2>2. CASE RunScript
    BY <2>2 DEF RunScript, Select!Next
  <2>3. CASE StartProgram
    BY <2>1, <2>3 DEF StartProgram, Boot
  <2>4. CASE RunProgram
    BY <2>1, <2>4 DEF RunProgram, Detect, ApplyFailed, Swap, SwapFailed, ExtractFailed, Exit,
                          Apply, Extract
  <2>5. CASE Off
    BY <2>5 DEF Off, Select!Next
  <2>6. CASE World
    BY <2>1, <2>6 DEF World, Publish, Withdraw, WriteBack, Select!Next
  <2>7. CASE UNCHANGED bootVars
    BY <2>1, <2>7 DEF bootVars, vars
  <2>8. QED
    BY <2>2, <2>3, <2>4, <2>5, <2>6, <2>7 DEF BootNext
<1>2. QED
  BY <1>1, PTL DEF BootSpec, BootInit, Select!Spec

\* The program updates itself as on its own, whatever the script did before it.
THEOREM BootImplementsUpdate == BootSpec => UpdateSteps
<1>1. [BootNext]_bootVars => [Next]_vars
  <2>1. CASE RunScript
    BY <2>1 DEF RunScript
  <2>2. CASE StartProgram \/ RunProgram
    BY <2>2 DEF StartProgram, RunProgram, Next, Update
  <2>3. CASE Off
    BY <2>3 DEF Off, Next
  <2>4. CASE World
    <3>1. CASE Select!ChangeCamera /\ UNCHANGED updateVars
      BY <3>1 DEF Select!ChangeCamera, updateVars, vars, disk
    <3>2. QED
      BY <2>4, <3>1 DEF World, Next
  <2>5. CASE UNCHANGED bootVars
    BY <2>5 DEF bootVars
  <2>6. QED
    BY <2>1, <2>2, <2>3, <2>4, <2>5 DEF BootNext
<1>2. QED
  BY <1>1, PTL DEF BootSpec, BootInit, UpdateSteps

\* "A state file prevents reboot loops": between two times the robot is switched
\* on, the script reboots it at most once per overlay, if it can write both files.
THEOREM RebootsAreBounded == BootSpec => []BoundedReboots
<1>1. ScriptInv => BoundedReboots
  <2> SUFFICES ASSUME ScriptInv, writable, configurable
               PROVE  reboots <= Len(Boards[board])
    BY DEF BoundedReboots, Select!BoundedReboots
  <2>1. Search /\ Progress
    BY DEF ScriptInv
  <2>2. /\ board \in DOMAIN Boards /\ tried \in SUBSET Known
        /\ script = "record" => tried \cup {chosen} \in SUBSET Known
        /\ script \in {"boot", "choose", "record", "reboot", "found", "gave up"}
    BY <2>1 DEF Search
  <2>3. /\ Cardinality(tried) \in Nat /\ Cardinality(Known) \in Nat
        /\ Cardinality(tried) <= Cardinality(Known)
        /\ script = "record" => /\ Cardinality(tried \cup {chosen}) \in Nat
                                /\ Cardinality(tried \cup {chosen}) <= Cardinality(Known)
    BY <2>2, CountOverlays
  <2>4. \/ reboots <= Cardinality(tried)
        \/ script = "record" /\ reboots + 1 <= Cardinality(tried \cup {chosen})
        \/ reboots + 1 <= Cardinality(tried) \/ reboots <= Cardinality(Known)
    BY <2>1, <2>2 DEF Progress
  <2>5. /\ reboots \in Nat /\ Len(Boards[board]) \in Nat
        /\ Cardinality(Known) <= Len(Boards[board])
    BY <2>1, <2>2, SearchCounts, KnownOverlays
  <2>6. QED
    BY <2>3, <2>4, <2>5
<1>2. QED
  BY <1>1, ScriptInvariant, BootImplementsSelect, PTL

\* The script gives up only without a camera, unless people interfered or the boot
\* configuration cannot be written.
THEOREM GivesUpWithReason == BootSpec => []GivesUpOnlyWithoutCamera
<1>1. ScriptInv => GivesUpOnlyWithoutCamera
  BY DEF ScriptInv, Search, RuledOut, GivesUpOnlyWithoutCamera,
         Select!GivesUpOnlyWithoutCamera
<1>2. QED
  BY <1>1, ScriptInvariant, BootImplementsSelect, PTL

\* The variables of the script and of the program keep their types.
THEOREM TypeCorrect == BootSpec => []BootTypeOK
<1> DEFINE Flags == writable \in BOOLEAN /\ configurable \in BOOLEAN /\ steady \in BOOLEAN
<1>1. Select!Init => Flags
  BY DEF Select!Init
<1>2. Flags /\ [Select!Next]_(Select!vars) => Flags'
  <2> SUFFICES ASSUME Flags, [Select!Next]_(Select!vars)
               PROVE  Flags'
    OBVIOUS
  <2>1. UNCHANGED <<writable, configurable>>
    BY DEF Select!Next, Select!vars, Select!static, Select!Found, Select!GiveUp, Select!NotDetected,
           Select!SetCameraOverlay, Select!Record, Select!Reboot, Select!PowerCycle,
           Select!ChangeCamera
  <2>2. \/ steady' = steady \/ steady' = TRUE
        \/ steady' = (tried' = {}) \/ steady' = (tried = {})
    BY DEF Select!Next, Select!vars, Select!Found, Select!GiveUp, Select!NotDetected,
           Select!SetCameraOverlay, Select!Record, Select!Reboot, Select!PowerCycle,
           Select!ChangeCamera
  <2>3. (tried' = {}) \in BOOLEAN /\ (tried = {}) \in BOOLEAN
    OBVIOUS
  <2>4. QED
    BY <2>1, <2>2, <2>3, Zenon
<1>3. ScriptInv /\ Flags /\ TypeOK => BootTypeOK
  <2> SUFFICES ASSUME Search, Flags, TypeOK
               PROVE  Select!TypeOK
    BY DEF ScriptInv, BootTypeOK
  <2>1. cuts \in 0..MaxCuts
    BY DEF TypeOK
  <2>2. QED
    BY <2>1 DEF Search, Select!TypeOK, Known
<1>4. Select!Spec => []Flags
  BY <1>1, <1>2, PTL DEF Select!Spec
<1>5. QED
  BY <1>3, <1>4, ScriptInvariant, UpdateTypes, UpdateInvariant, BootImplementsSelect,
     BootImplementsUpdate, PTL

\* upgrade.go:220: the camera package is in sync with the binary, unless an update
\* was cut short, or the power before it was written back.
THEOREM PackageInSync == BootSpec => []InSyncUnlessCutShort
<1>1. UpdateInv => InSyncUnlessCutShort
  BY DEF UpdateInv, Extracted, InSyncUnlessCutShort
<1>2. QED
  BY <1>1, UpdateInvariant, BootImplementsUpdate, PTL

\* The comparison in upgrade.go:104: whatever is published or withdrawn, the program
\* replaces files only by those of a newer release than its own.
THEOREM NothingGetsOlder == BootSpec => NeverOlder
BY StepNeverOlder, UpdateInvariant, BootImplementsUpdate, PTL DEF UpdateSteps, NeverOlder

=================================================================================
