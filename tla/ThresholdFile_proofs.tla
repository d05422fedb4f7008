-------------------------- MODULE ThresholdFile_proofs --------------------------
(***************************************************************************)
(* Proofs about ThresholdFile for any number of handlers, requests, tries   *)
(* and thresholds: its types, and that an empty threshold.json is being     *)
(* written, unless a kill came between a truncate and its write; and that   *)
(* requests that come one at a time leave its copies consistent.            *)
(***************************************************************************)
EXTENDS ThresholdFile, TLAPS

USE HandlerAssumption, BoundAssumption

-----------------------------------------------------------------------------
(***************************************************************************)
(* Type correctness, one part per owner of a copy.                          *)
(***************************************************************************)
File == [state: {"missing", "empty", "whole", "tail"}, adj: Adjustment, extra: BOOLEAN]
Goroutine == [step: GoSteps, op: Ops, adj: Adjustment, save: BOOLEAN, extra: BOOLEAN,
              tries: 1..MaxTries]
Job == [step: ThreadSteps, adj: Adjustment, save: BOOLEAN, extra: BOOLEAN,
        client: Handlers \cup {NoHandler}]
LateRequest == [op: Ops, adj: Adjustment, save: BOOLEAN]

FileTypes == file \in File
GoTypes ==
    /\ cache \in [loaded: BOOLEAN, adj: Adjustment]
    /\ go \in [Goroutines -> Goroutine]
    /\ requests \in 0..MaxRequests
CameraTypes ==
    /\ camera \in [up: BOOLEAN, settings: Adjustment, detector: Adjustment, extra: BOOLEAN]
    /\ thread \in [Threads -> Job]
    /\ late \in [Threads -> Seq(LateRequest)]
HistoryTypes == shipped \in BOOLEAN /\ calm \in BOOLEAN /\ cut \in BOOLEAN

Types == FileTypes /\ GoTypes /\ CameraTypes /\ HistoryTypes

\* The parts the proofs work with make up TypeOK.
LEMMA TypesInParts == Types => TypeOK
BY DEF TypeOK, Types, FileTypes, GoTypes, CameraTypes, HistoryTypes, File, Goroutine, Job, LateRequest

\* The same threshold at both ends is a range, and so are the defaults.
LEMMA BothIsAdjustment ==
    /\ \A w \in 0..MaxWidth : Both(w) \in Adjustment
    /\ DefaultAdjustment \in Adjustment
BY DEF Both, Adjustment, DefaultAdjustment

\* relax_arrays stays in the range.
LEMMA WidenedIsAdjustment ==
    ASSUME NEW adj \in Adjustment
    PROVE  Widened(adj) \in Adjustment
BY DEF Widened, Adjustment

\* A goroutine and a thread that do nothing, and an empty file.
LEMMA IdleIsTyped == Idle \in Goroutine /\ NoJob \in Job /\ Emptied \in File
BY BothIsAdjustment DEF Idle, NoJob, Emptied, Goroutine, Job, File, GoSteps, Ops, ThreadSteps

\* What a write leaves is a file.
LEMMA WrittenIsFile ==
    ASSUME NEW adj \in Adjustment, NEW extra \in BOOLEAN
    PROVE  Written(adj, extra) \subseteq File
BY DEF Written, File

\* A merge keeps extra keys or not.
LEMMA MergedIsBoolean == FileTypes => MergedExtra \in BOOLEAN
BY DEF FileTypes, File, MergedExtra

\* The threads' jobs are typed.
LEMMA JobsAreTyped ==
    ASSUME CameraTypes, NEW h \in Handlers \cup {NoHandler}
    PROVE  /\ CalibrationJobs(h) \subseteq Job
           /\ \A r \in LateRequest \cup Goroutine : TunerJob(h, r) \in Job
<1>1. CalibrationJobs(h) \subseteq Job
  <2>1. ASSUME NEW w \in 0..MaxWidth
        PROVE  [NoJob EXCEPT !.step = "merge", !.adj = Both(w), !.save = TRUE,
                             !.client = h] \in Job
    BY IdleIsTyped, BothIsAdjustment DEF Job, ThreadSteps
  <2>2. QED
    BY <2>1, IdleIsTyped DEF CalibrationJobs
<1>2. ASSUME NEW r \in LateRequest \cup Goroutine
      PROVE  TunerJob(h, r) \in Job
  <2>1. r.adj \in Adjustment /\ r.save \in BOOLEAN
    BY DEF LateRequest, Goroutine
  <2>2. Widened(camera.settings) \in Adjustment
    BY WidenedIsAdjustment DEF CameraTypes
  <2>3. QED
    BY <2>1, <2>2, IdleIsTyped DEF TunerJob, NoJob, Job, ThreadSteps
<1>3. QED
  BY <1>1, <1>2

\* The types hold when the robot boots.
LEMMA InitTypes == Init => Types
<1> SUFFICES ASSUME Init
             PROVE  Types
  OBVIOUS
<1> USE DEF Init
<1>1. FileTypes /\ HistoryTypes
  BY BothIsAdjustment DEF FileTypes, File, HistoryTypes
<1>2. [Idle EXCEPT !.step = "load", !.op = "boot"] \in Goroutine
  BY IdleIsTyped DEF Goroutine, GoSteps, Ops
<1>3. GoTypes
  BY <1>2, IdleIsTyped, BothIsAdjustment DEF GoTypes
<1>4. CameraTypes
  BY IdleIsTyped, BothIsAdjustment DEF CameraTypes
<1>5. QED
  BY <1>1, <1>3, <1>4 DEF Types

\* A goroutine that goes from one step to another keeps its type.
LEMMA GoesTyped ==
    ASSUME GoTypes, NEW g \in Goroutines, NEW from, NEW to \in GoSteps, Goes(g, from, to)
    PROVE  go' \in [Goroutines -> Goroutine]
BY IdleIsTyped DEF GoTypes, Goes, Goroutine

\* The goroutines keep the types.
LEMMA GoStepTypes ==
    ASSUME Types, NEW g \in Goroutines, GoStep(g)
    PROVE  Types'
<1> USE DEF Types
<1>a. go[g] \in Goroutine /\ go[g].adj \in Adjustment /\ go[g].extra \in BOOLEAN
  BY DEF GoTypes, Goroutine
<1>1. CASE GetAdjustment(g)
  <2>1. go' \in [Goroutines -> Goroutine]
    BY <1>1, GoesTyped DEF GetAdjustment, GoSteps
  <2>2. QED
    BY <1>1, <2>1 DEF GetAdjustment, FileTypes, GoTypes, CameraTypes, HistoryTypes, history
<1>2. CASE Load(g)
  <2>1. file.adj \in Adjustment
    BY DEF FileTypes, File
  <2>2. go' \in [Goroutines -> Goroutine]
    <3> DEFINE step == IF file.state = "missing" THEN "merge" ELSE "store"
               adj == IF file.state \in {"whole", "tail"} THEN file.adj ELSE DefaultAdjustment
    <3>1. step \in GoSteps /\ adj \in Adjustment
      BY <2>1, BothIsAdjustment DEF GoSteps
    <3>2. go' = [go EXCEPT ![g].step = step, ![g].adj = adj]
      BY <1>2 DEF Load
    <3> HIDE DEF step, adj
    <3>3. QED
      BY <3>1, <3>2 DEF GoTypes, Goroutine
  <2>3. QED
    BY <1>2, <2>2 DEF Load, FileTypes, GoTypes, CameraTypes, HistoryTypes, history
<1>3. CASE SaveMerge(g)
  <2>1. go' \in [Goroutines -> Goroutine]
    BY <1>3, MergedIsBoolean DEF SaveMerge, GoTypes, Goroutine, GoSteps
  <2>2. QED
    BY <1>3, <2>1 DEF SaveMerge, FileTypes, GoTypes, CameraTypes, HistoryTypes, history
<1>4. CASE SaveTruncate(g)
  <2>1. go' \in [Goroutines -> Goroutine]
    BY <1>4, GoesTyped DEF SaveTruncate, GoSteps
  <2>2. QED
    BY <1>4, <2>1, IdleIsTyped
       DEF SaveTruncate, FileTypes, GoTypes, CameraTypes, HistoryTypes, history
<1>5. CASE SaveWrite(g)
  <2>1. go' \in [Goroutines -> Goroutine]
    BY <1>5, GoesTyped DEF SaveWrite, GoSteps
  <2>2. file' \in File
    BY <1>5, <1>a, WrittenIsFile DEF SaveWrite
  <2>3. QED
    BY <1>5, <2>1, <2>2
       DEF SaveWrite, FileTypes, GoTypes, CameraTypes, HistoryTypes, history
<1>6. CASE Store(g)
  <2>1. go' \in [Goroutines -> Goroutine]
    BY <1>6, GoesTyped DEF Store, GoSteps
  <2>2. QED
    BY <1>6, <1>a, <2>1
       DEF Store, FileTypes, GoTypes, CameraTypes, HistoryTypes, history
<1>7. CASE Kill(g)
  <2>1. go' \in [Goroutines -> Goroutine]
    BY <1>7, GoesTyped DEF Kill, GoSteps
  <2>2. CameraTypes'
    <3>1. camera' \in [up: BOOLEAN, settings: Adjustment, detector: Adjustment, extra: BOOLEAN]
      BY <1>7 DEF Kill, CameraTypes
    <3>2. thread' \in [Threads -> Job] /\ late' \in [Threads -> Seq(LateRequest)]
      BY <1>7, IdleIsTyped DEF Kill
    <3>3. QED
      BY <3>1, <3>2 DEF CameraTypes
  <2>3. cut' \in BOOLEAN
    BY <1>7 DEF Kill, HistoryTypes
  <2>4. QED
    BY <1>7, <2>1, <2>2, <2>3 DEF Kill, FileTypes, GoTypes, HistoryTypes
<1>8. CASE Start(g)
  <2>1. go' \in [Goroutines -> Goroutine]
    BY <1>8, GoesTyped DEF Start, GoSteps
  <2>2. file.adj \in Adjustment
    BY DEF FileTypes, File
  <2>3. CameraTypes'
    BY <1>8, <2>2, BothIsAdjustment, MergedIsBoolean DEF Start, CameraTypes
  <2>4. QED
    BY <1>8, <2>1, <2>3 DEF Start, FileTypes, GoTypes, HistoryTypes, history
<1>9. QED
  BY <1>1, <1>2, <1>3, <1>4, <1>5, <1>6, <1>7, <1>8 DEF GoStep

\* The threads of the camera process keep the types.
LEMMA ThreadStepTypes ==
    ASSUME Types, NEW t \in Threads, ThreadStep(t)
    PROVE  Types'
<1> USE DEF Types
<1>1. ASSUME NEW from, NEW to \in ThreadSteps, Steps(t, from, to)
      PROVE  thread' \in [Threads -> Job]
  BY <1>1 DEF Steps, CameraTypes, Job
<1>2. thread[t] \in Job /\ thread[t].adj \in Adjustment /\ thread[t].extra \in BOOLEAN
  BY DEF CameraTypes, Job
<1>3. thread[t].adj.min \in 0..MaxWidth /\ thread[t].adj.max \in 0..MaxWidth
  BY <1>2 DEF Adjustment
<1>4. CASE SetMin(t)
  <2>1. thread' \in [Threads -> Job]
    BY <1>1, <1>4 DEF SetMin, ThreadSteps
  <2>2. camera' \in [up: BOOLEAN, settings: Adjustment, detector: Adjustment, extra: BOOLEAN]
    BY <1>3, <1>4 DEF SetMin, CameraTypes, Adjustment
  <2>3. QED
    BY <1>4, <2>1, <2>2
       DEF SetMin, OtherState, FileTypes, GoTypes, CameraTypes, HistoryTypes, history
<1>5. CASE SetMax(t)
  <2>1. thread' \in [Threads -> Job]
    BY <1>1, <1>5 DEF SetMax, ThreadSteps
  <2>2. camera' \in [up: BOOLEAN, settings: Adjustment, detector: Adjustment, extra: BOOLEAN]
    BY <1>3, <1>5 DEF SetMax, CameraTypes, Adjustment
  <2>3. QED
    BY <1>5, <2>1, <2>2
       DEF SetMax, OtherState, FileTypes, GoTypes, CameraTypes, HistoryTypes, history
<1>6. CASE UpdateDetector(t)
  <2>1. thread' \in [Threads -> Job]
    BY <1>1, <1>6 DEF UpdateDetector, ThreadSteps
  <2>2. camera' \in [up: BOOLEAN, settings: Adjustment, detector: Adjustment, extra: BOOLEAN]
    BY <1>6 DEF UpdateDetector, CameraTypes
  <2>3. QED
    BY <1>6, <2>1, <2>2
       DEF UpdateDetector, OtherState, FileTypes, GoTypes, CameraTypes, HistoryTypes, history
<1>7. CASE PyMerge(t)
  <2>1. thread' \in [Threads -> Job]
    BY <1>7, MergedIsBoolean DEF PyMerge, CameraTypes, Job, ThreadSteps
  <2>2. QED
    BY <1>7, <2>1
       DEF PyMerge, OtherState, FileTypes, GoTypes, CameraTypes, HistoryTypes, history
<1>8. CASE PyTruncate(t)
  <2>1. thread' \in [Threads -> Job]
    BY <1>1, <1>8 DEF PyTruncate, ThreadSteps
  <2>2. QED
    BY <1>8, <2>1, IdleIsTyped
       DEF PyTruncate, OtherState, FileTypes, GoTypes, CameraTypes, HistoryTypes, history
<1>9. CASE PyWrite(t)
  <2>1. thread' \in [Threads -> Job]
    BY <1>1, <1>9 DEF PyWrite, ThreadSteps
  <2>2. file' \in File
    BY <1>2, <1>9, WrittenIsFile DEF PyWrite
  <2>3. QED
    BY <1>9, <2>1, <2>2
       DEF PyWrite, OtherState, FileTypes, GoTypes, CameraTypes, HistoryTypes, history
<1>10. CASE Reply(t)
  <2>1. thread' \in [Threads -> Job]
    BY <1>10, IdleIsTyped DEF Reply, CameraTypes
  <2>2. \A g \in Goroutines : [go[g] EXCEPT !.step = "load"] \in Goroutine
    BY DEF GoTypes, Goroutine, GoSteps
  <2>3. go' \in [Goroutines -> Goroutine]
    BY <1>10, <2>2, IdleIsTyped DEF Reply, GoTypes
  <2>4. QED
    BY <1>10, <2>1, <2>3
       DEF Reply, OtherState, FileTypes, GoTypes, CameraTypes, HistoryTypes, history
<1>11. QED
  BY <1>4, <1>5, <1>6, <1>7, <1>8, <1>9, <1>10 DEF ThreadStep

\* A request in a backlog is one a handler made.
LEMMA AbandonsTypes ==
    ASSUME Types, NEW h \in Handlers, Abandons(h)
    PROVE  FileTypes' /\ CameraTypes' /\ HistoryTypes' /\ UNCHANGED <<cache, requests>>
<1> USE DEF Types
<1> DEFINE t == ThreadOf(go[h].op)
           r == [op |-> go[h].op, adj |-> go[h].adj, save |-> go[h].save]
<1>1. t \in Threads
  BY DEF ThreadOf, Threads
<1>2. r \in LateRequest
  BY DEF GoTypes, Goroutine, LateRequest, Goroutines
<1>3. late' \in [Threads -> Seq(LateRequest)]
  <2>1. late' \in {late, [late EXCEPT ![t] = Append(@, r)]}
    BY DEF Abandons
  <2>2. Append(late[t], r) \in Seq(LateRequest)
    BY <1>1, <1>2 DEF CameraTypes
  <2>3. QED
    BY <2>1, <2>2 DEF CameraTypes
<1>4. thread' \in [Threads -> Job]
  BY <1>1 DEF Abandons, CameraTypes, Job
<1>5. QED
  BY <1>3, <1>4 DEF Abandons, FileTypes, CameraTypes, HistoryTypes

\* A request, its answers and its failures keep the types.
LEMMA AsksTypes ==
    ASSUME Types, NEW h \in Handlers, Asks(h)
    PROVE  Types'
<1> USE DEF Types
<1>1. h \in Goroutines /\ go[h] \in Goroutine
  BY DEF GoTypes, Goroutines
<1>2. [go[h] EXCEPT !.step = "wait"] \in Goroutine
  BY <1>1 DEF Goroutine, GoSteps
<1>3. CASE Calibrate(h)
  <2>1. PICK job \in CalibrationJobs(h) :
           /\ thread' = [thread EXCEPT !["calib"] = job]
           /\ go' = [go EXCEPT ![h] = IF job = NoJob THEN Idle ELSE [@ EXCEPT !.step = "wait"]]
    BY <1>3 DEF Calibrate
  <2>2. job \in Job
    BY <2>1, JobsAreTyped
  <2>3. thread' \in [Threads -> Job] /\ go' \in [Goroutines -> Goroutine]
    BY <1>1, <1>2, <2>1, <2>2, IdleIsTyped DEF CameraTypes, GoTypes
  <2>4. QED
    BY <1>3, <2>3
       DEF Calibrate, OtherState, FileTypes, GoTypes, CameraTypes, HistoryTypes, history
<1>4. CASE Tune(h)
  <2>1. TunerJob(h, go[h]) \in Job
    BY <1>1, JobsAreTyped
  <2>2. go' = [go EXCEPT ![h] = [go[h] EXCEPT !.step = "wait"]]
    BY <1>4 DEF Tune
  <2>3. thread' \in [Threads -> Job] /\ go' \in [Goroutines -> Goroutine]
    BY <1>1, <1>2, <1>4, <2>1, <2>2 DEF Tune, CameraTypes, GoTypes
  <2>4. QED
    BY <1>4, <2>3
       DEF Tune, OtherState, FileTypes, GoTypes, CameraTypes, HistoryTypes, history
<1>5. CASE CalibrationFails(h)
  <2>1. go' \in [Goroutines -> Goroutine]
    BY <1>5, IdleIsTyped DEF CalibrationFails, GoTypes
  <2>2. QED
    BY <1>5, <2>1, AbandonsTypes DEF CalibrationFails, GoTypes
<1>6. CASE TunerFails(h)
  <2> DEFINE again == [go[h] EXCEPT !.step = "ask", !.tries = @ + 1]
  <2>1. ASSUME go[h].tries < MaxTries
        PROVE  again \in Goroutine
    <3>1. go[h].tries \in 1..MaxTries /\ go[h].tries + 1 \in 1..MaxTries
      BY <1>1, <2>1 DEF Goroutine
    <3>2. QED
      BY <1>1, <3>1 DEF Goroutine, GoSteps
  <2>2. go' = [go EXCEPT ![h] = IF go[h].tries < MaxTries THEN again ELSE Idle]
    BY <1>6 DEF TunerFails
  <2>3. go' \in [Goroutines -> Goroutine]
    <3> HIDE DEF again
    <3>1. QED
      BY <2>1, <2>2, IdleIsTyped DEF GoTypes
  <2>4. QED
    BY <1>6, <2>3, AbandonsTypes DEF TunerFails, GoTypes
<1>7. QED
  BY <1>3, <1>4, <1>5, <1>6 DEF Asks

\* A request that is carried out late keeps the types.
LEMMA ServeLateTypes ==
    ASSUME Types, NEW t \in Threads, ServeLate(t)
    PROVE  Types'
<1> USE DEF Types
<1>1. late[t] \in Seq(LateRequest) /\ late[t] # <<>>
  BY DEF ServeLate, CameraTypes
<1>2. Head(late[t]) \in LateRequest /\ Tail(late[t]) \in Seq(LateRequest)
  BY <1>1
<1>3. PICK job \in IF t = "calib" THEN CalibrationJobs(NoHandler)
                                 ELSE {TunerJob(NoHandler, Head(late[t]))} :
         thread' = [thread EXCEPT ![t] = job]
  BY DEF ServeLate
<1>4. job \in Job
  BY <1>2, <1>3, JobsAreTyped
<1>5. thread' \in [Threads -> Job]
  BY <1>3, <1>4 DEF CameraTypes
<1>6. late' \in [Threads -> Seq(LateRequest)]
  BY <1>2 DEF ServeLate, CameraTypes
<1>7. QED
  BY <1>5, <1>6 DEF ServeLate, FileTypes, GoTypes, CameraTypes, HistoryTypes, history

\* A new connection keeps the types.
LEMMA RequestsTypes ==
    ASSUME Types, Requests
    PROVE  Types'
<1> USE DEF Types
<1>1. ASSUME NEW h \in Handlers, NEW op \in Ops, NEW w \in 0..MaxWidth, NEW save \in BOOLEAN,
             Request(h, op, w, save)
      PROVE  Types'
  <2> DEFINE step == CASE op = "get" -> "get" [] op = "change" -> "merge"
                    [] op = "restart" -> "kill" [] OTHER -> "ask"
             new == [Idle EXCEPT !.op = op, !.step = step, !.adj = Both(w), !.save = save]
  <2>1. step \in GoSteps
    BY DEF GoSteps
  <2>2. new \in Goroutine
    <3> HIDE DEF step
    <3>1. QED
      BY <2>1, IdleIsTyped, BothIsAdjustment DEF Goroutine
  <2>3. go' = [go EXCEPT ![h] = new]
    BY <1>1 DEF Request
  <2>4. go' \in [Goroutines -> Goroutine]
    <3> HIDE DEF new
    <3>1. QED
      BY <2>2, <2>3 DEF GoTypes
  <2>5. requests' \in 0..MaxRequests
    BY <1>1 DEF Request, GoTypes
  <2>6. calm' \in BOOLEAN
    BY <1>1 DEF Request, HistoryTypes
  <2>7. QED
    BY <1>1, <2>4, <2>5, <2>6 DEF Request, FileTypes, GoTypes, CameraTypes, HistoryTypes
<1>2. 0 \in 0..MaxWidth /\ {"get", "change", "restart", "calib", "set", "relax"} \subseteq Ops
  BY DEF Ops
<1>3. QED
  BY <1>1, <1>2 DEF Requests

\* Every step keeps the types.
LEMMA NextTypes == Types /\ [Next]_vars => Types'
<1> SUFFICES ASSUME Types, [Next]_vars
             PROVE  Types'
  OBVIOUS
<1>1. CASE UNCHANGED vars
  BY <1>1 DEF vars, history, Types, FileTypes, GoTypes, CameraTypes, HistoryTypes
<1>2. QED
  BY <1>1, RequestsTypes, GoStepTypes, AsksTypes, ThreadStepTypes, ServeLateTypes DEF Next

\* The parts of TypeOK hold in every state.
LEMMA TypesInvariant == Spec => []Types
<1>1. QED
  BY InitTypes, NextTypes, PTL DEF Spec

\* The file, the cache, the camera's settings and whoever works on them keep
\* their types, for any number of handlers and bounds.
THEOREM TypeCorrect == Spec => []TypeOK
BY TypesInvariant, TypesInParts, PTL

-----------------------------------------------------------------------------
(***************************************************************************)
(* An empty file is being written.  The truncates and writes of one writer  *)
(* are consecutive steps of it, so all there is to show is that nobody else *)
(* takes a writer out of its write: a kill does, and is recorded, and the   *)
(* answer of a camera thread would, if its client did anything but wait.    *)
(***************************************************************************)
\* The client of a camera thread waits for its answer, and asked that thread.
ClientsWait ==
    \A t \in Threads :
       LET client == thread[t].client
       IN client \in Handlers => go[client].step = "wait" /\ ThreadOf(go[client].op) = t

WriteInv == Types /\ ClientsWait /\ EmptyOnlyWhileWritten

\* A goroutine's step concerns no waiting one, and takes no other out of its
\* write; the camera's threads do not notice, or are killed.
LEMMA GoStepFrame ==
    ASSUME Types, NEW g \in Goroutines, GoStep(g)
    PROVE  /\ go[g].step # "wait"
           /\ \A other \in Goroutines \ {g} : go'[other] = go[other]
           /\ \/ UNCHANGED <<thread, cut>>
              \/ thread' = [t \in Threads |-> NoJob] /\ Kill(g)
<1> USE DEF Types, GoTypes, Goes, history
<1>1. CASE GetAdjustment(g)
  BY <1>1 DEF GetAdjustment
<1>2. CASE Load(g)
  BY <1>2 DEF Load
<1>3. CASE SaveMerge(g)
  BY <1>3 DEF SaveMerge
<1>4. CASE SaveTruncate(g)
  BY <1>4 DEF SaveTruncate
<1>5. CASE SaveWrite(g)
  BY <1>5 DEF SaveWrite
<1>6. CASE Store(g)
  BY <1>6 DEF Store
<1>7. CASE Kill(g)
  BY <1>7 DEF Kill
<1>8. CASE Start(g)
  BY <1>8 DEF Start
<1>9. QED
  BY <1>1, <1>2, <1>3, <1>4, <1>5, <1>6, <1>7, <1>8 DEF GoStep

\* A goroutine writes what it has truncated, or leaves the file alone.
LEMMA GoStepWrites ==
    ASSUME Types, NEW g \in Goroutines, GoStep(g)
    PROVE  \/ UNCHANGED file /\ go[g].step # "write"
           \/ go'[g].step = "write"
           \/ file'.state # "empty"
<1> USE DEF Types, GoTypes, Goes
<1>1. CASE SaveTruncate(g)
  BY <1>1 DEF SaveTruncate, Goroutine
<1>2. CASE SaveWrite(g)
  BY <1>2 DEF SaveWrite, Written
<1>3. CASE GetAdjustment(g) \/ Load(g) \/ SaveMerge(g) \/ Store(g) \/ Kill(g) \/ Start(g)
  BY <1>3 DEF GetAdjustment, Load, SaveMerge, Store, Kill, Start
<1>4. QED
  BY <1>1, <1>2, <1>3 DEF GoStep

\* The same for a camera thread, which keeps its client until it answers.
LEMMA ThreadStepFrame ==
    ASSUME Types, NEW t \in Threads, ThreadStep(t)
    PROVE  /\ \A other \in Threads \ {t} : thread'[other] = thread[other]
           /\ UNCHANGED cut
           /\ \/ UNCHANGED go /\ thread'[t].client = thread[t].client
              \/ Reply(t)
           /\ \/ UNCHANGED file /\ thread[t].step # "write"
              \/ thread'[t].step = "write"
              \/ file'.state # "empty"
<1> USE DEF Types, CameraTypes, Job, Steps, OtherState, history
<1>1. CASE SetMin(t)
  BY <1>1 DEF SetMin
<1>2. CASE SetMax(t)
  BY <1>2 DEF SetMax
<1>3. CASE UpdateDetector(t)
  BY <1>3 DEF UpdateDetector
<1>4. CASE PyMerge(t)
  BY <1>4 DEF PyMerge
<1>5. CASE PyTruncate(t)
  BY <1>5 DEF PyTruncate
<1>6. CASE PyWrite(t)
  BY <1>6 DEF PyWrite, Written
<1>7. CASE Reply(t)
  BY <1>7 DEF Reply
<1>8. QED
  BY <1>1, <1>2, <1>3, <1>4, <1>5, <1>6, <1>7 DEF ThreadStep

\* A thread that takes a client's request was idle, and so is not writing.
LEMMA JobsStart ==
    ASSUME NEW h
    PROVE  /\ \A job \in CalibrationJobs(h) : job.client = h \/ job = NoJob
           /\ \A r : TunerJob(h, r).client = h
BY DEF CalibrationJobs, TunerJob, NoJob

\* Goroutines keep WriteInv.
LEMMA GoStepWriteInv ==
    ASSUME WriteInv, NEW g \in Goroutines, GoStep(g)
    PROVE  ClientsWait' /\ EmptyOnlyWhileWritten'
<1> USE DEF WriteInv
<1>1. Handlers \subseteq Goroutines
  BY DEF Goroutines
<1>2. NoJob.client \notin Handlers
  BY DEF NoJob
<1>3. ClientsWait'
  <2>1. CASE UNCHANGED thread
    BY <1>1, <2>1, GoStepFrame DEF ClientsWait
  <2>2. CASE thread' = [t \in Threads |-> NoJob]
    BY <1>2, <2>2 DEF ClientsWait
  <2>3. QED
    BY <2>1, <2>2, GoStepFrame
<1>4. EmptyOnlyWhileWritten'
  <2>1. CASE UNCHANGED <<thread, cut>>
    BY <2>1, GoStepFrame, GoStepWrites DEF EmptyOnlyWhileWritten
  <2>2. CASE Kill(g)
    <3>1. file' = file /\ go[g].step = "kill"
      BY <2>2 DEF Kill, Goes
    <3>2. cut' <=> cut \/ \E t \in Threads : thread[t].step = "write"
      BY <2>2 DEF Kill
    <3>3. QED
      BY <3>1, <3>2, GoStepFrame DEF EmptyOnlyWhileWritten
  <2>3. QED
    BY <2>1, <2>2, GoStepFrame
<1>5. QED
  BY <1>3, <1>4

\* The camera's threads keep WriteInv.
LEMMA ThreadStepWriteInv ==
    ASSUME WriteInv, NEW t \in Threads, ThreadStep(t)
    PROVE  ClientsWait' /\ EmptyOnlyWhileWritten'
<1> USE DEF WriteInv
<1>1. CASE UNCHANGED go /\ thread'[t].client = thread[t].client
  <2>1. ClientsWait'
    BY <1>1, ThreadStepFrame DEF ClientsWait
  <2>2. EmptyOnlyWhileWritten'
    BY <1>1, ThreadStepFrame DEF EmptyOnlyWhileWritten
  <2>3. QED
    BY <2>1, <2>2
<1>2. CASE Reply(t)
  <2> DEFINE client == thread[t].client
  <2>1. \A g \in Goroutines \ {client} : go'[g] = go[g]
    BY <1>2 DEF Reply
  <2>2. client \in Goroutines /\ client \notin Handlers => client = "mw"
    BY DEF Goroutines
  <2>3. client \in Handlers \cup {NoHandler}
    BY DEF Types, CameraTypes, Job
  <2>4. client \in Goroutines => go[client].step = "wait" /\ ThreadOf(go[client].op) = t
    BY <2>2, <2>3 DEF ClientsWait
  <2>5. thread'[t].client = NoHandler /\ thread[t].step = "reply" /\ UNCHANGED <<file, cut>>
    BY <1>2 DEF Reply, NoJob, Types, CameraTypes, OtherState, history
  <2>6. ClientsWait'
    <3> SUFFICES ASSUME NEW other \in Threads, thread'[other].client \in Handlers
                 PROVE  /\ go'[thread'[other].client].step = "wait"
                        /\ ThreadOf(go'[thread'[other].client].op) = other
      BY DEF ClientsWait
    <3>1. other # t /\ thread'[other] = thread[other]
      BY <2>5, ThreadStepFrame
    <3>2. thread[other].client # client
      BY <2>4, <3>1 DEF ClientsWait, Goroutines
    <3>3. QED
      BY <2>1, <3>1, <3>2 DEF ClientsWait, Goroutines
  <2>7. EmptyOnlyWhileWritten'
    BY <2>1, <2>4, <2>5, ThreadStepFrame DEF EmptyOnlyWhileWritten
  <2>8. QED
    BY <2>6, <2>7
<1>3. QED
  BY <1>1, <1>2, ThreadStepFrame

\* A client that waits, or stops waiting, keeps WriteInv: only its own thread
\* answers it, and nobody is taken out of a write.
LEMMA AsksWriteInv ==
    ASSUME WriteInv, NEW h \in Handlers, Asks(h)
    PROVE  ClientsWait' /\ EmptyOnlyWhileWritten'
<1> USE DEF WriteInv, Types
<1> DEFINE t == ThreadOf(go[h].op)
<1>1. h \in Goroutines /\ t \in Threads /\ NoHandler \notin Handlers
  BY DEF Goroutines, Threads, ThreadOf
<1>2. CASE Calibrate(h) \/ Tune(h)
  <2>1. PICK job \in Job :
           /\ thread' = [thread EXCEPT ![t] = job]
           /\ \/ job = NoJob /\ go'[h].step = "idle"
              \/ job.client = h /\ go'[h].step = "wait"
    <3>1. CASE Calibrate(h)
      <4>1. PICK job \in CalibrationJobs(h) :
               /\ thread' = [thread EXCEPT !["calib"] = job]
               /\ go' = [go EXCEPT ![h] = IF job = NoJob THEN Idle
                                          ELSE [@ EXCEPT !.step = "wait"]]
        BY <3>1 DEF Calibrate
      <4>2. t = "calib" /\ job \in Job
        BY <3>1, <4>1, JobsAreTyped DEF Calibrate, ThreadOf
      <4>3. CASE job = NoJob
        <5>1. go' = [go EXCEPT ![h] = Idle]
          BY <4>1, <4>3
        <5>2. go'[h].step = "idle"
          BY <1>1, <5>1 DEF GoTypes, Idle
        <5>3. QED
          BY <4>1, <4>2, <4>3, <5>2
      <4>4. CASE job # NoJob
        <5>1. job.client = h
          BY <4>1, <4>4, JobsStart
        <5>2. go'[h].step = "wait"
          BY <1>1, <4>1, <4>4 DEF GoTypes, Goroutine
        <5>3. QED
          BY <4>1, <4>2, <5>1, <5>2
      <4>5. QED
        BY <4>3, <4>4
    <3>2. CASE Tune(h)
      <4>1. t = "tuner" /\ go'[h].step = "wait"
        BY <1>1, <3>2 DEF Tune, ThreadOf, GoTypes, Goroutine
      <4>2. TunerJob(h, go[h]) \in Job /\ TunerJob(h, go[h]).client = h
        BY <1>1, JobsAreTyped, JobsStart DEF GoTypes
      <4>3. QED
        BY <3>2, <4>1, <4>2 DEF Tune
    <3>3. QED
      BY <1>2, <3>1, <3>2
  <2>2. /\ \A g \in Goroutines \ {h} : go'[g] = go[g]
        /\ go[h].step = "ask" /\ thread[t].step = "idle"
        /\ go'[h].op = go[h].op \/ go'[h].step = "idle"
        /\ UNCHANGED <<file, cut>>
    BY <1>1, <1>2 DEF Calibrate, Tune, ThreadOf, GoTypes, Goroutine, Idle, OtherState, history
  <2>3. \A other \in Threads : thread[other].client # h
    BY <2>2 DEF ClientsWait
  <2>4. ClientsWait'
    <3> SUFFICES ASSUME NEW other \in Threads, thread'[other].client \in Handlers
                 PROVE  /\ go'[thread'[other].client].step = "wait"
                        /\ ThreadOf(go'[thread'[other].client].op) = other
      BY DEF ClientsWait
    <3>1. CASE other = t
      BY <1>1, <2>1, <2>2, <3>1 DEF CameraTypes, NoJob
    <3>2. CASE other # t
      BY <2>1, <2>2, <2>3, <3>2 DEF CameraTypes, ClientsWait, Goroutines
    <3>3. QED
      BY <3>1, <3>2
  <2>5. EmptyOnlyWhileWritten'
    BY <1>1, <2>1, <2>2 DEF EmptyOnlyWhileWritten, CameraTypes
  <2>6. QED
    BY <2>4, <2>5
<1>3. CASE CalibrationFails(h) \/ TunerFails(h)
  <2>1. Abandons(h)
    BY <1>3 DEF CalibrationFails, TunerFails
  <2>2. thread' = [thread EXCEPT ![t].client = IF @ = h THEN NoHandler ELSE @]
    BY <2>1 DEF Abandons
  <2>3. /\ \A g \in Goroutines \ {h} : go'[g] = go[g]
        /\ go[h].step \in {"ask", "wait"}
        /\ UNCHANGED <<file, cut>>
    BY <1>1, <1>3, <2>1 DEF CalibrationFails, TunerFails, Abandons, GoTypes
  <2>4. \A other \in Threads : thread'[other].client # h
    BY <1>1, <2>2 DEF ClientsWait, CameraTypes, Job
  <2>5. \A other \in Threads :
           /\ thread'[other].step = thread[other].step
           /\ thread'[other].client \in {thread[other].client, NoHandler}
    BY <1>1, <2>2 DEF CameraTypes, Job
  <2>6. ClientsWait'
    BY <1>1, <2>3, <2>4, <2>5 DEF ClientsWait, Goroutines
  <2>7. EmptyOnlyWhileWritten'
    BY <1>1, <2>3, <2>5 DEF EmptyOnlyWhileWritten
  <2>8. QED
    BY <2>6, <2>7
<1>4. QED
  BY <1>2, <1>3 DEF Asks

\* A request whose client has gone starts a job without one.
LEMMA ServeLateWriteInv ==
    ASSUME WriteInv, NEW t \in Threads, ServeLate(t)
    PROVE  ClientsWait' /\ EmptyOnlyWhileWritten'
<1> USE DEF WriteInv, Types, CameraTypes
<1>1. PICK job :
         thread' = [thread EXCEPT ![t] = job] /\ job.client = NoHandler
  <2>1. PICK job \in IF t = "calib" THEN CalibrationJobs(NoHandler)
                                   ELSE {TunerJob(NoHandler, Head(late[t]))} :
           thread' = [thread EXCEPT ![t] = job]
    BY DEF ServeLate
  <2>2. NoJob.client = NoHandler
    BY DEF NoJob
  <2>3. job.client = NoHandler
    BY <2>1, <2>2, JobsStart
  <2>4. QED
    BY <2>1, <2>3
<1>2. thread[t].step = "idle" /\ UNCHANGED <<file, go, cut>>
  BY DEF ServeLate, history
<1>3. ClientsWait'
  BY <1>1, <1>2 DEF ClientsWait
<1>4. EmptyOnlyWhileWritten'
  BY <1>1, <1>2 DEF EmptyOnlyWhileWritten
<1>5. QED
  BY <1>3, <1>4

\* A connection is served by a handler that was idle.
LEMMA RequestsWriteInv ==
    ASSUME WriteInv, Requests
    PROVE  ClientsWait' /\ EmptyOnlyWhileWritten'
<1> USE DEF WriteInv, Types
<1>1. PICK h \in Handlers :
         /\ go[h].step = "idle" /\ \A g \in Goroutines \ {h} : go'[g] = go[g]
         /\ UNCHANGED <<file, thread, cut>>
  <2>1. PICK h \in Handlers : \E op, w, save : Request(h, op, w, save)
    BY DEF Requests
  <2>2. PICK op, w, save : Request(h, op, w, save)
    BY <2>1
  <2>3. go[h].step = "idle" /\ UNCHANGED <<file, thread, cut>>
    BY <2>2 DEF Request
  <2>4. \A g \in Goroutines \ {h} : go'[g] = go[g]
    BY <2>2 DEF Request, GoTypes
  <2>5. QED
    BY <2>3, <2>4
<1>2. ClientsWait'
  BY <1>1 DEF ClientsWait, Goroutines
<1>3. EmptyOnlyWhileWritten'
  BY <1>1 DEF EmptyOnlyWhileWritten
<1>4. QED
  BY <1>2, <1>3

\* However requests, timeouts and restarts overlap, an empty threshold.json is
\* being written, unless a kill cut a save in two: for any number of handlers.
THEOREM EmptyIsBeingWritten == Spec => []EmptyOnlyWhileWritten
<1>1. Init => WriteInv
  <2> SUFFICES ASSUME Init
               PROVE  ClientsWait /\ EmptyOnlyWhileWritten
    BY InitTypes DEF WriteInv
  <2>1. ClientsWait
    BY DEF Init, ClientsWait, NoJob
  <2>2. EmptyOnlyWhileWritten
    BY DEF Init, EmptyOnlyWhileWritten
  <2>3. QED
    BY <2>1, <2>2
<1>2. WriteInv /\ [Next]_vars => WriteInv'
  <2> SUFFICES ASSUME WriteInv, [Next]_vars
               PROVE  ClientsWait' /\ EmptyOnlyWhileWritten'
    BY NextTypes DEF WriteInv
  <2>1. CASE UNCHANGED vars
    BY <2>1 DEF vars, WriteInv, ClientsWait, EmptyOnlyWhileWritten
  <2>2. QED
    BY <2>1, RequestsWriteInv, GoStepWriteInv, AsksWriteInv, ThreadStepWriteInv,
       ServeLateWriteInv DEF Next
<1>3. WriteInv => EmptyOnlyWhileWritten
  BY DEF WriteInv
<1>4. QED
  BY <1>1, <1>2, <1>3, PTL DEF Spec

-----------------------------------------------------------------------------
(***************************************************************************)
(* Requests that come one at a time leave the copies consistent.  As long   *)
(* as the history is calm at most one of them is at work, a goroutine or a  *)
(* camera thread whose client waits, so what the others left settled stays  *)
(* so, and the invariant says what is known at each of its steps.           *)
(***************************************************************************)
\* Both ends of a range are from one request.
Even(adj) == adj.min = adj.max

\* The file is complete, or is yet to be created.
Whole == file.state = "whole" /\ file.extra = shipped /\ Even(file.adj)
Unborn == file.state = "missing" /\ ~shipped

\* The cache is what the file says.
Cached == cache = [loaded |-> TRUE, adj |-> file.adj]

\* The camera process runs, and its detector on its settings.
Filming == camera.up /\ camera.detector = camera.settings /\ Even(camera.settings)

ThreadsRest == \A t \in Threads : thread[t].step = "idle"

\* Nobody is at work...
Resting == Busy = {} /\ ThreadsRest /\ Whole /\ Cached /\ Filming

\* ... or one goroutine, which never waits for itself,
GoKnows(g) ==
    /\ Even(go[g].adj)
    /\ go[g].step \in {"get", "ask", "kill", "start"} => Whole /\ Cached
    /\ go[g].step \in {"load", "merge", "truncate"} => Whole \/ Unborn
    /\ go[g].step \in {"truncate", "write"} => go[g].extra = shipped
    /\ go[g].step = "write" => file.state = "empty"
    /\ go[g].step = "store" => Whole /\ go[g].adj = file.adj
    /\ IF go[g].step = "start" THEN ~camera.up ELSE Filming

GoAlone(g) ==
    /\ Busy = {g} /\ go[g].step # "wait"
    /\ ThreadsRest
    /\ GoKnows(g)

\* ... or one camera thread, for a client that waits.
ThreadKnows(t) ==
    /\ Even(thread[t].adj)
    /\ IF thread[t].step = "write" THEN file.state = "empty" ELSE Whole
    /\ thread[t].step \in {"truncate", "write"} => thread[t].extra = shipped
    /\ ~thread[t].save => Cached /\ thread[t].step \notin {"merge", "truncate", "write"}
    /\ camera.up
    /\ thread[t].step = "max" => camera.settings.min = thread[t].adj.min
    /\ thread[t].step = "detector" => Even(camera.settings)
    /\ thread[t].step \in {"merge", "truncate", "write", "reply"} => Filming

ThreadAlone(t) ==
    /\ thread[t].client \in Handlers /\ Busy = {thread[t].client}
    /\ go[thread[t].client].step = "wait" /\ Even(go[thread[t].client].adj)
    /\ thread[t].step # "idle"
    /\ \A other \in Threads \ {t} : thread[other].step = "idle"
    /\ ThreadKnows(t)

AtWork ==
    \/ Resting
    \/ \E g \in Goroutines : GoAlone(g)
    \/ \E t \in Threads : ThreadAlone(t)

NobodyLate == \A t \in Threads : late[t] = <<>>

OneAtATime == calm => NobodyLate /\ AtWork

CalmInv == Types /\ OneAtATime

\* Both ends are the same in a request's range, the defaults and a widened one.
LEMMA EvenRanges ==
    /\ \A w : Even(Both(w))
    /\ Even(DefaultAdjustment) /\ Even(Idle.adj)
    /\ \A adj \in Adjustment : Even(adj) => Even(Widened(adj))
BY DEF Even, Both, DefaultAdjustment, Idle, Widened, Adjustment

\* A write into an empty file leaves it whole, with the writer's keys.
LEMMA WriteCompletes ==
    ASSUME NEW adj, NEW extra, file.state = "empty", file' \in Written(adj, extra)
    PROVE  file' = [state |-> "whole", adj |-> adj, extra |-> extra]
BY DEF Written

\* Who is busy follows from the goroutines' steps.
LEMMA BusyIs ==
    ASSUME NEW g \in Goroutines, \A other \in Goroutines \ {g} : go'[other] = go[other],
           Busy \subseteq {g}
    PROVE  /\ go'[g].step = "idle" => Busy' = {}
           /\ go'[g].step # "idle" => Busy' = {g}
BY DEF Busy

\* A goroutine that makes a step is busy, and waits for no thread.
LEMMA GoStepBusy ==
    ASSUME NEW g \in Goroutines, GoStep(g)
    PROVE  g \in Busy /\ go[g].step # "wait"
BY DEF GoStep, GetAdjustment, Load, SaveMerge, SaveTruncate, SaveWrite, Store, Kill, Start,
       Goes, Busy

\* A goroutine that asks or waits is busy.
LEMMA AsksBusy ==
    ASSUME NEW h \in Handlers, Asks(h)
    PROVE  h \in Busy /\ go[h].step \in {"ask", "wait"}
BY DEF Asks, Calibrate, Tune, CalibrationFails, TunerFails, Abandons, Busy, Goroutines

\* A thread that makes a step has work.
LEMMA ThreadStepWorks ==
    ASSUME NEW t \in Threads, ThreadStep(t)
    PROVE  thread[t].step # "idle"
BY DEF ThreadStep, SetMin, SetMax, UpdateDetector, PyMerge, PyTruncate, PyWrite, Reply, Steps

\* What the types say of the parts OneAtATime reads.
LEMMA GoroutineFields ==
    ASSUME Types, NEW g \in Goroutines
    PROVE  /\ go[g] \in Goroutine /\ go[g].step \in GoSteps /\ go[g].adj \in Adjustment
           /\ DOMAIN go = Goroutines
BY DEF Types, GoTypes, Goroutine

\* A goroutine alone at work stays the only one, or leaves everything settled.
LEMMA GoAloneStep ==
    ASSUME Types, NEW g \in Goroutines, GoAlone(g), GoStep(g)
    PROVE  Resting' \/ GoAlone(g)'
<1>a. go \in [Goroutines -> Goroutine] /\ go[g] \in Goroutine
  BY DEF Types, GoTypes
<1>b. \A other \in Goroutines \ {g} : go'[other] = go[other]
  BY GoStepFrame
<1>c. Busy = {g} /\ ThreadsRest
  BY DEF GoAlone
<1>d. ASSUME ThreadsRest', go'[g].step # "idle", go'[g].step # "wait", GoKnows(g)'
      PROVE  GoAlone(g)'
  BY <1>b, <1>c, <1>d, BusyIs DEF GoAlone
<1>e. ASSUME ThreadsRest', go'[g].step = "idle", Whole', Cached', Filming'
      PROVE  Resting'
  BY <1>b, <1>c, <1>e, BusyIs DEF Resting
<1>f. ASSUME UNCHANGED thread
      PROVE  ThreadsRest'
  BY <1>c, <1>f DEF ThreadsRest
<1>g. ASSUME NEW from, NEW to \in GoSteps, Goes(g, from, to)
      PROVE  IF to = "idle" THEN go'[g] = Idle
             ELSE /\ go'[g].step = to /\ go'[g].op = go[g].op /\ go'[g].adj = go[g].adj
                  /\ go'[g].extra = go[g].extra
  BY <1>a, <1>g DEF Goes, Goroutine
<1>1. CASE GetAdjustment(g)
  <2>1. Goes(g, "get", "idle") /\ UNCHANGED <<file, cache, camera, thread, shipped>>
    BY <1>1 DEF GetAdjustment, GoAlone, GoKnows, Cached, Goes, history
  <2>2. go'[g].step = "idle"
    BY <1>g, <2>1 DEF GoSteps, Idle
  <2>3. go[g].step = "get"
    BY <2>1 DEF Goes
  <2>4. Whole' /\ Cached' /\ Filming'
    BY <2>1, <2>3 DEF GoAlone, GoKnows, Whole, Cached, Filming
  <2>5. QED
    BY <1>e, <1>f, <2>1, <2>2, <2>4
<1>2. CASE Load(g)
  <2>1. go[g].step = "load" /\ UNCHANGED <<file, cache, camera, thread, shipped>>
    BY <1>2 DEF Load, history
  <2>2. Whole \/ Unborn
    BY <2>1 DEF GoAlone, GoKnows
  <2>3. Filming'
    BY <2>1 DEF GoAlone, GoKnows, Filming
  <2>4. CASE Whole
    <3>1. go'[g].step = "store" /\ go'[g].adj = file.adj
      BY <1>2, <1>a, <2>4 DEF Load, Whole, Goroutine
    <3>2. Whole' /\ Even(go'[g].adj)
      BY <2>1, <2>4, <3>1 DEF Whole
    <3>3. GoKnows(g)'
      BY <2>1, <2>3, <3>1, <3>2 DEF GoKnows
    <3>4. QED
      BY <1>d, <1>f, <2>1, <3>1, <3>3
  <2>5. CASE Unborn
    <3>1. go'[g].step = "merge" /\ go'[g].adj = DefaultAdjustment
      BY <1>2, <1>a, <2>5 DEF Load, Unborn, Goroutine
    <3>2. Unborn' /\ Even(go'[g].adj)
      BY <2>1, <2>5, <3>1, EvenRanges DEF Unborn
    <3>3. GoKnows(g)'
      BY <2>1, <2>3, <3>1, <3>2 DEF GoKnows
    <3>4. QED
      BY <1>d, <1>f, <2>1, <3>1, <3>3
  <2>6. QED
    BY <2>2, <2>4, <2>5
<1>3. CASE SaveMerge(g)
  <2>1. go[g].step = "merge" /\ UNCHANGED <<file, cache, camera, thread, shipped>>
    BY <1>3 DEF SaveMerge, history
  <2>2. go'[g].step = "truncate" /\ go'[g].adj = go[g].adj /\ go'[g].extra = MergedExtra
    BY <1>3, <1>a DEF SaveMerge, Goroutine
  <2>3. MergedExtra = shipped
    BY <2>1 DEF GoAlone, GoKnows, MergedExtra, Whole, Unborn, Types, FileTypes, File, HistoryTypes
  <2>4. Filming' /\ (Whole' \/ Unborn') /\ Even(go'[g].adj)
    BY <2>1, <2>2 DEF GoAlone, GoKnows, Filming, Whole, Unborn
  <2>5. GoKnows(g)'
    BY <2>1, <2>2, <2>3, <2>4 DEF GoKnows
  <2>6. QED
    BY <1>d, <1>f, <2>1, <2>2, <2>5
<1>4. CASE SaveTruncate(g)
  <2>1. /\ go[g].step = "truncate" /\ UNCHANGED <<cache, camera, thread, shipped>>
        /\ file' = Emptied
    BY <1>4 DEF SaveTruncate, Goes, history
  <2>2. go'[g].step = "write" /\ go'[g].adj = go[g].adj /\ go'[g].extra = go[g].extra
    BY <1>4, <1>g DEF SaveTruncate, GoSteps
  <2>3. Filming' /\ Even(go'[g].adj) /\ file'.state = "empty" /\ go'[g].extra = shipped'
    BY <2>1, <2>2 DEF GoAlone, GoKnows, Filming, Emptied
  <2>4. GoKnows(g)'
    BY <2>2, <2>3 DEF GoKnows
  <2>5. QED
    BY <1>d, <1>f, <2>1, <2>2, <2>4
<1>5. CASE SaveWrite(g)
  <2> DEFINE to == IF go[g].op = "change" THEN "load" ELSE "store"
  <2>1. /\ go[g].step = "write" /\ UNCHANGED <<cache, camera, thread, shipped>>
        /\ Goes(g, "write", to)
    BY <1>5 DEF SaveWrite, Goes, history
  <2>2. to \in GoSteps /\ to \in {"load", "store"}
    BY DEF GoSteps
  <2>3. go'[g].step = to /\ go'[g].adj = go[g].adj
    <3> HIDE DEF to
    <3>1. QED
      BY <1>g, <2>1, <2>2
  <2>4. file' = [state |-> "whole", adj |-> go[g].adj, extra |-> go[g].extra]
    BY <1>5, <2>1, WriteCompletes DEF SaveWrite, GoAlone, GoKnows
  <2>5. Whole' /\ Filming' /\ Even(go'[g].adj) /\ go'[g].adj = file'.adj
    BY <2>1, <2>3, <2>4 DEF GoAlone, GoKnows, Whole, Filming
  <2>6. GoKnows(g)'
    BY <2>2, <2>3, <2>5 DEF GoKnows
  <2>7. QED
    BY <1>d, <1>f, <2>1, <2>2, <2>3, <2>6
<1>6. CASE Store(g)
  <2> DEFINE to == IF go[g].op = "change" THEN "kill" ELSE "idle"
  <2>1. /\ go[g].step = "store" /\ UNCHANGED <<file, camera, thread, shipped>>
        /\ Goes(g, "store", to) /\ cache' = [loaded |-> TRUE, adj |-> go[g].adj]
    BY <1>6 DEF Store, Goes, history
  <2>2. Whole' /\ Cached' /\ Filming'
    BY <2>1 DEF GoAlone, GoKnows, Whole, Cached, Filming
  <2>3. CASE go[g].op = "change"
    <3>1. go'[g].step = "kill" /\ go'[g].adj = go[g].adj
      BY <1>g, <2>1, <2>3 DEF GoSteps
    <3>2. GoKnows(g)'
      BY <2>2, <3>1 DEF GoAlone, GoKnows
    <3>3. QED
      BY <1>d, <1>f, <2>1, <3>1, <3>2
  <2>4. CASE go[g].op # "change"
    <3>1. go'[g].step = "idle"
      BY <1>g, <2>1, <2>4 DEF GoSteps, Idle
    <3>2. QED
      BY <1>e, <1>f, <2>1, <2>2, <3>1
  <2>5. QED
    BY <2>3, <2>4
<1>7. CASE Kill(g)
  <2>1. /\ go[g].step = "kill" /\ UNCHANGED <<file, cache, shipped>>
        /\ Goes(g, "kill", "start") /\ thread' = [t \in Threads |-> NoJob] /\ ~camera'.up
    BY <1>7 DEF Kill, Goes, Types, CameraTypes
  <2>2. go'[g].step = "start" /\ go'[g].adj = go[g].adj
    BY <1>g, <2>1 DEF GoSteps
  <2>3. ThreadsRest'
    BY <2>1 DEF ThreadsRest, NoJob
  <2>4. Whole' /\ Cached' /\ Even(go'[g].adj)
    BY <2>1, <2>2 DEF GoAlone, GoKnows, Whole, Cached
  <2>5. GoKnows(g)'
    BY <2>1, <2>2, <2>4 DEF GoKnows
  <2>6. QED
    BY <1>d, <2>2, <2>3, <2>5
<1>8. CASE Start(g)
  <2>1. /\ go[g].step = "start" /\ UNCHANGED <<file, cache, thread, shipped>>
        /\ Goes(g, "start", "idle")
    BY <1>8 DEF Start, Goes, history
  <2>2. go'[g].step = "idle"
    BY <1>g, <2>1 DEF GoSteps, Idle
  <2>3. Whole /\ Cached /\ ~camera.up
    BY <2>1 DEF GoAlone, GoKnows
  <2>4. camera' = [up |-> TRUE, settings |-> file.adj, detector |-> file.adj,
                   extra |-> MergedExtra]
    BY <1>8, <2>3 DEF Start, Whole
  <2>5. Whole' /\ Cached' /\ Filming'
    BY <2>1, <2>3, <2>4 DEF Whole, Cached, Filming
  <2>6. QED
    BY <1>e, <1>f, <2>1, <2>2, <2>5
<1>9. QED
  BY <1>1, <1>2, <1>3, <1>4, <1>5, <1>6, <1>7, <1>8 DEF GoStep

\* A camera thread alone at work stays so until it answers, and then its client
\* is alone or everything is settled.
LEMMA ThreadAloneStep ==
    ASSUME Types, NEW t \in Threads, ThreadAlone(t), ThreadStep(t)
    PROVE  AtWork'
<1> DEFINE client == thread[t].client
<1>a. thread \in [Threads -> Job] /\ thread[t] \in Job /\ thread[t].adj \in Adjustment
  BY DEF Types, CameraTypes, Job
<1>b. camera \in [up: BOOLEAN, settings: Adjustment, detector: Adjustment, extra: BOOLEAN]
  BY DEF Types, CameraTypes
<1>c. ASSUME NEW to \in ThreadSteps, NEW from, Steps(t, from, to)
      PROVE  /\ thread[t].step = from /\ thread'[t].step = to
             /\ thread'[t].client = client /\ thread'[t].adj = thread[t].adj
             /\ thread'[t].save = thread[t].save /\ thread'[t].extra = thread[t].extra
  BY <1>a, <1>c DEF Steps, Job
<1>d. ASSUME thread'[t].client = client, UNCHANGED go, thread'[t].step # "idle", ThreadKnows(t)'
      PROVE  AtWork'
  <2>1. \A other \in Threads \ {t} : thread'[other].step = "idle"
    BY ThreadStepFrame DEF ThreadAlone
  <2>2. Busy' = Busy
    BY <1>d DEF Busy
  <2>3. ThreadAlone(t)'
    BY <1>d, <2>1, <2>2 DEF ThreadAlone
  <2>4. QED
    BY <2>3 DEF AtWork
<1>1. CASE SetMin(t)
  <2>1. /\ Steps(t, "min", "max") /\ UNCHANGED <<file, go, cache, shipped>>
        /\ camera' = [camera EXCEPT !.settings.min = thread[t].adj.min]
    BY <1>1 DEF SetMin, OtherState, history
  <2>2. thread[t].step = "min" /\ thread'[t].step = "max"
    BY <1>c, <2>1 DEF ThreadSteps
  <2>3. /\ thread'[t].client = client /\ thread'[t].adj = thread[t].adj
        /\ thread'[t].save = thread[t].save
    BY <1>c, <2>1 DEF ThreadSteps
  <2>4. camera'.up = camera.up /\ camera'.settings.min = thread[t].adj.min
    BY <1>b, <2>1 DEF Adjustment
  <2>5. ThreadKnows(t)'
    BY <2>1, <2>2, <2>3, <2>4 DEF ThreadAlone, ThreadKnows, Whole, Cached
  <2>6. QED
    BY <1>d, <2>1, <2>2, <2>3, <2>5
<1>2. CASE SetMax(t)
  <2>1. /\ Steps(t, "max", "detector") /\ UNCHANGED <<file, go, cache, shipped>>
        /\ camera' = [camera EXCEPT !.settings.max = thread[t].adj.max]
    BY <1>2 DEF SetMax, OtherState, history
  <2>2. thread[t].step = "max" /\ thread'[t].step = "detector"
    BY <1>c, <2>1 DEF ThreadSteps
  <2>3. /\ thread'[t].client = client /\ thread'[t].adj = thread[t].adj
        /\ thread'[t].save = thread[t].save
    BY <1>c, <2>1 DEF ThreadSteps
  <2>4. /\ camera'.up = camera.up /\ camera'.settings.max = thread[t].adj.max
        /\ camera'.settings.min = camera.settings.min
    BY <1>b, <2>1 DEF Adjustment
  <2>5. Even(camera'.settings)
    BY <2>2, <2>4 DEF ThreadAlone, ThreadKnows, Even
  <2>6. ThreadKnows(t)'
    BY <2>1, <2>2, <2>3, <2>4, <2>5 DEF ThreadAlone, ThreadKnows, Whole, Cached
  <2>7. QED
    BY <1>d, <2>1, <2>2, <2>3, <2>6
<1>3. CASE UpdateDetector(t)
  <2> DEFINE to == IF t = "tuner" /\ thread[t].save THEN "merge" ELSE "reply"
  <2>1. /\ Steps(t, "detector", to) /\ UNCHANGED <<file, go, cache, shipped>>
        /\ camera' = [camera EXCEPT !.detector = camera.settings]
    BY <1>3 DEF UpdateDetector, OtherState, history
  <2>2. to \in ThreadSteps /\ to \in {"merge", "reply"} /\ (~thread[t].save => to = "reply")
    BY DEF ThreadSteps
  <2>3. /\ thread[t].step = "detector" /\ thread'[t].step = to
        /\ thread'[t].client = client /\ thread'[t].adj = thread[t].adj
        /\ thread'[t].save = thread[t].save
    <3> HIDE DEF to
    <3>1. QED
      BY <1>c, <2>1, <2>2
  <2>4. Filming'
    BY <1>b, <2>1, <2>3 DEF ThreadAlone, ThreadKnows, Filming
  <2>5. ThreadKnows(t)'
    <3>1. camera'.up
      BY <2>4 DEF Filming
    <3> HIDE DEF to
    <3>2. QED
      BY <2>1, <2>2, <2>3, <2>4, <3>1 DEF ThreadAlone, ThreadKnows, Whole, Cached
  <2>6. QED
    BY <1>d, <2>1, <2>2, <2>3, <2>5
<1>4. CASE PyMerge(t)
  <2>1. thread[t].step = "merge" /\ UNCHANGED <<file, go, camera, cache, shipped>>
    BY <1>4 DEF PyMerge, OtherState, history
  <2>2. /\ thread'[t].step = "truncate" /\ thread'[t].client = client
        /\ thread'[t].adj = thread[t].adj /\ thread'[t].save = thread[t].save
        /\ thread'[t].extra = MergedExtra
    BY <1>4, <1>a DEF PyMerge, Job
  <2>3. MergedExtra = shipped
    BY <2>1 DEF ThreadAlone, ThreadKnows, MergedExtra, Whole, Types, FileTypes, File, HistoryTypes
  <2>4. Filming' /\ thread[t].save
    BY <2>1 DEF ThreadAlone, ThreadKnows, Filming
  <2>5. ThreadKnows(t)'
    BY <2>1, <2>2, <2>3, <2>4 DEF ThreadAlone, ThreadKnows, Whole, Cached
  <2>6. QED
    BY <1>d, <2>1, <2>2, <2>5
<1>5. CASE PyTruncate(t)
  <2>1. /\ Steps(t, "truncate", "write") /\ UNCHANGED <<go, camera, cache, shipped>>
        /\ file'.state = "empty"
    BY <1>5 DEF PyTruncate, OtherState, history, Emptied
  <2>2. thread[t].step = "truncate" /\ thread'[t].step = "write"
    BY <1>c, <2>1 DEF ThreadSteps
  <2>3. /\ thread'[t].client = client /\ thread'[t].adj = thread[t].adj
        /\ thread'[t].save = thread[t].save /\ thread'[t].extra = thread[t].extra
    BY <1>c, <2>1 DEF ThreadSteps
  <2>4. Filming' /\ thread[t].save /\ thread[t].extra = shipped
    BY <2>1, <2>2 DEF ThreadAlone, ThreadKnows, Filming
  <2>5. ThreadKnows(t)'
    BY <2>1, <2>2, <2>3, <2>4 DEF ThreadAlone, ThreadKnows
  <2>6. QED
    BY <1>d, <2>1, <2>2, <2>3, <2>5
<1>6. CASE PyWrite(t)
  <2> DEFINE to == IF t = "calib" THEN "min" ELSE "reply"
  <2>1. Steps(t, "write", to) /\ UNCHANGED <<go, camera, cache, shipped>>
    BY <1>6 DEF PyWrite, OtherState, history
  <2>2. to \in ThreadSteps /\ to \in {"min", "reply"}
    BY DEF ThreadSteps
  <2>3. /\ thread[t].step = "write" /\ thread'[t].step = to
        /\ thread'[t].client = client /\ thread'[t].adj = thread[t].adj
        /\ thread'[t].save = thread[t].save
    <3> HIDE DEF to
    <3>1. QED
      BY <1>c, <2>1, <2>2
  <2>4. file' = [state |-> "whole", adj |-> thread[t].adj, extra |-> thread[t].extra]
    BY <1>6, <2>3, WriteCompletes DEF PyWrite, ThreadAlone, ThreadKnows
  <2>5. Whole' /\ Filming' /\ thread[t].save
    BY <2>1, <2>3, <2>4 DEF ThreadAlone, ThreadKnows, Whole, Filming
  <2>6. ThreadKnows(t)'
    <3> HIDE DEF to
    <3>1. QED
      BY <2>1, <2>2, <2>3, <2>5 DEF ThreadAlone, ThreadKnows
  <2>7. QED
    BY <1>d, <2>1, <2>2, <2>3, <2>6
<1>7. CASE Reply(t)
  <2>1. /\ thread[t].step = "reply" /\ UNCHANGED <<file, camera, cache, shipped>>
        /\ thread' = [thread EXCEPT ![t] = NoJob]
    BY <1>7 DEF Reply, OtherState, history
  <2>2. ThreadsRest'
    BY <1>a, <2>1 DEF ThreadsRest, ThreadAlone, NoJob
  <2>3. PICK h \in Handlers : h = client
    BY DEF ThreadAlone
  <2>4. h \in Goroutines /\ Busy = {h} /\ Even(go[h].adj)
    BY <2>3 DEF ThreadAlone, Goroutines
  <2>5. \A other \in Goroutines \ {h} : go'[other] = go[other]
    BY <1>7, <2>3 DEF Reply
  <2>6. Whole' /\ Filming' /\ (~thread[t].save => Cached')
    BY <2>1 DEF ThreadAlone, ThreadKnows, Whole, Filming, Cached
  <2>7. CASE thread[t].save
    <3>1. go'[h] = [go[h] EXCEPT !.step = "load"]
      BY <1>7, <2>3, <2>4, <2>7 DEF Reply
    <3>2. go'[h].step = "load" /\ go'[h].adj = go[h].adj
      BY <2>4, <3>1, GoroutineFields DEF Goroutine
    <3>3. GoKnows(h)'
      BY <2>4, <2>6, <3>2 DEF GoKnows
    <3>4. Busy' = {h}
      BY <2>4, <2>5, <3>2, BusyIs
    <3>5. GoAlone(h)'
      BY <2>2, <3>2, <3>3, <3>4 DEF GoAlone
    <3>6. QED
      BY <2>4, <3>5 DEF AtWork
  <2>8. CASE ~thread[t].save
    <3>1. go'[h].step = "idle"
      BY <1>7, <2>3, <2>4, <2>8 DEF Reply, Idle
    <3>2. Busy' = {}
      BY <2>4, <2>5, <3>1, BusyIs
    <3>3. Resting'
      BY <2>2, <2>6, <2>8, <3>2 DEF Resting
    <3>4. QED
      BY <3>3 DEF AtWork
  <2>9. QED
    BY <2>7, <2>8
<1>8. QED
  BY <1>1, <1>2, <1>3, <1>4, <1>5, <1>6, <1>7 DEF ThreadStep

\* A goroutine alone finds its thread at leisure, and leaves it the work; a
\* calibration may also fail at once.
LEMMA AsksAlone ==
    ASSUME Types, NEW h \in Handlers, GoAlone(h), Calibrate(h) \/ Tune(h)
    PROVE  AtWork'
<1>a. h \in Goroutines /\ go[h] \in Goroutine /\ go \in [Goroutines -> Goroutine]
  BY DEF Types, GoTypes, Goroutines
<1>b. thread \in [Threads -> Job]
  BY DEF Types, CameraTypes
<1>c. Busy = {h} /\ ThreadsRest /\ Even(go[h].adj)
  BY DEF GoAlone, GoKnows
<1>d. go[h].step = "ask" /\ UNCHANGED <<file, cache, camera, shipped>>
  BY DEF Calibrate, Tune, OtherState, history
<1>e. Whole /\ Cached /\ Filming /\ Whole' /\ Cached' /\ Filming'
  <2>1. Whole /\ Cached /\ Filming
    BY <1>d DEF GoAlone, GoKnows
  <2>2. QED
    BY <1>d, <2>1 DEF Whole, Cached, Filming
<1>f. ASSUME NEW t \in Threads, NEW job \in Job, job.client = h, Even(job.adj),
             job.step \in {"merge", "min"}, job.step = "merge" => job.save,
             thread' = [thread EXCEPT ![t] = job],
             go' = [go EXCEPT ![h] = [go[h] EXCEPT !.step = "wait"]]
      PROVE  ThreadAlone(t)'
  <2>1. go'[h].step = "wait" /\ go'[h].adj = go[h].adj
    BY <1>a, <1>f DEF Goroutine
  <2>2. \A other \in Goroutines \ {h} : go'[other] = go[other]
    BY <1>a, <1>f
  <2>3. Busy' = {h}
    BY <1>a, <1>c, <2>1, <2>2, BusyIs
  <2>4. thread'[t] = job /\ \A other \in Threads \ {t} : thread'[other].step = "idle"
    BY <1>b, <1>c, <1>f DEF ThreadsRest
  <2>5. ThreadKnows(t)'
    <3>1. camera'.up
      BY <1>e DEF Filming
    <3>2. QED
      BY <1>e, <1>f, <2>4, <3>1 DEF ThreadKnows
  <2>6. QED
    BY <1>c, <1>f, <2>1, <2>3, <2>4, <2>5 DEF ThreadAlone
<1>1. CASE Calibrate(h)
  <2>1. PICK job \in CalibrationJobs(h) :
           /\ thread' = [thread EXCEPT !["calib"] = job]
           /\ go' = [go EXCEPT ![h] = IF job = NoJob THEN Idle ELSE [@ EXCEPT !.step = "wait"]]
    BY <1>1 DEF Calibrate
  <2>2. job \in Job /\ "calib" \in Threads
    BY <2>1, JobsAreTyped DEF Types, Threads
  <2>3. CASE job = NoJob
    <3>1. go' = [go EXCEPT ![h] = Idle]
      BY <2>1, <2>3
    <3>2. go'[h].step = "idle" /\ \A other \in Goroutines \ {h} : go'[other] = go[other]
      BY <1>a, <3>1 DEF Idle
    <3>3. Busy' = {}
      BY <1>a, <1>c, <3>2, BusyIs
    <3>4. ThreadsRest'
      BY <1>b, <1>c, <2>1, <2>3 DEF ThreadsRest, NoJob
    <3>5. Resting'
      BY <1>e, <3>3, <3>4 DEF Resting
    <3>6. QED
      BY <3>5 DEF AtWork
  <2>4. CASE job # NoJob
    <3>1. PICK w \in 0..MaxWidth :
             job = [NoJob EXCEPT !.step = "merge", !.adj = Both(w), !.save = TRUE, !.client = h]
      BY <2>1, <2>4 DEF CalibrationJobs
    <3>2. job.step = "merge" /\ job.adj = Both(w) /\ job.save /\ job.client = h
      BY <3>1 DEF NoJob
    <3>3. go' = [go EXCEPT ![h] = [go[h] EXCEPT !.step = "wait"]]
      BY <2>1, <2>4
    <3>4. Even(job.adj)
      BY <3>2, EvenRanges
    <3>5. ThreadAlone("calib")'
      BY <1>f, <2>1, <2>2, <3>2, <3>3, <3>4
    <3>6. QED
      BY <2>2, <3>5 DEF AtWork
  <2>5. QED
    BY <2>3, <2>4
<1>2. CASE Tune(h)
  <2> DEFINE job == TunerJob(h, go[h])
  <2>1. /\ thread' = [thread EXCEPT !["tuner"] = job]
        /\ go' = [go EXCEPT ![h] = [go[h] EXCEPT !.step = "wait"]]
    BY <1>2 DEF Tune
  <2>2. job \in Job /\ "tuner" \in Threads
    BY <1>a, JobsAreTyped DEF Threads, Types
  <2>3. job.step = "min" /\ job.client = h
    BY DEF TunerJob, NoJob
  <2>4. job.adj = IF go[h].op = "set" THEN go[h].adj ELSE Widened(camera.settings)
    BY DEF TunerJob, NoJob
  <2>5. Even(Widened(camera.settings))
    BY <1>e, EvenRanges DEF Filming, Types, CameraTypes
  <2>6. Even(job.adj)
    BY <1>c, <2>4, <2>5
  <2>7. ThreadAlone("tuner")'
    <3> HIDE DEF job
    <3>1. QED
      BY <1>f, <2>1, <2>2, <2>3, <2>6
  <2>8. QED
    BY <2>2, <2>7 DEF AtWork
<1>3. QED
  BY <1>1, <1>2

\* A connection comes when nobody is at work, or the calm is over.
LEMMA RequestAlone ==
    ASSUME Types, AtWork, Requests, calm'
    PROVE  AtWork'
<1>1. PICK h \in Handlers : \E op, w, save : Request(h, op, w, save)
  BY DEF Requests
<1>2. PICK op, w, save : Request(h, op, w, save)
  BY <1>1
<1>3. /\ Busy = {} /\ ThreadsRest /\ UNCHANGED <<file, cache, camera, thread, shipped>>
      /\ go[h].step = "idle"
  BY <1>2 DEF Request, ThreadsRest
<1>4. Resting
  BY <1>3 DEF AtWork, GoAlone, ThreadAlone
<1>5. Whole' /\ Cached' /\ Filming' /\ ThreadsRest'
  BY <1>3, <1>4 DEF Resting, Whole, Cached, Filming, ThreadsRest
<1>6. h \in Goroutines /\ go \in [Goroutines -> Goroutine]
  BY DEF Goroutines, Types, GoTypes
<1> DEFINE step == CASE op = "get" -> "get" [] op = "change" -> "merge"
                    [] op = "restart" -> "kill" [] OTHER -> "ask"
           new == [Idle EXCEPT !.op = op, !.step = step, !.adj = Both(w), !.save = save]
<1>7. go' = [go EXCEPT ![h] = new]
  BY <1>2 DEF Request
<1>8. step \in {"get", "merge", "kill", "ask"}
  OBVIOUS
<1>9. new.step = step /\ new.adj = Both(w)
  <2> HIDE DEF step
  <2>1. QED
    BY DEF Idle
<1> HIDE DEF new, step
<1>10. go'[h] = new /\ \A other \in Goroutines \ {h} : go'[other] = go[other]
  BY <1>6, <1>7
<1>11. Busy' = {h}
  BY <1>3, <1>6, <1>8, <1>9, <1>10, BusyIs
<1>12. GoKnows(h)'
  BY <1>5, <1>8, <1>9, <1>10, EvenRanges DEF GoKnows
<1>13. GoAlone(h)'
  BY <1>5, <1>8, <1>9, <1>10, <1>11, <1>12 DEF GoAlone
<1>14. QED
  BY <1>6, <1>13 DEF AtWork

\* When the robot boots, only RunServer's load is at work.
LEMMA InitAlone == Init => OneAtATime
<1> SUFFICES ASSUME Init
             PROVE  NobodyLate /\ GoAlone("mw") /\ "mw" \in Goroutines
  BY DEF OneAtATime, AtWork
<1> USE DEF Init
<1>1. NobodyLate /\ ThreadsRest /\ "mw" \in Goroutines
  BY DEF NobodyLate, ThreadsRest, NoJob, Goroutines
<1>2. go["mw"].step = "load" /\ go["mw"].adj = DefaultAdjustment
  BY <1>1 DEF Idle
<1>3. Busy = {"mw"}
  BY <1>1, <1>2 DEF Busy, Idle
<1>4. Whole \/ Unborn
  BY EvenRanges DEF Whole, Unborn
<1>5. Filming
  BY EvenRanges DEF Filming
<1>6. GoKnows("mw")
  BY <1>2, <1>4, <1>5, EvenRanges DEF GoKnows
<1>7. QED
  BY <1>1, <1>2, <1>3, <1>6 DEF GoAlone

\* Steps that keep the history calm keep one at a time at work.
LEMMA NextAlone == CalmInv /\ [Next]_vars => OneAtATime'
<1> SUFFICES ASSUME CalmInv, [Next]_vars, calm'
             PROVE  NobodyLate' /\ AtWork'
  BY DEF OneAtATime
<1>a. Types
  BY DEF CalmInv
<1>1. CASE UNCHANGED vars
  <2>1. calm /\ UNCHANGED <<file, cache, go, camera, thread, late, shipped>>
    BY <1>1 DEF vars
  <2>2. NobodyLate /\ AtWork
    BY <2>1 DEF CalmInv, OneAtATime
  <2>3. QED
    BY <2>1, <2>2 DEF NobodyLate, AtWork, Resting, GoAlone, ThreadAlone, GoKnows, ThreadKnows,
       Busy, ThreadsRest, Whole, Unborn, Cached, Filming
<1>2. CASE Requests
  <2>1. calm /\ UNCHANGED late
    BY <1>2 DEF Requests, Request
  <2>2. NobodyLate /\ AtWork
    BY <2>1 DEF CalmInv, OneAtATime
  <2>3. QED
    BY <1>2, <1>a, <2>1, <2>2, RequestAlone DEF NobodyLate
<1>3. ASSUME NEW g \in Goroutines, GoStep(g)
      PROVE  NobodyLate' /\ AtWork'
  <2>1. calm /\ (UNCHANGED late \/ late' = [t \in Threads |-> <<>>])
    BY <1>3 DEF GoStep, GetAdjustment, Load, SaveMerge, SaveTruncate, SaveWrite, Store, Kill,
       Start, history
  <2>2. NobodyLate /\ AtWork
    BY <2>1 DEF CalmInv, OneAtATime
  <2>3. NobodyLate'
    BY <2>1, <2>2 DEF NobodyLate
  <2>4. g \in Busy /\ go[g].step # "wait"
    BY <1>3, GoStepBusy
  <2>5. GoAlone(g)
    BY <2>2, <2>4 DEF AtWork, Resting, GoAlone, ThreadAlone
  <2>6. QED
    BY <1>3, <1>a, <2>3, <2>5, GoAloneStep DEF AtWork
<1>4. ASSUME NEW h \in Handlers, Asks(h)
      PROVE  NobodyLate' /\ AtWork'
  <2>1. Calibrate(h) \/ Tune(h)
    BY <1>4 DEF Asks, CalibrationFails, TunerFails, Abandons
  <2>2. calm /\ UNCHANGED late /\ go[h].step = "ask"
    BY <2>1 DEF Calibrate, Tune, OtherState, history
  <2>3. NobodyLate /\ AtWork
    BY <2>2 DEF CalmInv, OneAtATime
  <2>4. h \in Busy
    BY <1>4, AsksBusy
  <2>5. GoAlone(h)
    BY <2>2, <2>3, <2>4 DEF AtWork, Resting, GoAlone, ThreadAlone
  <2>6. QED
    BY <1>a, <2>1, <2>2, <2>3, <2>5, AsksAlone DEF NobodyLate
<1>5. ASSUME NEW t \in Threads, ThreadStep(t)
      PROVE  NobodyLate' /\ AtWork'
  <2>1. calm /\ UNCHANGED late
    BY <1>5 DEF ThreadStep, SetMin, SetMax, UpdateDetector, PyMerge, PyTruncate, PyWrite,
       Reply, OtherState, history
  <2>2. NobodyLate /\ AtWork
    BY <2>1 DEF CalmInv, OneAtATime
  <2>3. thread[t].step # "idle"
    BY <1>5, ThreadStepWorks
  <2>4. ThreadAlone(t)
    BY <2>2, <2>3 DEF AtWork, Resting, GoAlone, ThreadAlone, ThreadsRest
  <2>5. QED
    BY <1>5, <1>a, <2>1, <2>2, <2>4, ThreadAloneStep DEF NobodyLate
<1>6. ASSUME NEW t \in Threads, ServeLate(t)
      PROVE  FALSE
  BY <1>6 DEF ServeLate, CalmInv, OneAtATime, NobodyLate, history
<1>7. QED
  BY <1>1, <1>2, <1>3, <1>4, <1>5, <1>6 DEF Next

\* Requests that come one at a time, and are all answered, leave threshold.json
\* whole with its extra keys, the cache in step with it, and the detector on the
\* camera's settings: for any number of handlers and requests.
THEOREM OneAtATimeAgrees == Spec => []SettledAgrees
<1>1. Init => CalmInv
  BY InitTypes, InitAlone DEF CalmInv
<1>2. CalmInv /\ [Next]_vars => CalmInv'
  BY NextTypes, NextAlone DEF CalmInv
<1>3. CalmInv => SettledAgrees
  <2> SUFFICES ASSUME CalmInv, calm, Settled
               PROVE  Resting
    BY DEF SettledAgrees, Resting, Whole, Cached, Filming, Even
  <2>1. Busy = {} /\ ThreadsRest
    BY DEF Settled, ThreadsRest
  <2>2. QED
    BY <2>1 DEF CalmInv, OneAtATime, AtWork, GoAlone, ThreadAlone
<1>4. QED
  BY <1>1, <1>2, <1>3, PTL DEF Spec

=================================================================================
