----------------------------- MODULE ThresholdFile -----------------------------
(***************************************************************************)
(* threshold.json, which two processes read, merge and rewrite without a    *)
(* lock between them:                                                       *)
(*                                                                         *)
(*   the Go process     mw.RunServer's first load, and one goroutine per    *)
(*                      API request;                                        *)
(*   the camera process its calibration thread and its tuner thread, which  *)
(*                      share CameraContext.settings and the detector.      *)
(*                                                                         *)
(* A rewrite is read-merge, truncate, write: between the last two the file  *)
(* is empty, and a write over another one's text may leave that text's tail *)
(* behind.  Go's json.NewDecoder reads past such a tail, json.Unmarshal     *)
(* (the merge) and Python's json.load do not.                               *)
(*                                                                         *)
(* A threshold is how permissive it is, 0 being the default; a request asks *)
(* for the same one at both ends of the range, so that a range mixed from   *)
(* two requests shows.  The extra keys (cameraFlip180, cameraGain, ...) are *)
(* present or lost.                                                         *)
(*                                                                         *)
(* A camera thread serves one connection at a time.  The others wait in its *)
(* socket's backlog with their request already written, and one whose client *)
(* has timed out is carried out like any other when its turn comes.         *)
(***************************************************************************)
EXTENDS Naturals, FiniteSets, Sequences

CONSTANTS
    Handlers,    \* API connections being served at the same time
    NoHandler,   \* a camera thread serves nobody who still listens
    MaxWidth,    \* bound: the most permissive threshold
    MaxRequests, \* bound: the API requests of a behaviour
    MaxTries     \* bound: requestTuner's attempts (the code makes 5)

ASSUME HandlerAssumption == NoHandler \notin Handlers \cup {"mw"}
ASSUME BoundAssumption == MaxWidth \in Nat /\ MaxRequests \in Nat /\ MaxTries \in Nat \ {0}

VARIABLES
    file,    \* threshold.json
    cache,   \* currentAdjustment, and whether adjustmentLoaded
    go,      \* each goroutine: where it is, its request, what it has read
    camera,  \* the camera process: its settings and its detector
    thread,  \* each camera thread: where it is, its request, whom it answers
    late,    \* each backlog: the requests in it that their clients have given up
    requests,\* bound: the requests made
    \* History variables: no action reads them.
    shipped, \* the file was there, with extra keys, when the robot booted
    calm,    \* no request has overlapped another, or was given up
    cut      \* a kill has come between a truncate and its write

vars == <<file, cache, go, camera, thread, late, requests, shipped, calm, cut>>

history == <<shipped, calm, cut>>

Goroutines == Handlers \cup {"mw"}
Threads == {"calib", "tuner"}
Adjustment == [min: 0..MaxWidth, max: 0..MaxWidth]
Both(w) == [min |-> w, max |-> w]
DefaultAdjustment == Both(0)

Ops == {"boot", "get", "change", "restart", "calib", "set", "relax"}
ThreadOf(op) == IF op = "calib" THEN "calib" ELSE "tuner"

GoSteps == {"idle", "get", "merge", "truncate", "write", "load", "store", "ask", "wait",
            "kill", "start"}
ThreadSteps == {"idle", "min", "max", "detector", "merge", "truncate", "write", "reply"}

TypeOK ==
    /\ file \in [state: {"missing", "empty", "whole", "tail"}, adj: Adjustment,
                 extra: BOOLEAN]
    /\ cache \in [loaded: BOOLEAN, adj: Adjustment]
    /\ go \in [Goroutines -> [step: GoSteps, op: Ops, adj: Adjustment, save: BOOLEAN,
                              extra: BOOLEAN, tries: 1..MaxTries]]
    /\ camera \in [up: BOOLEAN, settings: Adjustment, detector: Adjustment,
                   extra: BOOLEAN]
    /\ thread \in [Threads -> [step: ThreadSteps, adj: Adjustment, save: BOOLEAN,
                               extra: BOOLEAN, client: Handlers \cup {NoHandler}]]
    /\ late \in [Threads -> Seq([op: Ops, adj: Adjustment, save: BOOLEAN])]
    /\ requests \in 0..MaxRequests
    /\ shipped \in BOOLEAN /\ calm \in BOOLEAN /\ cut \in BOOLEAN

Idle == [step |-> "idle", op |-> "get", adj |-> DefaultAdjustment, save |-> FALSE,
              extra |-> FALSE, tries |-> 1]
NoJob == [step |-> "idle", adj |-> DefaultAdjustment, save |-> FALSE, extra |-> FALSE,
          client |-> NoHandler]

\* The robot boots: RunServer is about to load the file, api.Run has started
\* the camera process.
Init ==
    /\ shipped \in BOOLEAN
    /\ file = [state |-> IF shipped THEN "whole" ELSE "missing",
               adj |-> DefaultAdjustment, extra |-> shipped]
    /\ cache = [loaded |-> FALSE, adj |-> DefaultAdjustment]
    /\ go = [g \in Goroutines |->
               IF g = "mw" THEN [Idle EXCEPT !.step = "load", !.op = "boot"] ELSE Idle]
    /\ camera = [up |-> TRUE, settings |-> DefaultAdjustment,
                 detector |-> DefaultAdjustment, extra |-> shipped]
    /\ thread = [t \in Threads |-> NoJob]
    /\ late = [t \in Threads |-> <<>>]
    /\ requests = 0
    /\ calm = TRUE /\ cut = FALSE

-----------------------------------------------------------------------------
(***************************************************************************)
(* The file                                                                 *)
(***************************************************************************)

\* Mutant: the file is overwritten with the writer's own keys.
MergedNothing == FALSE

\* A merge starts from the file's keys, or from none when it does not parse.
MergedExtra == file.state = "whole" /\ file.extra

Emptied == [state |-> "empty", adj |-> DefaultAdjustment, extra |-> FALSE]

\* What a write at offset 0 leaves: on another writer's text, maybe its tail.
Written(adj, extra) ==
    {[state |-> s, adj |-> adj, extra |-> extra] :
        s \in IF file.state = "empty" THEN {"whole"} ELSE {"whole", "tail"}}

-----------------------------------------------------------------------------
(***************************************************************************)
(* The Go process                                                           *)
(***************************************************************************)
Goes(g, from, to) ==
    /\ go[g].step = from
    /\ go' = [go EXCEPT ![g] = IF to = "idle" THEN Idle ELSE [@ EXCEPT !.step = to]]

Busy == {g \in Goroutines : go[g].step # "idle"}

\* A connection is accepted and its path parsed.
Request(h, op, w, save) ==
    /\ h \in Handlers
    /\ requests < MaxRequests /\ requests' = requests + 1
    /\ go[h].step = "idle"
    /\ go' = [go EXCEPT ![h] = [Idle EXCEPT
                 !.op = op,
                 !.step = CASE op = "get" -> "get" [] op = "change" -> "merge"
                            [] op = "restart" -> "kill" [] OTHER -> "ask",
                 !.adj = Both(w), !.save = save]]
    /\ calm' = (calm /\ Busy = {} /\ \A t \in Threads : thread[t].step = "idle")
    /\ UNCHANGED <<file, cache, camera, thread, late, shipped, cut>>

\* GetAdjustment: from the cache, which only the first use may find empty.
GetAdjustment(g) ==
    /\ Goes(g, "get", IF cache.loaded THEN "idle" ELSE "load")
    /\ UNCHANGED <<file, cache, camera, thread, late, requests, history>>

\* loadOrCreateThresholdConfig: a file that is not there is created with the
\* defaults, one that does not decode is read as the defaults.
Load(g) ==
    /\ go[g].step = "load"
    /\ go' = [go EXCEPT
          ![g].step = IF file.state = "missing" THEN "merge" ELSE "store",
          ![g].adj = IF file.state \in {"whole", "tail"} THEN file.adj
                                                          ELSE DefaultAdjustment]
    /\ UNCHANGED <<file, cache, camera, thread, late, requests, history>>

\* saveAdjustmentConfig: read and merge, then os.WriteFile.
SaveMerge(g) ==
    /\ go[g].step = "merge"
    /\ go' = [go EXCEPT ![g].step = "truncate", ![g].extra = MergedExtra]
    /\ UNCHANGED <<file, cache, camera, thread, late, requests, history>>

SaveTruncate(g) ==
    /\ Goes(g, "truncate", "write")
    /\ file' = Emptied
    /\ UNCHANGED <<cache, camera, thread, late, requests, history>>

SaveWrite(g) ==
    /\ Goes(g, "write", IF go[g].op = "change" THEN "load" ELSE "store")
    /\ file' \in Written(go[g].adj, go[g].extra)
    /\ UNCHANGED <<cache, camera, thread, late, requests, history>>

\* The end of ReloadAdjustment: the cache has a lock, the load before it none.
Store(g) ==
    /\ Goes(g, "store", IF go[g].op = "change" THEN "kill" ELSE "idle")
    /\ cache' = [loaded |-> TRUE, adj |-> go[g].adj]
    /\ UNCHANGED <<file, camera, thread, late, requests, history>>

\* restartPythonProcess kills the camera process wherever its threads are.
Kill(g) ==
    /\ Goes(g, "kill", "start")
    /\ camera' = [camera EXCEPT !.up = FALSE]
    /\ thread' = [t \in Threads |-> NoJob]
    /\ late' = [t \in Threads |-> <<>>]
    /\ cut' = (cut \/ \E t \in Threads : thread[t].step = "write")
    /\ UNCHANGED <<file, cache, requests, shipped, calm>>

\* The new camera process runs load_settings; one that finds the camera device
\* taken by another exits.
Start(g) ==
    /\ Goes(g, "start", "idle")
    /\ camera' = IF camera.up THEN camera
                 ELSE LET adj == IF file.state = "whole" THEN file.adj ELSE DefaultAdjustment
                      IN [up |-> TRUE, settings |-> adj, detector |-> adj,
                          extra |-> MergedExtra]
    /\ UNCHANGED <<file, cache, thread, late, requests, history>>

\* The client of a request in the backlog or in a thread's hands goes away, after
\* a timeout or because there is no camera process to answer.
Abandons(h) ==
    LET t == ThreadOf(go[h].op)
    IN /\ \/ go[h].step = "wait"
          \/ go[h].step = "ask" /\ (camera.up => thread[t].step # "idle")
       /\ late' = IF go[h].step = "ask" /\ camera.up
                  THEN [late EXCEPT ![t] = Append(@, [op |-> go[h].op, adj |-> go[h].adj,
                                                      save |-> go[h].save])]
                  ELSE late
       /\ thread' = [thread EXCEPT ![t].client = IF @ = h THEN NoHandler ELSE @]
       /\ calm' = FALSE
       /\ UNCHANGED <<file, cache, camera, requests, shipped, cut>>

\* requestCalibration fails.
CalibrationFails(h) ==
    /\ go[h].op = "calib"
    /\ Abandons(h)
    /\ go' = [go EXCEPT ![h] = Idle]

\* Mutant: the attempts are not counted.
TunerAsksAgain(h) ==
    /\ go[h].op # "calib"
    /\ Abandons(h)
    /\ go' = [go EXCEPT ![h].step = "ask"]

\* requestTunerOnce fails, and requestTuner asks again.
TunerFails(h) ==
    /\ go[h].op # "calib"
    /\ Abandons(h)
    /\ go' = [go EXCEPT ![h] = IF @.tries < MaxTries
                              THEN [go[h] EXCEPT !.step = "ask", !.tries = @ + 1]
                              ELSE Idle]

-----------------------------------------------------------------------------
(***************************************************************************)
(* The camera process: one thread serves calibrations, one the tuner, each  *)
(* one connection at a time.                                                *)
(***************************************************************************)
Steps(t, from, to) == thread[t].step = from /\ thread' = [thread EXCEPT ![t].step = to]

OtherState == <<cache, late, requests, history>>

Widened(adj) == [end \in {"min", "max"} |->
                    IF adj[end] < MaxWidth THEN adj[end] + 1 ELSE adj[end]]

\* run_calibration comes to a result (any range) or fails, before it saves.
CalibrationJobs(h) ==
    {NoJob} \cup {[NoJob EXCEPT !.step = "merge", !.adj = Both(w), !.save = TRUE, !.client = h] :
                     w \in 0..MaxWidth}

\* "set" and "relax": relax_thresholds widens what the settings are now.
TunerJob(h, request) ==
    [NoJob EXCEPT !.step = "min", !.save = request.save, !.client = h,
                  !.adj = IF request.op = "set" THEN request.adj
                          ELSE Widened(camera.settings)]

\* A thread accepts the connection of a client that waits.
Calibrate(h) ==
    /\ go[h].step = "ask" /\ go[h].op = "calib"
    /\ camera.up /\ thread["calib"].step = "idle"
    /\ \E job \in CalibrationJobs(h) :
          /\ thread' = [thread EXCEPT !["calib"] = job]
          /\ go' = [go EXCEPT ![h] = IF job = NoJob THEN Idle ELSE [@ EXCEPT !.step = "wait"]]
    /\ UNCHANGED <<file, camera, OtherState>>

Tune(h) ==
    /\ go[h].step = "ask" /\ go[h].op \in {"set", "relax"}
    /\ camera.up /\ thread["tuner"].step = "idle"
    /\ thread' = [thread EXCEPT !["tuner"] = TunerJob(h, go[h])]
    /\ go' = [go EXCEPT ![h].step = "wait"]
    /\ UNCHANGED <<file, camera, OtherState>>

\* ... or of one that has gone: nothing in the request tells.
ServeLate(t) ==
    /\ late[t] # <<>>
    /\ camera.up /\ thread[t].step = "idle"
    /\ \E job \in IF t = "calib" THEN CalibrationJobs(NoHandler)
                                 ELSE {TunerJob(NoHandler, Head(late[t]))} :
          thread' = [thread EXCEPT ![t] = job]
    /\ late' = [late EXCEPT ![t] = Tail(@)]
    /\ UNCHANGED <<file, go, camera, cache, requests, history>>

\* Both threads write the settings without CameraContext.lock, min then max...
SetMin(t) ==
    /\ Steps(t, "min", "max")
    /\ camera' = [camera EXCEPT !.settings.min = thread[t].adj.min]
    /\ UNCHANGED <<file, go, OtherState>>

SetMax(t) ==
    /\ Steps(t, "max", "detector")
    /\ camera' = [camera EXCEPT !.settings.max = thread[t].adj.max]
    /\ UNCHANGED <<file, go, OtherState>>

\* ... and hand them to the detector under it.  The tuner saves after that, the
\* calibration has saved before.
UpdateDetector(t) ==
    /\ Steps(t, "detector", IF t = "tuner" /\ thread[t].save THEN "merge" ELSE "reply")
    /\ camera' = [camera EXCEPT !.detector = camera.settings]
    /\ UNCHANGED <<file, go, OtherState>>

\* save_thresholds.
PyMerge(t) ==
    /\ thread[t].step = "merge"
    /\ thread' = [thread EXCEPT ![t].step = "truncate", ![t].extra = MergedExtra]
    /\ UNCHANGED <<file, go, camera, OtherState>>

\* Mutant: the file is opened for writing, then json.dump fails.
PyTruncateOnly(t) ==
    /\ Steps(t, "truncate", "reply")
    /\ file' = Emptied
    /\ UNCHANGED <<go, camera, OtherState>>

PyTruncate(t) ==
    /\ Steps(t, "truncate", "write")
    /\ file' = Emptied
    /\ UNCHANGED <<go, camera, OtherState>>

PyWrite(t) ==
    /\ Steps(t, "write", IF t = "calib" THEN "min" ELSE "reply")
    /\ file' \in Written(thread[t].adj, thread[t].extra)
    /\ UNCHANGED <<go, camera, OtherState>>

\* The answer: the handler reloads the cache when the thresholds were saved.
Reply(t) ==
    /\ thread[t].step = "reply"
    /\ thread' = [thread EXCEPT ![t] = NoJob]
    /\ go' = [g \in Goroutines |->
                IF g = thread[t].client
                THEN IF thread[t].save THEN [go[g] EXCEPT !.step = "load"] ELSE Idle
                ELSE go[g]]
    /\ UNCHANGED <<file, camera, OtherState>>

-----------------------------------------------------------------------------
GoStep(g) ==
    \/ GetAdjustment(g) \/ Load(g) \/ SaveMerge(g) \/ SaveTruncate(g) \/ SaveWrite(g)
    \/ Store(g) \/ Kill(g) \/ Start(g)

ThreadStep(t) ==
    \/ SetMin(t) \/ SetMax(t) \/ UpdateDetector(t)
    \/ PyMerge(t) \/ PyTruncate(t) \/ PyWrite(t) \/ Reply(t)

Requests ==
    \E h \in Handlers :
       \/ Request(h, "get", 0, FALSE) \/ Request(h, "calib", 0, TRUE)
       \/ Request(h, "restart", 0, FALSE)
       \/ \E w \in 0..MaxWidth : Request(h, "change", w, TRUE)
       \/ \E w \in 0..MaxWidth, save \in BOOLEAN : Request(h, "set", w, save)
       \/ \E save \in BOOLEAN : Request(h, "relax", 0, save)

Asks(h) == Calibrate(h) \/ Tune(h) \/ CalibrationFails(h) \/ TunerFails(h)

Next ==
    \/ Requests
    \/ \E g \in Goroutines : GoStep(g)
    \/ \E h \in Handlers : Asks(h)
    \/ \E t \in Threads : ThreadStep(t) \/ ServeLate(t)

Spec == Init /\ [][Next]_vars

\* Goroutines and threads are scheduled, and an attempt ends by an answer or by
\* its deadline.
FairSpec ==
    /\ Spec
    /\ \A g \in Goroutines : WF_vars(GoStep(g))
    /\ \A h \in Handlers : WF_vars(Asks(h))
    /\ \A t \in Threads : WF_vars(ThreadStep(t) \/ ServeLate(t))

-----------------------------------------------------------------------------
(***************************************************************************)
(* Properties                                                               *)
(***************************************************************************)
Settled == Busy = {} /\ \A t \in Threads : thread[t].step = "idle" /\ late[t] = <<>>

\* Requests that come one at a time and are all answered leave the four copies
\* of the thresholds consistent: the file is whole and has kept its extra keys,
\* the status frames' cache is what the file says, and the detector runs on the
\* camera's settings, with both ends of its range from one request.  (The
\* camera's may be a preview nobody saved.  Overlapping requests can leave the
\* detector with one end from the calibration and one from the tuner.)
SettledAgrees ==
    calm /\ Settled =>
       /\ file.state = "whole" /\ file.extra = shipped
       /\ cache = [loaded |-> TRUE, adj |-> file.adj]
       /\ camera.up /\ camera.detector = camera.settings
       /\ camera.detector.min = camera.detector.max

\* However they overlap, requests leave an empty file behind only when a restart
\* killed the camera process between its truncate and its write: a write always
\* follows the last truncate otherwise.  (As long as the Go program runs: its own
\* end between its truncate and its write is not modelled.)
EmptyOnlyWhileWritten ==
    file.state = "empty" =>
       \/ cut
       \/ \E g \in Goroutines : go[g].step = "write"
       \/ \E t \in Threads : thread[t].step = "write"

\* No API request is held for ever, however camera processes are killed, threads
\* are busy and attempts time out.
RequestsEnd == \A g \in Goroutines : []<>(go[g].step = "idle")

\* "Preserve any extra keys" (mw.go:183), "Other existing keys in the file are
\* preserved" (settings.py:122): a rewrite never loses the keys of the others.
ExtraKeysPreserved == shipped /\ file.state = "whole" => file.extra

================================================================================
