------------------------------- MODULE BallReport -------------------------------
(***************************************************************************)
(* The ball on its way from the camera process to those who are told:       *)
(*                                                                         *)
(*   camera/main.py          detects, and sends a datagram per frame;       *)
(*   receive.ReceiveData     points ImageDataPtr at each datagram it gets;  *)
(*   mw.sendStatusToMW, api.buildStatusResponse, link.PrepareSendData       *)
(*                           report the ball to the PC, to the API's caller *)
(*                           and to the motor board.                        *)
(*                                                                         *)
(* ImageDataPtr has no lock.  A reader dereferences it anew for the flag,   *)
(* for x and for y, and ReceiveData may replace it in between.              *)
(*                                                                         *)
(* While something is wrong with the camera nothing comes of a frame: it     *)
(* cannot be captured, or not encoded, or its datagram not decoded (one of  *)
(* more than 20240 bytes arrives cut off).                                  *)
(*                                                                         *)
(* A coordinate is "seen" or BallCoordMissing; the image itself and the     *)
(* scaling of a coordinate to a byte are left out.                          *)
(***************************************************************************)
EXTENDS BallDetector

CONSTANT Readers \* of the three, those under consideration

VARIABLES
    picture,  \* what the camera sees
    camera,   \* the camera process is running
    fault,    \* what fails at present
    detector, \* its BallDetector
    net,      \* the datagram in the socket's buffer, if any
    image,    \* what ImageDataPtr points to
    reader,   \* each reader: where it is, and what it has read
    report,   \* what each last reported
    \* History variables: no action reads them.
    tracked,  \* where the last ball was found, since the detector was fresh
    missed    \* the frames searched in a row in which a ball without clutter was missed

cameraVars == <<picture, camera, fault, detector, tracked, missed>>
vars == <<cameraVars, net, image, reader, report>>

Faults == {"none", "capture", "encode", "decode"}
Coordinate == {"seen", "missing"}
Ball == [ball: BOOLEAN, x: Coordinate, y: Coordinate]
NoBall == [ball |-> FALSE, x |-> "missing", y |-> "missing"]

\* torn is history: ImageDataPtr was replaced between the reads.
Read == [data: Ball, torn: BOOLEAN]
NothingRead == [data |-> NoBall, torn |-> FALSE]

TypeOK ==
    /\ picture \in Picture /\ camera \in BOOLEAN /\ fault \in Faults
    /\ detector \in Detector
    /\ net \subseteq Ball
    /\ image \in Ball
    /\ reader \in [Readers -> [step: {"flag", "x", "y"}, read: Read]]
    /\ report \in [Readers -> Read]
    /\ tracked \in Places \cup {Nowhere} /\ missed \in 0..(fullFrameAfterMisses + 1)

\* A nil ImageDataPtr is read as no ball.
Init ==
    /\ picture \in Picture /\ camera = FALSE /\ fault = "none"
    /\ detector = Fresh /\ tracked = Nowhere /\ missed = 0
    /\ net = {}
    /\ image = NoBall
    /\ reader = [r \in Readers |-> [step |-> "flag", read |-> NothingRead]]
    /\ report = [r \in Readers |-> NothingRead]

-----------------------------------------------------------------------------
(***************************************************************************)
(* The camera process                                                       *)
(***************************************************************************)
BallMoves ==
    /\ picture' \in Picture \ {picture}
    /\ UNCHANGED <<camera, fault, detector, tracked, missed, net, image, reader, report>>

\* Something fails, or works again.
FaultComes ==
    /\ fault' \in Faults \ {fault}
    /\ UNCHANGED <<picture, camera, detector, tracked, missed, net, image, reader, report>>

\* It is started and killed by the Go program, and may end on its own.
CameraStarts ==
    /\ ~camera /\ camera' = TRUE
    /\ detector' = Fresh /\ tracked' = Nowhere /\ missed' = 0
    /\ UNCHANGED <<picture, fault, net, image, reader, report>>

CameraEnds ==
    /\ camera /\ camera' = FALSE
    /\ UNCHANGED <<picture, fault, detector, tracked, missed, net, image, reader, report>>

\* A calibration or a tuner request hands new thresholds to the detector.
UpdateSettings ==
    /\ camera
    /\ detector' = Fresh /\ tracked' = Nowhere
    /\ UNCHANGED <<picture, camera, fault, missed, net, image, reader, report>>

\* capture_detect: a frame is captured and searched.
Search ==
    /\ camera /\ fault # "capture"
    /\ LET center == Detected(detector, picture) IN
       /\ detector' = Detect(detector, picture)
       /\ tracked' = center
       /\ missed' = IF picture.ball # Nowhere /\ picture.clutter = Nowhere /\ center = Nowhere
                    THEN IF missed > fullFrameAfterMisses THEN missed ELSE missed + 1
                    ELSE 0
    /\ UNCHANGED <<picture, camera, fault>>

Encode(ball) == [ball |-> ball, x |-> IF ball THEN "seen" ELSE "missing",
                 y |-> IF ball THEN "seen" ELSE "missing"]

\* One turn of the main loop.  When no frame is captured it sleeps and tries again;
\* one that cannot be encoded is not sent.  A datagram that finds the socket's
\* buffer full is lost; the buffer is bounded to one here.
SendFrame ==
    /\ Search
    /\ net' = IF net = {} /\ fault # "encode" THEN {Encode(tracked' # Nowhere)} ELSE net
    /\ UNCHANGED <<image, reader, report>>

\* run_preview, for the tuner: a frame is searched and not sent.
PreviewFrame ==
    /\ Search
    /\ UNCHANGED <<net, image, reader, report>>

-----------------------------------------------------------------------------
(***************************************************************************)
(* The Go process                                                           *)
(***************************************************************************)

ApplyMissingBallCoords(data) ==
    IF data.ball THEN data ELSE [data EXCEPT !.x = "missing", !.y = "missing"]

\* Readers in the middle of their reads will see the new image.
Tear ==
    reader' = [r \in Readers |-> IF reader[r].step = "flag" THEN reader[r]
                                ELSE [reader[r] EXCEPT !.read.torn = TRUE]]

\* Mutant: only a datagram with a ball is stored.
ReceiveBall ==
    \E data \in net :
       /\ net' = {}
       /\ IF fault = "decode" \/ ~data.ball
          THEN UNCHANGED <<image, reader>>
          ELSE image' = data /\ Tear
       /\ UNCHANGED <<cameraVars, report>>

\* A datagram that cannot be decoded is dropped.
ReceiveData ==
    \E data \in net :
       /\ net' = {}
       /\ IF fault = "decode"
          THEN UNCHANGED <<image, reader>>
          ELSE image' = ApplyMissingBallCoords(data) /\ Tear
       /\ UNCHANGED <<cameraVars, report>>

ReadFlag(r) ==
    /\ reader[r].step = "flag"
    /\ reader' = [reader EXCEPT ![r] =
                    [step |-> "x", read |-> [NothingRead EXCEPT !.data.ball = image.ball]]]
    /\ UNCHANGED <<cameraVars, net, image, report>>

ReadX(r) ==
    /\ reader[r].step = "x"
    /\ reader' = [reader EXCEPT ![r].step = "y", ![r].read.data.x = image.x]
    /\ UNCHANGED <<cameraVars, net, image, report>>

\* Mutant: the coordinates are reported as they were read.
AsRead(data) == data

\* No ball, no coordinates.
Reportable(data) == IF data.ball THEN data ELSE NoBall

\* The last read, and the report.  (Without a ball the link does not read the
\* coordinates at all and sends the bytes 0, 0.)
ReadYAndReport(r) ==
    /\ reader[r].step = "y"
    /\ LET data == [reader[r].read.data EXCEPT !.y = image.y]
       IN report' = [report EXCEPT ![r] =
                       [data |-> Reportable(data), torn |-> reader[r].read.torn]]
    /\ reader' = [reader EXCEPT ![r] = [step |-> "flag", read |-> NothingRead]]
    /\ UNCHANGED <<cameraVars, net, image>>

Reads(r) == ReadFlag(r) \/ ReadX(r) \/ ReadYAndReport(r)

Next ==
    \/ BallMoves \/ FaultComes \/ CameraStarts \/ CameraEnds \/ UpdateSettings
    \/ SendFrame \/ PreviewFrame \/ ReceiveData
    \/ \E r \in Readers : Reads(r)

(***************************************************************************)
(* The goroutines are scheduled, and so is the camera process while it is   *)
(* running and can capture a frame; the status and the link frame are made  *)
(* periodically.                                                            *)
(***************************************************************************)
Spec == Init /\ [][Next]_vars
             /\ WF_vars(SendFrame) /\ WF_vars(ReceiveData)
             /\ \A r \in Readers : WF_vars(Reads(r))

-----------------------------------------------------------------------------
(***************************************************************************)
(* Properties                                                               *)
(***************************************************************************)

\* A report is that of one datagram, a ball with its coordinates or neither.  Only
\* when ImageDataPtr was replaced between the reads may it be a mixture, and then
\* of a ball without one of its coordinates (the link points the motor board at
\* the corner of the picture, the PC is told 9999), never of coordinates without
\* a ball.
ReportIsWhole ==
    \A r \in Readers :
       \/ report[r].data \in {NoBall, Encode(TRUE)}
       \/ report[r].torn /\ report[r].data.ball

\* A ball that is alone in the picture is missed in at most fullFrameAfterMisses of
\* the frames searched in a row (in one, if that is 0), however it jumps about and
\* whatever was there before.  (A frame searched for the tuner counts: the detector
\* is the same.)
BlindBounded == missed <= 1 \/ missed <= fullFrameAfterMisses

\* A ball that was found and rests is found again, as long as the clutter keeps
\* away from it: once found, it is not lost to something else in the picture.
KeepsTrack ==
    [][/\ tracked # Nowhere /\ tracked = picture.ball
       /\ picture.clutter \notin Near[tracked]
       /\ camera'
       => tracked' \in {tracked, Nowhere} /\ (tracked' = Nowhere => detector' = Fresh)]_vars

\* As long as the camera process runs and nothing fails, the status and the link
\* frame end up telling what it sees: a ball that rests without clutter, or no ball
\* at all, whatever has failed before.  (When the process has ended, or frames are no
\* longer captured, encoded or decoded, the last report stays for ever: nothing dates
\* an image.)
ReportsFollowCamera ==
    /\ /\ <>[](camera /\ fault = "none")
       /\ <>[](picture.ball # Nowhere /\ picture.clutter = Nowhere) /\ <>[][FALSE]_picture
       => <>[](\A r \in Readers : report[r].data.ball)
    /\ <>[](camera /\ fault = "none" /\ picture.ball = Nowhere)
       => <>[](\A r \in Readers : ~report[r].data.ball)

================================================================================
