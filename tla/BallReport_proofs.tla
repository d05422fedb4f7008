---------------------------- MODULE BallReport_proofs ----------------------------
(***************************************************************************)
(* Proofs about BallDetector and BallReport for any places, any nearness,   *)
(* any miss limit and any number of readers.                                *)
(***************************************************************************)
EXTENDS BallReport, TLAPS

USE NearAssumption, MissAssumption

-----------------------------------------------------------------------------
(***************************************************************************)
(* The detector.                                                            *)
(***************************************************************************)

\* What is detected is the ball, in the window the detector looks at, without
\* clutter there; and a ball like that is detected.
LEMMA DetectedIsBall ==
    ASSUME NEW d, NEW p \in Picture
    PROVE  /\ Detected(d, p) \in {p.ball, Nowhere}
           /\ p.ball \in Focus(d) /\ p.clutter \notin Focus(d) => Detected(d, p) = p.ball
BY DEF Detected

\* The window is made of places, so Nowhere is not in it.
LEMMA FocusIsPlaces ==
    ASSUME NEW d \in Detector
    PROVE  Focus(d) \subseteq Places
BY DEF Focus, Detector

\* A frame leaves a detector.
LEMMA DetectIsTyped ==
    ASSUME NEW d \in Detector, NEW p \in Picture
    PROVE  Detect(d, p) \in Detector
<1>1. p.ball \in Places \cup {Nowhere}
  BY DEF Picture
<1>2. RegisterMiss(d) \in Detector
  <2>1. /\ d.missCount \in 0..fullFrameAfterMisses
        /\ d.missCount < fullFrameAfterMisses => d.missCount + 1 \in 0..fullFrameAfterMisses
    BY DEF Detector
  <2>2. (d.fullFrameSearch \/ d.missCount + 1 >= fullFrameAfterMisses) \in BOOLEAN
    OBVIOUS
  <2>3. QED
    BY <2>1, <2>2 DEF RegisterMiss, Detector
<1>3. \A c \in Places : RegisterHit(d, c) \in Detector
  BY DEF RegisterHit, Detector
<1>4. QED
  BY <1>1, <1>2, <1>3, DetectedIsBall DEF Detect

\* A new detector is one.
LEMMA FreshIsTyped == Fresh \in Detector
BY DEF Fresh, Detector

-----------------------------------------------------------------------------
(***************************************************************************)
(* Types                                                                    *)
(***************************************************************************)

\* The contents of a datagram, as sent and as stored.
LEMMA BallsAreTyped ==
    /\ NoBall \in Ball /\ NothingRead \in Read
    /\ \A b \in BOOLEAN : Encode(b) \in Ball
    /\ \A data \in Ball : ApplyMissingBallCoords(data) \in Ball /\ Reportable(data) \in Ball
BY DEF NoBall, NothingRead, Read, Ball, Coordinate, Encode, ApplyMissingBallCoords, Reportable

\* A frame that is searched keeps the types.
LEMMA SearchTypes ==
    ASSUME TypeOK, Search
    PROVE  /\ detector' \in Detector /\ tracked' \in Places \cup {Nowhere}
           /\ missed' \in 0..(fullFrameAfterMisses + 1)
           /\ UNCHANGED <<picture, camera, fault>>
<1> DEFINE center == Detected(detector, picture)
<1>1. picture \in Picture /\ detector \in Detector
  BY DEF TypeOK
<1>2. center \in Places \cup {Nowhere}
  BY <1>1, DetectedIsBall DEF Picture
<1>3. detector' \in Detector
  BY <1>1, DetectIsTyped DEF Search
<1>4. tracked' \in Places \cup {Nowhere}
  BY <1>2 DEF Search
<1>5. missed' \in 0..(fullFrameAfterMisses + 1)
  BY DEF Search, TypeOK
<1>6. QED
  BY <1>3, <1>4, <1>5 DEF Search

\* So does a turn of the main loop, and the tuner's preview.
LEMMA FrameTypes == TypeOK /\ (SendFrame \/ PreviewFrame) => TypeOK'
<1> SUFFICES ASSUME TypeOK, SendFrame \/ PreviewFrame
             PROVE  TypeOK'
  OBVIOUS
<1>1. Search /\ UNCHANGED <<image, reader, report>>
  BY DEF SendFrame, PreviewFrame
<1>2. net' \subseteq Ball
  <2>1. Encode(tracked' # Nowhere) \in Ball
    BY BallsAreTyped
  <2>2. net' \in {net, {Encode(tracked' # Nowhere)}}
    BY DEF SendFrame, PreviewFrame
  <2>3. QED
    BY <2>1, <2>2 DEF TypeOK
<1>3. QED
  BY <1>1, <1>2, SearchTypes DEF TypeOK

\* What a datagram that arrives does to the image and to the readers.
LEMMA ReceiveDataStores ==
    ASSUME ReceiveData
    PROVE  \E data \in net :
              /\ net' = {} /\ UNCHANGED <<cameraVars, report>>
              /\ \/ UNCHANGED <<image, reader>>
                 \/ image' = ApplyMissingBallCoords(data) /\ Tear
BY DEF ReceiveData

\* It keeps the types.
LEMMA ReceiveDataTypes == TypeOK /\ ReceiveData => TypeOK'
<1> SUFFICES ASSUME TypeOK, ReceiveData
             PROVE  TypeOK'
  OBVIOUS
<1>1. PICK data \in net :
         /\ net' = {} /\ UNCHANGED <<cameraVars, report>>
         /\ \/ UNCHANGED <<image, reader>>
            \/ image' = ApplyMissingBallCoords(data) /\ Tear
  BY ReceiveDataStores
<1>2. image' \in Ball
  BY <1>1, BallsAreTyped DEF TypeOK
<1>3. reader' \in [Readers -> [step: {"flag", "x", "y"}, read: Read]]
  <2>1. CASE UNCHANGED reader
    BY <2>1 DEF TypeOK
  <2>2. CASE Tear
    BY <2>2 DEF TypeOK, Read, Tear
  <2>3. QED
    BY <1>1, <2>1, <2>2
<1>4. QED
  BY <1>1, <1>2, <1>3 DEF TypeOK, cameraVars

\* A reader keeps the types.
LEMMA ReadsTypes ==
    ASSUME TypeOK, NEW r \in Readers, Reads(r)
    PROVE  TypeOK'
<1> DEFINE State == [step: {"flag", "x", "y"}, read: Read]
<1>1. image.ball \in BOOLEAN /\ image.x \in Coordinate /\ image.y \in Coordinate
  BY DEF TypeOK, Ball
<1>2. reader[r] \in State /\ reader[r].read.data \in Ball /\ reader[r].read.torn \in BOOLEAN
  BY DEF TypeOK, Read
<1>3. CASE ReadFlag(r)
  <2>1. [NothingRead EXCEPT !.data.ball = image.ball] \in Read
    BY <1>1 DEF NothingRead, NoBall, Read, Ball, Coordinate
  <2>2. reader' \in [Readers -> State]
    BY <1>3, <2>1 DEF ReadFlag, TypeOK
  <2>3. QED
    BY <1>3, <2>2 DEF ReadFlag, TypeOK, cameraVars
<1>4. CASE ReadX(r)
  <2>1. reader' \in [Readers -> State]
    BY <1>1, <1>2, <1>4 DEF ReadX, TypeOK, Read, Ball
  <2>2. QED
    BY <1>4, <2>1 DEF ReadX, TypeOK, cameraVars
<1>5. CASE ReadYAndReport(r)
  <2> DEFINE data == [reader[r].read.data EXCEPT !.y = image.y]
  <2>1. data \in Ball
    BY <1>1, <1>2 DEF Ball
  <2>2. report' = [report EXCEPT ![r] = [data |-> Reportable(data),
                                         torn |-> reader[r].read.torn]]
    BY <1>5 DEF ReadYAndReport
  <2>3. report' \in [Readers -> Read]
    <3> HIDE DEF data
    <3>1. QED
      BY <1>2, <2>1, <2>2, BallsAreTyped DEF TypeOK, Read
  <2>4. reader' \in [Readers -> State]
    BY <1>5, BallsAreTyped DEF ReadYAndReport, TypeOK
  <2>5. QED
    BY <1>5, <2>3, <2>4 DEF ReadYAndReport, TypeOK, cameraVars
<1>6. QED
  BY <1>3, <1>4, <1>5 DEF Reads

\* Every step keeps the types.
LEMMA NextTypes == TypeOK /\ [Next]_vars => TypeOK'
<1> SUFFICES ASSUME TypeOK, [Next]_vars
             PROVE  TypeOK'
  OBVIOUS
<1>1. CASE BallMoves \/ FaultComes
  BY <1>1 DEF BallMoves, FaultComes, TypeOK
<1>2. CASE CameraStarts \/ CameraEnds \/ UpdateSettings
  <2>1. detector' \in Detector /\ tracked' \in Places \cup {Nowhere} /\ camera' \in BOOLEAN
    BY <1>2, FreshIsTyped DEF CameraStarts, CameraEnds, UpdateSettings, TypeOK
  <2>2. missed' \in {0, missed} /\ UNCHANGED <<picture, fault, net, image, reader, report>>
    BY <1>2 DEF CameraStarts, CameraEnds, UpdateSettings
  <2>3. QED
    BY <2>1, <2>2 DEF TypeOK
<1>3. CASE UNCHANGED vars
  BY <1>3 DEF vars, cameraVars, TypeOK
<1>4. QED
  BY <1>1, <1>2, <1>3, FrameTypes, ReceiveDataTypes, ReadsTypes DEF Next

\* The picture, the detector, the datagrams and the readers keep their types.
THEOREM TypeCorrect == Spec => []TypeOK
<1>1. Init => TypeOK
  <2> SUFFICES ASSUME Init
               PROVE  TypeOK
    OBVIOUS
  <2>1. detector \in Detector /\ image \in Ball /\ net \subseteq Ball
    BY FreshIsTyped, BallsAreTyped DEF Init
  <2>2. report \in [Readers -> Read]
    BY BallsAreTyped DEF Init
  <2>3. reader \in [Readers -> [step: {"flag", "x", "y"}, read: Read]]
    BY BallsAreTyped DEF Init
  <2>4. picture \in Picture /\ camera \in BOOLEAN /\ fault \in Faults
        /\ tracked \in Places \cup {Nowhere}
    BY DEF Init, Faults
  <2>5. missed \in 0..(fullFrameAfterMisses + 1)
    BY DEF Init
  <2>6. QED
    BY <2>1, <2>2, <2>3, <2>4, <2>5 DEF TypeOK
<1>2. QED
  BY <1>1, NextTypes, PTL DEF Spec

-----------------------------------------------------------------------------
(***************************************************************************)
(* How long a ball is missed.  A frame misses a ball that is alone only     *)
(* outside its window, so the detector has not yet missed often enough to   *)
(* look everywhere: the misses of the lone ball are among those it counts.  *)
(***************************************************************************)
LooksEverywhere(d) == d.fullFrameSearch \/ d.previousCenter = Nowhere

\* A detector that does not look everywhere has misses left.
MissInv ==
    /\ ~detector.fullFrameSearch =>
          detector.missCount = 0 \/ detector.missCount < fullFrameAfterMisses
    /\ LooksEverywhere(detector) \/ missed <= detector.missCount

\* A ball that is alone is found wherever it is, when the detector looks there.
LEMMA LoneBallFound ==
    ASSUME NEW d \in Detector, NEW p \in Picture, p.ball # Nowhere, p.clutter = Nowhere,
           LooksEverywhere(d)
    PROVE  Detected(d, p) = p.ball
<1>1. Focus(d) = Places
  BY DEF LooksEverywhere, Focus
<1>2. p.ball \in Focus(d) /\ p.clutter \notin Focus(d)
  BY <1>1 DEF Picture
<1>3. QED
  BY <1>2, DetectedIsBall

\* A miss is counted, or the next frame is searched in full.
LEMMA MissIsCounted ==
    ASSUME NEW d \in Detector
    PROVE  /\ RegisterMiss(d).previousCenter = d.previousCenter
           /\ RegisterMiss(d).fullFrameSearch =
                 (d.fullFrameSearch \/ d.missCount + 1 >= fullFrameAfterMisses)
           /\ d.missCount + 1 < fullFrameAfterMisses
                 => RegisterMiss(d).missCount = d.missCount + 1
BY DEF RegisterMiss, Detector

\* A frame keeps the count and the bound.
LEMMA SearchMisses ==
    ASSUME TypeOK, MissInv, BlindBounded, Search
    PROVE  MissInv' /\ BlindBounded'
<1> DEFINE center == Detected(detector, picture)
           lone == picture.ball # Nowhere /\ picture.clutter = Nowhere
<1>1. /\ detector \in Detector /\ picture \in Picture /\ missed \in Nat
      /\ detector.missCount \in Nat /\ fullFrameAfterMisses \in Nat
  BY DEF TypeOK, Detector
<1>2. CASE center # Nowhere
  <2>1. detector' = RegisterHit(detector, center) /\ missed' = 0
    BY <1>2 DEF Search, Detect
  <2>2. QED
    BY <2>1 DEF RegisterHit, MissInv, BlindBounded
<1>3. CASE center = Nowhere
  <2>1. detector' = RegisterMiss(detector)
    BY <1>3 DEF Search, Detect
  <2>2. ~detector'.fullFrameSearch =>
           /\ detector'.missCount = detector.missCount + 1
           /\ detector'.missCount < fullFrameAfterMisses
           /\ ~detector.fullFrameSearch
    <3>1. detector'.fullFrameSearch =
             (detector.fullFrameSearch \/ detector.missCount + 1 >= fullFrameAfterMisses)
      BY <1>1, <2>1, MissIsCounted
    <3>2. detector.missCount + 1 < fullFrameAfterMisses
             => detector'.missCount = detector.missCount + 1
      BY <1>1, <2>1, MissIsCounted
    <3>3. ~detector'.fullFrameSearch =>
             ~detector.fullFrameSearch /\ ~(detector.missCount + 1 >= fullFrameAfterMisses)
      BY <3>1, Zenon
    <3>4. ~(detector.missCount + 1 >= fullFrameAfterMisses)
             => detector.missCount + 1 < fullFrameAfterMisses
      BY <1>1
    <3>5. QED
      BY <3>2, <3>3, <3>4, Zenon
  <2>3. CASE ~lone
    <3>1. missed' = 0
      BY <1>3, <2>3 DEF Search
    <3>2. detector' \in Detector
      BY <1>1, DetectIsTyped DEF Search
    <3>3. QED
      BY <2>2, <3>1, <3>2 DEF MissInv, BlindBounded, Detector
  <2>4. CASE lone
    <3>1. ~LooksEverywhere(detector)
      BY <1>1, <1>3, <2>4, LoneBallFound
    <3>2. /\ missed <= detector.missCount
          /\ detector.missCount = 0 \/ detector.missCount < fullFrameAfterMisses
      BY <3>1 DEF MissInv, LooksEverywhere
    <3>3. missed' <= missed + 1 /\ missed' \in Nat
      BY <1>1, <1>3, <2>4 DEF Search
    <3>4. BlindBounded'
      BY <1>1, <3>2, <3>3 DEF BlindBounded
    <3>5. LooksEverywhere(detector') \/ missed' <= detector'.missCount
      BY <1>1, <2>2, <3>2, <3>3 DEF LooksEverywhere
    <3>6. QED
      BY <2>2, <3>4, <3>5 DEF MissInv
  <2>5. QED
    BY <2>3, <2>4
<1>4. QED
  BY <1>2, <1>3

\* A ball that is alone in the picture is missed in at most fullFrameAfterMisses
\* frames in a row, or one: for any places, nearness and limit.
THEOREM LoneBallIsFound == Spec => []BlindBounded
<1>1. Init => MissInv /\ BlindBounded
  BY DEF Init, MissInv, BlindBounded, LooksEverywhere, Fresh
<1>2. TypeOK /\ MissInv /\ BlindBounded /\ [Next]_vars => MissInv' /\ BlindBounded'
  <2> SUFFICES ASSUME TypeOK, MissInv, BlindBounded, [Next]_vars
               PROVE  MissInv' /\ BlindBounded'
    OBVIOUS
  <2>1. CASE CameraStarts
    BY <2>1 DEF CameraStarts, MissInv, BlindBounded, LooksEverywhere, Fresh
  <2>2. CASE UpdateSettings
    BY <2>2 DEF UpdateSettings, MissInv, BlindBounded, LooksEverywhere, Fresh
  <2>3. CASE UNCHANGED <<detector, missed>>
    BY <2>3 DEF MissInv, BlindBounded, LooksEverywhere
  <2>4. CASE \/ BallMoves \/ FaultComes \/ CameraEnds \/ ReceiveData
             \/ \E r \in Readers : Reads(r)
    BY <2>3, <2>4 DEF BallMoves, FaultComes, CameraEnds, ReceiveData, Reads, ReadFlag, ReadX,
                      ReadYAndReport, cameraVars
  <2>5. CASE UNCHANGED vars
    BY <2>3, <2>5 DEF vars, cameraVars
  <2>6. QED
    BY <2>1, <2>2, <2>4, <2>5, SearchMisses DEF Next, SendFrame, PreviewFrame
<1>3. QED
  BY <1>1, <1>2, TypeCorrect, PTL DEF Spec

-----------------------------------------------------------------------------
(***************************************************************************)
(* A ball that was found.                                                   *)
(***************************************************************************)

\* After a hit the detector looks around where it was.
TrackInv ==
    tracked # Nowhere => detector.previousCenter = tracked /\ ~detector.fullFrameSearch

\* A frame looks around the ball that was tracked, and finds it again if it rests
\* and nothing else is near.
LEMMA SearchTracks ==
    ASSUME TypeOK, TrackInv, Search
    PROVE  /\ TrackInv'
           /\ /\ tracked # Nowhere /\ tracked = picture.ball
              /\ picture.clutter \notin Near[tracked]
              => tracked' = tracked
<1>1. detector \in Detector /\ picture \in Picture
  BY DEF TypeOK
<1>2. TrackInv'
  <2>1. tracked' = Detected(detector, picture) /\ detector' = Detect(detector, picture)
    BY DEF Search
  <2>2. QED
    BY <2>1 DEF TrackInv, Detect, RegisterHit
<1>3. ASSUME tracked # Nowhere, tracked = picture.ball, picture.clutter \notin Near[tracked]
      PROVE  tracked' = tracked
  <2>1. Focus(detector) = Near[tracked]
    BY <1>3 DEF TrackInv, Focus
  <2>2. tracked \in Near[tracked]
    BY <1>3 DEF TypeOK
  <2>3. Detected(detector, picture) = tracked
    BY <1>1, <1>3, <2>1, <2>2, DetectedIsBall
  <2>4. QED
    BY <2>3 DEF Search
<1>4. QED
  BY <1>2, <1>3

\* What Next does to what is tracked, beside a frame: nothing, or the detector is
\* made anew.
LEMMA OtherStepsTrack ==
    ASSUME [Next]_vars
    PROVE  \/ Search
           \/ UNCHANGED <<tracked, detector>>
           \/ tracked' = Nowhere /\ detector' = Fresh
BY DEF Next, vars, cameraVars, BallMoves, FaultComes, CameraStarts, CameraEnds,
       UpdateSettings, SendFrame, PreviewFrame, ReceiveData, Reads, ReadFlag, ReadX, ReadYAndReport

\* A ball that was found and rests is found again as long as the clutter keeps
\* away, or the detector is made anew: for any places and nearness.
THEOREM BallIsTracked == Spec => KeepsTrack
<1>1. Init => TrackInv
  BY DEF Init, TrackInv
<1>2. TypeOK /\ TrackInv /\ [Next]_vars => TrackInv'
  BY SearchTracks, OtherStepsTrack DEF TrackInv
<1>3. TypeOK /\ TrackInv /\ [Next]_vars =>
         [/\ tracked # Nowhere /\ tracked = picture.ball
          /\ picture.clutter \notin Near[tracked]
          /\ camera'
          => tracked' \in {tracked, Nowhere} /\ (tracked' = Nowhere => detector' = Fresh)]_vars
  <2> SUFFICES ASSUME TypeOK, TrackInv, [Next]_vars,
                      tracked # Nowhere, tracked = picture.ball,
                      picture.clutter \notin Near[tracked]
               PROVE  tracked' \in {tracked, Nowhere} /\ (tracked' = Nowhere => detector' = Fresh)
    OBVIOUS
  <2>1. CASE Search
    BY <2>1, SearchTracks
  <2>2. QED
    BY <2>1, OtherStepsTrack
<1>4. QED
  BY <1>1, <1>2, <1>3, TypeCorrect, PTL DEF Spec, KeepsTrack

-----------------------------------------------------------------------------
(***************************************************************************)
(* Reports.                                                                 *)
(***************************************************************************)
WholeBalls == {NoBall, Encode(TRUE)}

\* What was sent and stored is whole, and what a reader has read is what is stored
\* unless that was replaced since.
ReadersInv ==
    /\ net \subseteq WholeBalls /\ image \in WholeBalls
    /\ \A r \in Readers :
          ~reader[r].read.torn =>
             /\ reader[r].step \in {"x", "y"} => reader[r].read.data.ball = image.ball
             /\ reader[r].step = "y" => reader[r].read.data.x = image.x

\* A whole datagram stays so when it is stored and reported.
LEMMA WholeStaysWhole ==
    /\ Encode(FALSE) = NoBall
    /\ \A data \in WholeBalls : ApplyMissingBallCoords(data) = data /\ Reportable(data) = data
<1>1. Encode(FALSE) = NoBall /\ ~NoBall.ball /\ Encode(TRUE).ball
  BY DEF Encode, NoBall
<1>2. [NoBall EXCEPT !.x = "missing", !.y = "missing"] = NoBall
  <2>1. NoBall \in Ball /\ NoBall.x = "missing" /\ NoBall.y = "missing"
    BY DEF NoBall, Ball, Coordinate
  <2>2. QED
    BY <2>1 DEF Ball
<1>3. QED
  BY <1>1, <1>2 DEF WholeBalls, ApplyMissingBallCoords, Reportable

\* A reader keeps what is known of it, and reports accordingly.
LEMMA ReadsWhole ==
    ASSUME TypeOK, ReadersInv, ReportIsWhole, NEW r \in Readers, Reads(r)
    PROVE  ReadersInv' /\ ReportIsWhole'
<1>1. reader[r].read.data \in Ball /\ image \in Ball
  BY DEF TypeOK, Read
<1>2. CASE ReadFlag(r)
  <2>1. reader'[r].read.data.ball = image.ball /\ reader'[r].step = "x"
    BY <1>2 DEF ReadFlag, NothingRead, NoBall, TypeOK
  <2>2. \A other \in Readers \ {r} : reader'[other] = reader[other]
    BY <1>2 DEF ReadFlag, TypeOK
  <2>3. UNCHANGED <<net, image, report>>
    BY <1>2 DEF ReadFlag
  <2>4. QED
    BY <2>1, <2>2, <2>3 DEF ReadersInv, ReportIsWhole
<1>3. CASE ReadX(r)
  <2>1. /\ reader'[r].read.data.ball = reader[r].read.data.ball
        /\ reader'[r].read.data.x = image.x /\ reader'[r].step = "y"
        /\ reader'[r].read.torn = reader[r].read.torn
    BY <1>1, <1>3 DEF ReadX, TypeOK, Read, Ball
  <2>2. \A other \in Readers \ {r} : reader'[other] = reader[other]
    BY <1>3 DEF ReadX, TypeOK
  <2>3. UNCHANGED <<net, image, report>> /\ reader[r].step = "x"
    BY <1>3 DEF ReadX
  <2>4. QED
    BY <2>1, <2>2, <2>3 DEF ReadersInv, ReportIsWhole
<1>4. CASE ReadYAndReport(r)
  <2> DEFINE data == [reader[r].read.data EXCEPT !.y = image.y]
  <2>1. /\ reader'[r].step = "flag" /\ \A other \in Readers \ {r} : reader'[other] = reader[other]
        /\ \A other \in Readers \ {r} : report'[other] = report[other]
        /\ UNCHANGED <<net, image>> /\ reader[r].step = "y"
    BY <1>4 DEF ReadYAndReport, TypeOK
  <2>2. report'[r].data = Reportable(data) /\ report'[r].torn = reader[r].read.torn
    BY <1>4 DEF ReadYAndReport, TypeOK
  <2>3. ReadersInv'
    BY <2>1 DEF ReadersInv
  <2>4. CASE ~reader[r].read.torn
    <3>1. reader[r].read.data.ball = image.ball /\ reader[r].read.data.x = image.x
      BY <2>1, <2>4 DEF ReadersInv
    <3>2. data = image
      BY <1>1, <3>1 DEF Ball
    <3>3. report'[r].data \in WholeBalls
      BY <2>2, <3>2, WholeStaysWhole DEF ReadersInv
    <3>4. QED
      BY <2>1, <2>3, <3>3 DEF ReportIsWhole, WholeBalls
  <2>5. CASE reader[r].read.torn
    <3>1. report'[r].data = NoBall \/ report'[r].data.ball
      BY <1>1, <2>2 DEF Reportable, Ball
    <3>2. QED
      BY <2>1, <2>2, <2>3, <2>5, <3>1 DEF ReportIsWhole, WholeBalls
  <2>6. QED
    BY <2>4, <2>5
<1>5. QED
  BY <1>2, <1>3, <1>4 DEF Reads

\* A report is one datagram's, unless ImageDataPtr was replaced between the reads;
\* and never coordinates without a ball: for any number of readers.
THEOREM WholeReports == Spec => []ReportIsWhole
<1>1. Init => ReadersInv /\ ReportIsWhole
  <2> SUFFICES ASSUME Init
               PROVE  ReadersInv /\ ReportIsWhole
    OBVIOUS
  <2>1. \A r \in Readers : reader[r].step = "flag" /\ report[r].data = NoBall
    BY DEF Init, NothingRead
  <2>2. QED
    BY <2>1 DEF Init, ReadersInv, ReportIsWhole, WholeBalls
<1>2. TypeOK /\ ReadersInv /\ ReportIsWhole /\ [Next]_vars => ReadersInv' /\ ReportIsWhole'
  <2> SUFFICES ASSUME TypeOK, ReadersInv, ReportIsWhole, [Next]_vars
               PROVE  ReadersInv' /\ ReportIsWhole'
    OBVIOUS
  <2>1. CASE SendFrame \/ PreviewFrame
    <3>1. net' \subseteq WholeBalls
      <4>1. net' \in {net, {Encode(tracked' # Nowhere)}}
        BY <2>1 DEF SendFrame, PreviewFrame
      <4>2. Encode(tracked' # Nowhere) \in WholeBalls
        <5>1. CASE tracked' = Nowhere
          BY <5>1, WholeStaysWhole DEF WholeBalls
        <5>2. CASE tracked' # Nowhere
          BY <5>2 DEF WholeBalls
        <5>3. QED
          BY <5>1, <5>2
      <4>3. QED
        BY <4>1, <4>2 DEF ReadersInv
    <3>2. UNCHANGED <<image, reader, report>>
      BY <2>1 DEF SendFrame, PreviewFrame
    <3>3. QED
      BY <3>1, <3>2 DEF ReadersInv, ReportIsWhole
  <2>2. CASE ReceiveData
    <3>1. PICK data \in net :
             /\ net' = {} /\ UNCHANGED <<cameraVars, report>>
             /\ \/ UNCHANGED <<image, reader>>
                \/ image' = ApplyMissingBallCoords(data) /\ Tear
      BY <2>2, ReceiveDataStores
    <3>2. net' \subseteq WholeBalls /\ image' \in WholeBalls /\ report' = report
      BY <3>1, WholeStaysWhole DEF ReadersInv
    <3>3. CASE UNCHANGED <<image, reader>>
      BY <3>2, <3>3 DEF ReadersInv, ReportIsWhole
    <3>4. CASE Tear
      <4>1. \A r \in Readers : reader'[r].step = "flag" \/ reader'[r].read.torn
        BY <3>4 DEF Tear, TypeOK, Read
      <4>2. QED
        BY <3>2, <4>1 DEF ReadersInv, ReportIsWhole
    <3>5. QED
      BY <3>1, <3>3, <3>4
  <2>3. CASE BallMoves \/ FaultComes \/ CameraStarts \/ CameraEnds \/ UpdateSettings
    BY <2>3 DEF BallMoves, FaultComes, CameraStarts, CameraEnds, UpdateSettings, ReadersInv,
                ReportIsWhole
  <2>4. CASE UNCHANGED vars
    BY <2>4 DEF vars, ReadersInv, ReportIsWhole
  <2>5. QED
    BY <2>1, <2>2, <2>3, <2>4, ReadsWhole DEF Next
<1>3. QED
  BY <1>1, <1>2, TypeCorrect, PTL DEF Spec

=================================================================================
