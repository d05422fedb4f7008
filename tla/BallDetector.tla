------------------------------ MODULE BallDetector ------------------------------
(***************************************************************************)
(* The search state of BallDetector.detect (camera/detect/color.py).        *)
(*                                                                         *)
(* A frame is searched in a window around the ball's last position, or in   *)
(* full when there is none or when the ball was missed too often.  Of the   *)
(* blobs of the right colour in it the largest alone is looked at, and is   *)
(* the ball if it is round.                                                 *)
(*                                                                         *)
(* A picture has the ball and some clutter of the ball's colour, larger     *)
(* than the ball and not round: smaller clutter changes nothing.  The       *)
(* picture itself, the masks and the distance are left out, and so is an    *)
(* empty window: _focus falls back to the full frame.                       *)
(***************************************************************************)
EXTENDS Naturals

CONSTANTS
    Places,  \* where something may be in the picture
    Near,    \* those of them within ballDetectRadius of each
    Nowhere,
    fullFrameAfterMisses

ASSUME NearAssumption ==
    /\ Near \in [Places -> SUBSET Places] /\ \A p \in Places : p \in Near[p]
    /\ Nowhere \notin Places
ASSUME MissAssumption == fullFrameAfterMisses \in Nat

Picture == [ball: Places \cup {Nowhere}, clutter: Places \cup {Nowhere}]

Detector ==
    [previousCenter: Places \cup {Nowhere},
     missCount: 0..fullFrameAfterMisses, \* counted no further than it is compared
     fullFrameSearch: BOOLEAN]

\* BallDetector.__init__, and what update_settings resets.
Fresh == [previousCenter |-> Nowhere, missCount |-> 0, fullFrameSearch |-> FALSE]

Focus(detector) ==
    IF detector.fullFrameSearch \/ detector.previousCenter = Nowhere
    THEN Places
    ELSE Near[detector.previousCenter]

\* What detect returns: the ball's place, or Nowhere.
Detected(detector, picture) ==
    IF picture.ball \in Focus(detector) /\ picture.clutter \notin Focus(detector)
    THEN picture.ball
    ELSE Nowhere

\* Mutant: one miss too many before the full search.
RegisterMissLate(detector) ==
    [detector EXCEPT
        !.missCount = IF @ < fullFrameAfterMisses THEN @ + 1 ELSE @,
        !.fullFrameSearch = @ \/ detector.missCount >= fullFrameAfterMisses]

RegisterMiss(detector) ==
    [detector EXCEPT
        !.missCount = IF @ < fullFrameAfterMisses THEN @ + 1 ELSE @,
        !.fullFrameSearch = @ \/ detector.missCount + 1 >= fullFrameAfterMisses]

\* Mutant: the full search is not ended.
RegisterHitKeepsSearch(detector, center) ==
    [detector EXCEPT !.previousCenter = center, !.missCount = 0]

RegisterHit(detector, center) ==
    [previousCenter |-> center, missCount |-> 0, fullFrameSearch |-> FALSE]

Detect(detector, picture) ==
    LET center == Detected(detector, picture)
    IN IF center = Nowhere THEN RegisterMiss(detector) ELSE RegisterHit(detector, center)

================================================================================
