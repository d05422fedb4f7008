SPECIFICATION Spec
CONSTANTS
    Places <- MCPlaces
    Near <- MCNear
    Nowhere = Nowhere
    fullFrameAfterMisses = 2
    Readers = {"status"}
INVARIANTS
    ReportIsWhole
    BlindBounded
PROPERTIES
    KeepsTrack
    ReportsFollowCamera
