SPECIFICATION RecordingSpec
CONSTANTS
    Calls = {c1, c2, c3}
    Given = {g1, g2}
    None = None
INVARIANTS TypeOK PublishAccounted ChainKept RecordedFaithfully
CHECK_DEADLOCK FALSE
