CONSTANTS
    Layouts = {"wrapped", "bare"}
    AccountNumbers = {3, 7}
    MaxSeq = 2
    Null = Null
    None = None

SPECIFICATION Spec

INVARIANT
    HarnessReadsWhatCliReads
