CONSTANTS
    Absent = Absent
    DefaultLimit = 4096
    Inputs <- MCInputs
    Candidates <- MCCandidates
    Answers <- MCAnswers
    Streams <- MCStreams
SPECIFICATION Spec
INVARIANT ConvertedArrives
