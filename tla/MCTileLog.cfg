SPECIFICATION Spec
CONSTANTS
    Width = 3
    TopLevel = 1
    Span <- SpanOf3
    MaxLeaves = 5
INVARIANTS
    CommittedReadable
    CanonicalTiles
    HistorySound
    VerifyFailsOnlyOvertaken
