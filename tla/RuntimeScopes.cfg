SPECIFICATION Spec
CONSTANTS
    Variables = {"x"}
    Functions = {"f"}
    Languages = {"lua", "python"}
    MaxWrites = 3
    MaxDepth = 5
    Inf = Inf
    Null = Null
INVARIANTS
    FramesStayAligned
    EvaluationNotOutdated
    AnnouncedContextIsCurrent
PROPERTIES
    LocalsSurviveNesting
