SPECIFICATION Spec
CONSTANTS
    Forever = Forever
    None = None
    Texts = {"ask", " ask", "select", "describe", "construct"}
    Normalize <- MCNormalize
    Hash <- MCHash
    Names = {"ex", "foaf"}
    Capacity <- MCCapacity
    TimeToLive <- MCTimeToLive
    MaxTime = 5
INVARIANT AnswersAreCurrent
PROPERTY ImplementsRecencyOrder
CHECK_DEADLOCK FALSE
