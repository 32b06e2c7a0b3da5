SPECIFICATION Spec
CONSTANTS
    Sessions = {s1}
    Formats = {"openai", "claude"}
    Flaws = {{}, {"method"}, {"path", "key"}, {"key", "body"}, {"model"}}
    Kinds = {"chunk", "quiet", "junk", "poison", "done"}
    MaxFrames = 3
INVARIANTS OneTrueEvent  BodyReleased
PROPERTIES LeavingEnds 
CHECK_DEADLOCK FALSE
