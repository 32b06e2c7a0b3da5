CONSTANTS
    Pairs <- MCPairs
    Profiles <- MCProfiles
    Systems = {TRUE}
    Sayings <- MCSayings
    Utterances <- MCUtterances
    MaxTurns = 4
    MaxSwitches = 1
    MaxForgets = 1
SPECIFICATION Spec
INVARIANTS NothingForgotten HistoryIsTrue MessagesFit CutIsTold ThoughtsStayThoughts AcceptableSettings ThinkingAsAsked NothingDroppedSilently
PROPERTY FollowsUp
CHECK_DEADLOCK FALSE
