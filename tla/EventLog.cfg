SPECIFICATION Spec
CONSTANTS
    Cap = 3
    Payload = {ok, failed}
    MaxEvents = 6
INVARIANTS Retained SinceIsExact
 
CHECK_DEADLOCK FALSE
