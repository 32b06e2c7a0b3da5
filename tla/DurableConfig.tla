--------------------------- MODULE DurableConfig ---------------------------
(***************************************************************************)
(* What the configuration store promises, with nothing of how              *)
(* internal/config/store.go keeps it: a save "validates, persists, and     *)
(* publishes in that order", the file changes in one step and only while   *)
(* it and the store agree, and a start continues with what was persisted.  *)
(*                                                                         *)
(* The file may also vanish, as it does where a rename cannot replace it.  *)
(***************************************************************************)
CONSTANTS
    Normalize(_), Valid(_), Default,    \* of configurations, whatever they are
    None,           \* no file, nothing published
    InitialFiles,   \* configurations the file may hold before the first start
    MayVanish       \* a rename onto the existing file may fail

VARIABLES
    status,     \* of the process: "down", "up", or "refused"
    durable,    \* the file: None, or [cfg, whole]
    published   \* what the store hands out

dvars == <<status, durable, published>>

Loads(file) == file.whole /\ Valid(Normalize(file.cfg))

\* The store hands out what the file says.
Level == durable # None => published = Normalize(durable.cfg)

Init ==
    /\ status = "down"
    /\ durable \in {None} \cup {[cfg |-> c, whole |-> TRUE] : c \in InitialFiles}
    /\ published = None

Start ==
    /\ status = "down"
    /\ \/ durable = None /\ status' = "up" /\ published' = Normalize(Default)
       \/ /\ durable # None /\ Loads(durable)
          /\ status' = "up" /\ published' = Normalize(durable.cfg)
       \/ durable # None /\ ~Loads(durable) /\ status' = "refused" /\ UNCHANGED published
    /\ UNCHANGED durable

Die ==
    /\ status = "up"
    /\ status' = "down" /\ published' = None
    /\ UNCHANGED durable

\* The new configuration, validated, is in the file.
Persist ==
    /\ status = "up" /\ Level
    /\ durable' # None /\ Loads(durable') /\ Normalize(durable'.cfg) = durable'.cfg
    /\ UNCHANGED <<status, published>>

Publish ==
    /\ status = "up" /\ durable # None
    /\ published' = durable.cfg
    /\ UNCHANGED <<status, durable>>

Vanish ==
    /\ MayVanish
    /\ status = "up" /\ Level
    /\ durable' = None
    /\ UNCHANGED <<status, published>>

Next == Start \/ Die \/ Persist \/ Publish \/ Vanish

Spec == Init /\ [][Next]_dvars
=============================================================================
