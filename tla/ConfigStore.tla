---------------------------- MODULE ConfigStore -----------------------------
(***************************************************************************)
(* A configuration save from end to end: the admin handler saveConfig      *)
(* (internal/admin/admin.go), Store.Save and writeFile                     *)
(* (internal/config/store.go) and Proxy.Apply (internal/proxy/proxy.go),   *)
(* against the file on disk, a process that may die between any two of     *)
(* these steps, file operations that may fail, several handlers at once    *)
(* and relay requests that hold a runtime snapshot.                        *)
(*                                                                         *)
(* Store.mu is held from the validation to the publication; reading the    *)
(* current configuration before it and applying the new one after it are   *)
(* outside.  Each step below is what happens between two points where      *)
(* another goroutine, or the disk, can be observed.                        *)
(***************************************************************************)
EXTENDS AdminView

CONSTANTS
    Handlers,       \* goroutines that may serve PUT /admin/api/config
    Requests,       \* relay requests that may be in flight
    Incoming,       \* views a client of the admin API may send
    InitialFiles,   \* what the file may hold before the first start
    WriteMayFail,   \* creating, writing, syncing or closing the temp file fails
    RenameMayFail,  \* the rename onto the existing file fails (Windows)
    MaxSaves,       \* bound: saves that are begun
    MaxCrashes      \* bound: times the process dies

ASSUME FlagsAssumption == WriteMayFail \in BOOLEAN /\ RenameMayFail \in BOOLEAN
ASSUME BoundsAssumption == MaxSaves \in Nat /\ MaxCrashes \in Nat

CONSTANTS Free, None    \* model values: nobody holds the mutex; nothing here

ASSUME FreeAssumption == Free \notin Handlers
ASSUME ListsAssumption ==
    /\ \A view \in Incoming : Len(view.upstreams) \in Nat
    /\ \A c \in InitialFiles : HasList(c)

VARIABLES
    process,    \* "down", "up", or "refused": it exited on a bad file
    disk,       \* the config file: None, or [cfg, whole]
    temp,       \* the temp file of the running save
    mu,         \* Store.mu
    current,    \* Store.current
    rt,         \* Proxy.rt
    pc,         \* where each handler is
    incoming,   \* the view it is saving
    next,       \* saveConfig's next
    held,       \* the runtime each relay request took at entry
    saves, crashes,
    accepted    \* history: configurations that passed Validate or were booted

procVars == <<process, mu, current, rt>>
fileVars == <<disk, temp>>
handVars == <<pc, incoming, next>>
vars == <<procVars, fileVars, handVars, held, saves, crashes, accepted>>

\* What Save publishes and writes.
Candidate(h) == Normalize(next[h])

\* newRuntime
RuntimeOf(cfg) ==
    [cfg |-> cfg, up |-> ActiveUpstream(cfg), timeout |-> RequestTimeout(ActiveUpstream(cfg))]

Init ==
    /\ process = "down"
    /\ disk \in {None} \cup {[cfg |-> c, whole |-> TRUE] : c \in InitialFiles}
    /\ temp = None
    /\ mu = Free
    /\ current = None
    /\ rt = None
    /\ pc = [h \in Handlers |-> "idle"]
    /\ incoming = [h \in Handlers |-> None]
    /\ next = [h \in Handlers |-> None]
    /\ held = [r \in Requests |-> None]
    /\ saves = 0 /\ crashes = 0
    /\ accepted = {}

-----------------------------------------------------------------------------
(* Starting and dying.                                                     *)

\* config.Load accepts the file.
Loadable(file) == file.whole /\ Valid(Normalize(file.cfg))

\* LoadOrInit, NewStore, proxy.New: a file that does not load ends the process.
Boot ==
    /\ process = "down"
    /\ IF disk # None /\ ~Loadable(disk)
       THEN /\ process' = "refused"
            /\ UNCHANGED <<current, rt, accepted>>
       ELSE LET loaded == IF disk = None THEN Default ELSE Normalize(disk.cfg)
                seed   == Normalize(loaded)
            IN  /\ process' = "up"
                /\ current' = seed
                /\ rt' = RuntimeOf(seed)
                /\ accepted' = accepted \cup {seed}
    /\ UNCHANGED <<mu, fileVars, handVars, held, saves, crashes>>

\* The process dies: memory is gone, the file and a stray temp file stay.
\* The stray file has a random name nobody reads, so it is forgotten here.
Crash ==
    /\ process = "up"
    /\ crashes < MaxCrashes
    /\ crashes' = crashes + 1
    /\ process' = "down"
    /\ mu' = Free /\ current' = None /\ rt' = None /\ temp' = None
    /\ pc' = [h \in Handlers |-> "idle"]
    /\ incoming' = [h \in Handlers |-> None]
    /\ next' = [h \in Handlers |-> None]
    /\ held' = [r \in Requests |-> None]
    /\ UNCHANGED <<disk, saves, accepted>>

-----------------------------------------------------------------------------
(* One save.                                                               *)

Goto(h, label) == pc' = [pc EXCEPT ![h] = label]

\* Bug: the error path returns without releasing the mutex.
FailSaveLocked(h) == Goto(h, "idle") /\ UNCHANGED <<mu, temp>>

\* Bug: the temp file is left behind.
FailSaveLitters(h) == Goto(h, "idle") /\ mu' = Free /\ UNCHANGED temp

\* The handler returns an error answer out of Save: the deferred calls
\* remove the temp file and release the mutex.
FailSave(h) ==
    /\ Goto(h, "idle")
    /\ mu' = Free
    /\ temp' = None

\* saveConfig reads Current and lays the incoming view over a clone of it.
SaveBegin(h, view) ==
    /\ process = "up"
    /\ pc[h] = "idle"
    /\ saves < MaxSaves
    /\ saves' = saves + 1
    /\ incoming' = [incoming EXCEPT ![h] = view]
    /\ next' = [next EXCEPT ![h] = BuildNext(current, view)]
    /\ Goto(h, "lock")
    /\ UNCHANGED <<procVars, fileVars, held, crashes, accepted>>

\* Bug: Save persists and publishes without validating.
CheckNothing(h) ==
    /\ mu' = h
    /\ Goto(h, "create")
    /\ accepted' = accepted
    /\ UNCHANGED temp

\* Save: normalise and validate under the mutex; a rejected draft returns.
Check(h) ==
    IF Valid(Candidate(h))
    THEN /\ mu' = h
         /\ Goto(h, "create")
         /\ accepted' = accepted \cup {Candidate(h)}
         /\ UNCHANGED temp
    ELSE /\ FailSave(h)
         /\ UNCHANGED accepted

SaveLock(h) ==
    /\ pc[h] = "lock"
    /\ mu = Free
    /\ Check(h)
    /\ UNCHANGED <<process, current, rt, disk, incoming, next, held, saves, crashes>>

\* writeFile: os.CreateTemp and the write; a crash leaves it cut short.
WriteTemp(h) ==
    /\ pc[h] = "create"
    /\ \/ /\ temp' = [cfg |-> Candidate(h), whole |-> FALSE]
          /\ Goto(h, "sync")
          /\ UNCHANGED mu
       \/ WriteMayFail /\ FailSave(h)
    /\ UNCHANGED <<process, current, rt, disk, incoming, next, held, saves, crashes, accepted>>

\* Bug: the file is renamed before its contents are flushed.
FlushSkipped(h) == temp' = temp /\ Goto(h, "rename") /\ UNCHANGED mu

\* temp.Sync and temp.Close
Flush(h) ==
    \/ /\ temp' = [temp EXCEPT !.whole = TRUE]
       /\ Goto(h, "rename")
       /\ UNCHANGED mu
    \/ WriteMayFail /\ FailSave(h)

SyncTemp(h) ==
    /\ pc[h] = "sync"
    /\ Flush(h)
    /\ UNCHANGED <<process, current, rt, disk, incoming, next, held, saves, crashes, accepted>>

\* Bug: the error of the rename is not looked at.
RenameUnchecked(h) ==
    /\ \/ disk' = temp /\ temp' = None
       \/ RenameMayFail /\ UNCHANGED fileVars
    /\ Goto(h, "publish")

\* The first os.Rename.
Rename(h) ==
    \/ /\ disk' = temp
       /\ temp' = None
       /\ Goto(h, "publish")
    \/ /\ RenameMayFail
       /\ Goto(h, "remove")
       /\ UNCHANGED fileVars

RenameTemp(h) ==
    /\ pc[h] = "rename"
    /\ Rename(h)
    /\ UNCHANGED <<procVars, incoming, next, held, saves, crashes, accepted>>

\* os.Remove(path): a missing file is no error.
RemoveOld(h) ==
    /\ pc[h] = "remove"
    /\ \/ /\ disk' = None
          /\ Goto(h, "again")
          /\ UNCHANGED <<mu, temp>>
       \/ /\ disk # None
          /\ FailSave(h)
          /\ UNCHANGED disk
    /\ UNCHANGED <<process, current, rt, incoming, next, held, saves, crashes, accepted>>

\* The second os.Rename.
RenameAgain(h) ==
    /\ pc[h] = "again"
    /\ \/ /\ disk' = temp
          /\ temp' = None
          /\ Goto(h, "publish")
          /\ UNCHANGED mu
       \/ /\ FailSave(h)
          /\ UNCHANGED disk
    /\ UNCHANGED <<process, current, rt, incoming, next, held, saves, crashes, accepted>>

\* Bug: publishing is forgotten when the file was written.
PublishNothing(h) == UNCHANGED current

Publish(h) == current' = Candidate(h)

\* s.current.Store(candidate); Save returns and releases the mutex.
SavePublish(h) ==
    /\ pc[h] = "publish"
    /\ Publish(h)
    /\ mu' = Free
    /\ Goto(h, "apply")
    /\ UNCHANGED <<process, rt, fileVars, incoming, next, held, saves, crashes, accepted>>

\* Bug: the new runtime is built and never swapped in.
ApplyNoSwap(cfg) == rt' = rt

\* Proxy.Apply: nothing is swapped when the timeout does not parse.
Apply(cfg) ==
    rt' = IF TimeoutOK(ActiveUpstream(cfg)) THEN RuntimeOf(cfg) ELSE rt

\* saveConfig applies next, the configuration before Save's clone of it was
\* normalised, and answers.
SaveApply(h) ==
    /\ pc[h] = "apply"
    /\ Apply(next[h])
    /\ Goto(h, "idle")
    /\ UNCHANGED <<process, mu, current, fileVars, incoming, next, held, saves, crashes, accepted>>

-----------------------------------------------------------------------------
(* Relay requests.                                                         *)

\* ServeHTTP: rt := p.rt.Load()
RequestEnter(r) ==
    /\ process = "up"
    /\ held[r] = None
    /\ held' = [held EXCEPT ![r] = rt]
    /\ UNCHANGED <<procVars, fileVars, handVars, saves, crashes, accepted>>

RequestLeave(r) ==
    /\ held[r] # None
    /\ held' = [held EXCEPT ![r] = None]
    /\ UNCHANGED <<procVars, fileVars, handVars, saves, crashes, accepted>>

SaveStep(h) ==
    \/ SaveLock(h)
    \/ WriteTemp(h)
    \/ SyncTemp(h)
    \/ RenameTemp(h)
    \/ RemoveOld(h)
    \/ RenameAgain(h)
    \/ SavePublish(h)
    \/ SaveApply(h)

Next ==
    \/ Boot
    \/ Crash
    \/ \E h \in Handlers : SaveStep(h)
    \/ \E h \in Handlers, view \in Incoming : SaveBegin(h, view)
    \/ \E r \in Requests : RequestEnter(r) \/ RequestLeave(r)

(* A handler that can move moves; sync.Mutex does not starve a waiter.     *)
Fairness ==
    /\ WF_vars(Boot)
    /\ \A h \in Handlers : WF_vars(SaveStep(h)) /\ SF_vars(SaveLock(h))

Spec == Init /\ [][Next]_vars /\ Fairness

-----------------------------------------------------------------------------
InSave == {"create", "sync", "rename", "remove", "again", "publish"}

TypeOK ==
    /\ process \in {"down", "up", "refused"}
    /\ mu \in Handlers \cup {Free}
    /\ pc \in [Handlers -> InSave \cup {"idle", "lock", "apply"}]
    /\ temp # None => temp.whole \in BOOLEAN /\ mu # Free
    /\ disk # None => disk.whole \in BOOLEAN /\ HasList(disk.cfg)
    /\ process = "up" => HasList(current)
    /\ saves \in 0 .. MaxSaves
    /\ crashes \in 0 .. MaxCrashes

(* Exactly the holder of Store.mu is between validation and publication,   *)
(* so two saves never share a temp file or interleave their file steps.    *)
SavesExclude == \A h \in Handlers : pc[h] \in InSave <=> mu = h

(* The file is complete and valid whenever the process may die: a process  *)
(* that has started once starts again.                                     *)
AlwaysRestartable == accepted # {} => process # "refused"

(* A rejected or unfinished save reaches neither the store, nor the relay, *)
(* nor a request in flight.                                                *)
OnlyAcceptedServes ==
    /\ process = "up" => current \in accepted
    /\ process = "up" => Normalize(rt.cfg) \in accepted
    /\ \A r \in Requests : held[r] # None => Normalize(held[r].cfg) \in accepted

(* While no save is under way the file and the published configuration are *)
(* the same one (unless there is no file).                                 *)
FileMatchesStore ==
    (process = "up" /\ mu = Free /\ disk # None) => current = Normalize(disk.cfg)

(* "A crash mid-write leaves the previous config intact": once there is a  *)
(* configuration file there is one whenever no save is under way, also     *)
(* after the process died.                                                 *)
ConfigSurvives == [](disk # None => [](mu = Free => disk # None))

(* With no save under way the relay serves the published configuration:    *)
(* there is one source of truth.                                           *)
RelayFollowsStore ==
    (process = "up" /\ \A h \in Handlers : pc[h] = "idle") => rt = RuntimeOf(current)

(* ClaudeDefaultMaxTokens "must be non-zero whenever Claude is the active  *)
(* upstream": a Claude runtime always has a value to inject.               *)
ClaudeHasMaxTokens ==
    (process = "up" /\ rt.up.format = "claude") => rt.cfg.maxTokens # 0

(* A key field left blank keeps the key that is stored when the save is    *)
(* published.                                                              *)
BlankKeepsKey ==
    [][\A h \in Handlers : (pc[h] = "publish" /\ current' # current) =>
          \A i \in 1 .. Len(incoming[h].upstreams) :
              LET iv == incoming[h].upstreams[i]
              IN  (IsBlank(iv.key) /\ ~iv.clear /\ Named(current, Trim(iv.name)) # {})
                  => Candidate(h).upstreams[i].key = PrevKeyOf(current, Trim(iv.name))]_vars

(* Every save is answered, also when it fails, waits for another save, or  *)
(* the process dies.                                                       *)
SaveAnswered == \A h \in Handlers : pc[h] # "idle" ~> pc[h] = "idle"

-----------------------------------------------------------------------------
(* The file and the store alone, without handlers and steps.               *)
Durable == INSTANCE DurableConfig WITH status <- process, durable <- disk, published <- current,
                                       MayVanish <- RenameMayFail

(* Store: writers "go through Save, which validates, persists, and         *)
(* publishes in that order": seen from the file and the store, a save is   *)
(* two steps, whatever fails, waits or dies in between.                    *)
ImplementsDurable == Durable!Spec
=============================================================================
