------------------------------ MODULE Console -------------------------------
(***************************************************************************)
(* The operator console, internal/admin/web/index.html, editing the        *)
(* server's configuration through GET and PUT /admin/api/config.           *)
(*                                                                         *)
(* A page holds a copy of the configuration without its keys, edits it,    *)
(* and sends the whole copy back.  While a save is in flight the page      *)
(* starts no other one and the answer replaces its copy, so an edit and    *)
(* the save it belongs to are one step here; the server handles it in a    *)
(* second step and the answer arrives in a third.  The steps inside the    *)
(* server are those of ConfigStore; here they are one.                     *)
(*                                                                         *)
(* Every upstream carries a ghost id, fixed when the operator creates it,  *)
(* so that "its" key and "its" address mean something across renames.      *)
(***************************************************************************)
EXTENDS AdminView, FiniteSets

CONSTANTS
    Pages,        \* browser tabs with the console open
    Names,        \* names the operator types
    Keys,         \* keys the operator types
    Creds,        \* <<admin key, access key>> typed into the advanced form
    Addresses,    \* listen addresses typed into the advanced form
    Flags,        \* -listen flags the program may be started with
    Ids,          \* ghost ids of upstreams
    WithUndo,     \* the operator uses the undo of a deletion
    MaxSaves,     \* bound: saves sent
    MaxStarts     \* bound: restarts of the program

CONSTANT None

ASSUME IdsAssumption == {1, 2} \subseteq Ids

VARIABLES
    server,     \* Store.current
    ids,        \* ghost: the id of each of its upstreams
    file,       \* the config file
    page,       \* page[p]: the copy a tab edits (None before it is loaded)
    sent,       \* sent[p]: the payload in flight
    answer,     \* answer[p]: the configuration an answer carries
    undo,       \* undo[p]: the deleted entry and its place
    saves, starts,
    rejected,   \* history: the server refused a save
    wantKey,    \* history: wantKey[id], the key the operator gave an upstream
    wantCred,   \* history: the credentials the operator gave
    wantListen, \* history: the address the operator put in the file
    undone      \* history: a deletion was undone

serverVars == <<server, ids, file>>
pageVars   == <<page, sent, answer, undo>>
wishes     == <<wantKey, wantCred, wantListen>>
ghosts     == <<wishes, undone>>
vars == <<serverVars, pageVars, saves, starts, rejected, ghosts>>

FirstUpstreams ==
    << [name |-> T("a"), format |-> "openai", url |-> T("ua"), key |-> T("ka"), timeout |-> T("5m")],
       [name |-> T("b"), format |-> "openai", url |-> T("ub"), key |-> T("kb"), timeout |-> T("5m")] >>

FirstConfig == [Default EXCEPT !.upstreams = FirstUpstreams, !.active = T("a")]

\* adoptConfig, with the ghost ids alongside.
AdoptWith(c, us) ==
    LET copy == Adopt(c)
    IN  [copy EXCEPT !.drafts =
            [i \in 1 .. Len(copy.drafts) |->
                [name |-> copy.drafts[i].name, original |-> copy.drafts[i].original,
                 format |-> copy.drafts[i].format, url |-> copy.drafts[i].url,
                 timeout |-> copy.drafts[i].timeout, key |-> Blank, clear |-> FALSE,
                 id |-> us[i]]]]

Init ==
    /\ server = FirstConfig
    /\ file = FirstConfig
    /\ ids = <<1, 2>>
    /\ page = [p \in Pages |-> None]
    /\ sent = [p \in Pages |-> None]
    /\ answer = [p \in Pages |-> None]
    /\ undo = [p \in Pages |-> None]
    /\ saves = 0 /\ starts = 0
    /\ rejected = FALSE
    /\ wantKey = [i \in Ids |-> IF i = 1 THEN T("ka") ELSE IF i = 2 THEN T("kb") ELSE None]
    /\ wantCred = <<Blank, Blank>>
    /\ wantListen = FirstConfig.listen
    /\ undone = FALSE

-----------------------------------------------------------------------------
(* The page.                                                               *)

Ready(p) == page[p] # None /\ sent[p] = None /\ answer[p] = None

\* The page boots, or is reloaded: GET /admin/api/config.
Load(p) ==
    /\ page[p] = None
    /\ page' = [page EXCEPT ![p] = AdoptWith(server, ids)]
    /\ UNCHANGED <<serverVars, sent, answer, undo, saves, starts, rejected, ghosts>>

\* saveAll, saveAdvanced, the clear button: PUT the whole copy.
SendBody(p, copy, body) ==
    /\ Ready(p)
    /\ saves < MaxSaves
    /\ saves' = saves + 1
    /\ page' = [page EXCEPT ![p] = copy]
    /\ sent' = [sent EXCEPT ![p] = body]
    /\ UNCHANGED <<serverVars, answer, starts, rejected, wishes>>

Send(p, copy) == SendBody(p, copy, Payload(copy))

\* nameError: no other entry has this name.
NameFree(copy, i, name) ==
    \A j \in 1 .. Len(copy.drafts) : j # i => copy.drafts[j].name # name

\* The editor: a new name; the pointer follows when the entry is live.
Rename(p, i, name) ==
    LET copy == page[p]
    IN  /\ name # copy.drafts[i].name
        /\ NameFree(copy, i, name)
        /\ Send(p, [copy EXCEPT !.drafts[i].name = name,
                                !.active = IF @ = copy.drafts[i].name THEN name ELSE @])
        /\ UNCHANGED <<undo, undone>>

\* The editor: a typed key.
TypeKey(p, i, key) ==
    /\ Send(p, [page[p] EXCEPT !.drafts[i].key = key, !.drafts[i].clear = FALSE])
    /\ UNCHANGED <<undo, undone>>

\* Ghost ids already given out.
UsedIds ==
    {u \in Ids : wantKey[u] # None}
    \cup UNION {{page[q].drafts[i].id : i \in 1 .. Len(page[q].drafts)}
                 : q \in {r \in Pages : page[r] # None}}

\* addUpstream and the editor: a new entry under a free name.
Add(p, name) ==
    /\ NameFree(page[p], 0, name)
    /\ Ids \ UsedIds # {}
    /\ LET item == [name |-> name, original |-> Blank, format |-> "openai", url |-> T("un"),
                    timeout |-> T("5m"), key |-> Blank, clear |-> FALSE,
                    id |-> CHOOSE u \in Ids \ UsedIds : TRUE]
       IN  Send(p, [page[p] EXCEPT !.drafts = Append(@, item)])
    /\ UNCHANGED <<undo, undone>>

\* activate: only an entry with an address.
Activate(p, i) ==
    /\ page[p].drafts[i].url # Blank
    /\ Send(p, [page[p] EXCEPT !.active = page[p].drafts[i].name])
    /\ UNCHANGED <<undo, undone>>

Without(s, i) == [j \in 1 .. Len(s) - 1 |-> IF j < i THEN s[j] ELSE s[j + 1]]
InsertAt(s, i, x) ==
    [j \in 1 .. Len(s) + 1 |-> IF j < i THEN s[j] ELSE IF j = i THEN x ELSE s[j - 1]]

\* Bug: the entry in use may be deleted.
MayDeleteAny(copy, i) == Len(copy.drafts) > 1

\* confirmDelete: not the last entry, not the one in use.
MayDelete(copy, i) == Len(copy.drafts) > 1 /\ copy.drafts[i].name # copy.active

Delete(p, i) ==
    /\ MayDelete(page[p], i)
    /\ Send(p, [page[p] EXCEPT !.drafts = Without(@, i)])
    /\ undo' = [undo EXCEPT ![p] = [item |-> page[p].drafts[i], at |-> i, done |-> FALSE]]
    /\ UNCHANGED undone

\* The undo button of the "deleted" toast.
Undo(p) ==
    /\ WithUndo
    /\ undo[p] # None /\ undo[p].done
    /\ LET at == IF undo[p].at > Len(page[p].drafts) + 1 THEN Len(page[p].drafts) + 1
                 ELSE undo[p].at
       IN  Send(p, [page[p] EXCEPT !.drafts = InsertAt(@, at, undo[p].item)])
    /\ undo' = [undo EXCEPT ![p] = None]
    /\ undone' = TRUE

\* saveAdvanced: the address as shown or retyped, and typed credentials.
SaveAdvanced(p, listen, cred) ==
    LET copy == [page[p] EXCEPT !.listen = listen]
    IN  /\ SendBody(p, copy, [Payload(copy) EXCEPT !.adminKey = cred[1], !.accessKey = cred[2]])
        /\ UNCHANGED <<undo, undone>>

\* The clear button: every upstream key and the console password.
ClearAll(p) ==
    LET copy == [page[p] EXCEPT !.drafts =
                    [i \in 1 .. Len(@) |-> [@[i] EXCEPT !.clear = TRUE, !.key = Blank]]]
    IN  /\ SendBody(p, copy, [Payload(copy) EXCEPT !.clearAdmin = TRUE])
        /\ UNCHANGED <<undo, undone>>

-----------------------------------------------------------------------------
(* The server.                                                             *)

\* saveConfig on one payload: normalise, validate, write and publish.
Serve(p) ==
    LET body == sent[p]
        next == Normalize(BuildNext(server, body))
        n    == Len(body.upstreams)
    IN  /\ body # None
        /\ sent' = [sent EXCEPT ![p] = None]
        /\ IF Valid(next)
           THEN /\ server' = next
                /\ file' = next
                /\ ids' = [i \in 1 .. n |-> body.upstreams[i].id]
                /\ answer' = [answer EXCEPT ![p] = "saved"]
                /\ wantKey' = [u \in Ids |->
                      LET at == {i \in 1 .. n : body.upstreams[i].id = u}
                      IN  IF at = {} THEN wantKey[u]
                          ELSE ResolveAPIKey(body.upstreams[CHOOSE i \in at : TRUE],
                                             IF wantKey[u] = None THEN Blank ELSE wantKey[u])]
                /\ wantCred' = << IF body.clearAdmin THEN Blank
                                  ELSE IF IsBlank(body.adminKey) THEN wantCred[1]
                                  ELSE Trim(body.adminKey),
                                  IF body.clearAccess THEN Blank
                                  ELSE IF IsBlank(body.accessKey) THEN wantCred[2]
                                  ELSE Trim(body.accessKey) >>
                /\ wantListen' = IF body.listen = server.listen THEN wantListen
                                 ELSE IF IsBlank(body.listen) THEN DefaultListen
                                 ELSE Trim(body.listen)
                /\ UNCHANGED rejected
           ELSE /\ answer' = [answer EXCEPT ![p] = "refused"]
                /\ rejected' = TRUE
                /\ UNCHANGED <<serverVars, wishes>>
    /\ UNCHANGED <<page, undo, undone, saves, starts>>

\* The answer reaches the page.  A saved one carries the server's current
\* configuration, which the page adopts; a refused one leaves the page's
\* edits, except that a deleted entry is put back.
Receive(p) ==
    /\ answer[p] # None
    /\ answer' = [answer EXCEPT ![p] = None]
    /\ IF answer[p] = "saved"
       THEN /\ page' = [page EXCEPT ![p] = AdoptWith(server, ids)]
            /\ undo' = [undo EXCEPT ![p] = IF @ = None THEN None ELSE [@ EXCEPT !.done = TRUE]]
       ELSE IF undo[p] # None /\ ~undo[p].done
       THEN /\ page' = [page EXCEPT ![p].drafts = InsertAt(@, undo[p].at, undo[p].item)]
            /\ undo' = [undo EXCEPT ![p] = None]
       ELSE UNCHANGED <<page, undo>>
    /\ UNCHANGED <<serverVars, sent, saves, starts, rejected, ghosts>>

\* Bug: without a flag the default address is used.
StartupDefault(flag) ==
    Normalize([Normalize(file) EXCEPT !.listen = flag])

\* main: load the file, let a flag override the address, seed the store.
Startup(flag) ==
    LET loaded == Normalize(file)
    IN  Normalize([loaded EXCEPT !.listen = IF flag = Blank THEN @ ELSE flag])

\* The program is restarted; the tabs are reloaded.
Restart(flag) ==
    /\ starts < MaxStarts
    /\ starts' = starts + 1
    /\ server' = Startup(flag)
    /\ page' = [p \in Pages |-> None]
    /\ sent' = [p \in Pages |-> None]
    /\ answer' = [p \in Pages |-> None]
    /\ undo' = [p \in Pages |-> None]
    /\ UNCHANGED <<ids, file, saves, rejected, ghosts>>

Next ==
    \/ \E flag \in Flags : Restart(flag)
    \/ \E p \in Pages :
          \/ Load(p)
          \/ Serve(p)
          \/ Receive(p)
          \/ /\ Ready(p)
             /\ \/ \E i \in 1 .. Len(page[p].drafts) :
                      \/ \E name \in Names : Rename(p, i, name)
                      \/ \E key \in Keys : TypeKey(p, i, key)
                      \/ Activate(p, i)
                      \/ Delete(p, i)
                \/ \E name \in Names : Add(p, name)
                \/ Undo(p)
                \/ \E listen \in Addresses \cup {page[p].listen}, cred \in Creds :
                      SaveAdvanced(p, listen, cred)
                \/ ClearAll(p)

Spec == Init /\ [][Next]_vars

-----------------------------------------------------------------------------
TypeOK ==
    /\ Len(ids) = Len(server.upstreams)
    /\ \A i \in 1 .. Len(ids) : ids[i] \in Ids
    /\ \A p \in Pages : ~(sent[p] # None /\ answer[p] # None)
    /\ \A p \in Pages : (sent[p] # None \/ answer[p] # None) => page[p] # None
    /\ saves \in 0 .. MaxSaves
    /\ starts \in 0 .. MaxStarts

(* "A rename must not orphan the stored credential": an upstream keeps the *)
(* key the operator gave it through renames, additions, deletions and      *)
(* saves of other entries, and never gets another upstream's key.          *)
KeyFollowsUpstream ==
    \A i \in 1 .. Len(ids) : server.upstreams[i].key = wantKey[ids[i]]

(* The same as long as no deletion was undone: the undo button brings an   *)
(* upstream back without its key, as a run with KeyFollowsUpstream shows.  *)
KeyFollowsUntilUndo == ~undone => KeyFollowsUpstream

(* Whatever it loses, an upstream never gets the key of another one: a key *)
(* is sent only to the address the operator typed it for.                  *)
NoForeignKey ==
    \A i \in 1 .. Len(ids) : server.upstreams[i].key \in {Blank, wantKey[ids[i]]}

(* The page's own checks are as strict as Validate: what one tab lets the  *)
(* operator save, the server accepts; but for an undone deletion, whose    *)
(* name another entry may have taken meanwhile.                            *)
NeverRejected == rejected => undone

(* A credential typed into the advanced form and saved is in force; the    *)
(* access key is "independent of AdminKey".                                *)
CredentialsStored == server.adminKey = wantCred[1] /\ server.accessKey = wantCred[2]

(* The startup flags are "a startup-only override": the file keeps the     *)
(* address the operator put there, the default for a blank one.            *)
FileKeepsAddress == file.listen = wantListen
=============================================================================
