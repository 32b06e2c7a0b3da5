---------------------------- MODULE ConsoleProofs ----------------------------
(***************************************************************************)
(* What holds of the console's configuration however often it is edited,   *)
(* saved and reloaded: the credentials and the address with any number of  *)
(* pages, the keys of the upstreams with one.                              *)
(***************************************************************************)
EXTENDS Console, Counting, SequenceTheorems, TLAPS

-----------------------------------------------------------------------------
(* The configuration as data: what Normalize and a draft of saveConfig are *)
(* for any configuration and any view.                                     *)

\* Trimming twice is trimming once.
LEMMA TrimTwice ==
    ASSUME NEW t
    PROVE  Trim(Trim(t)) = Trim(t)
BY DEF Trim, T

\* Trimming leaves what a text says, and so whether it is blank.
LEMMA TrimSays ==
    ASSUME NEW t
    PROVE  Trim(t).v = t.v /\ (IsBlank(Trim(t)) <=> IsBlank(t))
BY DEF Trim, T, IsBlank

\* An entry that is trimmed stays as it is.
LEMMA TrimUpstreamTwice ==
    ASSUME NEW u
    PROVE  TrimUpstream(TrimUpstream(u)) = TrimUpstream(u)
BY TrimTwice DEF TrimUpstream

\* What a configuration in the store always is: its credentials are trimmed
\* and it has no legacy entry.
Settled(c) == Trim(c.adminKey) = c.adminKey /\ Trim(c.accessKey) = c.accessKey /\ c.legacy = <<>>

LEMMA NormalizedSettled ==
    ASSUME NEW c
    PROVE  Settled(Normalize(c))
BY TrimTwice DEF Normalize, Settled

\* What Migrated gives when there is a list.
LEMMA MigratedList ==
    ASSUME NEW c, NEW n \in Nat \ {0}, NEW e, c.upstreams = [i \in 1 .. n |-> e[i]]
    PROVE  Migrated(c) = c.upstreams /\ Len(c.upstreams) = n
<1>1. Len(c.upstreams) = n /\ c.upstreams # <<>>
  OBVIOUS
<1> QED
  BY <1>1 DEF Migrated

\* One entry of a normalised draft: the view's, with the key the handler resolved.
Drafted(c, iv) ==
    TrimUpstream([name |-> iv.name, format |-> iv.format, url |-> iv.url,
                  key |-> ResolveAPIKey(iv, PreviousKey(c, iv)), timeout |-> iv.timeout])

LEMMA DraftList ==
    ASSUME NEW c, NEW view, Len(view.upstreams) \in Nat \ {0}
    PROVE  /\ Normalize(BuildNext(c, view)).upstreams =
                  [i \in 1 .. Len(view.upstreams) |-> Drafted(c, view.upstreams[i])]
           /\ Len(Normalize(BuildNext(c, view)).upstreams) = Len(view.upstreams)
<1> DEFINE d == BuildNext(c, view)
           n == Len(view.upstreams)
           e == [j \in 1 .. n |->
                    [name |-> view.upstreams[j].name, format |-> view.upstreams[j].format,
                     url |-> view.upstreams[j].url,
                     key |-> ResolveAPIKey(view.upstreams[j], PreviousKey(c, view.upstreams[j])),
                     timeout |-> view.upstreams[j].timeout]]
           l == [i \in 1 .. n |-> Drafted(c, view.upstreams[i])]
<1>1. d.upstreams = e
  BY DEF BuildNext
<1>2. \A i \in 1 .. n : TrimUpstream(e[i]) = Drafted(c, view.upstreams[i])
  BY DEF Drafted
<1>3. e = [j \in 1 .. n |-> e[j]]
  OBVIOUS
<1> HIDE DEF d, e
<1>4. Migrated(d) = e /\ Len(e) = n
  BY <1>1, <1>3, MigratedList
<1>5. Normalize(d).upstreams = [i \in 1 .. n |-> TrimUpstream(e[i])]
  BY <1>4 DEF Normalize
<1>6. Normalize(d).upstreams = l
  BY <1>2, <1>5
<1>7. Len(l) = n
  OBVIOUS
<1> QED
  BY <1>6, <1>7 DEF d

\* First is the first position.
LEMMA FirstIsFirst ==
    ASSUME NEW S, S \subseteq Nat, S # {}
    PROVE  First(S) \in S /\ \A j \in S : First(S) <= j
BY LeastNumber DEF First

-----------------------------------------------------------------------------
(* What every body a page sends has, whatever was edited.                  *)

CopyFields == {"listen", "maxTokens", "active", "drafts"}
BodyFields == {"listen", "maxTokens", "active", "adminKey", "clearAdmin", "accessKey",
               "clearAccess", "upstreams"}
DraftFields == {"name", "original", "format", "url", "timeout", "key", "clear", "id"}

\* At most one of the two credentials is touched.
OneCredential(body) ==
    (body.clearAdmin \/ ~IsBlank(body.adminKey)) => ~body.clearAccess /\ IsBlank(body.accessKey)

\* What is typed into the advanced form.
OneTyped == \A cred \in Creds : IsBlank(cred[1]) \/ IsBlank(cred[2])

\* The value that stands for "no copy", "no body" and "no key" is none itself.
NoneIsNoCopy == DOMAIN None \notin {CopyFields, BodyFields}
NoneIsNoKey == None \notin Keys \cup {Blank, T("ka"), T("kb"), "saved", "refused"}

\* One edit is sent.
Sends(p, copy, body) ==
    /\ SendBody(p, copy, body)
    /\ DOMAIN copy = CopyFields
    /\ OneCredential(body)

LEMMA PayloadFields ==
    ASSUME NEW copy
    PROVE  /\ Payload(copy).listen = copy.listen
           /\ Payload(copy).active = copy.active /\ Payload(copy).maxTokens = copy.maxTokens
           /\ OneCredential(Payload(copy))
BY DEF Payload, OneCredential, IsBlank, Blank, T

\* Everything the operator can do on a page sends one edit.
Operate(p) ==
    /\ Ready(p)
    /\ \/ \E i \in 1 .. Len(page[p].drafts) :
             \/ \E name \in Names : Rename(p, i, name)
             \/ \E key \in Keys : TypeKey(p, i, key)
             \/ Activate(p, i)
             \/ Delete(p, i)
       \/ \E name \in Names : Add(p, name)
       \/ Undo(p)
       \/ \E listen \in Addresses \cup {page[p].listen}, cred \in Creds :
             SaveAdvanced(p, listen, cred)
       \/ ClearAll(p)

LEMMA OperateSends ==
    ASSUME OneTyped, NEW p \in Pages, DOMAIN page[p] = CopyFields, Operate(p)
    PROVE  \E copy, body : Sends(p, copy, body)
<1>1. ASSUME NEW copy, Send(p, copy), DOMAIN copy = CopyFields, copy.listen = page[p].listen
      PROVE  \E copy1, body1 : Sends(p, copy1, body1)
  <2>1. Sends(p, copy, Payload(copy))
    BY <1>1, PayloadFields DEF Send, Sends
  <2> QED
    BY <2>1
<1>2. ASSUME NEW i, NEW name, Rename(p, i, name)
      PROVE  \E copy1, body1 : Sends(p, copy1, body1)
  <2> DEFINE copy == [page[p] EXCEPT !.drafts[i].name = name,
                                     !.active = IF @ = page[p].drafts[i].name THEN name ELSE @]
  <2>1. Send(p, copy)
    BY <1>2 DEF Rename
  <2>2. DOMAIN copy = CopyFields /\ copy.listen = page[p].listen
    BY DEF CopyFields
  <2> HIDE DEF copy
  <2> QED
    BY <1>1, <2>1, <2>2
<1>3. ASSUME NEW i, NEW key, TypeKey(p, i, key)
      PROVE  \E copy1, body1 : Sends(p, copy1, body1)
  <2> DEFINE copy == [page[p] EXCEPT !.drafts[i].key = key, !.drafts[i].clear = FALSE]
  <2>1. Send(p, copy)
    BY <1>3 DEF TypeKey
  <2>2. DOMAIN copy = CopyFields /\ copy.listen = page[p].listen
    BY DEF CopyFields
  <2> HIDE DEF copy
  <2> QED
    BY <1>1, <2>1, <2>2
<1>4. ASSUME NEW i, Activate(p, i)
      PROVE  \E copy1, body1 : Sends(p, copy1, body1)
  <2> DEFINE copy == [page[p] EXCEPT !.active = page[p].drafts[i].name]
  <2>1. Send(p, copy)
    BY <1>4 DEF Activate
  <2>2. DOMAIN copy = CopyFields /\ copy.listen = page[p].listen
    BY DEF CopyFields
  <2> HIDE DEF copy
  <2> QED
    BY <1>1, <2>1, <2>2
<1>5. ASSUME NEW drafts, Send(p, [page[p] EXCEPT !.drafts = drafts])
      PROVE  \E copy1, body1 : Sends(p, copy1, body1)
  <2> DEFINE copy == [page[p] EXCEPT !.drafts = drafts]
  <2>1. DOMAIN copy = CopyFields /\ copy.listen = page[p].listen
    BY DEF CopyFields
  <2> QED
    BY <1>1, <1>5, <2>1
<1>6. ASSUME NEW i, Delete(p, i)
      PROVE  \E copy1, body1 : Sends(p, copy1, body1)
  <2>1. Send(p, [page[p] EXCEPT !.drafts = Without(page[p].drafts, i)])
    BY <1>6 DEF Delete
  <2> QED
    BY <1>5, <2>1
<1>7. ASSUME NEW name, Add(p, name)
      PROVE  \E copy1, body1 : Sends(p, copy1, body1)
  <2>1. \E item : Send(p, [page[p] EXCEPT !.drafts = Append(page[p].drafts, item)])
    BY <1>7 DEF Add
  <2> QED
    BY <1>5, <2>1
<1>8. ASSUME Undo(p)
      PROVE  \E copy1, body1 : Sends(p, copy1, body1)
  <2>1. \E at : Send(p, [page[p] EXCEPT !.drafts = InsertAt(page[p].drafts, at, undo[p].item)])
    BY <1>8 DEF Undo
  <2> QED
    BY <1>5, <2>1
<1>9. ASSUME NEW listen \in Addresses \cup {page[p].listen}, NEW cred \in Creds,
             SaveAdvanced(p, listen, cred)
      PROVE  \E copy1, body1 : Sends(p, copy1, body1)
  <2> DEFINE copy == [page[p] EXCEPT !.listen = listen]
             body == [Payload(copy) EXCEPT !.adminKey = cred[1], !.accessKey = cred[2]]
  <2>1. SendBody(p, copy, body)
    BY <1>9 DEF SaveAdvanced
  <2>2. DOMAIN copy = CopyFields /\ copy.listen = listen
    BY DEF CopyFields
  <2> HIDE DEF copy
  <2>3. body.listen = copy.listen
    BY DEF Payload
  <2>4. OneCredential(body)
    <3>1. IsBlank(cred[1]) \/ IsBlank(cred[2])
      BY DEF OneTyped
    <3>2. /\ body.adminKey = cred[1] /\ body.accessKey = cred[2]
          /\ body.clearAdmin = FALSE /\ body.clearAccess = FALSE
      BY DEF Payload
    <3> QED
      BY <3>1, <3>2 DEF OneCredential
  <2> HIDE DEF body
  <2>5. Sends(p, copy, body)
    BY <2>1, <2>2, <2>3, <2>4 DEF Sends
  <2> QED
    BY <2>5
<1>10. ASSUME ClearAll(p)
       PROVE  \E copy1, body1 : Sends(p, copy1, body1)
  <2> DEFINE copy == [page[p] EXCEPT !.drafts =
                    [i \in 1 .. Len(@) |-> [@[i] EXCEPT !.clear = TRUE, !.key = Blank]]]
             body == [Payload(copy) EXCEPT !.clearAdmin = TRUE]
  <2>1. SendBody(p, copy, body)
    BY <1>10 DEF ClearAll
  <2>2. DOMAIN copy = CopyFields /\ copy.listen = page[p].listen
    BY DEF CopyFields
  <2> HIDE DEF copy
  <2>3. /\ body.listen = copy.listen
        /\ body.accessKey = Blank /\ body.clearAccess = FALSE
    BY DEF Payload
  <2> HIDE DEF body
  <2>4. OneCredential(body)
    <3>1. IsBlank(body.accessKey)
      <4>1. IsBlank(Blank)
        BY DEF IsBlank, Blank, T
      <4>2. body.accessKey = Blank
        BY <2>3
      <4> QED
        BY ONLY <4>1, <4>2
    <3>2. ~body.clearAccess
      BY <2>3
    <3> QED
      BY <3>1, <3>2 DEF OneCredential
  <2>5. Sends(p, copy, body)
    BY <2>1, <2>2, <2>3, <2>4 DEF Sends
  <2> QED
    BY <2>5
<1> QED
  BY <1>2, <1>3, <1>4, <1>6, <1>7, <1>8, <1>9, <1>10 DEF Operate

-----------------------------------------------------------------------------
(* Credentials and addresses, with any number of pages.                    *)

Maps == DOMAIN page = Pages /\ DOMAIN sent = Pages /\ DOMAIN answer = Pages

\* A page that is loaded has the fields of a copy; only a loaded page has a
\* save under way.
Copies ==
    /\ Maps
    /\ \A p \in Pages : page[p] # None => DOMAIN page[p] = CopyFields
    /\ \A p \in Pages : sent[p] # None \/ answer[p] # None => page[p] # None

\* The file and the store hold the credentials the operator gave; a body on
\* its way touches one of them.
Secrets ==
    /\ Settled(server) /\ Settled(file)
    /\ file.adminKey = server.adminKey /\ file.accessKey = server.accessKey
    /\ server.adminKey = wantCred[1] /\ server.accessKey = wantCred[2]
    /\ \A p \in Pages : sent[p] # None => OneCredential(sent[p])

\* The store listens where the file says, which is where the operator said.
Listens ==
    /\ server.listen = file.listen /\ file.listen = wantListen
    /\ Trim(file.listen) = file.listen /\ ~IsBlank(file.listen)

\* A copy made from a configuration.
LEMMA AdoptedFields ==
    ASSUME NEW c, NEW us
    PROVE  /\ DOMAIN AdoptWith(c, us) = CopyFields
           /\ AdoptWith(c, us).listen = c.listen
           /\ AdoptWith(c, us).active = c.active
           /\ AdoptWith(c, us).maxTokens = IF c.maxTokens = 0 THEN DefaultMaxTokens ELSE c.maxTokens
<1>1. DOMAIN Adopt(c) = CopyFields
  BY DEF Adopt, CopyFields
<1>2. Adopt(c).listen = c.listen /\ Adopt(c).active = c.active
      /\ Adopt(c).maxTokens = IF c.maxTokens = 0 THEN DefaultMaxTokens ELSE c.maxTokens
  BY DEF Adopt
<1> QED
  BY <1>1, <1>2 DEF AdoptWith, CopyFields

\* A body that is sent.
LEMMA SendsKeeps ==
    ASSUME NoneIsNoCopy, NEW p \in Pages, NEW copy, NEW body, Copies, Sends(p, copy, body)
    PROVE  /\ Copies'
           /\ Secrets => Secrets'
           /\ Listens => Listens'
<1>1. /\ Ready(p) /\ page' = [page EXCEPT ![p] = copy] /\ sent' = [sent EXCEPT ![p] = body]
      /\ UNCHANGED <<server, ids, file, answer, wantKey, wantCred, wantListen>>
  BY DEF Sends, SendBody, serverVars, wishes
<1>2. /\ page'[p] = copy /\ sent'[p] = body
      /\ \A q \in Pages \ {p} : page'[q] = page[q] /\ sent'[q] = sent[q]
  BY <1>1 DEF Copies, Maps
<1>3. Copies'
  <2>1. DOMAIN copy = CopyFields /\ copy # None
    BY DEF Sends, NoneIsNoCopy
  <2> QED
    BY <1>1, <1>2, <2>1 DEF Copies, Maps
<1>4. Secrets => Secrets'
  BY <1>1, <1>2 DEF Secrets, Sends
<1>5. Listens => Listens'
  BY <1>1 DEF Listens
<1> QED
  BY <1>3, <1>4, <1>5

LEMMA ServeKeeps ==
    ASSUME NEW p \in Pages, Copies, Serve(p)
    PROVE  /\ Copies'
           /\ Secrets => Secrets'
           /\ Listens => Listens'
<1> DEFINE body == sent[p]
           next == Normalize(BuildNext(server, body))
<1>1. /\ body # None /\ sent' = [sent EXCEPT ![p] = None] /\ UNCHANGED page
      /\ DOMAIN answer' = DOMAIN answer
  BY DEF Serve
<1>2. \A q \in Pages : sent'[q] # None => sent'[q] = sent[q]
  BY <1>1 DEF Copies, Maps
<1>3. Copies'
  <2>1. answer' = [answer EXCEPT ![p] = "saved"] \/ answer' = [answer EXCEPT ![p] = "refused"]
    BY DEF Serve
  <2>2. \A q \in Pages \ {p} : answer'[q] = answer[q]
    BY <2>1 DEF Copies, Maps
  <2>3. page[p] # None
    BY <1>1 DEF Copies
  <2> QED
    BY <1>1, <1>2, <2>2, <2>3 DEF Copies, Maps
<1>4. CASE ~Valid(next)
  <2>1. UNCHANGED <<server, ids, file, wantKey, wantCred, wantListen>>
    BY <1>4 DEF Serve, serverVars, wishes
  <2> QED
    BY <1>1, <1>2, <1>3, <2>1 DEF Secrets, Listens
<1>5. CASE Valid(next)
  <2>1. /\ server' = next /\ file' = next
        /\ wantCred' = << IF body.clearAdmin THEN Blank
                          ELSE IF IsBlank(body.adminKey) THEN wantCred[1] ELSE Trim(body.adminKey),
                          IF body.clearAccess THEN Blank
                          ELSE IF IsBlank(body.accessKey) THEN wantCred[2] ELSE Trim(body.accessKey) >>
        /\ wantListen' = IF body.listen = server.listen THEN wantListen
                         ELSE IF IsBlank(body.listen) THEN DefaultListen ELSE Trim(body.listen)
    BY <1>5 DEF Serve
  <2>2. ASSUME Secrets
        PROVE  Secrets'
    <3>1. /\ next.adminKey = Trim(Credentials(server, body)[1])
          /\ next.accessKey = Trim(Credentials(server, body)[2])
      BY DEF Normalize, BuildNext
    <3>2. /\ Trim(Blank) = Blank /\ IsBlank(Blank)
          /\ Trim(server.adminKey) = server.adminKey /\ Trim(server.accessKey) = server.accessKey
      BY <2>2 DEF Secrets, Settled, Trim, IsBlank, Blank, T
    <3>3. OneCredential(body)
      BY <1>1, <2>2 DEF Secrets
    <3>4. wantCred[1] = server.adminKey /\ wantCred[2] = server.accessKey
      BY <2>2 DEF Secrets
    <3>5. next.adminKey = wantCred'[1] /\ next.accessKey = wantCred'[2]
      <4> HIDE DEF next, body
      <4>1. CASE sent[p].clearAdmin
        BY <2>1, <3>1, <3>2, <3>3, <3>4, <4>1 DEF OneCredential, Credentials, body
      <4>2. CASE ~sent[p].clearAdmin /\ ~IsBlank(sent[p].adminKey)
        BY <2>1, <3>1, <3>2, <3>3, <3>4, <4>2 DEF OneCredential, Credentials, body
      <4>3. CASE ~sent[p].clearAdmin /\ IsBlank(sent[p].adminKey) /\ sent[p].clearAccess
        BY <2>1, <3>1, <3>2, <3>3, <3>4, <4>3 DEF OneCredential, Credentials, body
      <4>4. CASE ~sent[p].clearAdmin /\ IsBlank(sent[p].adminKey) /\ ~sent[p].clearAccess
        BY <2>1, <3>1, <3>2, <3>3, <3>4, <4>4 DEF OneCredential, Credentials, body
      <4> QED
        BY <4>1, <4>2, <4>3, <4>4
    <3>6. Settled(next)
      BY NormalizedSettled
    <3> HIDE DEF next
    <3> QED
      BY <1>2, <2>1, <2>2, <3>5, <3>6 DEF Secrets
  <2>3. ASSUME Listens
        PROVE  Listens'
    <3>1. next.listen = IF IsBlank(body.listen) THEN DefaultListen ELSE Trim(body.listen)
      BY DEF Normalize, BuildNext
    <3>2. Trim(DefaultListen) = DefaultListen /\ ~IsBlank(DefaultListen)
      BY DEF Trim, T, IsBlank, DefaultListen
    <3>3. Trim(next.listen) = next.listen /\ ~IsBlank(next.listen)
      BY <3>1, <3>2, TrimTwice, TrimSays
    <3>4. next.listen = wantListen'
      BY <2>1, <2>3, <3>1 DEF Listens
    <3> HIDE DEF next
    <3> QED
      BY <1>1, <1>2, <2>1, <2>3, <3>3, <3>4 DEF Listens
  <2> QED
    BY <1>3, <2>2, <2>3
<1> QED
  BY <1>4, <1>5

LEMMA LoadKeeps ==
    ASSUME NoneIsNoCopy, NEW p \in Pages, Copies, Load(p)
    PROVE  /\ Copies'
           /\ Secrets => Secrets'
           /\ Listens => Listens'
<1>1. /\ page' = [page EXCEPT ![p] = AdoptWith(server, ids)]
      /\ UNCHANGED <<server, file, sent, answer, wantCred, wantListen>>
  BY DEF Load, serverVars, ghosts, wishes
<1>2. DOMAIN AdoptWith(server, ids) = CopyFields /\ AdoptWith(server, ids).listen = server.listen
  BY AdoptedFields
<1> QED
  BY <1>1, <1>2 DEF Copies, Maps, Secrets, Listens, NoneIsNoCopy

LEMMA ReceiveKeeps ==
    ASSUME NoneIsNoCopy, NEW p \in Pages, Copies, Receive(p)
    PROVE  /\ Copies'
           /\ Secrets => Secrets'
           /\ Listens => Listens'
<1>1. /\ UNCHANGED <<server, file, sent, wantCred, wantListen>>
      /\ answer[p] # None /\ answer' = [answer EXCEPT ![p] = None]
  BY DEF Receive, serverVars, ghosts, wishes
<1>2. DOMAIN AdoptWith(server, ids) = CopyFields /\ AdoptWith(server, ids).listen = server.listen
  BY AdoptedFields
<1>3. \A q \in Pages : answer'[q] # None => answer[q] # None
  BY <1>1 DEF Copies, Maps
<1>4. \/ UNCHANGED page
      \/ page' = [page EXCEPT ![p] = AdoptWith(server, ids)]
      \/ page[p] # None /\ \E drafts : page' = [page EXCEPT ![p].drafts = drafts]
  BY <1>1 DEF Receive, Copies
<1>5. CASE UNCHANGED page
  BY <1>3, <1>1, <1>5 DEF Copies, Maps, Secrets, Listens
<1>6. CASE page' = [page EXCEPT ![p] = AdoptWith(server, ids)]
  BY <1>3, <1>1, <1>2, <1>6 DEF Copies, Maps, Secrets, Listens, NoneIsNoCopy
<1>7. ASSUME page[p] # None, NEW drafts, page' = [page EXCEPT ![p].drafts = drafts]
      PROVE  /\ Copies'
             /\ Secrets => Secrets'
             /\ Listens => Listens'
  <2>1. DOMAIN page[p] = CopyFields
    BY <1>7 DEF Copies
  <2>2. DOMAIN page'[p] = CopyFields /\ page'[p].listen = page[p].listen
    BY <1>7, <2>1 DEF Copies, Maps, CopyFields
  <2>3. DOMAIN page' = Pages /\ \A q \in Pages \ {p} : page'[q] = page[q]
    BY <1>7 DEF Copies, Maps
  <2> QED
    BY <1>3, <1>1, <1>7, <2>2, <2>3 DEF Copies, Maps, Secrets, Listens, NoneIsNoCopy
<1> QED
  BY <1>4, <1>5, <1>6, <1>7

LEMMA RestartKeeps ==
    ASSUME NEW flag, Restart(flag)
    PROVE  /\ Copies'
           /\ Secrets => Secrets'
           /\ flag = Blank /\ Listens => Listens'
<1> DEFINE loaded == Normalize(file)
           seed == [loaded EXCEPT !.listen = IF flag = Blank THEN @ ELSE flag]
<1>1. /\ server' = Normalize(seed)
      /\ page' = [p \in Pages |-> None] /\ sent' = [p \in Pages |-> None]
      /\ answer' = [p \in Pages |-> None]
      /\ UNCHANGED <<file, wantCred, wantListen>>
  BY DEF Restart, Startup, ghosts, wishes
<1>2. seed.adminKey = loaded.adminKey /\ seed.accessKey = loaded.accessKey
  BY DEF Normalize
<1>3. loaded.adminKey = Trim(file.adminKey) /\ loaded.accessKey = Trim(file.accessKey)
  BY DEF Normalize
<1>4. loaded.listen = IF IsBlank(file.listen) THEN DefaultListen ELSE Trim(file.listen)
  BY DEF Normalize
<1>5. seed.listen = IF flag = Blank THEN loaded.listen ELSE flag
  BY DEF Normalize
<1> HIDE DEF loaded, seed
<1>6. Copies'
  BY <1>1 DEF Copies, Maps
<1>7. ASSUME Secrets
      PROVE  Secrets'
  <2>1. Settled(server')
    BY <1>1, NormalizedSettled
  <2>2. server'.adminKey = Trim(seed.adminKey) /\ server'.accessKey = Trim(seed.accessKey)
    BY <1>1 DEF Normalize
  <2>3. server'.adminKey = file.adminKey /\ server'.accessKey = file.accessKey
    BY <1>2, <1>3, <1>7, <2>2, TrimTwice DEF Secrets, Settled
  <2> QED
    BY <1>1, <1>7, <2>1, <2>3 DEF Secrets
<1>8. ASSUME flag = Blank, Listens
      PROVE  Listens'
  <2>1. server'.listen = IF IsBlank(seed.listen) THEN DefaultListen ELSE Trim(seed.listen)
    BY <1>1 DEF Normalize
  <2>2. server'.listen = file.listen
    BY <1>4, <1>5, <1>8, <2>1 DEF Listens
  <2> QED
    BY <1>1, <1>8, <2>2 DEF Listens
<1> QED
  BY <1>6, <1>7, <1>8

LEMMA InitKeeps ==
    ASSUME Init
    PROVE  Copies /\ Secrets /\ Listens
<1>1. /\ server = FirstConfig /\ file = FirstConfig /\ wantListen = FirstConfig.listen
      /\ wantCred = <<Blank, Blank>>
      /\ page = [p \in Pages |-> None] /\ sent = [p \in Pages |-> None]
      /\ answer = [p \in Pages |-> None]
  BY DEF Init
<1>2. /\ FirstConfig.adminKey = Blank /\ FirstConfig.accessKey = Blank
      /\ FirstConfig.legacy = <<>> /\ FirstConfig.listen = DefaultListen
  BY DEF FirstConfig, Default
<1>3. /\ Trim(Blank) = Blank
      /\ Trim(DefaultListen) = DefaultListen /\ ~IsBlank(DefaultListen)
  BY DEF Trim, T, Blank, IsBlank, DefaultListen
<1> QED
  BY <1>1, <1>2, <1>3 DEF Copies, Maps, Secrets, Listens, Settled

LEMMA StepKeeps ==
    ASSUME OneTyped, NoneIsNoCopy, Copies, [Next]_vars
    PROVE  /\ Copies'
           /\ Secrets => Secrets'
           /\ (\A flag \in Flags : flag = Blank) /\ Listens => Listens'
<1>1. ASSUME NEW p \in Pages, Operate(p)
      PROVE  /\ Copies'
             /\ Secrets => Secrets'
             /\ Listens => Listens'
  <2>1. DOMAIN page[p] = CopyFields
    BY <1>1 DEF Operate, Ready, Copies
  <2>2. PICK copy, body : Sends(p, copy, body)
    BY <1>1, <2>1, OperateSends
  <2> QED
    BY <2>2, SendsKeeps
<1>2. CASE UNCHANGED vars
  BY <1>2 DEF vars, serverVars, pageVars, ghosts, wishes, Copies, Maps, Secrets, Listens
<1>3. ASSUME NEW flag \in Flags, Restart(flag)
      PROVE  /\ Copies'
             /\ Secrets => Secrets'
             /\ flag = Blank /\ Listens => Listens'
  BY <1>3, RestartKeeps
<1>4. ASSUME NEW p \in Pages, Load(p) \/ Serve(p) \/ Receive(p)
      PROVE  /\ Copies'
             /\ Secrets => Secrets'
             /\ Listens => Listens'
  BY <1>4, LoadKeeps, ServeKeeps, ReceiveKeeps
<1>5. Next => \/ \E flag \in Flags : Restart(flag)
              \/ \E p \in Pages : Load(p) \/ Serve(p) \/ Receive(p)
              \/ \E p \in Pages : Operate(p)
  BY DEF Next, Operate
<1> QED
  BY <1>1, <1>2, <1>3, <1>4, <1>5

(* However many pages edit at once and however often the program restarts, *)
(* with whatever flags: the console password and the access key in force   *)
(* are the ones the operator saved last (saveConfig's switch over the two  *)
(* credentials, admin.go).                                                 *)
THEOREM CredentialsStoredHolds ==
    ASSUME OneTyped, NoneIsNoCopy
    PROVE  Spec => []CredentialsStored
<1>1. Init => Copies /\ Secrets
  BY InitKeeps
<1>2. Copies /\ Secrets /\ [Next]_vars => (Copies /\ Secrets)'
  BY StepKeeps
<1>3. Copies /\ Secrets => CredentialsStored
  BY DEF Secrets, CredentialsStored
<1> QED
  BY <1>1, <1>2, <1>3, PTL DEF Spec

(* As long as no flag is given the file keeps the address the operator put *)
(* there, with any number of pages and restarts; with a flag it does not,  *)
(* as the run ConsoleFlag shows (main.go seeds the store with the         *)
(* overridden configuration and every save writes all of it).              *)
THEOREM FileKeepsAddressHolds ==
    ASSUME OneTyped, NoneIsNoCopy, \A flag \in Flags : flag = Blank
    PROVE  Spec => []FileKeepsAddress
<1>1. Init => Copies /\ Listens
  BY InitKeeps
<1>2. Copies /\ Listens /\ [Next]_vars => (Copies /\ Listens)'
  BY StepKeeps
<1>3. Copies /\ Listens => FileKeepsAddress
  BY DEF Listens, FileKeepsAddress
<1> QED
  BY <1>1, <1>2, <1>3, PTL DEF Spec

-----------------------------------------------------------------------------
(* The keys of the upstreams, with one page.                               *)

OnePage == \A p, q \in Pages : p = q

\* The editor trims a name and refuses a blank one.
TypedNames == \A name \in Names : Trim(name) = name /\ name # Blank

\* The key an upstream owns; one that was never saved owns none.
Owned(wk, u) == IF wk[u] = None THEN Blank ELSE wk[u]

\* No two entries share a name, and none their upstream.
Distinct(names, us, n) ==
    \A i, j \in 1 .. n : names[i].name = names[j].name \/ us[i] = us[j] => i = j

\* The live entry is there and points somewhere.
LiveIn(list, active) == \E i \in 1 .. Len(list) : list[i].name = active /\ list[i].url # Blank

\* An entry with nothing to trim and nothing for Validate to refuse.
GoodEntry(u) ==
    /\ Trim(u.name) = u.name /\ u.name # Blank
    /\ u.format \in SupportedFormats
    /\ Trim(u.url) = u.url
    /\ Trim(u.timeout) = u.timeout /\ TimeoutOK(u)
    /\ u.key # None

\* The store c holds the key each of the upstreams us owns.
GoodStore(c, us, wk) ==
    /\ Len(c.upstreams) \in Nat \ {0}
    /\ c.upstreams = [i \in 1 .. Len(c.upstreams) |-> c.upstreams[i]]
    /\ \A i \in 1 .. Len(c.upstreams) :
          /\ TrimUpstream(c.upstreams[i]) = c.upstreams[i] /\ GoodEntry(c.upstreams[i])
          /\ us[i] \in Ids /\ wk[us[i]] = c.upstreams[i].key
    /\ Len(us) = Len(c.upstreams)
    /\ Distinct(c.upstreams, us, Len(c.upstreams))
    /\ Trim(c.active) = c.active /\ ~IsBlank(c.active) /\ c.maxTokens # 0
    /\ LiveIn(c.upstreams, c.active)

\* The ids of the entries of a page or a body.
IdsOf(list) == [i \in 1 .. Len(list) |-> list[i].id]

\* A body the server accepts, whose entries inherit the keys they own.
GoodBody(body, c, wk) ==
    /\ Len(body.upstreams) \in Nat \ {0}
    /\ \A i \in 1 .. Len(body.upstreams) :
          /\ GoodEntry(body.upstreams[i]) /\ body.upstreams[i].id \in Ids
          /\ PreviousKey(c, body.upstreams[i]) = Owned(wk, body.upstreams[i].id)
    /\ Distinct(body.upstreams, IdsOf(body.upstreams), Len(body.upstreams))
    /\ body.maxTokens # 0
    /\ LiveIn(body.upstreams, body.active)

\* A page is the store's configuration, or a save of it is under way that
\* the server will accept.
Synced ==
    ~undone =>
      /\ GoodStore(server, ids, wantKey) /\ GoodStore(file, ids, wantKey)
      /\ rejected = FALSE
      /\ \A p \in Pages :
            /\ page[p] # None /\ sent[p] = None /\ answer[p] = None
                   => page[p] = AdoptWith(server, ids)
            /\ sent[p] # None => GoodBody(sent[p], server, wantKey)
            /\ answer[p] \in {None, "saved"}

\* A name that is trimmed and not empty says something.
LEMMA NameSays ==
    ASSUME NEW t, Trim(t) = t, t # Blank
    PROVE  ~IsBlank(t)
BY DEF Trim, T, Blank, IsBlank

\* The length of a list given by its entries.
LEMMA ListLen ==
    ASSUME NEW s, NEW n \in Nat, s = [i \in 1 .. n |-> s[i]]
    PROVE  Len(s) = n
OBVIOUS

\* A trimmed, valid list survives normalisation as it is.
LEMMA NormalizeGood ==
    ASSUME NEW c, NEW us, NEW wk, GoodStore(c, us, wk)
    PROVE  /\ Normalize(c).upstreams = c.upstreams
           /\ Normalize(c).active = c.active /\ Normalize(c).maxTokens = c.maxTokens
<1> DEFINE n == Len(c.upstreams)
<1>1. n \in Nat \ {0} /\ c.upstreams = [i \in 1 .. n |-> c.upstreams[i]]
  BY DEF GoodStore
<1>2. Migrated(c) = c.upstreams
  BY <1>1, MigratedList
<1>3. \A i \in 1 .. n : TrimUpstream(c.upstreams[i]) = c.upstreams[i]
  BY DEF GoodStore
<1>4. Normalize(c).upstreams = [i \in 1 .. n |-> TrimUpstream(c.upstreams[i])]
  BY <1>2 DEF Normalize
<1>5. Normalize(c).upstreams = c.upstreams
  BY <1>1, <1>3, <1>4
<1>6. Normalize(c).active = c.active /\ Normalize(c).maxTokens = c.maxTokens
  BY DEF Normalize, ActiveName, GoodStore
<1> QED
  BY <1>5, <1>6

\* What matters of a configuration for its keys.
LEMMA SameGood ==
    ASSUME NEW c, NEW d, NEW us, NEW wk, GoodStore(c, us, wk),
           d.upstreams = c.upstreams, d.active = c.active, d.maxTokens = c.maxTokens
    PROVE  GoodStore(d, us, wk)
BY DEF GoodStore

\* Validate accepts it.
LEMMA GoodValid ==
    ASSUME NEW c, NEW us, NEW wk, GoodStore(c, us, wk)
    PROVE  Valid(c)
<1> DEFINE n == Len(c.upstreams)
<1>1. n \in Nat \ {0}
  BY DEF GoodStore
<1>2. c.upstreams # <<>>
  BY <1>1
<1>3. \A i, j \in 1 .. n : c.upstreams[i].name = c.upstreams[j].name => i = j
  BY DEF GoodStore, Distinct
<1>4. EntriesValid(c)
  <2>1. \A i \in 1 .. n : GoodEntry(c.upstreams[i])
    BY DEF GoodStore
  <2>2. ASSUME NEW i \in 1 .. n, NEW j \in 1 .. i - 1
        PROVE  c.upstreams[j].name # c.upstreams[i].name
    <3>1. j \in 1 .. n /\ j # i
      BY <1>1
    <3> QED
      BY <1>3, <3>1
  <2>3. ASSUME NEW i \in 1 .. n
        PROVE  /\ c.upstreams[i].name # Blank
               /\ c.upstreams[i].format \in SupportedFormats \cup {""}
               /\ TimeoutOK(c.upstreams[i])
    BY <2>1 DEF GoodEntry
  <2> QED
    BY <2>2, <2>3 DEF EntriesValid
<1>5. PICK k \in 1 .. n : c.upstreams[k].name = c.active /\ c.upstreams[k].url # Blank
  BY DEF GoodStore, LiveIn
<1>6. Named(c, c.active) = {k}
  BY <1>3, <1>5 DEF Named
<1>7. First({k}) = k
  BY FirstIsFirst
<1>8. ActiveUpstream(c) = c.upstreams[k]
  BY <1>6, <1>7 DEF ActiveUpstream
<1>9. LiveIsComplete(c)
  <2>1. c.upstreams[k].format \in SupportedFormats
    BY DEF GoodStore, GoodEntry
  <2>2. c.maxTokens # 0
    BY DEF GoodStore
  <2> QED
    BY <1>5, <1>6, <1>8, <2>1, <2>2 DEF LiveIsComplete
<1> QED
  BY <1>2, <1>4, <1>9 DEF Valid

\* The saved configuration of a good body is good, with the keys the
\* operator gave (the ghost of Serve).
LEMMA ServeGood ==
    ASSUME NoneIsNoKey, NEW c, NEW wk, NEW body, GoodBody(body, c, wk),
           NEW next, next = Normalize(BuildNext(c, body)),
           NEW us, us = [i \in 1 .. Len(body.upstreams) |-> body.upstreams[i].id],
           NEW wk1, \A i \in 1 .. Len(body.upstreams) :
              wk1[body.upstreams[i].id] =
                 ResolveAPIKey(body.upstreams[i], Owned(wk, body.upstreams[i].id))
    PROVE  GoodStore(next, us, wk1)
<1> DEFINE n == Len(body.upstreams)
           iv(i) == body.upstreams[i]
<1>1. n \in Nat \ {0}
  BY DEF GoodBody
<1>2. /\ next.upstreams = [i \in 1 .. n |-> Drafted(c, iv(i))]
      /\ Len(next.upstreams) = n
  BY <1>1, DraftList
<1>3. next.upstreams = [i \in 1 .. n |-> next.upstreams[i]]
  BY <1>2
<1>4. ASSUME NEW i \in 1 .. n
      PROVE  /\ GoodEntry(iv(i)) /\ iv(i).id \in Ids
             /\ PreviousKey(c, iv(i)) = Owned(wk, iv(i).id)
  BY DEF GoodBody
<1>5. ASSUME NEW i \in 1 .. n
      PROVE  /\ next.upstreams[i].name = iv(i).name
             /\ next.upstreams[i].format = iv(i).format
             /\ next.upstreams[i].url = iv(i).url
             /\ next.upstreams[i].timeout = iv(i).timeout
             /\ next.upstreams[i].key = ResolveAPIKey(iv(i), Owned(wk, iv(i).id))
             /\ TrimUpstream(next.upstreams[i]) = next.upstreams[i]
  <2>1. next.upstreams[i] = Drafted(c, iv(i))
    BY <1>2
  <2>2. TrimUpstream(Drafted(c, iv(i))) = Drafted(c, iv(i))
    BY TrimUpstreamTwice DEF Drafted
  <2>3. /\ Drafted(c, iv(i)).name = Trim(iv(i).name)
        /\ Drafted(c, iv(i)).format = iv(i).format
        /\ Drafted(c, iv(i)).url = Trim(iv(i).url)
        /\ Drafted(c, iv(i)).timeout = Trim(iv(i).timeout)
        /\ Drafted(c, iv(i)).key = ResolveAPIKey(iv(i), PreviousKey(c, iv(i)))
    BY DEF Drafted, TrimUpstream
  <2> QED
    BY <1>4, <2>1, <2>2, <2>3 DEF GoodEntry
<1>6. ASSUME NEW i \in 1 .. n
      PROVE  /\ GoodEntry(next.upstreams[i])
             /\ us[i] \in Ids /\ wk1[us[i]] = next.upstreams[i].key
  <2>1. ResolveAPIKey(iv(i), Owned(wk, iv(i).id)) # None
    BY <1>4 DEF ResolveAPIKey, Owned, GoodEntry, NoneIsNoKey
  <2>2. us[i] = iv(i).id
    OBVIOUS
  <2>3. TimeoutOK(next.upstreams[i])
    BY <1>4, <1>5 DEF GoodEntry, TimeoutOK, IsBlank
  <2>4. GoodEntry(next.upstreams[i])
    BY <1>4, <1>5, <2>1, <2>3 DEF GoodEntry
  <2> QED
    BY <1>4, <1>5, <2>2, <2>4
<1>7. Len(us) = n
  BY <1>1
<1>8. Distinct(next.upstreams, us, n)
  <2>1. Distinct(body.upstreams, IdsOf(body.upstreams), n)
    BY DEF GoodBody
  <2>2. IdsOf(body.upstreams) = us
    BY DEF IdsOf
  <2> QED
    BY <1>5, <2>1, <2>2 DEF Distinct
<1>9. PICK k \in 1 .. n : iv(k).name = body.active /\ iv(k).url # Blank
  BY DEF GoodBody, LiveIn
<1>10. Trim(body.active) = body.active /\ ~IsBlank(body.active)
  BY <1>4, <1>9, NameSays DEF GoodEntry
<1>11. next.active = body.active /\ next.maxTokens = body.maxTokens /\ body.maxTokens # 0
  BY <1>10 DEF Normalize, BuildNext, ActiveName, GoodBody
<1>12. LiveIn(next.upstreams, next.active)
  BY <1>2, <1>5, <1>9, <1>11 DEF LiveIn
<1> HIDE DEF n, iv
<1> QED
  BY <1>1, <1>2, <1>3, <1>5, <1>6, <1>7, <1>8, <1>10, <1>11, <1>12 DEF GoodStore

-----------------------------------------------------------------------------
(* The edits of a page that is in step with the store.                     *)

\* The entry a page shows for an upstream of the store.
AdoptedDraft(c, us, i) ==
    [name |-> c.upstreams[i].name, original |-> c.upstreams[i].name,
     format |-> IF c.upstreams[i].format = "" THEN "openai" ELSE c.upstreams[i].format,
     url |-> c.upstreams[i].url,
     timeout |-> IF c.upstreams[i].timeout = Blank THEN T("5m") ELSE c.upstreams[i].timeout,
     key |-> Blank, clear |-> FALSE, id |-> us[i]]

\* An entry of the page is one of the store's, perhaps under a name that is
\* free there, or one the store has never held.
Known(draft, c, us) ==
    \E i \in 1 .. Len(c.upstreams) :
        /\ draft.original = c.upstreams[i].name /\ draft.id = us[i]
        /\ draft.name = draft.original \/ Named(c, draft.name) = {}
Unknown(draft, c, wk) ==
    draft.original = Blank /\ Named(c, draft.name) = {} /\ wk[draft.id] = None

GoodDraft(draft, c, us, wk) ==
    /\ DOMAIN draft = DraftFields
    /\ GoodEntry(draft) /\ draft.id \in Ids
    /\ Known(draft, c, us) \/ Unknown(draft, c, wk)

\* A copy whose save the server accepts.
GoodCopy(copy, c, us, wk) ==
    /\ Len(copy.drafts) \in Nat \ {0}
    /\ \A i \in 1 .. Len(copy.drafts) : GoodDraft(copy.drafts[i], c, us, wk)
    /\ Distinct(copy.drafts, IdsOf(copy.drafts), Len(copy.drafts))
    /\ copy.maxTokens # 0
    /\ LiveIn(copy.drafts, copy.active)

\* A name the store holds stands for one entry.
LEMMA NamedOnce ==
    ASSUME NEW c, NEW us, NEW wk, GoodStore(c, us, wk), NEW i \in 1 .. Len(c.upstreams)
    PROVE  PrevKeyOf(c, c.upstreams[i].name) = Owned(wk, us[i])
<1> DEFINE n == Len(c.upstreams)
<1>1. n \in Nat
  BY DEF GoodStore
<1>2. Named(c, c.upstreams[i].name) = {i}
  <2>1. \A j \in 1 .. n : c.upstreams[i].name = c.upstreams[j].name => i = j
    BY DEF GoodStore, Distinct
  <2> QED
    BY <2>1 DEF Named
<1>3. (CHOOSE k \in {i} : \A j \in {i} : j <= k) = i
  BY <1>1
<1>4. PrevKeyOf(c, c.upstreams[i].name) = c.upstreams[i].key
  BY <1>2, <1>3 DEF PrevKeyOf
<1>5. wk[us[i]] = c.upstreams[i].key /\ c.upstreams[i].key # None
  BY DEF GoodStore, GoodEntry
<1> QED
  BY <1>4, <1>5 DEF Owned

\* What saving a good copy sends.
LEMMA GoodPayload ==
    ASSUME NEW c, NEW us, NEW wk, GoodStore(c, us, wk),
           NEW copy, GoodCopy(copy, c, us, wk),
           NEW body, body.upstreams = Payload(copy).upstreams,
           body.active = copy.active, body.maxTokens = copy.maxTokens
    PROVE  GoodBody(body, c, wk)
<1> DEFINE n == Len(copy.drafts)
           d(i) == copy.drafts[i]
           iv(i) == [d(i) EXCEPT !.original = IF @ # d(i).name THEN @ ELSE Blank]
           l == [i \in 1 .. n |-> iv(i)]
<1>1. n \in Nat \ {0}
  BY DEF GoodCopy
<1>2. body.upstreams = l
  BY DEF Payload
<1>3. Len(l) = n /\ \A i \in 1 .. n : l[i] = iv(i)
  BY <1>1
<1>4. ASSUME NEW i \in 1 .. n
      PROVE  GoodDraft(d(i), c, us, wk)
  BY DEF GoodCopy
<1>5. ASSUME NEW i \in 1 .. n
      PROVE  /\ iv(i).name = d(i).name /\ iv(i).format = d(i).format
             /\ iv(i).url = d(i).url /\ iv(i).timeout = d(i).timeout
             /\ iv(i).key = d(i).key /\ iv(i).id = d(i).id
             /\ iv(i).original = IF d(i).original # d(i).name THEN d(i).original ELSE Blank
  <2>1. DOMAIN d(i) = DraftFields
    BY <1>4 DEF GoodDraft
  <2> QED
    BY <2>1 DEF DraftFields
<1> HIDE DEF l, iv
<1>6. ASSUME NEW i \in 1 .. n
      PROVE  /\ GoodEntry(iv(i)) /\ iv(i).id \in Ids
             /\ PreviousKey(c, iv(i)) = Owned(wk, iv(i).id)
  <2>1. GoodEntry(d(i)) /\ d(i).id \in Ids
    BY <1>4 DEF GoodDraft
  <2>2. GoodEntry(iv(i))
    BY <1>5, <2>1 DEF GoodEntry, TimeoutOK, IsBlank
  <2>3. d(i).name # Blank
    BY <2>1 DEF GoodEntry
  <2>4. ASSUME Named(c, d(i).name) = {}
        PROVE  PrevKeyOf(c, d(i).name) = Blank
    BY <2>4 DEF PrevKeyOf
  <2>5. ASSUME Unknown(d(i), c, wk)
        PROVE  PreviousKey(c, iv(i)) = Owned(wk, d(i).id)
    <3>1. iv(i).original = Blank
      BY <1>5, <2>5 DEF Unknown
    <3>2. PrevKeyOf(c, iv(i).name) = Blank
      BY <1>5, <2>4, <2>5 DEF Unknown
    <3> QED
      BY <2>5, <3>1, <3>2 DEF PreviousKey, Owned, Unknown
  <2>6. ASSUME NEW k \in 1 .. Len(c.upstreams),
               d(i).original = c.upstreams[k].name, d(i).id = us[k],
               d(i).name = d(i).original \/ Named(c, d(i).name) = {}
        PROVE  PreviousKey(c, iv(i)) = Owned(wk, d(i).id)
    <3>1. PrevKeyOf(c, d(i).original) = Owned(wk, d(i).id)
      BY <2>6, NamedOnce
    <3>2. CASE d(i).name = d(i).original
      <4>1. iv(i).original = Blank /\ iv(i).name = d(i).original
        BY <1>5, <3>2
      <4> QED
        BY <3>1, <4>1 DEF PreviousKey
    <3>3. CASE d(i).name # d(i).original
      <4>1. iv(i).original = d(i).original /\ iv(i).name = d(i).name
        BY <1>5, <3>3
      <4>2. PrevKeyOf(c, d(i).name) = Blank
        BY <2>4, <2>6, <3>3
      <4>3. d(i).original # Blank
        BY <2>6 DEF GoodStore, GoodEntry
      <4> QED
        BY <3>1, <4>1, <4>2, <4>3 DEF PreviousKey
    <3> QED
      BY <3>2, <3>3
  <2>7. PreviousKey(c, iv(i)) = Owned(wk, d(i).id)
    BY <1>4, <2>5, <2>6 DEF GoodDraft, Known
  <2> QED
    BY <1>5, <2>1, <2>2, <2>7
<1>7. Distinct(l, IdsOf(l), n)
  <2>1. Distinct(copy.drafts, IdsOf(copy.drafts), n)
    BY DEF GoodCopy
  <2>2. \A i \in 1 .. n : IdsOf(copy.drafts)[i] = d(i).id
    BY DEF IdsOf
  <2>3. \A i \in 1 .. n : IdsOf(l)[i] = iv(i).id
    BY <1>3 DEF IdsOf
  <2> QED
    BY <1>3, <1>5, <2>1, <2>2, <2>3 DEF Distinct
<1>8. LiveIn(l, body.active)
  <2>1. PICK k \in 1 .. n : d(k).name = copy.active /\ d(k).url # Blank
    BY DEF GoodCopy, LiveIn
  <2> QED
    BY <1>3, <1>5, <2>1 DEF LiveIn
<1>9. body.maxTokens # 0
  BY DEF GoodCopy
<1> HIDE DEF n, d
<1> QED
  BY <1>1, <1>2, <1>3, <1>6, <1>7, <1>8, <1>9 DEF GoodBody

\* The copy of a good store.
LEMMA AdoptedGood ==
    ASSUME NoneIsNoKey, NEW c, NEW us, NEW wk, GoodStore(c, us, wk)
    PROVE  /\ AdoptWith(c, us).drafts = [i \in 1 .. Len(c.upstreams) |-> AdoptedDraft(c, us, i)]
           /\ Len(AdoptWith(c, us).drafts) = Len(c.upstreams)
           /\ DOMAIN AdoptWith(c, us) = CopyFields
           /\ AdoptWith(c, us).active = c.active /\ AdoptWith(c, us).maxTokens # 0
           /\ \A i \in 1 .. Len(c.upstreams) :
                 LET d == AdoptedDraft(c, us, i)
                 IN  /\ DOMAIN d = DraftFields /\ GoodEntry(d)
                     /\ d.name = c.upstreams[i].name /\ d.original = c.upstreams[i].name
                     /\ d.url = c.upstreams[i].url /\ d.id = us[i]
<1> DEFINE n == Len(c.upstreams)
           e == [i \in 1 .. n |->
                   [name |-> c.upstreams[i].name, original |-> c.upstreams[i].name,
                    format |-> IF c.upstreams[i].format = "" THEN "openai"
                               ELSE c.upstreams[i].format,
                    url |-> c.upstreams[i].url,
                    timeout |-> IF c.upstreams[i].timeout = Blank THEN T("5m")
                                ELSE c.upstreams[i].timeout,
                    key |-> Blank, clear |-> FALSE]]
           l == [i \in 1 .. n |-> AdoptedDraft(c, us, i)]
<1>1. n \in Nat \ {0}
  BY DEF GoodStore
<1>2. Adopt(c).drafts = e /\ DOMAIN Adopt(c) = CopyFields
  BY DEF Adopt, CopyFields
<1>3. Len(e) = n
  BY <1>1
<1>4. \A i \in 1 .. n :
         [name |-> e[i].name, original |-> e[i].original, format |-> e[i].format,
          url |-> e[i].url, timeout |-> e[i].timeout, key |-> Blank, clear |-> FALSE,
          id |-> us[i]] = AdoptedDraft(c, us, i)
  BY DEF AdoptedDraft
<1>5. AdoptWith(c, us).drafts = l
  <2> HIDE DEF e
  <2>1. AdoptWith(c, us).drafts =
          [i \in 1 .. n |->
             [name |-> e[i].name, original |-> e[i].original, format |-> e[i].format,
              url |-> e[i].url, timeout |-> e[i].timeout, key |-> Blank, clear |-> FALSE,
              id |-> us[i]]]
    BY <1>2, <1>3 DEF AdoptWith, CopyFields
  <2> QED
    BY <1>4, <2>1
<1>6. Len(l) = n
  BY <1>1
<1>7. ASSUME NEW i \in 1 .. n
      PROVE  LET d == AdoptedDraft(c, us, i)
             IN  /\ DOMAIN d = DraftFields /\ GoodEntry(d)
                 /\ d.name = c.upstreams[i].name /\ d.original = c.upstreams[i].name
                 /\ d.url = c.upstreams[i].url /\ d.id = us[i]
  <2> DEFINE d == AdoptedDraft(c, us, i)
             u == c.upstreams[i]
  <2>1. GoodEntry(u)
    BY DEF GoodStore
  <2>2. DOMAIN d = DraftFields
    BY DEF AdoptedDraft, DraftFields
  <2>3. /\ d.name = u.name /\ d.original = u.name /\ d.url = u.url /\ d.id = us[i]
        /\ d.key = Blank
    BY DEF AdoptedDraft
  <2>4. d.format = IF u.format = "" THEN "openai" ELSE u.format
    BY DEF AdoptedDraft
  <2>5. d.timeout = IF u.timeout = Blank THEN T("5m") ELSE u.timeout
    BY DEF AdoptedDraft
  <2> HIDE DEF d, u
  <2>6. d.format \in SupportedFormats
    BY <2>1, <2>4 DEF GoodEntry, SupportedFormats
  <2>7. Trim(d.timeout) = d.timeout /\ TimeoutOK(d)
    <3>1. CASE d.timeout = u.timeout
      BY <2>1, <3>1 DEF GoodEntry, TimeoutOK
    <3>2. CASE d.timeout = T("5m")
      <4>1. Trim(T("5m")) = T("5m") /\ T("5m").v \in Durations
        BY DEF Trim, T, Durations
      <4>2. ~T("5m").pad
        BY DEF T
      <4> QED
        BY <3>2, <4>1, <4>2 DEF TimeoutOK
    <3> QED
      BY <2>5, <3>1, <3>2
  <2>8. GoodEntry(d)
    BY <2>1, <2>3, <2>6, <2>7 DEF GoodEntry, NoneIsNoKey
  <2> QED
    BY <2>2, <2>3, <2>8 DEF d, u
<1>8. AdoptWith(c, us).maxTokens # 0
  BY AdoptedFields DEF DefaultMaxTokens, GoodStore
<1> HIDE DEF l, n
<1> QED
  BY <1>5, <1>6, <1>7, <1>8, AdoptedFields DEF n, l

\* An edit that neither adds an entry nor takes one away.
LEMMA EditGood ==
    ASSUME NEW c, NEW us, NEW wk, GoodStore(c, us, wk),
           NEW copy, copy.drafts = [i \in 1 .. Len(c.upstreams) |-> copy.drafts[i]],
           \A i \in 1 .. Len(c.upstreams) :
              /\ DOMAIN copy.drafts[i] = DraftFields /\ GoodEntry(copy.drafts[i])
              /\ copy.drafts[i].original = c.upstreams[i].name
              /\ copy.drafts[i].id = us[i]
              /\ \/ copy.drafts[i].name = c.upstreams[i].name
                 \/ Named(c, copy.drafts[i].name) = {},
           \A i, j \in 1 .. Len(c.upstreams) : copy.drafts[i].name = copy.drafts[j].name => i = j,
           copy.maxTokens # 0,
           \E i \in 1 .. Len(c.upstreams) :
              copy.drafts[i].name = copy.active /\ copy.drafts[i].url # Blank
    PROVE  GoodCopy(copy, c, us, wk)
<1> DEFINE n == Len(c.upstreams)
<1>1. n \in Nat \ {0} /\ Len(us) = n
  BY DEF GoodStore
<1>2. Len(copy.drafts) = n
  BY <1>1, ListLen
<1>3. ASSUME NEW i \in 1 .. n
      PROVE  GoodDraft(copy.drafts[i], c, us, wk)
  <2>1. us[i] \in Ids
    BY DEF GoodStore
  <2>2. Known(copy.drafts[i], c, us)
    BY DEF Known
  <2> QED
    BY <2>1, <2>2 DEF GoodDraft
<1>4. Distinct(copy.drafts, IdsOf(copy.drafts), n)
  <2>1. \A i \in 1 .. n : IdsOf(copy.drafts)[i] = us[i]
    BY <1>2 DEF IdsOf
  <2>2. \A i, j \in 1 .. n : us[i] = us[j] => i = j
    BY DEF GoodStore, Distinct
  <2> QED
    BY ZenonT(30), <2>1, <2>2 DEF Distinct
<1> QED
  BY <1>1, <1>2, <1>3, <1>4 DEF GoodCopy, LiveIn

\* The entries of a page in step with the store.
Mirrors(d, c, us) ==
    /\ Len(d) = Len(c.upstreams) /\ DOMAIN d = 1 .. Len(c.upstreams)
    /\ d = [k \in 1 .. Len(c.upstreams) |-> d[k]]
    /\ \A k \in 1 .. Len(c.upstreams) :
          /\ DOMAIN d[k] = DraftFields /\ GoodEntry(d[k])
          /\ d[k].name = c.upstreams[k].name /\ d[k].original = c.upstreams[k].name
          /\ d[k].url = c.upstreams[k].url /\ d[k].id = us[k]

LEMMA AdoptedMirrors ==
    ASSUME NoneIsNoKey, NEW c, NEW us, NEW wk, GoodStore(c, us, wk)
    PROVE  Mirrors(AdoptWith(c, us).drafts, c, us)
<1> DEFINE n == Len(c.upstreams)
           d == AdoptWith(c, us).drafts
<1>1. /\ Len(d) = n /\ d = [i \in 1 .. n |-> AdoptedDraft(c, us, i)]
      /\ \A i \in 1 .. n :
                 LET e == AdoptedDraft(c, us, i)
                 IN  /\ DOMAIN e = DraftFields /\ GoodEntry(e)
                     /\ e.name = c.upstreams[i].name /\ e.original = c.upstreams[i].name
                     /\ e.url = c.upstreams[i].url /\ e.id = us[i]
  BY AdoptedGood
<1> HIDE DEF d, n
<1>2. DOMAIN d = 1 .. n /\ \A i \in 1 .. n : d[i] = AdoptedDraft(c, us, i)
  BY <1>1
<1>3. d = [k \in 1 .. n |-> d[k]]
  BY <1>1, <1>2
<1> QED
  BY <1>1, <1>2, <1>3 DEF Mirrors, d, n

LEMMA AdoptedFacts ==
    ASSUME NoneIsNoKey, NEW c, NEW us, NEW wk, GoodStore(c, us, wk),
           NEW a, a = AdoptWith(c, us)
    PROVE  /\ Mirrors(a.drafts, c, us) /\ DOMAIN a = CopyFields
           /\ a.active = c.active /\ a.maxTokens # 0
BY AdoptedMirrors, AdoptedGood

\* An entry with another name or key.
LEMMA EntryLike ==
    ASSUME NEW u, GoodEntry(u), NEW v, Trim(v.name) = v.name, v.name # Blank,
           v.format = u.format, v.url = u.url, v.timeout = u.timeout, v.key # None
    PROVE  GoodEntry(v)
BY DEF GoodEntry, TimeoutOK

\* Each edit of a good store's copy.
LEMMA RenameGood ==
    ASSUME NoneIsNoKey, NEW c, NEW us, NEW wk, GoodStore(c, us, wk),
           NEW a, a = AdoptWith(c, us),
           NEW i \in 1 .. Len(a.drafts), NEW name, Trim(name) = name, name # Blank,
           name # a.drafts[i].name, NameFree(a, i, name),
           NEW copy, copy = [a EXCEPT !.drafts[i].name = name,
                                      !.active = IF @ = a.drafts[i].name THEN name ELSE @]
    PROVE  GoodCopy(copy, c, us, wk)
<1> DEFINE n == Len(c.upstreams)
           d == a.drafts
           f == copy.drafts
<1>1. /\ Mirrors(d, c, us) /\ DOMAIN a = CopyFields
      /\ a.active = c.active /\ a.maxTokens # 0
  BY AdoptedFacts
<1>0. i \in 1 .. n /\ n \in Nat /\ DOMAIN d = 1 .. n
  BY <1>1 DEF Mirrors, GoodStore
<1>2. /\ f = [d EXCEPT ![i] = [d[i] EXCEPT !.name = name]]
      /\ copy.maxTokens = a.maxTokens
      /\ copy.active = IF a.active = d[i].name THEN name ELSE a.active
  BY <1>1 DEF CopyFields
<1> HIDE DEF d, f
<1>3. /\ f = [k \in 1 .. n |-> f[k]]
      /\ \A k \in 1 .. n : k # i => f[k] = d[k]
      /\ f[i] = [d[i] EXCEPT !.name = name]
  BY <1>0, <1>2
<1>4. /\ DOMAIN f[i] = DraftFields /\ f[i].name = name
      /\ f[i].original = d[i].original /\ f[i].format = d[i].format
      /\ f[i].url = d[i].url /\ f[i].timeout = d[i].timeout /\ f[i].key = d[i].key
      /\ f[i].id = d[i].id
  BY <1>0, <1>1, <1>3 DEF DraftFields, Mirrors
<1>5. GoodEntry(f[i])
  BY <1>0, <1>1, <1>4, EntryLike DEF Mirrors, GoodEntry
<1>6. \A k \in 1 .. n : c.upstreams[k].name # name
  BY <1>0, <1>1 DEF NameFree, Mirrors, d
<1>7. Named(c, name) = {}
  BY <1>6 DEF Named
<1>8. \A k \in 1 .. n : /\ DOMAIN f[k] = DraftFields /\ GoodEntry(f[k])
                        /\ f[k].original = c.upstreams[k].name /\ f[k].id = us[k]
                        /\ f[k].url = c.upstreams[k].url
                        /\ f[k].name = IF k = i THEN name ELSE c.upstreams[k].name
  <2> TAKE k \in 1 .. n
  <2>1. /\ DOMAIN d[k] = DraftFields /\ GoodEntry(d[k])
        /\ d[k].name = c.upstreams[k].name /\ d[k].original = c.upstreams[k].name
        /\ d[k].url = c.upstreams[k].url /\ d[k].id = us[k]
    BY <1>1 DEF Mirrors
  <2>2. CASE k # i
    BY <1>3, <2>1, <2>2
  <2>3. CASE k = i
    BY <1>4, <1>5, <2>1, <2>3
  <2> QED
    BY <2>2, <2>3
<1>9. \A k, m \in 1 .. n : c.upstreams[k].name = c.upstreams[m].name => k = m
  BY DEF GoodStore, Distinct
<1>10. \A k, m \in 1 .. n : f[k].name = f[m].name => k = m
  BY <1>6, <1>8, <1>9
<1>11. PICK k \in 1 .. n : c.upstreams[k].name = c.active /\ c.upstreams[k].url # Blank
  BY DEF GoodStore, LiveIn
<1>12. i \in 1 .. n /\ d[i].name = c.upstreams[i].name
  BY <1>0, <1>1 DEF Mirrors
<1>13. f[k].name = copy.active /\ f[k].url # Blank
  BY <1>1, <1>2, <1>8, <1>9, <1>11, <1>12
<1>14. copy.drafts = f
  BY DEF f
<1>15. /\ copy.drafts = [k2 \in 1 .. Len(c.upstreams) |-> copy.drafts[k2]]
       /\ copy.maxTokens # 0
  BY <1>1, <1>2, <1>3, <1>14
<1>16. GoodStore(c, us, wk)
  OBVIOUS
<1> QED
  BY ONLY <1>7, <1>8, <1>10, <1>13, <1>14, <1>15, <1>16, EditGood

LEMMA TypeKeyGood ==
    ASSUME NoneIsNoKey, NEW c, NEW us, NEW wk, GoodStore(c, us, wk),
           NEW a, a = AdoptWith(c, us), NEW i \in 1 .. Len(a.drafts), NEW key \in Keys
    PROVE  GoodCopy([a EXCEPT !.drafts[i].key = key, !.drafts[i].clear = FALSE], c, us, wk)
<1> DEFINE n == Len(c.upstreams)
           d == a.drafts
           copy == [a EXCEPT !.drafts[i].key = key, !.drafts[i].clear = FALSE]
           f == copy.drafts
<1>1. /\ Mirrors(d, c, us) /\ DOMAIN a = CopyFields
      /\ a.active = c.active /\ a.maxTokens # 0
  BY AdoptedFacts
<1>0. i \in 1 .. n /\ n \in Nat /\ DOMAIN d = 1 .. n
  BY <1>1 DEF Mirrors, GoodStore
<1>2. /\ f = [d EXCEPT ![i] = [d[i] EXCEPT !.key = key, !.clear = FALSE]]
      /\ copy.maxTokens = a.maxTokens /\ copy.active = a.active
  BY <1>1 DEF CopyFields
<1> HIDE DEF d, copy, f
<1>3. /\ f = [k \in 1 .. n |-> f[k]]
      /\ \A k \in 1 .. n : k # i => f[k] = d[k]
      /\ f[i] = [d[i] EXCEPT !.key = key, !.clear = FALSE]
  BY <1>0, <1>2
<1>4. /\ DOMAIN f[i] = DraftFields /\ f[i].name = d[i].name
      /\ f[i].original = d[i].original /\ f[i].format = d[i].format
      /\ f[i].url = d[i].url /\ f[i].timeout = d[i].timeout /\ f[i].key = key
      /\ f[i].id = d[i].id
  BY <1>0, <1>1, <1>3 DEF DraftFields, Mirrors
<1>5. GoodEntry(f[i])
  <2>1. key # None
    BY DEF NoneIsNoKey
  <2>2. GoodEntry(d[i])
    BY <1>0, <1>1 DEF Mirrors
  <2> QED
    BY <1>4, <2>1, <2>2, EntryLike DEF GoodEntry
<1>6. \A k \in 1 .. n : /\ DOMAIN f[k] = DraftFields /\ GoodEntry(f[k])
                        /\ f[k].original = c.upstreams[k].name /\ f[k].id = us[k]
                        /\ f[k].url = c.upstreams[k].url /\ f[k].name = c.upstreams[k].name
  <2> TAKE k \in 1 .. n
  <2>1. /\ DOMAIN d[k] = DraftFields /\ GoodEntry(d[k])
        /\ d[k].name = c.upstreams[k].name /\ d[k].original = c.upstreams[k].name
        /\ d[k].url = c.upstreams[k].url /\ d[k].id = us[k]
    BY <1>1 DEF Mirrors
  <2>2. CASE k # i
    BY <1>3, <2>1, <2>2
  <2>3. CASE k = i
    BY <1>4, <1>5, <2>1, <2>3
  <2> QED
    BY <2>2, <2>3
<1>7. \A k, m \in 1 .. n : f[k].name = f[m].name => k = m
  BY <1>6 DEF GoodStore, Distinct
<1>8. \E k \in 1 .. n : f[k].name = copy.active /\ f[k].url # Blank
  BY <1>1, <1>2, <1>6 DEF GoodStore, LiveIn
<1>9. copy.drafts = f
  BY DEF f
<1>10. GoodCopy(copy, c, us, wk)
  <2>1. /\ copy.drafts = [k2 \in 1 .. Len(c.upstreams) |-> copy.drafts[k2]]
        /\ copy.maxTokens # 0
    BY <1>1, <1>2, <1>3, <1>9
  <2> QED
    BY <1>6, <1>7, <1>8, <1>9, <2>1, EditGood
<1> QED
  BY <1>10 DEF copy

\* Another live entry, another address.
LEMMA ActivateGood ==
    ASSUME NoneIsNoKey, NEW c, NEW us, NEW wk, GoodStore(c, us, wk),
           NEW copy, copy.drafts = AdoptWith(c, us).drafts,
           copy.maxTokens = AdoptWith(c, us).maxTokens,
           \/ copy.active = c.active
           \/ \E i \in 1 .. Len(copy.drafts) :
                 copy.drafts[i].url # Blank /\ copy.active = copy.drafts[i].name
    PROVE  GoodCopy(copy, c, us, wk)
<1> DEFINE n == Len(c.upstreams)
           f == copy.drafts
<1>0. Mirrors(f, c, us) /\ copy.maxTokens # 0
  <2>1. f = AdoptWith(c, us).drafts
    OBVIOUS
  <2>2. Mirrors(AdoptWith(c, us).drafts, c, us)
    BY AdoptedMirrors
  <2>3. AdoptWith(c, us).maxTokens # 0
    BY ZenonT(30), AdoptedGood
  <2> HIDE DEF f
  <2> QED
    BY <2>1, <2>2, <2>3
<1> HIDE DEF f
<1>1. /\ Len(f) = n /\ f = [k \in 1 .. n |-> f[k]]
      /\ \A k \in 1 .. n : /\ DOMAIN f[k] = DraftFields /\ GoodEntry(f[k])
                           /\ f[k].name = c.upstreams[k].name
                           /\ f[k].original = c.upstreams[k].name
                           /\ f[k].url = c.upstreams[k].url /\ f[k].id = us[k]
  BY <1>0 DEF Mirrors
<1>2. \A k, m \in 1 .. n : f[k].name = f[m].name => k = m
  BY ZenonT(30), <1>1 DEF GoodStore, Distinct
<1>4. copy.drafts = f
  BY DEF f
<1>3. \E k \in 1 .. n : f[k].name = copy.active /\ f[k].url # Blank
  BY <1>1, <1>4 DEF GoodStore, LiveIn
<1> QED
  BY ZenonT(30), <1>0, <1>1, <1>2, <1>3, <1>4, EditGood

\* Clearing every key.
LEMMA ClearGood ==
    ASSUME NoneIsNoKey, NEW c, NEW us, NEW wk, GoodStore(c, us, wk),
           NEW a, a = AdoptWith(c, us)
    PROVE  GoodCopy([a EXCEPT !.drafts =
                       [i \in 1 .. Len(@) |-> [@[i] EXCEPT !.clear = TRUE, !.key = Blank]]],
                    c, us, wk)
<1> DEFINE n == Len(c.upstreams)
           d == a.drafts
           g(i) == [d[i] EXCEPT !.clear = TRUE, !.key = Blank]
           copy == [a EXCEPT !.drafts =
                       [i \in 1 .. Len(@) |-> [@[i] EXCEPT !.clear = TRUE, !.key = Blank]]]
           f == copy.drafts
<1>1. /\ Mirrors(d, c, us) /\ DOMAIN a = CopyFields
      /\ a.active = c.active /\ a.maxTokens # 0
  BY AdoptedFacts
<1>2. Len(d) = n /\ n \in Nat
  BY <1>1 DEF Mirrors, GoodStore
<1>3. /\ f = [k \in 1 .. n |-> g(k)]
      /\ copy.maxTokens = a.maxTokens /\ copy.active = a.active
  BY <1>1, <1>2 DEF CopyFields
<1>4. \A k \in 1 .. n : /\ DOMAIN f[k] = DraftFields /\ GoodEntry(f[k])
                        /\ f[k].original = c.upstreams[k].name /\ f[k].id = us[k]
                        /\ f[k].url = c.upstreams[k].url /\ f[k].name = c.upstreams[k].name
  <2> TAKE k \in 1 .. n
  <2>1. /\ DOMAIN d[k] = DraftFields /\ GoodEntry(d[k])
        /\ d[k].name = c.upstreams[k].name /\ d[k].original = c.upstreams[k].name
        /\ d[k].url = c.upstreams[k].url /\ d[k].id = us[k]
    BY <1>1 DEF Mirrors
  <2>2. /\ DOMAIN g(k) = DraftFields /\ g(k).key = Blank
        /\ g(k).name = d[k].name /\ g(k).original = d[k].original /\ g(k).format = d[k].format
        /\ g(k).url = d[k].url /\ g(k).timeout = d[k].timeout /\ g(k).id = d[k].id
    BY <2>1 DEF DraftFields
  <2>3. f[k] = g(k)
    BY <1>3
  <2> HIDE DEF g, d, f
  <2>4. Blank # None
    BY DEF NoneIsNoKey
  <2>5. GoodEntry(g(k))
    BY <2>1, <2>2, <2>4, EntryLike DEF GoodEntry
  <2> QED
    BY <2>1, <2>2, <2>3, <2>5
<1> HIDE DEF copy, f, d, g
<1>5. f = [k \in 1 .. n |-> f[k]]
  BY <1>3
<1>6. \A k, m \in 1 .. n : f[k].name = f[m].name => k = m
  BY <1>4 DEF GoodStore, Distinct
<1>7. copy.active = c.active /\ copy.maxTokens # 0
  BY <1>1, <1>3
<1>8. \E k \in 1 .. n : f[k].name = copy.active /\ f[k].url # Blank
  BY <1>4, <1>7 DEF GoodStore, LiveIn
<1>9. copy.drafts = f
  BY DEF f
<1>10. GoodCopy(copy, c, us, wk)
  BY <1>4, <1>5, <1>6, <1>7, <1>8, <1>9, EditGood
<1> QED
  BY <1>10 DEF copy

\* Deleting an entry that is not live.
LEMMA DeleteGood ==
    ASSUME NoneIsNoKey, NEW c, NEW us, NEW wk, GoodStore(c, us, wk),
           NEW a, a = AdoptWith(c, us), NEW i \in 1 .. Len(a.drafts), MayDelete(a, i),
           NEW copy, copy.drafts = Without(a.drafts, i), copy.active = a.active,
           copy.maxTokens = a.maxTokens
    PROVE  GoodCopy(copy, c, us, wk)
<1> DEFINE n == Len(c.upstreams)
           d == a.drafts
           f == copy.drafts
           at(j) == IF j < i THEN j ELSE j + 1
<1>1. /\ Mirrors(d, c, us) /\ a.active = c.active /\ a.maxTokens # 0
  BY AdoptedFacts
<1>2. i \in 1 .. n /\ n \in Nat /\ n > 1 /\ d[i].name # c.active /\ Len(d) = n
  BY <1>1 DEF Mirrors, GoodStore, MayDelete
<1> HIDE DEF d
<1>3. f = [j \in 1 .. n - 1 |-> IF j < i THEN d[j] ELSE d[j + 1]]
  BY <1>2 DEF Without, d
<1>4. Len(f) = n - 1 /\ n - 1 \in Nat \ {0}
  BY <1>2, <1>3
<1>5. \A j \in 1 .. n - 1 : at(j) \in 1 .. n /\ f[j] = d[at(j)]
  BY <1>2, <1>3
<1>6. \A j, k \in 1 .. n - 1 : at(j) = at(k) => j = k
  BY <1>2
<1> HIDE DEF f, at
<1>7. \A k \in 1 .. n : /\ GoodDraft(d[k], c, us, wk)
                        /\ d[k].name = c.upstreams[k].name /\ d[k].id = us[k]
                        /\ d[k].url = c.upstreams[k].url
  BY <1>1 DEF Mirrors, GoodDraft, Known, GoodStore
<1>8. Distinct(f, IdsOf(f), n - 1)
  <2>1. \A j \in 1 .. n - 1 : IdsOf(f)[j] = f[j].id
    BY <1>4 DEF IdsOf
  <2>2. \A j, k \in 1 .. n :
           c.upstreams[j].name = c.upstreams[k].name \/ us[j] = us[k] => j = k
    BY DEF GoodStore, Distinct
  <2>3. \A j \in 1 .. n - 1 :
           /\ at(j) \in 1 .. n
           /\ f[j].name = c.upstreams[at(j)].name /\ IdsOf(f)[j] = us[at(j)]
    BY <1>5, <1>7, <2>1
  <2>4. ASSUME NEW j \in 1 .. n - 1, NEW k \in 1 .. n - 1,
               f[j].name = f[k].name \/ IdsOf(f)[j] = IdsOf(f)[k]
        PROVE  j = k
    <3>1. at(j) = at(k)
      <4>1. at(j) \in 1 .. n /\ at(k) \in 1 .. n
        BY <2>3
      <4>2. c.upstreams[at(j)].name = c.upstreams[at(k)].name \/ us[at(j)] = us[at(k)]
        <5>1. CASE f[j].name = f[k].name
          BY <2>3, <5>1
        <5>2. CASE IdsOf(f)[j] = IdsOf(f)[k]
          BY <2>3, <5>2
        <5> QED
          BY <2>4, <5>1, <5>2
      <4> QED
        BY ONLY <2>2, <4>1, <4>2
    <3> QED
      BY <1>6, <3>1
  <2> QED
    BY <2>4 DEF Distinct
<1>9. LiveIn(f, copy.active)
  <2>1. PICK k \in 1 .. n : c.upstreams[k].name = c.active /\ c.upstreams[k].url # Blank
    BY DEF GoodStore, LiveIn
  <2>2. k # i
    BY <1>2, <1>7, <2>1
  <2>3. PICK j \in 1 .. n - 1 : at(j) = k
    <3>1. CASE k < i
      BY <1>2, <3>1 DEF at
    <3>2. CASE k > i
      <4>1. k - 1 \in 1 .. n - 1 /\ at(k - 1) = k
        BY <1>2, <3>2 DEF at
      <4> QED
        BY <4>1
    <3> QED
      BY <1>2, <2>2, <3>1, <3>2
  <2> QED
    BY <1>1, <1>4, <1>5, <1>7, <2>1, <2>3 DEF LiveIn
<1>10. \A j \in 1 .. Len(copy.drafts) : GoodDraft(copy.drafts[j], c, us, wk)
  BY <1>4, <1>5, <1>7 DEF f
<1> QED
  BY <1>1, <1>4, <1>8, <1>9, <1>10 DEF GoodCopy, f

\* Adding an entry under a free name.
LEMMA AddGood ==
    ASSUME NoneIsNoKey, NEW c, NEW us, NEW wk, GoodStore(c, us, wk),
           NEW a, a = AdoptWith(c, us),
           NEW name, Trim(name) = name, name # Blank, NameFree(a, 0, name),
           NEW id \in Ids, wk[id] = None,
           NEW item, item = [name |-> name, original |-> Blank, format |-> "openai",
                             url |-> T("un"), timeout |-> T("5m"), key |-> Blank,
                             clear |-> FALSE, id |-> id],
           NEW copy, copy.drafts = Append(a.drafts, item), copy.active = a.active,
           copy.maxTokens = a.maxTokens
    PROVE  GoodCopy(copy, c, us, wk)
<1> DEFINE n == Len(c.upstreams)
           d == a.drafts
           f == copy.drafts
<1>1. /\ Mirrors(d, c, us) /\ a.active = c.active /\ a.maxTokens # 0
  BY AdoptedFacts
<1>2. n \in Nat \ {0}
  BY DEF GoodStore
<1>3. /\ DOMAIN item = DraftFields /\ item.name = name /\ item.original = Blank
      /\ item.format = "openai" /\ item.url = T("un") /\ item.timeout = T("5m")
      /\ item.key = Blank /\ item.id = id
  BY DEF DraftFields
<1>4. GoodEntry(item)
  <2>1. Trim(T("un")) = T("un") /\ Trim(T("5m")) = T("5m") /\ T("5m").v \in Durations
    BY DEF Trim, T, Durations
  <2>2. ~T("5m").pad
    BY DEF T
  <2>3. TimeoutOK(item)
    BY <1>3, <2>1, <2>2 DEF TimeoutOK
  <2>4. item.format \in SupportedFormats
    BY <1>3 DEF SupportedFormats
  <2>5. item.key # None
    BY <1>3 DEF NoneIsNoKey
  <2> HIDE DEF f
  <2> QED
    BY <1>3, <2>1, <2>3, <2>4, <2>5 DEF GoodEntry
<1> HIDE DEF d
<1>5. \A k \in 1 .. n : c.upstreams[k].name # name
  <2>1. \A k \in 1 .. Len(d) : k # 0 => d[k].name # name
    BY DEF NameFree, d
  <2>2. Len(d) = n /\ \A k \in 1 .. n : d[k].name = c.upstreams[k].name
    BY <1>1 DEF Mirrors
  <2> QED
    BY ONLY <1>2, <2>1, <2>2
<1>6. GoodDraft(item, c, us, wk)
  <2>1. Named(c, name) = {}
    BY <1>5 DEF Named
  <2> QED
    BY <1>3, <1>4, <2>1 DEF GoodDraft, Unknown
<1>7. \A k \in 1 .. n : /\ GoodDraft(d[k], c, us, wk)
                        /\ d[k].name = c.upstreams[k].name /\ d[k].id = us[k]
                        /\ d[k].url = c.upstreams[k].url
  BY <1>1 DEF Mirrors, GoodDraft, Known, GoodStore
<1>8. /\ Len(f) = n + 1 /\ f[n + 1] = item
      /\ \A k \in 1 .. n : f[k] = d[k]
  <2>1. d = [k \in 1 .. n |-> d[k]] /\ Len(d) = n
    BY <1>1 DEF Mirrors
  <2>2. f = Append(d, item)
    BY DEF d
  <2> HIDE DEF f, n
  <2>3. d \in Seq({d[k] : k \in 1 .. n} \cup {item})
    BY <1>2, <2>1
  <2> QED
    BY <1>2, <2>1, <2>2, <2>3
<1> HIDE DEF f
<1>9. \A k \in 1 .. n : us[k] # id
  BY DEF GoodStore, GoodEntry
<1>10. Distinct(f, IdsOf(f), n + 1)
  <2>1. \A k \in 1 .. n + 1 : IdsOf(f)[k] = f[k].id
    BY <1>8 DEF IdsOf
  <2>2. \A j, k \in 1 .. n :
           c.upstreams[j].name = c.upstreams[k].name \/ us[j] = us[k] => j = k
    BY DEF GoodStore, Distinct
  <2>3. \A k \in 1 .. n : /\ f[k].name = c.upstreams[k].name /\ IdsOf(f)[k] = us[k]
                          /\ f[k].name # name /\ IdsOf(f)[k] # id
    BY <1>2, <1>5, <1>7, <1>8, <1>9, <2>1
  <2>4. f[n + 1].name = name /\ IdsOf(f)[n + 1] = id
    BY <1>2, <1>3, <1>8, <2>1
  <2>5. \A k \in 1 .. n + 1 : k \in 1 .. n \/ k = n + 1
    BY <1>2
  <2> QED
    BY SMTT(30), <2>2, <2>3, <2>4, <2>5 DEF Distinct
<1>11. LiveIn(f, copy.active)
  <2>1. PICK k \in 1 .. n : c.upstreams[k].name = c.active /\ c.upstreams[k].url # Blank
    BY DEF GoodStore, LiveIn
  <2>2. k \in 1 .. Len(f)
    BY <1>2, <1>8
  <2>3. f[k].name = c.active /\ f[k].url # Blank
    BY <1>7, <1>8, <2>1
  <2>4. copy.active = c.active
    BY <1>1
  <2> QED
    BY <2>2, <2>3, <2>4 DEF LiveIn
<1>12. \A k \in 1 .. n + 1 : GoodDraft(f[k], c, us, wk)
  <2>1. \A k \in 1 .. n + 1 : k \in 1 .. n \/ k = n + 1
    BY <1>2
  <2> QED
    BY <1>6, <1>7, <1>8, <2>1
<1>13. Len(copy.drafts) = n + 1 /\ n + 1 \in Nat \ {0} /\ copy.drafts = f
  BY <1>2, <1>8 DEF f
<1>14. copy.maxTokens # 0
  BY <1>1
<1> QED
  BY <1>10, <1>11, <1>12, <1>13, <1>14 DEF GoodCopy

-----------------------------------------------------------------------------
(* The steps.                                                              *)

\* An edit whose save the server will accept.
SendsGood(p, copy, body) ==
    /\ SendBody(p, copy, body)
    /\ DOMAIN body = BodyFields
    /\ body.upstreams = Payload(copy).upstreams
    /\ body.active = copy.active /\ body.maxTokens = copy.maxTokens
    /\ GoodCopy(copy, server, ids, wantKey)
    /\ undone' = undone

LEMMA PayloadDomain ==
    ASSUME NEW copy
    PROVE  /\ DOMAIN Payload(copy) = BodyFields
           /\ Payload(copy).active = copy.active /\ Payload(copy).maxTokens = copy.maxTokens
BY DEF Payload, BodyFields

LEMMA SendGood ==
    ASSUME NEW p, NEW copy, Send(p, copy), GoodCopy(copy, server, ids, wantKey), undone' = undone
    PROVE  SendsGood(p, copy, Payload(copy))
BY PayloadDomain DEF Send, SendsGood

\* An edit of the store's copy is good, or undoes a deletion.
LEMMA OperateGood ==
    ASSUME NoneIsNoKey, TypedNames, NEW p \in Pages, Operate(p),
           GoodStore(server, ids, wantKey), page[p] = AdoptWith(server, ids)
    PROVE  undone' = TRUE \/ \E copy, body : SendsGood(p, copy, body)
<1> DEFINE a == page[p]
<1>1. /\ Mirrors(a.drafts, server, ids) /\ DOMAIN a = CopyFields
      /\ a.active = server.active /\ a.maxTokens # 0
  BY AdoptedFacts
<1> HIDE DEF a
<1>2. ASSUME NEW i \in 1 .. Len(a.drafts), NEW name \in Names, Rename(p, i, name)
      PROVE  \E copy, body : SendsGood(p, copy, body)
  <2> DEFINE copy == [a EXCEPT !.drafts[i].name = name,
                               !.active = IF @ = a.drafts[i].name THEN name ELSE @]
  <2>1. Send(p, copy) /\ undone' = undone /\ name # a.drafts[i].name /\ NameFree(a, i, name)
    BY <1>2 DEF Rename, a
  <2>2. a = AdoptWith(server, ids) /\ Trim(name) = name /\ name # Blank
    BY DEF a, TypedNames
  <2>3. GoodCopy(copy, server, ids, wantKey)
    <3> HIDE DEF copy
    <3>1. copy = [a EXCEPT !.drafts[i].name = name,
                           !.active = IF @ = a.drafts[i].name THEN name ELSE @]
      BY DEF copy
    <3> QED
      BY <2>1, <2>2, <3>1, RenameGood
  <2> HIDE DEF copy
  <2> QED
    BY <2>1, <2>3, SendGood
<1>3. ASSUME NEW i \in 1 .. Len(a.drafts), NEW key \in Keys, TypeKey(p, i, key)
      PROVE  \E copy, body : SendsGood(p, copy, body)
  <2> DEFINE copy == [a EXCEPT !.drafts[i].key = key, !.drafts[i].clear = FALSE]
  <2>1. Send(p, copy) /\ undone' = undone
    BY <1>3 DEF TypeKey, a
  <2>2. a = AdoptWith(server, ids)
    BY DEF a
  <2>3. GoodCopy(copy, server, ids, wantKey)
    BY <2>2, TypeKeyGood
  <2> HIDE DEF copy
  <2> QED
    BY <2>1, <2>3, SendGood
<1>4. ASSUME NEW i \in 1 .. Len(a.drafts), Activate(p, i)
      PROVE  \E copy, body : SendsGood(p, copy, body)
  <2> DEFINE copy == [a EXCEPT !.active = a.drafts[i].name]
  <2>1. Send(p, copy) /\ undone' = undone /\ a.drafts[i].url # Blank
    BY <1>4 DEF Activate, a
  <2>2. /\ copy.drafts = AdoptWith(server, ids).drafts
        /\ copy.maxTokens = AdoptWith(server, ids).maxTokens
        /\ copy.active = a.drafts[i].name /\ copy.drafts = a.drafts
    BY <1>1 DEF a, CopyFields
  <2> HIDE DEF copy
  <2>3. GoodCopy(copy, server, ids, wantKey)
    BY <2>1, <2>2, ActivateGood
  <2> QED
    BY <2>1, <2>3, SendGood
<1>5. ASSUME NEW i \in 1 .. Len(a.drafts), Delete(p, i)
      PROVE  \E copy, body : SendsGood(p, copy, body)
  <2> DEFINE copy == [a EXCEPT !.drafts = Without(a.drafts, i)]
  <2>1. Send(p, copy) /\ undone' = undone /\ MayDelete(a, i)
    BY <1>5 DEF Delete, a
  <2>2. /\ copy.drafts = Without(a.drafts, i) /\ copy.active = a.active
        /\ copy.maxTokens = a.maxTokens
    BY <1>1 DEF CopyFields
  <2>3. a = AdoptWith(server, ids)
    BY DEF a
  <2> HIDE DEF copy
  <2>4. GoodCopy(copy, server, ids, wantKey)
    BY <2>1, <2>2, <2>3, DeleteGood
  <2> QED
    BY <2>1, <2>4, SendGood
<1>6. ASSUME NEW name \in Names, Add(p, name)
      PROVE  \E copy, body : SendsGood(p, copy, body)
  <2> DEFINE id == CHOOSE u \in Ids \ UsedIds : TRUE
             item == [name |-> name, original |-> Blank, format |-> "openai", url |-> T("un"),
                      timeout |-> T("5m"), key |-> Blank, clear |-> FALSE, id |-> id]
             copy == [a EXCEPT !.drafts = Append(a.drafts, item)]
  <2>1. Send(p, copy) /\ undone' = undone /\ NameFree(a, 0, name)
    BY <1>6 DEF Add, a
  <2>2. id \in Ids /\ id \notin UsedIds
    BY <1>6 DEF Add
  <2> HIDE DEF id
  <2>3. wantKey[id] = None
    BY <2>2 DEF UsedIds
  <2>4. Trim(name) = name /\ name # Blank
    BY DEF TypedNames
  <2> HIDE DEF item
  <2>5. /\ copy.drafts = Append(a.drafts, item) /\ copy.active = a.active
        /\ copy.maxTokens = a.maxTokens
    BY <1>1 DEF CopyFields
  <2> HIDE DEF copy
  <2>6. item = [name |-> name, original |-> Blank, format |-> "openai", url |-> T("un"),
                timeout |-> T("5m"), key |-> Blank, clear |-> FALSE, id |-> id]
    BY DEF item
  <2>7. a = AdoptWith(server, ids)
    BY DEF a
  <2>8. GoodCopy(copy, server, ids, wantKey)
    BY <2>1, <2>2, <2>3, <2>4, <2>5, <2>6, <2>7, AddGood
  <2> QED
    BY <2>1, <2>8, SendGood
<1>7. ASSUME NEW listen, NEW cred, SaveAdvanced(p, listen, cred)
      PROVE  \E copy, body : SendsGood(p, copy, body)
  <2> DEFINE copy == [a EXCEPT !.listen = listen]
             body == [Payload(copy) EXCEPT !.adminKey = cred[1], !.accessKey = cred[2]]
  <2>1. SendBody(p, copy, body) /\ undone' = undone
    BY <1>7 DEF SaveAdvanced, a
  <2>2. /\ copy.drafts = AdoptWith(server, ids).drafts
        /\ copy.maxTokens = AdoptWith(server, ids).maxTokens
        /\ copy.active = server.active
    BY <1>1 DEF a, CopyFields
  <2> HIDE DEF copy
  <2>3. GoodCopy(copy, server, ids, wantKey)
    BY <2>2, ActivateGood
  <2>4. DOMAIN Payload(copy) = BodyFields
    BY PayloadDomain
  <2>5. /\ DOMAIN body = BodyFields /\ body.upstreams = Payload(copy).upstreams
        /\ body.active = Payload(copy).active /\ body.maxTokens = Payload(copy).maxTokens
    BY <2>4 DEF BodyFields
  <2> HIDE DEF body
  <2>6. SendsGood(p, copy, body)
    BY <2>1, <2>3, <2>5, PayloadDomain DEF SendsGood
  <2> QED
    BY <2>6
<1>8. ASSUME ClearAll(p)
      PROVE  \E copy, body : SendsGood(p, copy, body)
  <2> DEFINE copy == [a EXCEPT !.drafts =
                        [i \in 1 .. Len(@) |-> [@[i] EXCEPT !.clear = TRUE, !.key = Blank]]]
             body == [Payload(copy) EXCEPT !.clearAdmin = TRUE]
  <2>1. SendBody(p, copy, body) /\ undone' = undone
    BY <1>8 DEF ClearAll, a
  <2>2. a = AdoptWith(server, ids)
    BY DEF a
  <2>3. GoodCopy(copy, server, ids, wantKey)
    BY <2>2, ClearGood
  <2> HIDE DEF copy
  <2>4. DOMAIN Payload(copy) = BodyFields
    BY PayloadDomain
  <2>5. /\ DOMAIN body = BodyFields /\ body.upstreams = Payload(copy).upstreams
        /\ body.active = Payload(copy).active /\ body.maxTokens = Payload(copy).maxTokens
    BY <2>4 DEF BodyFields
  <2> HIDE DEF body
  <2>6. SendsGood(p, copy, body)
    BY <2>1, <2>3, <2>5, PayloadDomain DEF SendsGood
  <2> QED
    BY <2>6
<1>9. Undo(p) => undone' = TRUE
  BY DEF Undo
<1> HIDE DEF a
<1> QED
  BY <1>2, <1>3, <1>4, <1>5, <1>6, <1>7, <1>8, <1>9 DEF Operate, a

LEMMA SendsSynced ==
    ASSUME NoneIsNoCopy, NEW p \in Pages, NEW copy, NEW body,
           Copies, Synced, SendsGood(p, copy, body)
    PROVE  Synced'
<1> SUFFICES ASSUME ~undone'
             PROVE  Synced'
  BY DEF Synced
<1>1. /\ ~undone /\ page' = [page EXCEPT ![p] = copy] /\ sent' = [sent EXCEPT ![p] = body]
      /\ UNCHANGED <<server, ids, file, answer, wantKey, rejected>>
  BY DEF SendsGood, SendBody, serverVars, wishes
<1>2. GoodStore(server, ids, wantKey) /\ GoodStore(file, ids, wantKey) /\ rejected = FALSE
  BY <1>1 DEF Synced
<1>3. GoodBody(body, server, wantKey)
  BY <1>2, GoodPayload DEF SendsGood
<1>4. body # None
  BY DEF SendsGood, NoneIsNoCopy
<1>5. /\ sent'[p] = body
      /\ \A q \in Pages \ {p} : page'[q] = page[q] /\ sent'[q] = sent[q]
  BY <1>1 DEF Copies, Maps
<1>6. ASSUME NEW q \in Pages
      PROVE  /\ page'[q] # None /\ sent'[q] = None /\ answer'[q] = None
                   => page'[q] = AdoptWith(server, ids)
             /\ sent'[q] # None => GoodBody(sent'[q], server, wantKey)
             /\ answer'[q] \in {None, "saved"}
  <2>1. answer'[q] = answer[q] /\ answer[q] \in {None, "saved"}
    BY <1>1 DEF Synced
  <2>2. CASE q = p
    BY <1>3, <1>4, <1>5, <2>1, <2>2
  <2>3. CASE q # p
    BY <1>1, <1>5, <2>1, <2>3 DEF Synced
  <2> QED
    BY <2>2, <2>3
<1> QED
  BY <1>1, <1>2, <1>6 DEF Synced

LEMMA ServeSynced ==
    ASSUME NoneIsNoKey, OnePage, NEW p \in Pages, Copies, Synced, Serve(p)
    PROVE  Synced'
<1> SUFFICES ASSUME ~undone'
             PROVE  Synced'
  BY DEF Synced
<1> DEFINE body == sent[p]
           next == Normalize(BuildNext(server, body))
           n == Len(body.upstreams)
           us == [i \in 1 .. n |-> body.upstreams[i].id]
<1>1. /\ ~undone /\ body # None /\ sent' = [sent EXCEPT ![p] = None] /\ UNCHANGED page
  BY DEF Serve
<1>2. GoodBody(body, server, wantKey)
  BY <1>1 DEF Synced
<1>3. ASSUME NEW wk1, \A i \in 1 .. n :
                 wk1[body.upstreams[i].id] =
                    ResolveAPIKey(body.upstreams[i], Owned(wantKey, body.upstreams[i].id))
      PROVE  GoodStore(next, us, wk1)
  <2> HIDE DEF body
  <2> QED
    BY <1>2, <1>3, ServeGood
<1>4. Valid(next)
  <2> DEFINE wk2 == [u \in {body.upstreams[i].id : i \in 1 .. n} |->
                       ResolveAPIKey(body.upstreams[CHOOSE i \in 1 .. n : body.upstreams[i].id = u],
                                     Owned(wantKey, u))]
  <2> HIDE DEF body, next, us
  <2>1. ASSUME NEW i \in 1 .. n
        PROVE  wk2[body.upstreams[i].id] =
                 ResolveAPIKey(body.upstreams[i], Owned(wantKey, body.upstreams[i].id))
    <3>1. \A j \in 1 .. n : body.upstreams[j].id = body.upstreams[i].id => j = i
      BY <1>2 DEF GoodBody, Distinct, IdsOf
    <3>2. (CHOOSE j \in 1 .. n : body.upstreams[j].id = body.upstreams[i].id) = i
      BY <3>1
    <3> QED
      BY <3>2
  <2> HIDE DEF wk2
  <2> QED
    BY <1>3, <2>1, GoodValid
<1>5. /\ server' = next /\ file' = next /\ ids' = us
      /\ answer' = [answer EXCEPT ![p] = "saved"] /\ rejected' = rejected
      /\ wantKey' = [u \in Ids |->
            LET at == {i \in 1 .. n : body.upstreams[i].id = u}
            IN  IF at = {} THEN wantKey[u]
                ELSE ResolveAPIKey(body.upstreams[CHOOSE i \in at : TRUE],
                                   IF wantKey[u] = None THEN Blank ELSE wantKey[u])]
  BY <1>4 DEF Serve
<1>6. ASSUME NEW i \in 1 .. n
      PROVE  wantKey'[body.upstreams[i].id] =
                ResolveAPIKey(body.upstreams[i], Owned(wantKey, body.upstreams[i].id))
  <2> HIDE DEF body, next, us
  <2> DEFINE u == body.upstreams[i].id
             at == {j \in 1 .. n : body.upstreams[j].id = u}
  <2>1. u \in Ids
    BY <1>2 DEF GoodBody
  <2>2. \A j \in 1 .. n : body.upstreams[j].id = u => j = i
    BY <1>2 DEF GoodBody, Distinct, IdsOf
  <2>3. at = {i}
    BY <2>2
  <2>4. wantKey'[u] = IF at = {} THEN wantKey[u]
                      ELSE ResolveAPIKey(body.upstreams[CHOOSE j \in at : TRUE],
                                         IF wantKey[u] = None THEN Blank ELSE wantKey[u])
    BY <1>5, <2>1
  <2> HIDE DEF at, u
  <2>5. (CHOOSE j \in at : TRUE) = i /\ at # {}
    BY <2>3
  <2>6. wantKey'[u] = ResolveAPIKey(body.upstreams[i], Owned(wantKey, u))
    BY <2>4, <2>5 DEF Owned
  <2> QED
    BY <2>6 DEF u
<1> HIDE DEF body, next, us
<1>7. GoodStore(next, us, wantKey')
  BY <1>3, <1>6
<1>8. \A q \in Pages : q = p
  BY DEF OnePage
<1>9. sent'[p] = None /\ answer'[p] = "saved" /\ "saved" # None
  BY <1>1, <1>5 DEF Copies, Maps, NoneIsNoKey
<1>10. rejected' = FALSE
  BY <1>1, <1>5 DEF Synced
<1>11. GoodStore(server', ids', wantKey') /\ GoodStore(file', ids', wantKey')
  BY <1>5, <1>7
<1> QED
  BY <1>8, <1>9, <1>10, <1>11 DEF Synced

LEMMA PageSynced ==
    ASSUME NEW p \in Pages, Copies, Synced, Load(p) \/ Receive(p)
    PROVE  Synced'
<1> SUFFICES ASSUME ~undone'
             PROVE  Synced'
  BY DEF Synced
<1>1. UNCHANGED <<server, ids, file, sent, rejected, wantKey, undone>>
  BY DEF Load, Receive, serverVars, ghosts, wishes
<1>2. /\ page' = [page EXCEPT ![p] = AdoptWith(server, ids)]
      /\ answer' = answer \/ answer' = [answer EXCEPT ![p] = None]
  BY <1>1 DEF Load, Receive, Synced
<1>3. \A q \in Pages : answer'[q] = answer[q] \/ answer'[q] = None
  BY <1>2 DEF Copies, Maps
<1>4. ASSUME NEW q \in Pages
      PROVE  page'[q] # None /\ sent[q] = None /\ answer'[q] = None
                => page'[q] = AdoptWith(server, ids)
  <2>1. CASE q = p
    BY <1>2, <2>1 DEF Copies, Maps
  <2>2. CASE q # p
    <3>1. page'[q] = page[q] /\ answer'[q] = answer[q]
      BY <1>2, <2>2 DEF Copies, Maps
    <3> QED
      BY <1>1, <3>1 DEF Synced
  <2> QED
    BY <2>1, <2>2
<1> QED
  BY <1>1, <1>3, <1>4 DEF Synced

\* A restart: what is loaded is what was written.
LEMMA RestartSynced ==
    ASSUME NEW flag, Synced, Restart(flag)
    PROVE  Synced'
<1> SUFFICES ASSUME ~undone'
             PROVE  Synced'
  BY DEF Synced
<1> DEFINE loaded == Normalize(file)
           seed == [loaded EXCEPT !.listen = IF flag = Blank THEN @ ELSE flag]
<1>1. /\ server' = Normalize(seed)
      /\ page' = [q \in Pages |-> None] /\ sent' = [q \in Pages |-> None]
      /\ answer' = [q \in Pages |-> None]
      /\ UNCHANGED <<ids, file, wantKey, rejected, undone>>
  BY DEF Restart, Startup, ghosts, wishes
<1>2. GoodStore(file, ids, wantKey) /\ rejected = FALSE
  BY <1>1 DEF Synced
<1>3. /\ loaded.upstreams = file.upstreams /\ loaded.active = file.active
      /\ loaded.maxTokens = file.maxTokens
  BY <1>2, NormalizeGood
<1>4. /\ seed.upstreams = loaded.upstreams /\ seed.active = loaded.active
      /\ seed.maxTokens = loaded.maxTokens
  BY DEF Normalize
<1> HIDE DEF loaded, seed
<1>5. GoodStore(seed, ids, wantKey)
  BY <1>2, <1>3, <1>4, SameGood
<1>6. /\ Normalize(seed).upstreams = seed.upstreams /\ Normalize(seed).active = seed.active
      /\ Normalize(seed).maxTokens = seed.maxTokens
  BY <1>5, NormalizeGood
<1>7. GoodStore(server', ids, wantKey)
  BY <1>1, <1>5, <1>6, SameGood
<1> QED
  BY <1>1, <1>2, <1>7 DEF Synced

LEMMA InitSynced ==
    ASSUME NoneIsNoKey, Init
    PROVE  Synced
<1> DEFINE a == [name |-> T("a"), format |-> "openai", url |-> T("ua"), key |-> T("ka"),
                 timeout |-> T("5m")]
           b == [name |-> T("b"), format |-> "openai", url |-> T("ub"), key |-> T("kb"),
                 timeout |-> T("5m")]
<1>1. /\ FirstConfig.upstreams = <<a, b>> /\ FirstConfig.active = T("a")
      /\ FirstConfig.maxTokens = DefaultMaxTokens
  BY DEF FirstConfig, FirstUpstreams, Default
<1>2. /\ ids = <<1, 2>> /\ server = FirstConfig /\ file = FirstConfig /\ rejected = FALSE
      /\ wantKey[1] = T("ka") /\ wantKey[2] = T("kb")
      /\ page = [p \in Pages |-> None] /\ sent = [p \in Pages |-> None]
      /\ answer = [p \in Pages |-> None]
  BY IdsAssumption DEF Init
<1>3. \A v : Trim(T(v)) = T(v) /\ ~T(v).pad /\ T(v).v = v
  BY DEF Trim, T
<1>4. TimeoutOK(a) /\ TimeoutOK(b)
  <2>1. T("5m").v \in Durations
    BY <1>3 DEF Durations
  <2>2. ~T("5m").pad
    BY <1>3
  <2> QED
    BY <2>1, <2>2 DEF TimeoutOK
<1>5. T("a") # T("b") /\ T("a") # Blank /\ T("b") # Blank /\ T("ua") # Blank
  BY DEF T, Blank
<1>6. /\ TrimUpstream(a) = a /\ TrimUpstream(b) = b
      /\ a.name = T("a") /\ b.name = T("b") /\ a.key = T("ka") /\ b.key = T("kb")
      /\ a.url = T("ua") /\ b.url = T("ub") /\ a.format = "openai" /\ b.format = "openai"
      /\ a.timeout = T("5m") /\ b.timeout = T("5m")
  BY <1>3 DEF TrimUpstream
<1> HIDE DEF a, b
<1>7. GoodEntry(a) /\ GoodEntry(b)
  BY <1>3, <1>4, <1>5, <1>6 DEF GoodEntry, SupportedFormats, NoneIsNoKey
<1> DEFINE l == <<a, b>>
<1>8. /\ Len(l) = 2 /\ l[1] = a /\ l[2] = b /\ l = [i \in 1 .. 2 |-> l[i]]
      /\ \A i \in 1 .. 2 : i = 1 \/ i = 2
  OBVIOUS
<1> HIDE DEF l
<1>9. Distinct(l, ids, 2)
  BY <1>2, <1>5, <1>6, <1>8 DEF Distinct
<1>10. LiveIn(l, T("a"))
  BY <1>5, <1>6, <1>8 DEF LiveIn
<1>11. ~IsBlank(T("a")) /\ DefaultMaxTokens # 0
  BY DEF IsBlank, T, DefaultMaxTokens
<1>12. \A i \in 1 .. 2 : /\ TrimUpstream(l[i]) = l[i] /\ GoodEntry(l[i])
                         /\ ids[i] \in Ids /\ wantKey[ids[i]] = l[i].key
  BY <1>2, <1>6, <1>7, <1>8, IdsAssumption
<1>13. Len(ids) = 2
  BY <1>2
<1>14. /\ server.upstreams = l /\ server.active = T("a") /\ server.maxTokens = DefaultMaxTokens
  BY <1>1, <1>2 DEF l
<1>15. GoodStore(server, ids, wantKey)
  <2>1. Trim(T("a")) = T("a")
    BY <1>3
  <2> QED
    BY <1>8, <1>9, <1>10, <1>11, <1>12, <1>13, <1>14, <2>1 DEF GoodStore
<1> QED
  BY <1>2, <1>15 DEF Synced

LEMMA StepSynced ==
    ASSUME NoneIsNoKey, NoneIsNoCopy, TypedNames, OnePage, Copies, Synced, [Next]_vars
    PROVE  Synced'
<1>1. ASSUME NEW p \in Pages, Operate(p)
      PROVE  Synced'
  <2>1. CASE undone
    BY <1>1, <2>1 DEF Synced, Operate, Rename, TypeKey, Activate, Delete, Add, Undo,
                      SaveAdvanced, ClearAll
  <2>2. CASE ~undone
    <3>1. GoodStore(server, ids, wantKey) /\ page[p] = AdoptWith(server, ids)
      BY <1>1, <2>2 DEF Operate, Ready, Synced
    <3>2. undone' = TRUE \/ \E copy, body : SendsGood(p, copy, body)
      BY <1>1, <3>1, OperateGood
    <3>3. ASSUME undone' = TRUE
          PROVE  Synced'
      BY <3>3 DEF Synced
    <3> QED
      BY <3>2, <3>3, SendsSynced
  <2> QED
    BY <2>1, <2>2
<1>2. CASE UNCHANGED vars
  BY <1>2 DEF vars, serverVars, pageVars, ghosts, wishes, Synced
<1>3. ASSUME NEW p \in Pages, Load(p) \/ Serve(p) \/ Receive(p)
      PROVE  Synced'
  BY <1>3, PageSynced, ServeSynced
<1>4. Next => \/ \E flag \in Flags : Restart(flag)
              \/ \E p \in Pages : Load(p) \/ Serve(p) \/ Receive(p)
              \/ \E p \in Pages : Operate(p)
  BY DEF Next, Operate
<1> QED
  BY <1>1, <1>2, <1>3, <1>4, RestartSynced

\* The whole invariant of one page.
LEMMA SyncedHolds ==
    ASSUME NoneIsNoKey, NoneIsNoCopy, TypedNames, OnePage, OneTyped
    PROVE  Spec => []Synced
<1>1. Init => Copies /\ Synced
  BY InitKeeps, InitSynced
<1>2. Copies /\ Synced /\ [Next]_vars => (Copies /\ Synced)'
  BY StepKeeps, StepSynced
<1> QED
  BY <1>1, <1>2, PTL DEF Spec

(* With one page open every upstream holds the key the operator gave it,   *)
(* whatever was renamed, added, deleted, cleared, saved and reloaded, for  *)
(* any names and keys and any number of saves and restarts, until a        *)
(* deletion is undone (saveConfig's prevKeys and original_name, admin.go). *)
THEOREM KeyFollowsUntilUndoHolds ==
    ASSUME NoneIsNoKey, NoneIsNoCopy, TypedNames, OnePage, OneTyped
    PROVE  Spec => []KeyFollowsUntilUndo
<1>1. Synced => KeyFollowsUntilUndo
  BY DEF Synced, GoodStore, KeyFollowsUntilUndo, KeyFollowsUpstream
<1> QED
  BY <1>1, SyncedHolds, PTL

(* With one page open the server accepts every save the page lets the      *)
(* operator make, until a deletion is undone: the page's checks on names,  *)
(* deletion and activation imply Validate (config.go).                     *)
THEOREM NeverRejectedHolds ==
    ASSUME NoneIsNoKey, NoneIsNoCopy, TypedNames, OnePage, OneTyped
    PROVE  Spec => []NeverRejected
<1>1. Synced => NeverRejected
  BY DEF Synced, NeverRejected
<1> QED
  BY <1>1, SyncedHolds, PTL
=============================================================================
