------------------------- MODULE ConfigStoreProofs --------------------------
(***************************************************************************)
(* Proofs about ConfigStore for any number of handlers and requests, any   *)
(* views, any files and any bounds.                                        *)
(***************************************************************************)
EXTENDS ConfigStore, Counting, TLAPS

-----------------------------------------------------------------------------
(* The configuration as data: what Normalize and a draft of saveConfig are *)
(* for any configuration and any view.                                     *)

\* Trimming twice is trimming once.
LEMMA TrimTwice ==
    ASSUME NEW t
    PROVE  Trim(Trim(t)) = Trim(t)
BY DEF Trim, T

\* Trimming leaves what a text says, and so whether it is blank.
LEMMA TrimSays ==
    ASSUME NEW t
    PROVE  Trim(t).v = t.v /\ (IsBlank(Trim(t)) <=> IsBlank(t))
BY DEF Trim, T, IsBlank

\* An entry that is trimmed stays as it is.
LEMMA TrimUpstreamTwice ==
    ASSUME NEW u
    PROVE  TrimUpstream(TrimUpstream(u)) = TrimUpstream(u)
BY TrimTwice DEF TrimUpstream

\* The list of a normalised configuration, which has no legacy entry.
LEMMA NormalizedList ==
    ASSUME NEW c, HasList(c)
    PROVE  /\ Migrated(Normalize(c)) = Normalize(c).upstreams
           /\ Normalize(c).upstreams = [i \in 1 .. Len(Migrated(c)) |-> TrimUpstream(Migrated(c)[i])]
           /\ Len(Normalize(c).upstreams) = Len(Migrated(c))
           /\ HasList(Normalize(c))
<1> DEFINE n == Len(Migrated(c))
           s == [i \in 1 .. n |-> TrimUpstream(Migrated(c)[i])]
<1>1. n \in Nat \ {0}
  BY DEF HasList
<1>2. Normalize(c).upstreams = s
  BY DEF Normalize
<1> HIDE DEF n
<1>3. Len(s) = n /\ s # <<>>
  BY <1>1
<1> HIDE DEF s
<1>4. Migrated(Normalize(c)) = s
  BY <1>2, <1>3 DEF Migrated
<1>5. HasList(Normalize(c))
  BY <1>1, <1>3, <1>4 DEF HasList
<1> QED
  BY <1>2, <1>3, <1>4, <1>5 DEF n, s

\* Normalising a normalised configuration changes nothing: what is loaded
\* from a saved file is what was saved.
THEOREM NormalizeIdempotent ==
    ASSUME NEW c, HasList(c)
    PROVE  Normalize(Normalize(c)) = Normalize(c)
<1> DEFINE d == Normalize(c)
           n == Len(Migrated(c))
<1>1. /\ n \in Nat \ {0}
      /\ Len(d.upstreams) = n
      /\ Migrated(d) = d.upstreams
      /\ d.upstreams = [i \in 1 .. n |-> TrimUpstream(Migrated(c)[i])]
  BY NormalizedList DEF HasList
<1>2. [i \in 1 .. Len(Migrated(d)) |-> TrimUpstream(Migrated(d)[i])] = d.upstreams
  <2> HIDE DEF n, d
  <2>1. \A i \in 1 .. n : TrimUpstream(d.upstreams[i]) = d.upstreams[i]
    BY <1>1, TrimUpstreamTwice
  <2> QED
    BY <1>1, <2>1
<1>3. /\ (IF IsBlank(d.listen) THEN DefaultListen ELSE Trim(d.listen)) = d.listen
      /\ Trim(d.adminKey) = d.adminKey
      /\ Trim(d.accessKey) = d.accessKey
      /\ d.legacy = <<>>
      /\ (IF d.maxTokens = 0 THEN DefaultMaxTokens ELSE d.maxTokens) = d.maxTokens
  <2>1. /\ d.listen = IF IsBlank(c.listen) THEN DefaultListen ELSE Trim(c.listen)
        /\ d.adminKey = Trim(c.adminKey)
        /\ d.accessKey = Trim(c.accessKey)
        /\ d.legacy = <<>>
        /\ d.maxTokens = IF c.maxTokens = 0 THEN DefaultMaxTokens ELSE c.maxTokens
    BY DEF Normalize
  <2>2. Trim(DefaultListen) = DefaultListen /\ ~IsBlank(DefaultListen)
    BY DEF Trim, T, IsBlank, DefaultListen
  <2> HIDE DEF d
  <2>3. Trim(d.listen) = d.listen /\ ~IsBlank(d.listen)
    BY <2>1, <2>2, TrimTwice, TrimSays
  <2>4. (IF d.maxTokens = 0 THEN DefaultMaxTokens ELSE d.maxTokens) = d.maxTokens
    BY <2>1 DEF DefaultMaxTokens
  <2> QED
    BY <2>1, <2>3, <2>4, TrimTwice
<1>4. ActiveName(d) = d.active
  <2>1. d.active = ActiveName(c)
    BY DEF Normalize
  <2>2. Trim(d.active) = d.active
    BY <2>1, TrimTwice DEF ActiveName
  <2>3. CASE ~IsBlank(d.active)
    BY <2>2, <2>3 DEF ActiveName
  <2>4. CASE IsBlank(d.active)
    \* Only a list whose first entry has no name leaves the pointer blank.
    <3>1. d.active = Trim(Migrated(c)[1].name)
      BY <2>1, <2>4, TrimSays DEF ActiveName
    <3>2. d.upstreams[1].name = Trim(Migrated(c)[1].name)
      BY <1>1 DEF TrimUpstream
    <3>3. ActiveName(d) = Trim(d.upstreams[1].name)
      BY <1>1, <2>4 DEF ActiveName
    <3> QED
      BY <3>1, <3>2, <3>3, TrimTwice
  <2> QED
    BY <2>3, <2>4
<1>5. d = [listen |-> d.listen, adminKey |-> d.adminKey, accessKey |-> d.accessKey,
           upstreams |-> d.upstreams, active |-> d.active, legacy |-> d.legacy,
           maxTokens |-> d.maxTokens]
  BY DEF Normalize
<1> HIDE DEF d
<1>6. Normalize(d) = d
  BY <1>2, <1>3, <1>4, <1>5 DEF Normalize
<1> QED
  BY <1>6 DEF d

\* The starter configuration and every draft have a list.
LEMMA DefaultHasList == HasList(Default)
BY DEF HasList, Default, Migrated

\* A draft has a list, also when the view sends none: the blank upstream.
LEMMA BuildNextHasList ==
    ASSUME NEW c, NEW view, Len(view.upstreams) \in Nat
    PROVE  HasList(BuildNext(c, view))
<1> DEFINE n == Len(view.upstreams)
           b == BuildNext(c, view)
<1>1. CASE n = 0
  <2>1. b.upstreams = <<>>
    BY <1>1 DEF BuildNext
  <2> QED
    BY <2>1 DEF HasList, Migrated
<1>2. CASE n # 0
  <2>1. Len(b.upstreams) = n
    BY <1>2 DEF BuildNext
  <2> HIDE DEF b
  <2>2. b.upstreams # <<>>
    BY <1>2, <2>1
  <2>3. HasList(b)
    BY <1>2, <2>1, <2>2 DEF HasList, Migrated
  <2> QED
    BY <2>3 DEF b
<1> QED
  BY <1>1, <1>2

\* What a configuration in the store always is: its credentials are trimmed
\* and it has no legacy entry.
Settled(c) == Trim(c.adminKey) = c.adminKey /\ Trim(c.accessKey) = c.accessKey /\ c.legacy = <<>>

\* A view with nothing to trim and nothing to fill in.
CleanView(view) ==
    /\ ~IsBlank(view.listen) /\ Trim(view.listen) = view.listen
    /\ Trim(view.adminKey) = view.adminKey /\ Trim(view.accessKey) = view.accessKey
    /\ ~IsBlank(view.active) /\ Trim(view.active) = view.active
    /\ view.maxTokens # 0
    /\ Len(view.upstreams) \in Nat \ {0}
    /\ \A i \in 1 .. Len(view.upstreams) :
          LET iv == view.upstreams[i]
          IN  Trim(iv.name) = iv.name /\ Trim(iv.url) = iv.url /\ Trim(iv.timeout) = iv.timeout

LEMMA NormalizedSettled ==
    ASSUME NEW c
    PROVE  Settled(Normalize(c))
BY TrimTwice DEF Normalize, Settled

\* The credentials of a draft are trimmed when what they come from is.
LEMMA CredentialsTrimmed ==
    ASSUME NEW c, Settled(c), NEW view,
           Trim(view.adminKey) = view.adminKey, Trim(view.accessKey) = view.accessKey
    PROVE  /\ Trim(Credentials(c, view)[1]) = Credentials(c, view)[1]
           /\ Trim(Credentials(c, view)[2]) = Credentials(c, view)[2]
<1>1. Trim(Blank) = Blank
  BY DEF Trim, T, Blank
<1> QED
  BY <1>1 DEF Settled, Credentials

\* What Migrated gives when there is a list.
LEMMA MigratedList ==
    ASSUME NEW c, NEW n \in Nat \ {0}, NEW e, c.upstreams = [i \in 1 .. n |-> e[i]]
    PROVE  Migrated(c) = c.upstreams /\ Len(c.upstreams) = n
<1>1. Len(c.upstreams) = n /\ c.upstreams # <<>>
  OBVIOUS
<1> QED
  BY <1>1 DEF Migrated

\* The draft of a clean view over a settled configuration is already
\* normalised: Save publishes what the handler applies.
LEMMA CleanDraft ==
    ASSUME NEW c, Settled(c), NEW view, CleanView(view)
    PROVE  Normalize(BuildNext(c, view)) = BuildNext(c, view)
<1> DEFINE d == BuildNext(c, view)
           n == Len(view.upstreams)
<1>1. n \in Nat \ {0}
  BY DEF CleanView
<1>2. /\ d.listen = view.listen /\ d.adminKey = Credentials(c, view)[1]
      /\ d.accessKey = Credentials(c, view)[2] /\ d.active = view.active
      /\ d.legacy = c.legacy /\ d.maxTokens = view.maxTokens
  BY DEF BuildNext
<1>3. d.upstreams = [i \in 1 .. n |->
                        [name |-> view.upstreams[i].name, format |-> view.upstreams[i].format,
                         url |-> view.upstreams[i].url,
                         key |-> ResolveAPIKey(view.upstreams[i], PreviousKey(c, view.upstreams[i])),
                         timeout |-> view.upstreams[i].timeout]]
  BY DEF BuildNext
<1>4. d = [listen |-> d.listen, adminKey |-> d.adminKey, accessKey |-> d.accessKey,
           upstreams |-> d.upstreams, active |-> d.active, legacy |-> d.legacy,
           maxTokens |-> d.maxTokens]
  BY DEF BuildNext
<1>5. \A i \in 1 .. n : TrimUpstream(d.upstreams[i]) = d.upstreams[i]
  <2> TAKE i \in 1 .. n
  <2>1. /\ Trim(view.upstreams[i].name) = view.upstreams[i].name
        /\ Trim(view.upstreams[i].url) = view.upstreams[i].url
        /\ Trim(view.upstreams[i].timeout) = view.upstreams[i].timeout
    BY DEF CleanView
  <2> DEFINE u == [name |-> view.upstreams[i].name, format |-> view.upstreams[i].format,
                   url |-> view.upstreams[i].url,
                   key |-> ResolveAPIKey(view.upstreams[i], PreviousKey(c, view.upstreams[i])),
                   timeout |-> view.upstreams[i].timeout]
  <2>2. TrimUpstream(u) = u
    BY <2>1 DEF TrimUpstream
  <2>3. d.upstreams[i] = u
    BY <1>3
  <2> QED
    BY <2>2, <2>3
<1> HIDE DEF d
<1>6. Migrated(d) = d.upstreams /\ Len(d.upstreams) = n
  <2> DEFINE e == [i \in 1 .. n |->
                        [name |-> view.upstreams[i].name, format |-> view.upstreams[i].format,
                         url |-> view.upstreams[i].url,
                         key |-> ResolveAPIKey(view.upstreams[i], PreviousKey(c, view.upstreams[i])),
                         timeout |-> view.upstreams[i].timeout]]
  <2>1. d.upstreams = e /\ e = [i \in 1 .. n |-> e[i]]
    BY <1>3
  <2> HIDE DEF e, n
  <2> QED
    BY <1>1, <2>1, MigratedList
<1>7. [i \in 1 .. Len(Migrated(d)) |-> TrimUpstream(Migrated(d)[i])] = d.upstreams
  <2>1. d.upstreams = [i \in 1 .. n |-> d.upstreams[i]]
    BY <1>3
  <2> HIDE DEF n
  <2> QED
    BY <1>5, <1>6, <2>1
<1>8. /\ (IF IsBlank(d.listen) THEN DefaultListen ELSE Trim(d.listen)) = d.listen
      /\ Trim(d.adminKey) = d.adminKey
      /\ Trim(d.accessKey) = d.accessKey
      /\ ActiveName(d) = d.active
      /\ d.legacy = <<>>
      /\ (IF d.maxTokens = 0 THEN DefaultMaxTokens ELSE d.maxTokens) = d.maxTokens
  BY <1>2, CredentialsTrimmed DEF CleanView, Settled, ActiveName
<1>9. Normalize(d) = d
  BY <1>4, <1>7, <1>8 DEF Normalize
<1> QED
  BY <1>9 DEF d

\* One entry of a normalised draft: the view's, with the key the handler resolved.
Drafted(c, iv) ==
    TrimUpstream([name |-> iv.name, format |-> iv.format, url |-> iv.url,
                  key |-> ResolveAPIKey(iv, PreviousKey(c, iv)), timeout |-> iv.timeout])

LEMMA DraftList ==
    ASSUME NEW c, NEW view, Len(view.upstreams) \in Nat \ {0}
    PROVE  /\ Normalize(BuildNext(c, view)).upstreams =
                  [i \in 1 .. Len(view.upstreams) |-> Drafted(c, view.upstreams[i])]
           /\ Len(Normalize(BuildNext(c, view)).upstreams) = Len(view.upstreams)
<1> DEFINE d == BuildNext(c, view)
           n == Len(view.upstreams)
           e == [j \in 1 .. n |->
                    [name |-> view.upstreams[j].name, format |-> view.upstreams[j].format,
                     url |-> view.upstreams[j].url,
                     key |-> ResolveAPIKey(view.upstreams[j], PreviousKey(c, view.upstreams[j])),
                     timeout |-> view.upstreams[j].timeout]]
           l == [i \in 1 .. n |-> Drafted(c, view.upstreams[i])]
<1>1. d.upstreams = e
  BY DEF BuildNext
<1>2. \A i \in 1 .. n : TrimUpstream(e[i]) = Drafted(c, view.upstreams[i])
  BY DEF Drafted
<1>3. e = [j \in 1 .. n |-> e[j]]
  OBVIOUS
<1> HIDE DEF d, e
<1>4. Migrated(d) = e /\ Len(e) = n
  BY <1>1, <1>3, MigratedList
<1>5. Normalize(d).upstreams = [i \in 1 .. n |-> TrimUpstream(e[i])]
  BY <1>4 DEF Normalize
<1>6. Normalize(d).upstreams = l
  BY <1>2, <1>5
<1>7. Len(l) = n
  OBVIOUS
<1> QED
  BY <1>6, <1>7 DEF d

\* Each entry of a normalised draft keeps the key the handler resolved.
LEMMA DraftKey ==
    ASSUME NEW c, NEW view, Len(view.upstreams) \in Nat, NEW i \in 1 .. Len(view.upstreams)
    PROVE  Normalize(BuildNext(c, view)).upstreams[i].key =
              ResolveAPIKey(view.upstreams[i], PreviousKey(c, view.upstreams[i]))
<1>1. Normalize(BuildNext(c, view)).upstreams[i] = Drafted(c, view.upstreams[i])
  <2>1. Len(view.upstreams) \in Nat \ {0}
    OBVIOUS
  <2>2. Normalize(BuildNext(c, view)).upstreams =
            [j \in 1 .. Len(view.upstreams) |-> Drafted(c, view.upstreams[j])]
    BY <2>1, DraftList
  <2> QED
    BY <2>2
<1> QED
  BY <1>1 DEF Drafted, TrimUpstream

\* First is the first position.
LEMMA FirstIsFirst ==
    ASSUME NEW S, S \subseteq Nat, S # {}
    PROVE  First(S) \in S /\ \A j \in S : First(S) <= j
BY LeastNumber DEF First

\* A valid configuration has a live upstream whose timeout parses.
LEMMA ValidTimeout ==
    ASSUME NEW c, Len(c.upstreams) \in Nat, Valid(c)
    PROVE  TimeoutOK(ActiveUpstream(c))
<1> DEFINE S == Named(c, c.active)
<1>1. S # {} /\ S \subseteq 1 .. Len(c.upstreams)
  BY DEF Valid, LiveIsComplete, Named
<1>2. First(S) \in S
  <2> HIDE DEF S
  <2>1. S \subseteq Nat
    BY <1>1
  <2> QED
    BY <1>1, <2>1, FirstIsFirst
<1>3. ActiveUpstream(c) = c.upstreams[First(S)]
  BY <1>1 DEF ActiveUpstream
<1> HIDE DEF S
<1> QED
  BY <1>1, <1>2, <1>3 DEF Valid, EntriesValid

-----------------------------------------------------------------------------
(* The inductive invariant.                                                *)

Labels == InSave \cup {"idle", "lock", "apply"}

Shape ==
    /\ pc \in [Handlers -> Labels]
    /\ mu \in Handlers \cup {Free}
    /\ DOMAIN next = Handlers
    /\ DOMAIN held = Requests

\* A handler runs in a living process and has a draft with a list; the file
\* has one too.
Lists ==
    /\ \A h \in Handlers : pc[h] # "idle" => process = "up" /\ HasList(next[h])
    /\ disk # None => HasList(disk.cfg)

\* From the validation on, the draft is an accepted configuration.
Checked ==
    \A h \in Handlers :
        pc[h] \in InSave \cup {"apply"} => Candidate(h) \in accepted /\ Valid(Candidate(h))

\* What is renamed onto the file is the holder's draft, all of it.
TempWhole ==
    \A h \in Handlers :
        /\ pc[h] = "sync" => temp = [cfg |-> Candidate(h), whole |-> FALSE]
        /\ pc[h] \in {"rename", "remove", "again"} =>
               temp = [cfg |-> Candidate(h), whole |-> TRUE]

\* After the first start the file stays loadable.
FileLoads ==
    /\ (accepted # {} /\ disk # None) => Loadable(disk)
    /\ process = "refused" => accepted = {}

\* The file runs ahead of the store only between the rename and the
\* publication, and then it holds the draft about to be published.
FileAhead ==
    /\ (process = "up" /\ disk # None /\ \A h \in Handlers : pc[h] # "publish")
           => current = Normalize(disk.cfg)
    /\ \A h \in Handlers : (pc[h] = "publish" /\ disk # None) => disk.cfg = Candidate(h)

Inv ==
    /\ Shape
    /\ SavesExclude
    /\ Lists
    /\ Checked
    /\ TempWhole
    /\ FileLoads
    /\ OnlyAcceptedServes
    /\ FileAhead

-----------------------------------------------------------------------------
(* The steps of a save.                                                    *)

\* One handler moves to a label, the others stay.
LEMMA GotoFacts ==
    ASSUME Shape, NEW h \in Handlers, NEW l \in Labels, Goto(h, l)
    PROVE  /\ pc' \in [Handlers -> Labels]
           /\ pc'[h] = l
           /\ \A g \in Handlers \ {h} : pc'[g] = pc[g]
BY DEF Shape, Goto

\* No handler but h is inside Save while h may enter or is inside.
LEMMA OthersOutside ==
    ASSUME Inv, NEW h \in Handlers, mu = h \/ mu = Free,
           NEW g \in Handlers, g # h
    PROVE  pc[g] \notin InSave
BY FreeAssumption DEF Inv, SavesExclude

\* A failing save gives up the mutex and changes nothing else that lasts.
LEMMA FailKeepsInv ==
    ASSUME Inv, NEW h \in Handlers, FailSave(h), mu = h \/ mu = Free,
           pc[h] # "publish",
           UNCHANGED <<process, current, rt, disk, next, held, accepted>>
    PROVE  Inv'
<1>1. /\ pc' \in [Handlers -> Labels]
      /\ pc'[h] = "idle"
      /\ \A g \in Handlers \ {h} : pc'[g] = pc[g]
  BY GotoFacts DEF Inv, FailSave, Labels
<1>2. \A g \in Handlers \ {h} : pc[g] \notin InSave
  BY OthersOutside
<1>3. \A g \in Handlers : pc'[g] \notin InSave
  BY <1>1, <1>2 DEF InSave
<1>4. mu' = Free
  BY DEF FailSave
<1>5. Shape'
  BY <1>1, <1>4 DEF Inv, Shape
<1>6. SavesExclude'
  BY <1>3, <1>4, FreeAssumption DEF SavesExclude
<1>7. Lists'
  BY <1>1 DEF Inv, Lists
<1>8. Checked'
  BY <1>1, <1>3 DEF Inv, Checked, Candidate
<1>9. TempWhole'
  BY <1>3 DEF TempWhole, InSave
<1>10. FileLoads'
  BY DEF Inv, FileLoads, Loadable
<1>11. OnlyAcceptedServes'
  BY DEF Inv, OnlyAcceptedServes
<1>12. FileAhead'
  <2>1. \A g \in Handlers : pc[g] # "publish"
    BY <1>2 DEF InSave
  <2>2. \A g \in Handlers : pc'[g] # "publish"
    BY <1>3 DEF InSave
  <2> QED
    BY <2>1, <2>2 DEF Inv, FileAhead
<1> QED
  BY <1>5, <1>6, <1>7, <1>8, <1>9, <1>10, <1>11, <1>12 DEF Inv

\* The draft is built from the published configuration and the view.
LEMMA BeginKeepsInv ==
    ASSUME Inv, NEW h \in Handlers, NEW view \in Incoming, SaveBegin(h, view)
    PROVE  Inv'
<1>1. /\ pc' \in [Handlers -> Labels]
      /\ pc'[h] = "lock"
      /\ \A g \in Handlers \ {h} : pc'[g] = pc[g]
  BY GotoFacts DEF Inv, SaveBegin, Labels
<1>2. /\ DOMAIN next' = Handlers
      /\ next'[h] = BuildNext(current, view)
      /\ \A g \in Handlers \ {h} : next'[g] = next[g]
  BY DEF SaveBegin, Inv, Shape
<1>3. HasList(next'[h])
  <2>1. Len(view.upstreams) \in Nat
    BY ListsAssumption
  <2> QED
    BY <2>1, <1>2, BuildNextHasList
<1>4. /\ process = "up"
      /\ pc[h] = "idle"
      /\ UNCHANGED <<process, mu, current, rt, disk, temp, held, accepted>>
  BY DEF SaveBegin, procVars, fileVars
<1>5. Shape'
  BY <1>1, <1>2, <1>4 DEF Inv, Shape
<1>6. SavesExclude'
  BY <1>1, <1>4 DEF Inv, SavesExclude, InSave
<1>7. Lists'
  BY <1>1, <1>2, <1>3, <1>4 DEF Inv, Lists
<1>8. Checked'
  BY <1>1, <1>2, <1>4 DEF Inv, Checked, Candidate, InSave
<1>9. TempWhole'
  BY <1>1, <1>2, <1>4 DEF Inv, TempWhole, Candidate
<1>10. FileLoads'
  BY <1>4 DEF Inv, FileLoads, Loadable
<1>11. OnlyAcceptedServes'
  BY <1>4 DEF Inv, OnlyAcceptedServes
<1>12. FileAhead'
  <2>1. \A g \in Handlers : pc'[g] = "publish" <=> pc[g] = "publish"
    BY <1>1, <1>4
  <2>2. \A g \in Handlers : pc'[g] = "publish" => next'[g] = next[g]
    BY <1>1, <1>2
  <2> QED
    BY <1>4, <2>1, <2>2 DEF Inv, FileAhead, Candidate
<1> QED
  BY <1>5, <1>6, <1>7, <1>8, <1>9, <1>10, <1>11, <1>12 DEF Inv

\* Only a valid draft passes the validation, and then it is accepted.
LEMMA LockKeepsInv ==
    ASSUME Inv, NEW h \in Handlers, SaveLock(h)
    PROVE  Inv'
<1>1. /\ pc[h] = "lock"
      /\ mu = Free
      /\ UNCHANGED <<process, current, rt, disk, next, held>>
  BY DEF SaveLock
<1>2. CASE ~Valid(Candidate(h))
  <2>1. FailSave(h) /\ UNCHANGED accepted
    BY <1>2 DEF SaveLock, Check
  <2> QED
    BY <1>1, <2>1, FailKeepsInv
<1>3. CASE Valid(Candidate(h))
  <2>1. /\ mu' = h
        /\ Goto(h, "create")
        /\ accepted' = accepted \cup {Candidate(h)}
        /\ UNCHANGED temp
    BY <1>3 DEF SaveLock, Check
  <2>2. /\ pc' \in [Handlers -> Labels]
        /\ pc'[h] = "create"
        /\ \A g \in Handlers \ {h} : pc'[g] = pc[g]
    BY <2>1, GotoFacts DEF Inv, Labels, InSave
  <2>3. \A g \in Handlers : pc[g] \notin InSave
    BY <1>1, OthersOutside DEF InSave
  <2>4. Shape'
    BY <1>1, <2>1, <2>2 DEF Inv, Shape
  <2>5. SavesExclude'
    BY <2>1, <2>2, <2>3 DEF SavesExclude, InSave
  <2>6. Lists'
    BY <1>1, <2>2 DEF Inv, Lists
  <2>7. Checked'
    BY <1>1, <1>3, <2>1, <2>2 DEF Inv, Checked, Candidate
  <2>8. TempWhole'
    BY <2>2, <2>3 DEF TempWhole, InSave
  <2>9. FileLoads'
    <3>1. process = "up" /\ accepted # {}
      BY <1>1 DEF Inv, Lists, OnlyAcceptedServes
    <3> QED
      BY <1>1, <3>1 DEF Inv, FileLoads, Loadable
  <2>10. OnlyAcceptedServes'
    BY <1>1, <2>1 DEF Inv, OnlyAcceptedServes
  <2>11. FileAhead'
    <3>1. \A g \in Handlers : pc[g] # "publish" /\ pc'[g] # "publish"
      BY <2>2, <2>3 DEF InSave
    <3> QED
      BY <1>1, <3>1 DEF Inv, FileAhead
  <2> QED
    BY <2>4, <2>5, <2>6, <2>7, <2>8, <2>9, <2>10, <2>11 DEF Inv
<1> QED
  BY <1>2, <1>3

\* A step of the holder from one label inside Save to another that touches
\* neither the mutex nor anything the relay sees.
LEMMA MoveKeepsCore ==
    ASSUME Inv, NEW h \in Handlers, NEW l \in InSave, pc[h] \in InSave, Goto(h, l),
           UNCHANGED <<process, mu, current, rt, next, held, accepted>>
    PROVE  /\ pc' \in [Handlers -> Labels]
           /\ pc'[h] = l
           /\ \A g \in Handlers \ {h} : pc'[g] = pc[g] /\ pc'[g] \notin InSave
           /\ Shape'
           /\ SavesExclude'
           /\ \A g \in Handlers : pc'[g] # "idle" => process' = "up" /\ HasList(next'[g])
           /\ Checked'
           /\ OnlyAcceptedServes'
<1>1. /\ pc' \in [Handlers -> Labels]
      /\ pc'[h] = l
      /\ \A g \in Handlers \ {h} : pc'[g] = pc[g]
  BY GotoFacts DEF Inv, Labels
<1>2. mu = h
  BY DEF Inv, SavesExclude
<1>3. \A g \in Handlers \ {h} : pc[g] \notin InSave
  BY <1>2, OthersOutside
<1>4. Shape'
  BY <1>1 DEF Inv, Shape
<1>5. SavesExclude'
  BY <1>1, <1>2, <1>3 DEF SavesExclude
<1>6. \A g \in Handlers : pc'[g] # "idle" => process' = "up" /\ HasList(next'[g])
  BY <1>1 DEF Inv, Lists, InSave
<1>7. Checked'
  BY <1>1 DEF Inv, Checked, Candidate
<1>8. OnlyAcceptedServes'
  BY DEF Inv, OnlyAcceptedServes
<1> QED
  BY <1>1, <1>3, <1>4, <1>5, <1>6, <1>7, <1>8

\* A temp file cut short is not yet named as the file.
LEMMA WriteKeepsInv ==
    ASSUME Inv, NEW h \in Handlers, WriteTemp(h)
    PROVE  Inv'
<1>1. /\ pc[h] = "create" /\ pc[h] \in InSave
      /\ UNCHANGED <<process, current, rt, disk, next, held, accepted>>
  BY DEF WriteTemp, InSave
<1>2. mu = h
  BY <1>1 DEF Inv, SavesExclude
<1>3. CASE FailSave(h)
  BY <1>1, <1>2, <1>3, FailKeepsInv
<1>4. CASE /\ temp' = [cfg |-> Candidate(h), whole |-> FALSE]
           /\ Goto(h, "sync")
           /\ UNCHANGED mu
  <2>1. /\ pc'[h] = "sync"
        /\ \A g \in Handlers \ {h} : pc'[g] = pc[g] /\ pc'[g] \notin InSave
        /\ Shape' /\ SavesExclude' /\ Checked' /\ OnlyAcceptedServes'
        /\ \A g \in Handlers : pc'[g] # "idle" => process' = "up" /\ HasList(next'[g])
    <3>1. "sync" \in InSave
      BY DEF InSave
    <3> QED
      BY <1>1, <1>4, <3>1, MoveKeepsCore
  <2>2. Lists'
    BY <1>1, <2>1 DEF Inv, Lists
  <2>3. TempWhole'
    BY <1>1, <1>4, <2>1 DEF TempWhole, Candidate, InSave
  <2>4. FileLoads'
    BY <1>1 DEF Inv, FileLoads, Loadable
  <2>5. FileAhead'
    <3>1. \A g \in Handlers : pc'[g] # "publish" /\ pc[g] # "publish"
      BY <1>1, <2>1 DEF InSave
    <3> QED
      BY <1>1, <3>1 DEF Inv, FileAhead
  <2> QED
    BY <2>1, <2>2, <2>3, <2>4, <2>5 DEF Inv
<1> QED
  BY <1>3, <1>4 DEF WriteTemp

\* Flushed, the temp file holds the whole draft.
LEMMA SyncKeepsInv ==
    ASSUME Inv, NEW h \in Handlers, SyncTemp(h)
    PROVE  Inv'
<1>1. /\ pc[h] = "sync" /\ pc[h] \in InSave
      /\ UNCHANGED <<process, current, rt, disk, next, held, accepted>>
  BY DEF SyncTemp, InSave
<1>2. mu = h
  BY <1>1 DEF Inv, SavesExclude
<1>3. CASE FailSave(h)
  BY <1>1, <1>2, <1>3, FailKeepsInv
<1>4. CASE /\ temp' = [temp EXCEPT !.whole = TRUE]
           /\ Goto(h, "rename")
           /\ UNCHANGED mu
  <2>1. /\ pc'[h] = "rename"
        /\ \A g \in Handlers \ {h} : pc'[g] = pc[g] /\ pc'[g] \notin InSave
        /\ Shape' /\ SavesExclude' /\ Checked' /\ OnlyAcceptedServes'
        /\ \A g \in Handlers : pc'[g] # "idle" => process' = "up" /\ HasList(next'[g])
    <3>1. "rename" \in InSave
      BY DEF InSave
    <3> QED
      BY <1>1, <1>4, <3>1, MoveKeepsCore
  <2>2. Lists'
    BY <1>1, <2>1 DEF Inv, Lists
  <2>3. TempWhole'
    <3>1. temp = [cfg |-> Candidate(h), whole |-> FALSE]
      BY <1>1 DEF Inv, TempWhole
    <3>2. temp' = [cfg |-> Candidate(h), whole |-> TRUE]
      BY <1>4, <3>1
    <3> QED
      BY <1>1, <2>1, <3>2 DEF TempWhole, Candidate, InSave
  <2>4. FileLoads'
    BY <1>1 DEF Inv, FileLoads, Loadable
  <2>5. FileAhead'
    <3>1. \A g \in Handlers : pc'[g] # "publish" /\ pc[g] # "publish"
      BY <1>1, <2>1 DEF InSave
    <3> QED
      BY <1>1, <3>1 DEF Inv, FileAhead
  <2> QED
    BY <2>1, <2>2, <2>3, <2>4, <2>5 DEF Inv
<1> QED
  BY <1>3, <1>4 DEF SyncTemp, Flush

\* The whole draft takes the file's place: the file stays loadable and is
\* now ahead of the store.
LEMMA PutFileKeepsInv ==
    ASSUME Inv, NEW h \in Handlers, pc[h] \in {"rename", "again"},
           disk' = temp, Goto(h, "publish"),
           UNCHANGED <<process, mu, current, rt, next, held, accepted>>
    PROVE  Inv'
<1>1. /\ pc[h] \in InSave
      /\ temp = [cfg |-> Candidate(h), whole |-> TRUE]
  BY DEF Inv, TempWhole, InSave
<1>2. /\ pc'[h] = "publish"
      /\ \A g \in Handlers \ {h} : pc'[g] = pc[g] /\ pc'[g] \notin InSave
      /\ Shape' /\ SavesExclude' /\ Checked' /\ OnlyAcceptedServes'
      /\ \A g \in Handlers : pc'[g] # "idle" => process' = "up" /\ HasList(next'[g])
  <2>1. "publish" \in InSave
    BY DEF InSave
  <2> QED
    BY <1>1, <2>1, MoveKeepsCore
<1>3. HasList(next[h]) /\ process = "up"
  BY <1>1 DEF Inv, Lists, InSave
<1>4. Valid(Candidate(h))
  BY <1>1 DEF Inv, Checked
<1>5. disk'.cfg = Candidate(h) /\ disk'.whole = TRUE
  BY <1>1
<1>6. Normalize(Candidate(h)) = Candidate(h) /\ HasList(Candidate(h))
  BY <1>3, NormalizeIdempotent, NormalizedList DEF Candidate
<1>7. Lists'
  BY <1>2, <1>5, <1>6 DEF Lists
<1>8. TempWhole'
  BY <1>2 DEF TempWhole, InSave
<1>9. FileLoads'
  BY <1>3, <1>4, <1>5, <1>6 DEF FileLoads, Loadable
<1>10. FileAhead'
  BY <1>2, <1>5 DEF FileAhead, Candidate, InSave
<1> QED
  BY <1>2, <1>7, <1>8, <1>9, <1>10 DEF Inv

\* The first rename replaces the file or leaves it as it was.
LEMMA RenameKeepsInv ==
    ASSUME Inv, NEW h \in Handlers, RenameTemp(h)
    PROVE  Inv'
<1>1. /\ pc[h] = "rename" /\ pc[h] \in InSave
      /\ UNCHANGED <<process, mu, current, rt, next, held, accepted>>
  BY DEF RenameTemp, InSave, procVars
<1>2. CASE disk' = temp /\ Goto(h, "publish")
  BY <1>1, <1>2, PutFileKeepsInv
<1>3. CASE Goto(h, "remove") /\ UNCHANGED fileVars
  <2>1. /\ pc'[h] = "remove"
        /\ \A g \in Handlers \ {h} : pc'[g] = pc[g] /\ pc'[g] \notin InSave
        /\ Shape' /\ SavesExclude' /\ Checked' /\ OnlyAcceptedServes'
        /\ \A g \in Handlers : pc'[g] # "idle" => process' = "up" /\ HasList(next'[g])
    <3>1. "remove" \in InSave
      BY DEF InSave
    <3> QED
      BY <1>1, <1>3, <3>1, MoveKeepsCore
  <2>2. UNCHANGED <<disk, temp>>
    BY <1>3 DEF fileVars
  <2>3. Lists'
    BY <2>1, <2>2 DEF Inv, Lists
  <2>4. TempWhole'
    <3>1. temp = [cfg |-> Candidate(h), whole |-> TRUE]
      BY <1>1 DEF Inv, TempWhole
    <3> QED
      BY <1>1, <2>1, <2>2, <3>1 DEF TempWhole, Candidate, InSave
  <2>5. FileLoads'
    BY <1>1, <2>2 DEF Inv, FileLoads, Loadable
  <2>6. FileAhead'
    <3>1. \A g \in Handlers : pc'[g] # "publish" /\ pc[g] # "publish"
      BY <1>1, <2>1 DEF InSave
    <3> QED
      BY <1>1, <2>2, <3>1 DEF Inv, FileAhead
  <2> QED
    BY <2>1, <2>3, <2>4, <2>5, <2>6 DEF Inv
<1> QED
  BY <1>2, <1>3 DEF RenameTemp, Rename

\* Between the two renames there is no file, which every part allows.
LEMMA RemoveKeepsInv ==
    ASSUME Inv, NEW h \in Handlers, RemoveOld(h)
    PROVE  Inv'
<1>1. /\ pc[h] = "remove" /\ pc[h] \in InSave
      /\ UNCHANGED <<process, current, rt, next, held, accepted>>
  BY DEF RemoveOld, InSave
<1>2. mu = h
  BY <1>1 DEF Inv, SavesExclude
<1>3. CASE FailSave(h) /\ UNCHANGED disk
  BY <1>1, <1>2, <1>3, FailKeepsInv
<1>4. CASE /\ disk' = None
           /\ Goto(h, "again")
           /\ UNCHANGED <<mu, temp>>
  <2>1. /\ pc'[h] = "again"
        /\ \A g \in Handlers \ {h} : pc'[g] = pc[g] /\ pc'[g] \notin InSave
        /\ Shape' /\ SavesExclude' /\ Checked' /\ OnlyAcceptedServes'
        /\ \A g \in Handlers : pc'[g] # "idle" => process' = "up" /\ HasList(next'[g])
    <3>1. "again" \in InSave
      BY DEF InSave
    <3> QED
      BY <1>1, <1>4, <3>1, MoveKeepsCore
  <2>2. Lists'
    BY <1>4, <2>1 DEF Lists
  <2>3. TempWhole'
    <3>1. temp = [cfg |-> Candidate(h), whole |-> TRUE]
      BY <1>1 DEF Inv, TempWhole
    <3> QED
      BY <1>1, <1>4, <2>1, <3>1 DEF TempWhole, Candidate, InSave
  <2>4. FileLoads'
    BY <1>1, <1>4 DEF Inv, FileLoads
  <2>5. FileAhead'
    BY <1>4 DEF FileAhead
  <2> QED
    BY <2>1, <2>2, <2>3, <2>4, <2>5 DEF Inv
<1> QED
  BY <1>3, <1>4 DEF RemoveOld

\* The second rename brings the file back, or the save gives up without one.
LEMMA AgainKeepsInv ==
    ASSUME Inv, NEW h \in Handlers, RenameAgain(h)
    PROVE  Inv'
<1>1. /\ pc[h] = "again" /\ pc[h] \in InSave
      /\ UNCHANGED <<process, current, rt, next, held, accepted>>
  BY DEF RenameAgain, InSave
<1>2. mu = h
  BY <1>1 DEF Inv, SavesExclude
<1>3. CASE FailSave(h) /\ UNCHANGED disk
  BY <1>1, <1>2, <1>3, FailKeepsInv
<1>4. CASE disk' = temp /\ Goto(h, "publish") /\ UNCHANGED mu
  BY <1>1, <1>4, PutFileKeepsInv
<1> QED
  BY <1>3, <1>4 DEF RenameAgain

\* Publishing brings the store level with the file and frees the mutex.
LEMMA PublishKeepsInv ==
    ASSUME Inv, NEW h \in Handlers, SavePublish(h)
    PROVE  Inv'
<1>1. /\ pc[h] = "publish" /\ pc[h] \in InSave
      /\ current' = Candidate(h)
      /\ mu' = Free
      /\ Goto(h, "apply")
      /\ UNCHANGED <<process, rt, disk, temp, next, held, accepted>>
  BY DEF SavePublish, Publish, InSave, fileVars
<1>2. /\ pc' \in [Handlers -> Labels]
      /\ pc'[h] = "apply"
      /\ \A g \in Handlers \ {h} : pc'[g] = pc[g]
  BY <1>1, GotoFacts DEF Inv, Labels
<1>3. mu = h
  BY <1>1 DEF Inv, SavesExclude
<1>4. \A g \in Handlers : pc'[g] \notin InSave
  BY <1>2, <1>3, OthersOutside DEF InSave
<1>5. /\ Candidate(h) \in accepted
      /\ process = "up"
      /\ HasList(next[h])
      /\ disk # None => disk.cfg = Candidate(h)
  BY <1>1 DEF Inv, Checked, Lists, FileAhead
<1>6. Shape'
  BY <1>1, <1>2 DEF Inv, Shape
<1>7. SavesExclude'
  BY <1>1, <1>4, FreeAssumption DEF SavesExclude
<1>8. Lists'
  BY <1>1, <1>2, <1>5 DEF Inv, Lists
<1>9. Checked'
  BY <1>1, <1>2, <1>4 DEF Inv, Checked, Candidate
<1>10. TempWhole'
  BY <1>4 DEF TempWhole, InSave
<1>11. FileLoads'
  BY <1>1 DEF Inv, FileLoads, Loadable
<1>12. OnlyAcceptedServes'
  BY <1>1, <1>5 DEF Inv, OnlyAcceptedServes
<1>13. FileAhead'
  <2>1. \A g \in Handlers : pc'[g] # "publish"
    BY <1>4 DEF InSave
  <2>2. Normalize(Candidate(h)) = Candidate(h)
    BY <1>5, NormalizeIdempotent DEF Candidate
  <2> QED
    BY <1>1, <1>5, <2>1, <2>2 DEF FileAhead
<1> QED
  BY <1>6, <1>7, <1>8, <1>9, <1>10, <1>11, <1>12, <1>13 DEF Inv

\* What the relay gets is the draft before its clone was normalised.
LEMMA ApplyKeepsInv ==
    ASSUME Inv, NEW h \in Handlers, SaveApply(h)
    PROVE  Inv'
<1>1. /\ pc[h] = "apply"
      /\ rt' = rt \/ rt' = RuntimeOf(next[h])
      /\ Goto(h, "idle")
      /\ UNCHANGED <<process, mu, current, disk, temp, next, held, accepted>>
  BY DEF SaveApply, Apply, fileVars
<1>2. /\ pc' \in [Handlers -> Labels]
      /\ pc'[h] = "idle"
      /\ \A g \in Handlers \ {h} : pc'[g] = pc[g]
  BY <1>1, GotoFacts DEF Inv, Labels
<1>3. Normalize(next[h]) \in accepted
  BY <1>1 DEF Inv, Checked, Candidate
<1>4. RuntimeOf(next[h]).cfg = next[h]
  BY DEF RuntimeOf
<1>5. Shape'
  BY <1>1, <1>2 DEF Inv, Shape
<1>6. SavesExclude'
  BY <1>1, <1>2 DEF Inv, SavesExclude, InSave
<1>7. Lists'
  BY <1>1, <1>2 DEF Inv, Lists
<1>8. Checked'
  BY <1>1, <1>2 DEF Inv, Checked, Candidate, InSave
<1>9. TempWhole'
  BY <1>1, <1>2 DEF Inv, TempWhole, Candidate
<1>10. FileLoads'
  BY <1>1 DEF Inv, FileLoads, Loadable
<1>11. OnlyAcceptedServes'
  BY <1>1, <1>3, <1>4 DEF Inv, OnlyAcceptedServes
<1>12. FileAhead'
  <2>1. \A g \in Handlers : pc'[g] = "publish" <=> pc[g] = "publish"
    BY <1>1, <1>2
  <2> QED
    BY <1>1, <2>1 DEF Inv, FileAhead, Candidate
<1> QED
  BY <1>5, <1>6, <1>7, <1>8, <1>9, <1>10, <1>11, <1>12 DEF Inv

-----------------------------------------------------------------------------
(* Starting, dying and relay requests.                                     *)

\* While the process is down no handler runs, so the mutex is free and the
\* file is what the store is seeded with.
LEMMA BootKeepsInv ==
    ASSUME Inv, Boot
    PROVE  Inv'
<1>1. /\ process = "down"
      /\ UNCHANGED <<mu, disk, temp, pc, next, held>>
  BY DEF Boot, fileVars, handVars
<1>2. \A h \in Handlers : pc[h] = "idle"
  BY <1>1 DEF Inv, Lists
<1>3. /\ Shape' /\ SavesExclude' /\ Checked' /\ TempWhole'
  <2>1. Shape' /\ SavesExclude'
    BY <1>1 DEF Inv, Shape, SavesExclude
  <2>2. Checked' /\ TempWhole'
    BY <1>1, <1>2 DEF Checked, TempWhole, InSave
  <2> QED
    BY <2>1, <2>2
<1>4. Lists'
  BY <1>1, <1>2 DEF Inv, Lists
<1>5. CASE disk # None /\ ~Loadable(disk)
  <2>1. /\ process' = "refused"
        /\ UNCHANGED <<current, rt, accepted>>
    BY <1>5 DEF Boot
  <2>2. FileLoads'
    BY <1>1, <1>5, <2>1 DEF Inv, FileLoads, Loadable
  <2>3. OnlyAcceptedServes'
    BY <1>1, <2>1 DEF Inv, OnlyAcceptedServes
  <2>4. FileAhead'
    BY <1>1, <1>2, <2>1 DEF FileAhead
  <2> QED
    BY <1>3, <1>4, <2>2, <2>3, <2>4 DEF Inv
<1>6. CASE ~(disk # None /\ ~Loadable(disk))
  <2> DEFINE loaded == IF disk = None THEN Default ELSE Normalize(disk.cfg)
             seed   == Normalize(loaded)
  <2>1. /\ process' = "up"
        /\ current' = seed
        /\ rt' = RuntimeOf(seed)
        /\ accepted' = accepted \cup {seed}
    BY <1>6 DEF Boot
  <2>2. HasList(loaded)
    BY DefaultHasList, NormalizedList DEF Inv, Lists
  <2>3. Normalize(seed) = seed
    BY <2>2, NormalizeIdempotent
  <2>4. disk # None => seed = Normalize(disk.cfg)
    BY NormalizeIdempotent DEF Inv, Lists
  <2>5. RuntimeOf(seed).cfg = seed
    BY DEF RuntimeOf
  <2> HIDE DEF loaded, seed
  <2>6. FileLoads'
    BY <1>1, <1>6, <2>1 DEF FileLoads, Loadable
  <2>7. OnlyAcceptedServes'
    BY <1>1, <2>1, <2>3, <2>5 DEF Inv, OnlyAcceptedServes
  <2>8. FileAhead'
    BY <1>1, <1>2, <2>1, <2>4 DEF FileAhead
  <2> QED
    BY <1>3, <1>4, <2>6, <2>7, <2>8 DEF Inv
<1> QED
  BY <1>5, <1>6

\* A crash keeps the file, and nothing the rest speaks of.
LEMMA CrashKeepsInv ==
    ASSUME Inv, Crash
    PROVE  Inv'
<1>1. /\ process' = "down"
      /\ mu' = Free
      /\ pc' = [h \in Handlers |-> "idle"]
      /\ next' = [h \in Handlers |-> None]
      /\ held' = [r \in Requests |-> None]
      /\ UNCHANGED <<disk, accepted>>
  BY DEF Crash
<1>2. Shape'
  BY <1>1 DEF Shape, Labels
<1>3. SavesExclude'
  BY <1>1, FreeAssumption DEF SavesExclude, InSave
<1>4. Lists' /\ Checked' /\ TempWhole'
  BY <1>1 DEF Inv, Lists, Checked, TempWhole, InSave
<1>5. FileLoads' /\ OnlyAcceptedServes' /\ FileAhead'
  BY <1>1 DEF Inv, FileLoads, Loadable, OnlyAcceptedServes, FileAhead
<1> QED
  BY <1>2, <1>3, <1>4, <1>5 DEF Inv

\* A step that changes only what requests hold keeps the rest of Inv.
LEMMA RequestKeepsInv ==
    ASSUME Inv, NEW r \in Requests, RequestEnter(r) \/ RequestLeave(r)
    PROVE  Inv'
<1>1. UNCHANGED <<process, mu, current, rt, disk, temp, pc, next, accepted>>
  BY DEF RequestEnter, RequestLeave, procVars, fileVars, handVars
<1>2. \/ process = "up" /\ held' = [held EXCEPT ![r] = rt]
      \/ held' = [held EXCEPT ![r] = None]
  BY DEF RequestEnter, RequestLeave
<1>3. /\ DOMAIN held' = Requests
      /\ \A q \in Requests \ {r} : held'[q] = held[q]
      /\ held'[r] = None \/ (process = "up" /\ held'[r] = rt)
  BY <1>2 DEF Inv, Shape
<1>4. OnlyAcceptedServes'
  BY <1>1, <1>3 DEF Inv, OnlyAcceptedServes
<1>5. Shape' /\ SavesExclude'
  BY <1>1, <1>3 DEF Inv, Shape, SavesExclude
<1>6. Lists' /\ Checked' /\ TempWhole'
  BY <1>1 DEF Inv, Lists, Checked, TempWhole, Candidate
<1>7. FileLoads' /\ FileAhead'
  BY <1>1 DEF Inv, FileLoads, Loadable, FileAhead, Candidate
<1> QED
  BY <1>4, <1>5, <1>6, <1>7 DEF Inv

-----------------------------------------------------------------------------
(* The theorems.                                                           *)

\* Nothing has started: every part holds.
LEMMA InitKeepsInv == Init => Inv
<1> SUFFICES ASSUME Init
             PROVE  Inv
  OBVIOUS
<1>1. /\ process = "down"
      /\ mu = Free
      /\ pc = [h \in Handlers |-> "idle"]
      /\ next = [h \in Handlers |-> None]
      /\ held = [r \in Requests |-> None]
      /\ accepted = {}
  BY DEF Init
<1>2. disk # None => HasList(disk.cfg)
  BY ListsAssumption DEF Init
<1>3. Shape
  BY <1>1 DEF Shape, Labels
<1>4. SavesExclude
  BY <1>1, FreeAssumption DEF SavesExclude, InSave
<1>5. Lists /\ Checked /\ TempWhole
  BY <1>1, <1>2 DEF Lists, Checked, TempWhole, InSave
<1>6. FileLoads /\ OnlyAcceptedServes /\ FileAhead
  BY <1>1 DEF FileLoads, OnlyAcceptedServes, FileAhead
<1> QED
  BY <1>3, <1>4, <1>5, <1>6 DEF Inv

\* Every step keeps the invariant.
LEMMA StepKeepsInv == Inv /\ [Next]_vars => Inv'
<1> SUFFICES ASSUME Inv, [Next]_vars
             PROVE  Inv'
  OBVIOUS
<1>1. CASE Boot
  BY <1>1, BootKeepsInv
<1>2. CASE Crash
  BY <1>2, CrashKeepsInv
<1>3. CASE \E h \in Handlers : SaveStep(h)
  <2>1. PICK h \in Handlers : SaveStep(h)
    BY <1>3
  <2> QED
    BY <2>1, LockKeepsInv, WriteKeepsInv, SyncKeepsInv, RenameKeepsInv, RemoveKeepsInv,
       AgainKeepsInv, PublishKeepsInv, ApplyKeepsInv DEF SaveStep
<1>4. CASE \E h \in Handlers, view \in Incoming : SaveBegin(h, view)
  BY <1>4, BeginKeepsInv
<1>5. CASE \E r \in Requests : RequestEnter(r) \/ RequestLeave(r)
  BY <1>5, RequestKeepsInv
<1>6. CASE UNCHANGED vars
  <2>1. UNCHANGED <<process, mu, current, rt, disk, temp, pc, next, held, accepted>>
    BY <1>6 DEF vars, procVars, fileVars, handVars
  <2>2. Shape' /\ SavesExclude' /\ Lists' /\ Checked' /\ TempWhole'
    BY <2>1 DEF Inv, Shape, SavesExclude, Lists, Checked, TempWhole, Candidate
  <2>3. FileLoads' /\ OnlyAcceptedServes' /\ FileAhead'
    BY <2>1 DEF Inv, FileLoads, Loadable, OnlyAcceptedServes, FileAhead, Candidate
  <2> QED
    BY <2>2, <2>3 DEF Inv
<1> QED
  BY <1>1, <1>2, <1>3, <1>4, <1>5, <1>6 DEF Next

\* So it always holds.
LEMMA InvHolds == Spec => []Inv
BY InitKeepsInv, StepKeepsInv, PTL DEF Spec

\* Exactly the holder of Store.mu is inside Save, whatever fails.
THEOREM SavesExcludeHolds == Spec => []SavesExclude
<1>1. Inv => SavesExclude
  BY DEF Inv
<1> QED
  BY <1>1, InvHolds, PTL

\* A process that started once never refuses its own file: writeFile leaves
\* a whole and valid configuration behind wherever the process dies.
THEOREM AlwaysRestartableHolds == Spec => []AlwaysRestartable
<1>1. Inv => AlwaysRestartable
  BY DEF Inv, FileLoads, AlwaysRestartable
<1> QED
  BY <1>1, InvHolds, PTL

\* The store, the relay and every request in flight work with a
\* configuration that passed Validate or was loaded at start.
THEOREM OnlyAcceptedServesHolds == Spec => []OnlyAcceptedServes
<1>1. Inv => OnlyAcceptedServes
  BY DEF Inv
<1> QED
  BY <1>1, InvHolds, PTL

\* With Store.mu free the store publishes what the file holds: Save writes
\* before it publishes, and what it writes loads as itself.
THEOREM FileMatchesStoreHolds == Spec => []FileMatchesStore
<1>1. Inv => FileMatchesStore
  <2> SUFFICES ASSUME Inv, mu = Free
               PROVE  FileMatchesStore
    BY DEF FileMatchesStore
  <2>1. \A h \in Handlers : pc[h] # "publish"
    BY FreeAssumption DEF Inv, SavesExclude, InSave
  <2> QED
    BY <2>1 DEF Inv, FileAhead, FileMatchesStore
<1> QED
  BY <1>1, InvHolds, PTL

-----------------------------------------------------------------------------
(* Type correctness, which rests on Inv.                                   *)

\* A temp file exists only while the holder of Store.mu works on it.
TempOwned ==
    temp # None =>
        /\ temp.whole \in BOOLEAN
        /\ mu \in Handlers
        /\ pc[mu] \in {"sync", "rename", "remove", "again"}

Types ==
    /\ TempOwned
    /\ process \in {"down", "up", "refused"}
    /\ disk # None => disk.whole \in BOOLEAN
    /\ process = "up" => HasList(current)
    /\ saves \in 0 .. MaxSaves
    /\ crashes \in 0 .. MaxCrashes

\* Giving up removes the temp file, whatever became of the file.
LEMMA FailKeepsTypes ==
    ASSUME Types, NEW h \in Handlers, FailSave(h), disk' \in {disk, temp, None},
           UNCHANGED <<process, current, saves, crashes>>
    PROVE  Types'
BY DEF Types, TempOwned, FailSave

\* A save keeps the types: the file steps hand temp to disk, publishing
\* stores a normalised draft.
LEMMA SaveKeepsTypes ==
    ASSUME Inv, Types, NEW h \in Handlers, SaveStep(h)
    PROVE  Types'
<1>1. pc[h] \in InSave => mu = h
  BY DEF Inv, SavesExclude
<1>2. \A l \in Labels : Goto(h, l) => pc'[h] = l
  BY GotoFacts DEF Inv
<1>3. UNCHANGED <<process, saves, crashes>>
  BY DEF SaveStep, SaveLock, WriteTemp, SyncTemp, RenameTemp, RemoveOld, RenameAgain,
         SavePublish, SaveApply, procVars
<1>4. CASE /\ FailSave(h)
           /\ SaveLock(h) \/ WriteTemp(h) \/ SyncTemp(h) \/ RemoveOld(h) \/ RenameAgain(h)
  <2>1. UNCHANGED current /\ disk' \in {disk, temp, None}
    BY <1>4 DEF SaveLock, WriteTemp, SyncTemp, RemoveOld, RenameAgain
  <2> QED
    BY <1>3, <1>4, <2>1, FailKeepsTypes
<1>5. CASE SaveLock(h) /\ ~FailSave(h)
  <2>1. mu = Free /\ UNCHANGED <<current, disk, temp>>
    BY <1>5 DEF SaveLock, Check
  <2>2. temp = None
    BY <2>1, FreeAssumption DEF Types, TempOwned
  <2> QED
    BY <1>3, <2>1, <2>2 DEF Types, TempOwned
<1>6. CASE WriteTemp(h) /\ ~FailSave(h)
  <2>1. /\ temp' = [cfg |-> Candidate(h), whole |-> FALSE]
        /\ Goto(h, "sync")
        /\ pc[h] = "create"
        /\ UNCHANGED <<mu, current, disk>>
    BY <1>6 DEF WriteTemp
  <2>2. mu' = h /\ pc'[h] = "sync" /\ temp'.whole \in BOOLEAN
    BY <1>1, <1>2, <2>1 DEF Labels, InSave
  <2> QED
    BY <1>3, <2>1, <2>2 DEF Types, TempOwned
<1>7. CASE SyncTemp(h) /\ ~FailSave(h)
  <2>1. /\ temp' = [temp EXCEPT !.whole = TRUE]
        /\ Goto(h, "rename")
        /\ pc[h] = "sync"
        /\ UNCHANGED <<mu, current, disk>>
    BY <1>7 DEF SyncTemp, Flush
  <2>2. temp = [cfg |-> Candidate(h), whole |-> FALSE]
    BY <2>1 DEF Inv, TempWhole
  <2>3. mu' = h /\ pc'[h] = "rename" /\ temp'.whole \in BOOLEAN
    BY <1>1, <1>2, <2>1, <2>2 DEF Labels, InSave
  <2> QED
    BY <1>3, <2>1, <2>3 DEF Types, TempOwned
<1>8. CASE RenameTemp(h)
  <2>1. pc[h] = "rename" /\ UNCHANGED <<mu, current>>
    BY <1>8 DEF RenameTemp, procVars
  <2>2. CASE disk' = temp /\ temp' = None
    BY <1>3, <2>1, <2>2 DEF Types, TempOwned
  <2>3. CASE Goto(h, "remove") /\ UNCHANGED fileVars
    <3>1. mu' = h /\ pc'[h] = "remove"
      BY <1>1, <1>2, <2>1, <2>3 DEF Labels, InSave
    <3> QED
      BY <1>3, <2>1, <2>3, <3>1 DEF Types, TempOwned, fileVars
  <2> QED
    BY <1>8, <2>2, <2>3 DEF RenameTemp, Rename
<1>9. CASE RemoveOld(h) /\ ~FailSave(h)
  <2>1. /\ disk' = None
        /\ Goto(h, "again")
        /\ pc[h] = "remove"
        /\ UNCHANGED <<mu, temp, current>>
    BY <1>9 DEF RemoveOld
  <2>2. mu' = h /\ pc'[h] = "again"
    BY <1>1, <1>2, <2>1 DEF Labels, InSave
  <2> QED
    BY <1>3, <2>1, <2>2 DEF Types, TempOwned
<1>10. CASE RenameAgain(h) /\ ~FailSave(h)
  BY <1>3, <1>10 DEF RenameAgain, Types, TempOwned
<1>11. CASE SavePublish(h)
  <2>1. /\ pc[h] = "publish"
        /\ current' = Candidate(h)
        /\ UNCHANGED <<disk, temp>>
    BY <1>11 DEF SavePublish, Publish, fileVars
  <2>2. HasList(Candidate(h))
    BY <2>1, NormalizedList DEF Inv, Lists, Candidate
  <2>3. temp = None
    BY <1>1, <2>1 DEF Types, TempOwned, InSave
  <2> QED
    BY <1>3, <2>1, <2>2, <2>3 DEF Types, TempOwned
<1>12. CASE SaveApply(h)
  <2>1. /\ pc[h] = "apply"
        /\ Goto(h, "idle")
        /\ UNCHANGED <<mu, current, disk, temp>>
    BY <1>12 DEF SaveApply, fileVars
  <2>2. temp # None => mu # h /\ pc'[mu] = pc[mu]
    BY <2>1, GotoFacts DEF Inv, Labels, Types, TempOwned
  <2> QED
    BY <1>3, <2>1, <2>2 DEF Types, TempOwned
<1> QED
  BY <1>4, <1>5, <1>6, <1>7, <1>8, <1>9, <1>10, <1>11, <1>12 DEF SaveStep

\* Every step keeps the types.
LEMMA StepKeepsTypes == Inv /\ Types /\ [Next]_vars => Types'
<1> SUFFICES ASSUME Inv, Types, [Next]_vars
             PROVE  Types'
  OBVIOUS
<1>1. CASE Boot
  <2> DEFINE loaded == IF disk = None THEN Default ELSE Normalize(disk.cfg)
  <2>1. /\ UNCHANGED <<mu, disk, temp, pc, saves, crashes>>
        /\ process' \in {"up", "refused"}
        /\ process' = "up" => current' = Normalize(loaded)
    BY <1>1 DEF Boot, fileVars, handVars
  <2>2. HasList(Normalize(loaded))
    BY DefaultHasList, NormalizedList DEF Inv, Lists
  <2> HIDE DEF loaded
  <2> QED
    BY <2>1, <2>2 DEF Types, TempOwned
<1>2. CASE Crash
  BY <1>2, BoundsAssumption DEF Crash, Types, TempOwned
<1>3. CASE \E h \in Handlers : SaveStep(h)
  BY <1>3, SaveKeepsTypes
<1>4. ASSUME NEW h \in Handlers, NEW view \in Incoming, SaveBegin(h, view)
      PROVE  Types'
  <2>1. /\ pc[h] = "idle"
        /\ Goto(h, "lock")
        /\ saves < MaxSaves /\ saves' = saves + 1
        /\ UNCHANGED <<process, mu, current, disk, temp, crashes>>
    BY <1>4 DEF SaveBegin, procVars, fileVars
  <2>2. \A g \in Handlers : g # h => pc'[g] = pc[g]
    BY <2>1, GotoFacts DEF Inv, Labels
  <2>3. TempOwned'
    BY <2>1, <2>2 DEF Types, TempOwned
  <2> QED
    BY <2>1, <2>3, BoundsAssumption DEF Types
<1>5. CASE \E r \in Requests : RequestEnter(r) \/ RequestLeave(r)
  BY <1>5 DEF RequestEnter, RequestLeave, procVars, fileVars, handVars, Types, TempOwned
<1>6. CASE UNCHANGED vars
  BY <1>6 DEF vars, procVars, fileVars, handVars, Types, TempOwned
<1> QED
  BY <1>1, <1>2, <1>3, <1>4, <1>5, <1>6 DEF Next

\* Every variable keeps its type; a temp file is whole or cut short and is
\* gone once the save that made it is over; the file and the published
\* configuration always have a list of upstreams.
THEOREM TypeCorrect == Spec => []TypeOK
<1>1. Init => Types
  <2> SUFFICES ASSUME Init
               PROVE  Types
    OBVIOUS
  <2>1. ASSUME disk # None
        PROVE  disk.whole \in BOOLEAN
    <3>1. PICK c \in InitialFiles : disk = [cfg |-> c, whole |-> TRUE]
      BY <2>1 DEF Init
    <3> QED
      BY <3>1
  <2>2. temp = None /\ process = "down" /\ saves = 0 /\ crashes = 0
    BY DEF Init
  <2>3. TempOwned
    BY <2>2 DEF TempOwned
  <2>4. saves \in 0 .. MaxSaves /\ crashes \in 0 .. MaxCrashes
    BY <2>2, BoundsAssumption
  <2> QED
    BY <2>1, <2>2, <2>3, <2>4 DEF Types
<1>2. Spec => []Types
  BY <1>1, InvHolds, StepKeepsTypes, PTL DEF Spec
<1>3. Inv /\ Types => TypeOK
  <2> SUFFICES ASSUME Inv, Types
               PROVE  TypeOK
    OBVIOUS
  <2>1. temp # None => temp.whole \in BOOLEAN /\ mu # Free
    BY FreeAssumption DEF Types, TempOwned
  <2> QED
    BY <2>1 DEF Inv, Shape, Lists, Types, TypeOK, Labels
<1> QED
  BY <1>2, <1>3, InvHolds, PTL

-----------------------------------------------------------------------------
(* What holds when one handler serves the saves, as when one operator has  *)
(* the console open: the store's lock does not cover reading the current   *)
(* configuration before a save and applying it after.                      *)

OneHandler == \A g, h \in Handlers : g = h

\* The store holds a settled configuration.
StoreSettled == process = "up" => Settled(current)

LEMMA StepKeepsSettled == Inv /\ StoreSettled /\ [Next]_vars => StoreSettled'
<1> SUFFICES ASSUME Inv, StoreSettled, [Next]_vars
             PROVE  StoreSettled'
  OBVIOUS
<1>1. CASE Boot
  <2>1. \/ process' = "refused"
        \/ \E c : current' = Normalize(c)
    BY <1>1 DEF Boot
  <2> QED
    BY <2>1, NormalizedSettled DEF StoreSettled
<1>2. CASE Crash
  BY <1>2 DEF Crash, StoreSettled
<1>3. ASSUME NEW h \in Handlers, SaveStep(h)
      PROVE  StoreSettled'
  <2>1. process' = process
    BY <1>3 DEF SaveStep, SaveLock, WriteTemp, SyncTemp, RenameTemp, RemoveOld, RenameAgain,
               SavePublish, SaveApply, procVars
  <2>2. current' = current \/ current' = Normalize(next[h])
    BY <1>3 DEF SaveStep, SaveLock, WriteTemp, SyncTemp, RenameTemp, RemoveOld, RenameAgain,
               SavePublish, Publish, Candidate, SaveApply, procVars
  <2> QED
    BY <2>1, <2>2, NormalizedSettled DEF StoreSettled
<1>4. CASE \E h \in Handlers, view \in Incoming : SaveBegin(h, view)
  BY <1>4 DEF SaveBegin, procVars, StoreSettled
<1>5. CASE \E r \in Requests : RequestEnter(r) \/ RequestLeave(r)
  BY <1>5 DEF RequestEnter, RequestLeave, procVars, StoreSettled
<1>6. CASE UNCHANGED vars
  BY <1>6 DEF vars, procVars, StoreSettled
<1> QED
  BY <1>1, <1>2, <1>3, <1>4, <1>5, <1>6 DEF Next

LEMMA SettledHolds == Spec => []StoreSettled
<1>1. Init => StoreSettled
  BY DEF Init, StoreSettled
<1> QED
  BY <1>1, InvHolds, StepKeepsSettled, PTL DEF Spec

\* Between a publication and the answer the relay lags behind the store;
\* the draft it is about to get is what was published.
RelayLevel ==
    /\ \A h \in Handlers : pc[h] # "idle" => Normalize(next[h]) = next[h]
    /\ \A h \in Handlers : pc[h] = "apply" => next[h] = current
    /\ (process = "up" /\ \A h \in Handlers : pc[h] # "apply") => rt = RuntimeOf(current)

\* Steps of a save that neither publish nor apply.
LEMMA QuietStepKeepsLevel ==
    ASSUME Inv, RelayLevel, NEW h \in Handlers, NEW l \in Labels \ {"apply"},
           pc[h] \notin {"idle", "apply"}, Goto(h, l), UNCHANGED <<process, current, rt, next>>
    PROVE  RelayLevel'
<1>1. pc'[h] = l /\ \A g \in Handlers \ {h} : pc'[g] = pc[g]
  BY GotoFacts DEF Inv
<1> QED
  BY <1>1 DEF RelayLevel

LEMMA SaveKeepsLevel ==
    ASSUME OneHandler, Inv, RelayLevel, NEW h \in Handlers, SaveStep(h)
    PROVE  RelayLevel'
<1>1. CASE \E l \in Labels \ {"apply"} :
              /\ pc[h] \notin {"idle", "apply"} /\ Goto(h, l)
              /\ UNCHANGED <<process, current, rt, next>>
  BY <1>1, QuietStepKeepsLevel
<1>2. CASE SavePublish(h)
  <2>1. /\ current' = Normalize(next[h]) /\ pc[h] = "publish"
        /\ Goto(h, "apply") /\ UNCHANGED <<process, rt, next>>
    BY <1>2 DEF SavePublish, Publish, Candidate
  <2>2. pc'[h] = "apply"
    BY <2>1, GotoFacts DEF Inv, Labels
  <2> QED
    BY <2>1, <2>2 DEF RelayLevel, OneHandler
<1>3. CASE SaveApply(h)
  <2>1. /\ pc[h] = "apply" /\ Apply(next[h])
        /\ Goto(h, "idle") /\ UNCHANGED <<process, current, next>>
    BY <1>3 DEF SaveApply
  <2>2. pc'[h] = "idle"
    BY <2>1, GotoFacts DEF Inv, Labels
  <2>3. next[h] = current /\ Candidate(h) = next[h]
    BY <2>1 DEF RelayLevel, Candidate
  <2>4. TimeoutOK(ActiveUpstream(next[h]))
    <3>1. Valid(next[h]) /\ HasList(next[h])
      BY <2>1, <2>3 DEF Inv, Checked, Lists
    <3>2. Len(Normalize(next[h]).upstreams) \in Nat
      BY <3>1, NormalizedList DEF HasList
    <3> QED
      BY <2>3, <3>1, <3>2, ValidTimeout DEF Candidate
  <2>5. rt' = RuntimeOf(current)
    BY <2>1, <2>3, <2>4 DEF Apply
  <2> QED
    BY <2>1, <2>2, <2>5 DEF RelayLevel, OneHandler
<1>4. CASE ~SavePublish(h) /\ ~SaveApply(h)
  <2>1. /\ pc[h] \notin {"idle", "apply"}
        /\ UNCHANGED <<process, current, rt, next>>
    BY <1>4 DEF SaveStep, SaveLock, WriteTemp, SyncTemp, RenameTemp, RemoveOld, RenameAgain, procVars
  <2>2. \E l \in Labels \ {"apply"} : Goto(h, l)
    BY <1>4 DEF SaveStep, SaveLock, Check, FailSave, WriteTemp, SyncTemp, Flush, RenameTemp, Rename,
               RemoveOld, RenameAgain, Labels, InSave
  <2> QED
    BY <1>1, <2>1, <2>2
<1> QED
  BY <1>2, <1>3, <1>4

LEMMA StepKeepsLevel ==
    ASSUME OneHandler, \A view \in Incoming : CleanView(view)
    PROVE  Inv /\ StoreSettled /\ RelayLevel /\ [Next]_vars => RelayLevel'
<1> SUFFICES ASSUME Inv, StoreSettled, RelayLevel, [Next]_vars
             PROVE  RelayLevel'
  OBVIOUS
<1>1. CASE Boot
  <2>1. UNCHANGED <<pc, next>> /\ process = "down"
    BY <1>1 DEF Boot, handVars
  <2>2. \A h \in Handlers : pc[h] = "idle"
    BY <2>1 DEF Inv, Lists
  <2>3. process' = "refused" \/ rt' = RuntimeOf(current')
    BY <1>1 DEF Boot
  <2> QED
    BY <2>1, <2>2, <2>3 DEF RelayLevel
<1>2. CASE Crash
  BY <1>2 DEF Crash, RelayLevel
<1>3. CASE \E h \in Handlers : SaveStep(h)
  BY <1>3, SaveKeepsLevel
<1>4. ASSUME NEW h \in Handlers, NEW view \in Incoming, SaveBegin(h, view)
      PROVE  RelayLevel'
  <2>1. /\ process = "up" /\ pc[h] = "idle" /\ Goto(h, "lock")
        /\ next' = [next EXCEPT ![h] = BuildNext(current, view)]
        /\ UNCHANGED <<process, current, rt>>
    BY <1>4 DEF SaveBegin, procVars
  <2>2. pc'[h] = "lock" /\ next'[h] = BuildNext(current, view)
    BY <2>1, GotoFacts DEF Inv, Labels, Shape
  <2>3. Normalize(next'[h]) = next'[h]
    BY <2>1, <2>2, CleanDraft DEF StoreSettled
  <2>4. \A g \in Handlers : g = h
    BY DEF OneHandler
  <2>5. rt' = RuntimeOf(current')
    BY <2>1, <2>4 DEF RelayLevel
  <2> QED
    BY <2>2, <2>3, <2>4, <2>5 DEF RelayLevel
<1>5. CASE \E r \in Requests : RequestEnter(r) \/ RequestLeave(r)
  BY <1>5 DEF RequestEnter, RequestLeave, procVars, handVars, RelayLevel
<1>6. CASE UNCHANGED vars
  BY <1>6 DEF vars, procVars, handVars, RelayLevel
<1> QED
  BY <1>1, <1>2, <1>3, <1>4, <1>5, <1>6 DEF Next

\* One handler at a time and views with nothing to trim: whenever no save is under
\* way the relay serves exactly what the store publishes (saveConfig applies next,
\* Save publishes its normalised clone).
THEOREM RelayFollowsStoreHolds ==
    ASSUME OneHandler, \A view \in Incoming : CleanView(view)
    PROVE  Spec => []RelayFollowsStore
<1>1. Init => RelayLevel
  BY DEF Init, RelayLevel
<1>2. Inv /\ StoreSettled /\ RelayLevel /\ [Next]_vars => RelayLevel'
  BY StepKeepsLevel
<1>3. RelayLevel => RelayFollowsStore
  BY DEF RelayLevel, RelayFollowsStore
<1> QED
  BY <1>1, <1>2, <1>3, InvHolds, SettledHolds, PTL DEF Spec

\* The draft is the view laid over what is still published.
DraftFresh ==
    /\ DOMAIN incoming = Handlers
    /\ \A h \in Handlers :
          pc[h] \in InSave \cup {"lock"} =>
              incoming[h] \in Incoming /\ next[h] = BuildNext(current, incoming[h])

LEMMA StepKeepsFresh ==
    ASSUME OneHandler
    PROVE  Inv /\ DraftFresh /\ [Next]_vars => DraftFresh'
<1> SUFFICES ASSUME Inv, DraftFresh, [Next]_vars
             PROVE  DraftFresh'
  OBVIOUS
<1>1. CASE Boot
  <2>1. UNCHANGED <<pc, next, incoming>> /\ process = "down"
    BY <1>1 DEF Boot, handVars
  <2>2. \A h \in Handlers : pc[h] = "idle"
    BY <2>1 DEF Inv, Lists
  <2> QED
    BY <2>1, <2>2 DEF DraftFresh, InSave
<1>2. CASE Crash
  BY <1>2 DEF Crash, DraftFresh, InSave
<1>3. ASSUME NEW h \in Handlers, SaveStep(h)
      PROVE  DraftFresh'
  <2>1. UNCHANGED <<incoming, next>>
    BY <1>3 DEF SaveStep, SaveLock, WriteTemp, SyncTemp, RenameTemp, RemoveOld, RenameAgain,
               SavePublish, SaveApply
  <2>2. CASE SavePublish(h) \/ SaveApply(h)
    <3>1. pc'[h] \in {"apply", "idle"}
      BY <2>2, GotoFacts DEF SavePublish, SaveApply, Inv, Labels
    <3> QED
      BY <2>1, <3>1 DEF DraftFresh, OneHandler, InSave
  <2>3. CASE ~SavePublish(h) /\ ~SaveApply(h)
    <3>1. UNCHANGED current /\ pc[h] \in InSave \cup {"lock"}
      BY <1>3, <2>3 DEF SaveStep, SaveLock, WriteTemp, SyncTemp, RenameTemp, RemoveOld, RenameAgain,
                       procVars, InSave
    <3> QED
      BY <2>1, <3>1 DEF DraftFresh, OneHandler
  <2> QED
    BY <2>2, <2>3
<1>4. ASSUME NEW h \in Handlers, NEW view \in Incoming, SaveBegin(h, view)
      PROVE  DraftFresh'
  <2>1. /\ next' = [next EXCEPT ![h] = BuildNext(current, view)]
        /\ incoming' = [incoming EXCEPT ![h] = view]
        /\ UNCHANGED current
    BY <1>4 DEF SaveBegin, procVars
  <2>2. next'[h] = BuildNext(current', view) /\ incoming'[h] = view
    BY <2>1 DEF Inv, Shape, DraftFresh
  <2> QED
    BY <2>1, <2>2 DEF DraftFresh, OneHandler
<1>5. CASE \E r \in Requests : RequestEnter(r) \/ RequestLeave(r)
  BY <1>5 DEF RequestEnter, RequestLeave, procVars, handVars, DraftFresh
<1>6. CASE UNCHANGED vars
  BY <1>6 DEF vars, procVars, handVars, DraftFresh
<1> QED
  BY <1>1, <1>2, <1>3, <1>4, <1>5, <1>6 DEF Next

\* A view that renames nothing: its names are trimmed, no entry has an old one.
KeepsNames(view) ==
    \A i \in 1 .. Len(view.upstreams) :
        LET iv == view.upstreams[i]
        IN  Trim(iv.name) = iv.name /\ iv.original = Blank

\* What a step does to the stored configuration is seen at the state before it.
BlankKept ==
    \A h \in Handlers : pc[h] = "publish" =>
        \A i \in 1 .. Len(incoming[h].upstreams) :
            LET iv == incoming[h].upstreams[i]
            IN  (IsBlank(iv.key) /\ ~iv.clear /\ Named(current, Trim(iv.name)) # {})
                => Candidate(h).upstreams[i].key = PrevKeyOf(current, Trim(iv.name))

\* One handler at a time and views that rename nothing: a key field left blank keeps
\* the key that is stored at the moment the save is published (prevKeys and
\* resolveAPIKey read it before Store.mu is taken).
THEOREM BlankKeepsKeyHolds ==
    ASSUME OneHandler, \A view \in Incoming : KeepsNames(view)
    PROVE  Spec => BlankKeepsKey
<1>1. Init => DraftFresh
  BY DEF Init, DraftFresh, InSave
<1>2. Inv /\ DraftFresh /\ [Next]_vars => DraftFresh'
  BY StepKeepsFresh
<1>3. DraftFresh => BlankKept
  <2> SUFFICES ASSUME DraftFresh, NEW h \in Handlers, pc[h] = "publish",
                      NEW i \in 1 .. Len(incoming[h].upstreams),
                      IsBlank(incoming[h].upstreams[i].key), ~incoming[h].upstreams[i].clear
               PROVE  Candidate(h).upstreams[i].key =
                         PrevKeyOf(current, Trim(incoming[h].upstreams[i].name))
    BY DEF BlankKept
  <2>1. PICK view \in Incoming : view = incoming[h] /\ next[h] = BuildNext(current, view)
    BY DEF DraftFresh, InSave
  <2>2. Len(view.upstreams) \in Nat
    BY ListsAssumption
  <2>3. Candidate(h).upstreams[i].key =
            ResolveAPIKey(view.upstreams[i], PreviousKey(current, view.upstreams[i]))
    BY <2>1, <2>2, DraftKey DEF Candidate
  <2>4. Trim(view.upstreams[i].name) = view.upstreams[i].name /\ view.upstreams[i].original = Blank
    BY <2>1 DEF KeepsNames
  <2> QED
    BY <2>1, <2>3, <2>4 DEF ResolveAPIKey, PreviousKey
<1>4. BlankKept /\ [Next]_vars =>
        [\A h \in Handlers : (pc[h] = "publish" /\ current' # current) =>
          \A i \in 1 .. Len(incoming[h].upstreams) :
              LET iv == incoming[h].upstreams[i]
              IN  (IsBlank(iv.key) /\ ~iv.clear /\ Named(current, Trim(iv.name)) # {})
                  => Candidate(h).upstreams[i].key = PrevKeyOf(current, Trim(iv.name))]_vars
  BY DEF BlankKept
<1> QED
  BY <1>1, <1>2, <1>3, <1>4, InvHolds, PTL DEF Spec, BlankKeepsKey
-----------------------------------------------------------------------------
(* The refinement of DurableConfig.                                        *)

\* What stands for no file is no file.
NoneIsNoFile == \A c : [cfg |-> c, whole |-> TRUE] # None

\* What is about to be published is in the file.
Written ==
    \A h \in Handlers : pc[h] = "publish" => disk = [cfg |-> Candidate(h), whole |-> TRUE]

\* Steps of a save that do not put it into the file.
LEMMA QuietStepKeepsWritten ==
    ASSUME Inv, Written, NEW h \in Handlers, NEW l \in Labels \ {"publish"}, Goto(h, l),
           UNCHANGED next, disk' = disk \/ mu = h
    PROVE  Written'
<1>1. pc'[h] = l /\ \A g \in Handlers \ {h} : pc'[g] = pc[g]
  BY GotoFacts DEF Inv
<1>2. SUFFICES ASSUME NEW g \in Handlers, pc'[g] = "publish"
               PROVE  disk' = [cfg |-> Candidate(g), whole |-> TRUE]'
  BY DEF Written
<1>3. g # h /\ pc[g] = "publish"
  BY <1>1, <1>2
<1>4. disk' = disk
  BY <1>3, OthersOutside DEF InSave
<1> QED
  BY <1>3, <1>4 DEF Written, Candidate

\* The step that does.
LEMMA PutStepKeepsWritten ==
    ASSUME Inv, NEW h \in Handlers, pc[h] \in {"rename", "again"}, disk' = temp,
           Goto(h, "publish"), UNCHANGED next
    PROVE  Written'
<1>1. pc'[h] = "publish" /\ \A g \in Handlers \ {h} : pc'[g] = pc[g]
  BY GotoFacts DEF Inv, Labels, InSave
<1>2. mu = h
  BY DEF Inv, SavesExclude, InSave
<1>3. \A g \in Handlers \ {h} : pc'[g] # "publish"
  BY <1>1, <1>2, OthersOutside DEF InSave
<1>4. disk' = [cfg |-> Candidate(h), whole |-> TRUE]
  BY DEF Inv, TempWhole
<1> QED
  BY <1>3, <1>4 DEF Written, Candidate

LEMMA SaveKeepsWritten ==
    ASSUME Inv, Written, NEW h \in Handlers, SaveStep(h)
    PROVE  Written'
<1>1. {"idle", "create", "sync", "rename", "remove", "again", "apply"} \subseteq Labels \ {"publish"}
  BY DEF Labels, InSave
<1>2. CASE SaveLock(h)
  BY <1>1, <1>2, QuietStepKeepsWritten DEF SaveLock, Check, FailSave
<1>3. CASE WriteTemp(h)
  BY <1>1, <1>3, QuietStepKeepsWritten DEF WriteTemp, FailSave
<1>4. CASE SyncTemp(h)
  BY <1>1, <1>4, QuietStepKeepsWritten DEF SyncTemp, Flush, FailSave
<1>5. CASE RenameTemp(h)
  BY <1>1, <1>5, QuietStepKeepsWritten, PutStepKeepsWritten DEF RenameTemp, Rename, fileVars
<1>6. CASE RemoveOld(h)
  <2>1. mu = h
    BY <1>6 DEF RemoveOld, Inv, SavesExclude, InSave
  <2> QED
    BY <1>1, <1>6, <2>1, QuietStepKeepsWritten DEF RemoveOld, FailSave
<1>7. CASE RenameAgain(h)
  BY <1>1, <1>7, QuietStepKeepsWritten, PutStepKeepsWritten DEF RenameAgain, FailSave
<1>8. CASE SavePublish(h)
  BY <1>1, <1>8, QuietStepKeepsWritten DEF SavePublish, fileVars
<1>9. CASE SaveApply(h)
  BY <1>1, <1>9, QuietStepKeepsWritten DEF SaveApply, fileVars
<1> QED
  BY <1>2, <1>3, <1>4, <1>5, <1>6, <1>7, <1>8, <1>9 DEF SaveStep

LEMMA StepKeepsWritten == Inv /\ Written /\ [Next]_vars => Written'
<1> SUFFICES ASSUME Inv, Written, [Next]_vars
             PROVE  Written'
  OBVIOUS
<1>1. CASE Boot
  BY <1>1 DEF Boot, fileVars, handVars, Written, Candidate
<1>2. CASE Crash
  BY <1>2 DEF Crash, Written
<1>3. CASE \E h \in Handlers : SaveStep(h)
  BY <1>3, SaveKeepsWritten
<1>4. ASSUME NEW h \in Handlers, NEW view \in Incoming, SaveBegin(h, view)
      PROVE  Written'
  <2>1. /\ Goto(h, "lock") /\ UNCHANGED disk
        /\ \A g \in Handlers \ {h} : next'[g] = next[g]
    BY <1>4 DEF SaveBegin, fileVars, Inv, Shape
  <2>2. pc'[h] = "lock" /\ \A g \in Handlers \ {h} : pc'[g] = pc[g]
    BY <2>1, GotoFacts DEF Inv, Labels
  <2> QED
    BY <2>1, <2>2 DEF Written, Candidate
<1>5. CASE \E r \in Requests : RequestEnter(r) \/ RequestLeave(r)
  BY <1>5 DEF RequestEnter, RequestLeave, fileVars, handVars, Written, Candidate
<1>6. CASE UNCHANGED vars
  BY <1>6 DEF vars, fileVars, handVars, Written, Candidate
<1> QED
  BY <1>1, <1>2, <1>3, <1>4, <1>5, <1>6 DEF Next
\* While nobody is about to publish, file and store agree.
LEMMA StoreLevel ==
    ASSUME Inv, process = "up", \A h \in Handlers : pc[h] # "publish"
    PROVE  Durable!Level
BY DEF Durable!Level, Inv, FileAhead

\* A save that puts its draft into the file.
LEMMA PutStepPersists ==
    ASSUME Inv, NoneIsNoFile, NEW h \in Handlers, pc[h] \in {"rename", "again"}, disk' = temp,
           UNCHANGED <<process, current>>
    PROVE  Durable!Persist
<1>1. pc[h] \in InSave /\ pc[h] # "publish" /\ pc[h] # "idle"
  BY DEF InSave
<1>2. mu = h /\ \A g \in Handlers \ {h} : pc[g] \notin InSave
  BY <1>1, OthersOutside DEF Inv, SavesExclude
<1>3. Durable!Level
  BY <1>1, <1>2, StoreLevel DEF Inv, Lists, InSave
<1>4. disk' = [cfg |-> Candidate(h), whole |-> TRUE]
  BY DEF Inv, TempWhole
<1>5. Valid(Candidate(h)) /\ Normalize(Candidate(h)) = Candidate(h)
  BY <1>1, NormalizeIdempotent DEF Inv, Checked, Lists, Candidate
<1>6. disk' # None
  BY <1>4 DEF NoneIsNoFile
<1>7. process = "up"
  BY <1>1 DEF Inv, Lists
<1> HIDE DEF Candidate
<1> QED
  BY <1>3, <1>4, <1>5, <1>6, <1>7 DEF Durable!Persist, Durable!Loads

\* A save that takes the old file away.
LEMMA RemoveVanishes ==
    ASSUME Inv, NEW h \in Handlers, RemoveOld(h), RenameMayFail
    PROVE  Durable!Vanish \/ UNCHANGED Durable!dvars
<1>1. pc[h] = "remove" /\ UNCHANGED <<process, current>> /\ (disk' = None \/ disk' = disk)
  BY DEF RemoveOld
<1>2. mu = h /\ \A g \in Handlers \ {h} : pc[g] \notin InSave
  BY <1>1, OthersOutside DEF Inv, SavesExclude, InSave
<1>3. process = "up"
  BY <1>1 DEF Inv, Lists
<1>4. Durable!Level
  BY <1>1, <1>2, <1>3, StoreLevel DEF InSave
<1> QED
  BY <1>1, <1>3, <1>4 DEF Durable!Vanish, Durable!dvars

\* Only where a rename failed is the old file removed.
RemovesOnlyThen == \A h \in Handlers : pc[h] = "remove" => RenameMayFail

LEMMA SaveRefines ==
    ASSUME Inv, Written, RemovesOnlyThen, NoneIsNoFile, NEW h \in Handlers, SaveStep(h)
    PROVE  [Durable!Next]_Durable!dvars
<1>1. CASE UNCHANGED <<process, disk, current>>
  BY <1>1 DEF Durable!dvars
<1>2. CASE RenameTemp(h)
  <2>1. pc[h] = "rename" /\ UNCHANGED <<process, current>> /\ (disk' = temp \/ disk' = disk)
    BY <1>2 DEF RenameTemp, Rename, procVars, fileVars
  <2> QED
    BY <1>1, <2>1, PutStepPersists DEF Durable!Next
<1>3. CASE RemoveOld(h)
  <2>1. RenameMayFail
    BY <1>3 DEF RemoveOld, RemovesOnlyThen
  <2> QED
    BY <1>3, <2>1, RemoveVanishes DEF Durable!Next
<1>4. CASE RenameAgain(h)
  <2>1. pc[h] = "again" /\ UNCHANGED <<process, current>> /\ (disk' = temp \/ disk' = disk)
    BY <1>4 DEF RenameAgain
  <2> QED
    BY <1>1, <2>1, PutStepPersists DEF Durable!Next
<1>5. CASE SavePublish(h)
  <2>1. pc[h] = "publish" /\ current' = Candidate(h) /\ UNCHANGED <<process, disk>>
    BY <1>5 DEF SavePublish, Publish, fileVars
  <2>2. process = "up"
    BY <2>1 DEF Inv, Lists
  <2>3. disk = [cfg |-> Candidate(h), whole |-> TRUE]
    BY <2>1 DEF Written
  <2>4. disk # None /\ disk.cfg = Candidate(h)
    BY <2>3 DEF NoneIsNoFile
  <2> QED
    BY <2>1, <2>2, <2>4 DEF Durable!Next, Durable!Publish
<1>6. CASE SaveLock(h) \/ WriteTemp(h) \/ SyncTemp(h) \/ SaveApply(h)
  BY <1>1, <1>6 DEF SaveLock, WriteTemp, SyncTemp, SaveApply, fileVars
<1> QED
  BY <1>2, <1>3, <1>4, <1>5, <1>6 DEF SaveStep

LEMMA StepRefines ==
    ASSUME NoneIsNoFile
    PROVE  Inv /\ Written /\ RemovesOnlyThen /\ [Next]_vars => [Durable!Next]_Durable!dvars
<1> SUFFICES ASSUME Inv, Written, RemovesOnlyThen, [Next]_vars
             PROVE  [Durable!Next]_Durable!dvars
  OBVIOUS
<1>1. CASE Boot
  <2>1. process = "down" /\ UNCHANGED disk
    BY <1>1 DEF Boot, fileVars
  <2>2. CASE disk # None /\ ~Loadable(disk)
    BY <1>1, <2>1, <2>2 DEF Boot, Loadable, Durable!Next, Durable!Start, Durable!Loads
  <2>3. CASE disk # None /\ Loadable(disk)
    <3>1. process' = "up" /\ current' = Normalize(Normalize(disk.cfg))
      BY <1>1, <2>3 DEF Boot
    <3>2. Normalize(Normalize(disk.cfg)) = Normalize(disk.cfg)
      BY <2>3, NormalizeIdempotent DEF Inv, Lists
    <3> QED
      BY <2>1, <2>3, <3>1, <3>2 DEF Loadable, Durable!Next, Durable!Start, Durable!Loads
  <2>4. CASE disk = None
    <3>1. process' = "up" /\ current' = Normalize(Default)
      BY <1>1, <2>4 DEF Boot
    <3> QED
      BY <2>1, <2>4, <3>1 DEF Durable!Next, Durable!Start
  <2> QED
    BY <2>2, <2>3, <2>4
<1>2. CASE Crash
  BY <1>2 DEF Crash, Durable!Next, Durable!Die
<1>3. CASE \E h \in Handlers : SaveStep(h)
  BY <1>3, SaveRefines
<1>4. CASE UNCHANGED <<process, disk, current>>
  BY <1>4 DEF Durable!dvars
<1>5. CASE \E h \in Handlers, view \in Incoming : SaveBegin(h, view)
  BY <1>4, <1>5 DEF SaveBegin, procVars, fileVars
<1>6. CASE \E r \in Requests : RequestEnter(r) \/ RequestLeave(r)
  BY <1>4, <1>6 DEF RequestEnter, RequestLeave, procVars, fileVars
<1>7. CASE UNCHANGED vars
  BY <1>4, <1>7 DEF vars, procVars, fileVars
<1> QED
  BY <1>1, <1>2, <1>3, <1>5, <1>6, <1>7 DEF Next

LEMMA StepKeepsRemoval == Inv /\ RemovesOnlyThen /\ [Next]_vars => RemovesOnlyThen'
<1> SUFFICES ASSUME Inv, RemovesOnlyThen, [Next]_vars
             PROVE  RemovesOnlyThen'
  OBVIOUS
<1>1. ASSUME NEW h \in Handlers, NEW l \in Labels, Goto(h, l), l = "remove" => RenameMayFail
      PROVE  RemovesOnlyThen'
  <2>1. pc'[h] = l /\ \A g \in Handlers \ {h} : pc'[g] = pc[g]
    BY <1>1, GotoFacts DEF Inv
  <2> QED
    BY <1>1, <2>1 DEF RemovesOnlyThen
<1>2. {"idle", "lock", "create", "sync", "rename", "remove", "again", "publish", "apply"} \subseteq Labels
  BY DEF Labels, InSave
<1>3. CASE UNCHANGED pc
  BY <1>3 DEF RemovesOnlyThen
<1>4. ASSUME NEW h \in Handlers, SaveStep(h)
      PROVE  RemovesOnlyThen'
  <2>1. \E l \in Labels : Goto(h, l) /\ (l = "remove" => RenameMayFail)
    <3>1. CASE SaveLock(h)
      BY <1>2, <3>1 DEF SaveLock, Check, FailSave
    <3>2. CASE WriteTemp(h)
      BY <1>2, <3>2 DEF WriteTemp, FailSave
    <3>3. CASE SyncTemp(h)
      BY <1>2, <3>3 DEF SyncTemp, Flush, FailSave
    <3>4. CASE RenameTemp(h)
      BY <1>2, <3>4 DEF RenameTemp, Rename
    <3>5. CASE RemoveOld(h)
      BY <1>2, <3>5 DEF RemoveOld, FailSave
    <3>6. CASE RenameAgain(h)
      BY <1>2, <3>6 DEF RenameAgain, FailSave
    <3>7. CASE SavePublish(h)
      BY <1>2, <3>7 DEF SavePublish
    <3>8. CASE SaveApply(h)
      BY <1>2, <3>8 DEF SaveApply
    <3> QED
      BY <1>4, <3>1, <3>2, <3>3, <3>4, <3>5, <3>6, <3>7, <3>8 DEF SaveStep
  <2> QED
    BY <1>1, <2>1
<1>5. CASE Crash
  BY <1>5 DEF Crash, RemovesOnlyThen
<1>6. ASSUME NEW h \in Handlers, NEW view \in Incoming, SaveBegin(h, view)
      PROVE  RemovesOnlyThen'
  BY <1>1, <1>2, <1>6 DEF SaveBegin
<1> QED
  BY <1>3, <1>4, <1>5, <1>6 DEF Next, Boot, RequestEnter, RequestLeave, handVars, vars

(* The store with its handlers, its mutex and every file operation of      *)
(* writeFile is one whose saves validate, persist and publish in that      *)
(* order, for any handlers, views, failures and crashes: nothing is handed *)
(* out that is not in the file, the file changes in one step, and a start  *)
(* continues with what it says.                                            *)
THEOREM StoreIsDurable ==
    ASSUME NoneIsNoFile
    PROVE  Spec => ImplementsDurable
<1>1. Init => Durable!Init /\ Written /\ RemovesOnlyThen
  BY DEF Init, Durable!Init, Written, RemovesOnlyThen
<1>2. Inv /\ Written /\ RemovesOnlyThen /\ [Next]_vars => [Durable!Next]_Durable!dvars
  BY StepRefines
<1> QED
  BY <1>1, <1>2, StepKeepsWritten, StepKeepsRemoval, InvHolds, PTL
     DEF Spec, ImplementsDurable, Durable!Spec
=============================================================================
