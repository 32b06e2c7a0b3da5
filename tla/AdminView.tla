----------------------------- MODULE AdminView ------------------------------
(***************************************************************************)
(* How the operator console and the server exchange a configuration:       *)
(* viewOf and saveConfig of internal/admin/admin.go, adoptConfig and       *)
(* payload of internal/admin/web/index.html.  Secrets travel one way: the  *)
(* page gets no key and sends one only when the operator typed it.         *)
(***************************************************************************)
EXTENDS ConfigModel

\* viewOf + adoptConfig: the page's copy of a configuration.  An entry keeps
\* the name the server knows it by; the typed key is empty.
Adopt(c) ==
    [listen    |-> c.listen,
     maxTokens |-> IF c.maxTokens = 0 THEN DefaultMaxTokens ELSE c.maxTokens,
     active    |-> c.active,
     drafts    |-> [i \in 1 .. Len(c.upstreams) |->
                      [name     |-> c.upstreams[i].name,
                       original |-> c.upstreams[i].name,
                       format   |-> IF c.upstreams[i].format = "" THEN "openai"
                                    ELSE c.upstreams[i].format,
                       url      |-> c.upstreams[i].url,
                       timeout  |-> IF c.upstreams[i].timeout = Blank THEN T("5m")
                                    ELSE c.upstreams[i].timeout,
                       key      |-> Blank,
                       clear    |-> FALSE]]]

\* payload: original_name is sent only for an entry that was renamed.
Payload(page) ==
    [listen    |-> page.listen,
     maxTokens |-> page.maxTokens,
     active    |-> page.active,
     adminKey  |-> Blank, clearAdmin  |-> FALSE,
     accessKey |-> Blank, clearAccess |-> FALSE,
     upstreams |-> [i \in 1 .. Len(page.drafts) |->
                      [page.drafts[i] EXCEPT !.original =
                          IF @ # page.drafts[i].name THEN @ ELSE Blank]]]

\* Bug: a blank field clears the stored key.
ResolveAPIKeyBlankClears(iv, previous) == IF iv.clear THEN Blank ELSE iv.key

\* resolveAPIKey: clear wins, a typed key replaces, blank keeps.
ResolveAPIKey(iv, previous) ==
    IF iv.clear THEN Blank ELSE IF ~IsBlank(iv.key) THEN iv.key ELSE previous

\* prevKeys[name]; of several entries with one name the last is in the map.
PrevKeyOf(c, name) ==
    LET at == Named(c, name)
    IN  IF at = {} THEN Blank
        ELSE c.upstreams[CHOOSE i \in at : \A j \in at : j <= i].key

\* Bug: the name the entry had on the server is not consulted.
PreviousKeyByName(c, iv) == PrevKeyOf(c, iv.name)

\* The key an incoming entry inherits: by its name, else by its old name.
PreviousKey(c, iv) ==
    IF PrevKeyOf(c, iv.name) = Blank /\ iv.original # Blank
    THEN PrevKeyOf(c, iv.original)
    ELSE PrevKeyOf(c, iv.name)

\* Bug: the access key is taken from the form also when it is blank.
CredentialsOverwrite(c, incoming) ==
    <<IF IsBlank(incoming.adminKey) THEN c.adminKey ELSE incoming.adminKey,
      incoming.accessKey>>

\* The switch over the two console credentials: at most one case applies.
Credentials(c, incoming) ==
    CASE incoming.clearAdmin           -> <<Blank, c.accessKey>>
      [] ~incoming.clearAdmin /\ ~IsBlank(incoming.adminKey)
                                       -> <<incoming.adminKey, c.accessKey>>
      [] ~incoming.clearAdmin /\ IsBlank(incoming.adminKey) /\ incoming.clearAccess
                                       -> <<c.adminKey, Blank>>
      [] OTHER                         -> <<c.adminKey,
                                            IF IsBlank(incoming.accessKey) THEN c.accessKey
                                            ELSE incoming.accessKey>>

\* saveConfig, up to the call of Store.Save: the draft laid over the
\* configuration the handler read.
BuildNext(c, incoming) ==
    LET cred == Credentials(c, incoming)
    IN  [listen    |-> incoming.listen,
         adminKey  |-> cred[1],
         accessKey |-> cred[2],
         upstreams |-> [i \in 1 .. Len(incoming.upstreams) |->
                          LET iv == incoming.upstreams[i]
                          IN  [name |-> iv.name, format |-> iv.format, url |-> iv.url,
                               key |-> ResolveAPIKey(iv, PreviousKey(c, iv)),
                               timeout |-> iv.timeout]],
         active    |-> incoming.active,
         legacy    |-> c.legacy,
         maxTokens |-> incoming.maxTokens]
=============================================================================
