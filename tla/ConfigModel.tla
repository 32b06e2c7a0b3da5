---------------------------- MODULE ConfigModel -----------------------------
(***************************************************************************)
(* The configuration as data, internal/config/config.go: what Normalize    *)
(* fills in and trims, what Validate accepts, which upstream is live and   *)
(* whether its timeout parses.                                             *)
(*                                                                         *)
(* A user-supplied string is a Text: what it says and whether something    *)
(* around it would be trimmed (white space; for a base URL also the        *)
(* trailing slashes).  Headers, Paths, ModelMap and Verbose are copied and *)
(* never looked at here, so they are left out.                             *)
(***************************************************************************)
EXTENDS Naturals, Sequences

T(v)      == [v |-> v, pad |-> FALSE]
Padded(v) == [v |-> v, pad |-> TRUE]
Blank     == T("")

\* strings.TrimSpace
Trim(t) == T(t.v)

IsBlank(t) == t.v = ""

DefaultListen    == T(":18888")
DefaultMaxTokens == 8192
DefaultName      == T("default")
SupportedFormats == {"openai", "openai_responses", "claude", "gemini"}

\* The upstream Normalize and Default supply: it points at nothing.
BlankUpstream ==
    [name |-> DefaultName, format |-> "openai", url |-> Blank, key |-> Blank,
     timeout |-> T("5m")]

\* Default: the starter configuration when there is no file.
Default ==
    [listen |-> DefaultListen, adminKey |-> Blank, accessKey |-> Blank,
     upstreams |-> <<BlankUpstream>>, active |-> DefaultName, legacy |-> <<>>,
     maxTokens |-> DefaultMaxTokens]

TrimUpstream(u) ==
    [name |-> Trim(u.name), format |-> u.format, url |-> Trim(u.url),
     key |-> u.key, timeout |-> Trim(u.timeout)]

\* The legacy "upstream" field becomes the list when there is no list.
Migrated(c) ==
    IF c.upstreams # <<>> THEN c.upstreams
    ELSE IF c.legacy # <<>>
         THEN <<[name |-> DefaultName, format |-> c.legacy[1].format,
                 url |-> c.legacy[1].url, key |-> c.legacy[1].key,
                 timeout |-> c.legacy[1].timeout]>>
         ELSE <<BlankUpstream>>

\* What every configuration the program builds or decodes has: a list.
HasList(c) == Len(Migrated(c)) \in Nat \ {0}

\* An unset pointer names the first entry.
ActiveName(c) ==
    IF IsBlank(c.active) THEN Trim(Migrated(c)[1].name) ELSE Trim(c.active)

\* Config.Normalize
Normalize(c) ==
    [listen    |-> IF IsBlank(c.listen) THEN DefaultListen ELSE Trim(c.listen),
     adminKey  |-> Trim(c.adminKey),
     accessKey |-> Trim(c.accessKey),
     upstreams |-> [i \in 1 .. Len(Migrated(c)) |-> TrimUpstream(Migrated(c)[i])],
     active    |-> ActiveName(c),
     legacy    |-> <<>>,
     maxTokens |-> IF c.maxTokens = 0 THEN DefaultMaxTokens ELSE c.maxTokens]

\* time.ParseDuration accepts and the result is positive; it does not trim.
Durations == {"5m", "30s"}

\* Upstream.RequestTimeout: does it return without an error, and what.
TimeoutOK(u) == IsBlank(u.timeout) \/ (~u.timeout.pad /\ u.timeout.v \in Durations)
RequestTimeout(u) == IF IsBlank(u.timeout) THEN "5m" ELSE u.timeout.v

\* Config.FindUpstream: the positions that match; the first one is returned.
Named(c, name) == {i \in 1 .. Len(c.upstreams) : c.upstreams[i].name = name}

First(S) == CHOOSE i \in S : \A j \in S : i <= j

\* Config.ActiveUpstream: the entry Active names, else the first.
ActiveUpstream(c) ==
    IF Named(c, c.active) # {} THEN c.upstreams[First(Named(c, c.active))]
    ELSE c.upstreams[1]

\* Validate, the loop: every entry is named, unique and well formed.
EntriesValid(c) ==
    \A i \in 1 .. Len(c.upstreams) :
        /\ c.upstreams[i].name # Blank
        /\ c.upstreams[i].format \in SupportedFormats \cup {""}
        /\ TimeoutOK(c.upstreams[i])
        /\ \A j \in 1 .. i - 1 : c.upstreams[j].name # c.upstreams[i].name

\* Validate, the rest: the live upstream exists and is complete.
LiveIsComplete(c) ==
    /\ Named(c, c.active) # {}
    /\ ActiveUpstream(c).format \in SupportedFormats
    /\ ActiveUpstream(c).url # Blank
    /\ ActiveUpstream(c).format = "claude" => c.maxTokens # 0

\* Config.Validate returns nil.
Valid(c) == c.upstreams # <<>> /\ EntriesValid(c) /\ LiveIsComplete(c)
=============================================================================
