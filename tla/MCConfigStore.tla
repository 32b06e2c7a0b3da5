--------------------------- MODULE MCConfigStore ----------------------------
(***************************************************************************)
(* Small instances of ConfigStore: one configuration file with two         *)
(* upstreams and a handful of views an operator would send.                *)
(***************************************************************************)
EXTENDS ConfigStore

Up(name, url, key, timeout) ==
    [name |-> name, format |-> "openai", url |-> url, key |-> key, timeout |-> timeout]

\* A file the operator wrote, a legacy one, and one that does not validate.
File ==
    [Default EXCEPT !.upstreams = <<Up(T("a"), T("ua"), T("ka"), T("5m")),
                                    Up(T("b"), T("ub"), T("kb"), Blank)>>,
                    !.active = T("a")]
LegacyFile ==
    [Default EXCEPT !.upstreams = <<>>, !.active = Blank, !.maxTokens = 0,
                    !.legacy = <<Up(Blank, Padded("ua"), T("ka"), Padded("5m"))>>]
BrokenFile == [File EXCEPT !.active = T("c")]

MCInitialFiles == {File, LegacyFile, BrokenFile}

Iv(name, url, key, timeout) ==
    [name |-> name, original |-> Blank, format |-> "openai", url |-> url,
     timeout |-> timeout, key |-> key, clear |-> FALSE]

View(active, ups) ==
    [listen |-> DefaultListen, maxTokens |-> 8192, active |-> active,
     adminKey |-> Blank, clearAdmin |-> FALSE, accessKey |-> Blank,
     clearAccess |-> FALSE, upstreams |-> ups]

\* Activate b; give a new key to a; an unfinished draft made live (rejected).
ActivateB == View(T("b"), <<Iv(T("a"), T("ua"), Blank, T("5m")), Iv(T("b"), T("ub"), Blank, T("5m"))>>)
NewKeyA   == View(T("a"), <<Iv(T("a"), T("ua"), T("k2"), T("5m")), Iv(T("b"), T("ub"), Blank, T("5m"))>>)
Unready   == View(T("c"), <<Iv(T("a"), T("ua"), Blank, T("5m")), Iv(T("c"), Blank, Blank, T("5m"))>>)

CleanIncoming == {ActivateB, NewKeyA, Unready}

\* A timeout typed with a blank after it: the console sends it as it is.
PaddedTimeout == View(T("b"), <<Iv(T("a"), T("ua"), Blank, T("5m")), Iv(T("b"), T("ub"), Blank, Padded("30s"))>>)
TypedIncoming == {PaddedTimeout}

\* An API client that leaves claude_default_max_tokens out.
ClaudeView == [View(T("b"), <<[Iv(T("b"), T("ub"), T("k2"), T("5m")) EXCEPT !.format = "claude"]>>) EXCEPT !.maxTokens = 0]
SparseIncoming == {ClaudeView}
=============================================================================
