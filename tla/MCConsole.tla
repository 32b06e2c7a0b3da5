----------------------------- MODULE MCConsole ------------------------------
(* Small instances of Console: three names, one new key, three upstreams.  *)
EXTENDS Console

MCNames == {T("a"), T("b"), T("c")}
MCKeys == {T("k2")}
NoCreds == {<<Blank, Blank>>}
OneCred == {<<T("p"), Blank>>, <<Blank, T("q")>>}
BothCreds == {<<T("p"), T("q")>>}
TypedAddresses == {T(":9000"), Blank}
NoAddress == {}
NoFlag == {Blank}
PortFlag == {T(":7000")}
=============================================================================
