----------------------------- MODULE MCCatalog -----------------------------
(***************************************************************************)
(* Instances of Catalog for TLC.                                           *)
(***************************************************************************)
EXTENDS Catalog, TLC

CONSTANTS u1, u2, r, libc, dbg

B(n)  == [name |-> n, url |-> n, fallback |-> FALSE]
FB(n) == [name |-> n, url |-> n, fallback |-> TRUE]

\* Two of mirrors.go's builtins.
TwoBuiltins == <<B("tuna"), FB("old-releases")>>

OnePriority == {<<"tuna", "old-releases">>}

\* A custom mirror that takes a built-in's name.
Twin        == [name |-> "tuna", url |-> "twin", fallback |-> FALSE]
TwinCustoms == {<<Twin>>}

DebugOf == [f \in Files |-> IF f = libc THEN dbg ELSE None]

\* tuna still hosts both packages, the others libc6 only.
Active == [url \in {"tuna", "old-releases", "twin"} |->
              IF url = "tuna" THEN {libc, dbg} ELSE {libc}]

WantLibc == [p \in Readers |-> libc]
AnyOne   == [p \in Readers |-> None]
=============================================================================
