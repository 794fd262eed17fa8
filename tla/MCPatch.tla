------------------------------ MODULE MCPatch ------------------------------
(***************************************************************************)
(* Instances of Patch for TLC: commands p and q patch chal; ./chal leads   *)
(* to the same file, and chal_patched to an older, longer file, new to none.*)
(***************************************************************************)
EXTENDS Patch, TLC

CONSTANTS p, q, v1, v2

ChalTwice == [c \in Procs |-> "chal"]
PGiven    == [c \in Procs |-> IF c = p THEN v1 ELSE None]
Leads     == [path \in Paths |-> CASE path = "./chal" -> "chal" [] path = "new" -> None
                                  [] OTHER -> path]
Sizes     == [path \in Paths |-> IF path = "chal_patched" THEN 3 ELSE 2]

\* libc++ is found before libc, and no version is found for it.
Libs    == <<"libc++.so.1", "libc-2.31.so", "libc.so.6">>
LibsAre == [n \in ToSet(Libs) |-> CASE n = "libc-2.31.so" -> v1 [] n = "libc.so.6" -> v2
                                    [] OTHER -> None]

\* The loaders of glibc 2.31, a file and a link to it, as its package has them
\* and after a bundle has lost the link; of 2.35, a file; links only; and none.
File(l) == [linux |-> l, link |-> FALSE]
LinuxLink == [linux |-> TRUE, link |-> TRUE]
LoaderSets == {<<File(FALSE), LinuxLink>>, <<File(FALSE)>>, <<File(TRUE)>>, <<LinuxLink>>,
               <<LinuxLink, LinuxLink>>, <<>>}
PackageLoaders == [v \in Versions |-> IF v = v1 THEN <<File(FALSE), LinuxLink>> ELSE <<File(TRUE)>>]

\* README.md: "`patch` never modifies the original file".
OriginalNeverModified == \A c \in Procs : file[FileAt[Source[c]]] = Blocks(FileAt[Source[c]], None)
=============================================================================
