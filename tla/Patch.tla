------------------------------- MODULE Patch -------------------------------
(***************************************************************************)
(* patch, and the patching part of run (internal/cli, internal/patcher):   *)
(* the libc beside the binary gives the version, the version's directory   *)
(* the loader, and a copy of the binary is made and rewritten by patchelf. *)
(* Commands run at the same time, on the same files, and may be killed.    *)
(*                                                                         *)
(* A path leads to a file; two paths may lead to the same one.  A file is  *)
(* a sequence of blocks: whose they are, which, and the version they are   *)
(* patched for.                                                            *)
(***************************************************************************)
EXTENDS Integers, Sequences, SequencesExt

CONSTANTS Procs,       \* the commands
          Source,      \* Source[p]: the path of the binary p is given
          OutPaths,    \* the paths it may write to: --out's or <binary>_patched
          Given,       \* Given[p]: --version, or None
          NoDownload,  \* those with --no-download
          Killable,    \* those that may be killed
          Paths,       \* the paths
          FileAt,      \* FileAt[path]: the file a path leads to at first, or None
          Length,      \* Length[i]: the blocks file i has at first
          Beside,      \* the names beside the binaries, as os.ReadDir sorts them
          LibcLike,    \* those that look like a libc's
          Identified,  \* Identified[n]: the version a file is found to be, or None
          Versions,
          Package,     \* Package[v]: the loaders in v's package, sorted
          Listings,    \* the loaders a directory with a libc may hold
          None

\* A file is known by one of its paths.
Files == {FileAt[path] : path \in Paths} \ {None}

ASSUME PathsAssumption ==
    /\ Source \in [Procs -> Paths] /\ OutPaths \subseteq Paths
    /\ FileAt \in [Paths -> Paths \cup {None}] /\ None \notin Paths
    /\ \A i \in Files : FileAt[i] = i
    /\ Length \in [Paths -> Nat]
\* Of a package's loaders, only those called ld-linux are links.
Loaders == {e \in [linux : BOOLEAN, link : BOOLEAN] : e.link => e.linux}

ASSUME VersionsAssumption ==
    /\ Listings \subseteq Seq(Loaders)
    /\ None \notin Versions /\ Given \in [Procs -> Versions \cup {None}]
    /\ \A n \in LibcLike : Identified[n] \in Versions \cup {None}
    /\ \A v \in Versions : Package[v] \in Listings
    /\ None \notin Listings

VARIABLES
    out,     \* out[p]: the path p writes to
    beside,  \* which of the names beside the binaries there are
    libs,    \* libs[v]: the loaders in v's directory, None without a libc there
    fetched, \* the versions that were being extracted (read by properties only)
    pc,      \* pc[p]: where p stands
    want,    \* want[p]: the version p patches for
    loader,  \* loader[p]: the loader p found
    dir,     \* dir[path]: the file a path leads to, or None
    file,    \* file[i]: its blocks
    off,     \* off[p]: the blocks p has copied, or its patchelf has read or written
    elf      \* elf[p]: what p's patchelf has read

command == <<out, beside>>
store   == <<libs, fetched>>
disk    == <<dir, file>>
vars    == <<command, store, pc, want, loader, disk, off, elf>>

Terminal == {"done", "failed", "killed"}

\* The blocks of file i, patched for version v or not at all.
Blocks(i, v) == [k \in 1 .. Length[i] |-> [of |-> i, no |-> k, glibc |-> v]]
Hole == [of |-> None, no |-> 0, glibc |-> None]

Init ==
    /\ out \in [Procs -> OutPaths]
    /\ beside \in SUBSET ToSet(Beside)
    /\ libs \in [Versions -> Listings \cup {None}]
    /\ fetched = {}
    /\ pc = [p \in Procs |-> "start"]
    /\ want = [p \in Procs |-> None] /\ loader = [p \in Procs |-> None]
    /\ dir = FileAt
    /\ file = [i \in Paths |-> IF i \in Files THEN Blocks(i, None) ELSE <<>>]
    /\ off = [p \in Procs |-> 0] /\ elf = [p \in Procs |-> <<>>]

Go(p, l) == pc' = [pc EXCEPT ![p] = l]
Fail(p) == Go(p, "failed") /\ UNCHANGED <<want, loader, disk, off, elf>>
-----------------------------------------------------------------------------
(***************************************************************************)
(* The version and its loader.                                             *)
(***************************************************************************)

\* findCoLocatedLibc takes the first name that looks like a libc's and is not
\* the binary.
IsLibc(p, n) == n \in beside \cap LibcLike /\ n # Source[p]
CoLocated(p) ==
    {n \in ToSet(Beside) : \E k \in 1 .. Len(Beside) :
        /\ n = Beside[k] /\ IsLibc(p, n)
        /\ \A j \in 1 .. k - 1 : ~IsLibc(p, Beside[j])}

\* --version, or what autoIdentifyVersion finds.
Detected(p) == IF Given[p] # None THEN {Given[p]}
               ELSE {Identified[n] : n \in CoLocated(p)} \ {None}

\* autoIdentifyVersion may fail in many more ways.
Detect(p) ==
    /\ pc[p] = "start"
    /\ \/ /\ \E v \in Detected(p) : Go(p, "check") /\ want' = [want EXCEPT ![p] = v]
          /\ UNCHANGED <<loader, disk, off, elf>>
       \/ (Detected(p) = {} \/ Given[p] = None) /\ Fail(p)
    /\ UNCHANGED <<command, store>>

\* The version's directory holds a libc, or the version is downloaded.
CheckLibs(p) ==
    /\ pc[p] = "check"
    /\ \/ libs[want[p]] # None /\ Go(p, "loader")
       \/ libs[want[p]] = None /\ Go(p, IF p \in NoDownload THEN "failed" ELSE "download")
    /\ UNCHANGED <<command, store, want, loader, disk, off, elf>>

\* runDownload extracts the package, and with it the libc, while others look:
\* its loaders appear, none that is a file goes away, and a link is removed and
\* made again.
Extract(p) ==
    /\ pc[p] = "download"
    /\ \E es \in Listings :
        /\ ToSet(es) \subseteq ToSet(Package[want[p]])
        /\ libs[want[p]] # None =>
              {e \in ToSet(libs[want[p]]) : ~e.link} \subseteq ToSet(es)
        /\ libs' = [libs EXCEPT ![want[p]] = es]
    /\ fetched' = fetched \cup {want[p]}
    /\ UNCHANGED <<command, pc, want, loader, disk, off, elf>>

\* It ends with every file of the package there (a link that cannot be made is
\* passed over), or fails with what it has extracted.
DownloadEnds(p) ==
    /\ pc[p] = "download"
    /\ \/ /\ libs[want[p]] # None
          /\ \A e \in ToSet(Package[want[p]]) : e.link \/ e \in ToSet(libs[want[p]])
          /\ Go(p, "loader")
       \/ Go(p, "failed")
    /\ UNCHANGED <<command, store, want, loader, disk, off, elf>>

\* An ld-linux link.
IsGeneric(e) == e.linux /\ e.link

\* Mutant: the generic link is preferred.
FindLoaderGeneric(es) ==
    {k \in 1 .. Len(es) :
        IF \E j \in 1 .. Len(es) : IsGeneric(es[j])
        THEN IsGeneric(es[k]) /\ \A j \in k + 1 .. Len(es) : ~IsGeneric(es[j])
        ELSE k = 1}

\* FindLoader: the position of the first name that starts with ld-, passing over
\* ld-linux links as long as there is another, and otherwise the last of those.
FindLoader(es) ==
    {k \in 1 .. Len(es) :
        IF IsGeneric(es[k])
        THEN k = Len(es) /\ \A j \in 1 .. k - 1 : IsGeneric(es[j])
        ELSE \A j \in 1 .. k - 1 : IsGeneric(es[j])}

Load(p) ==
    /\ pc[p] = "loader"
    /\ LET es == libs[want[p]]
       IN  \/ /\ \E k \in FindLoader(es) : loader' = [loader EXCEPT ![p] = es[k]]
              /\ Go(p, "patch")
           \/ FindLoader(es) = {} /\ Go(p, "failed") /\ UNCHANGED loader
    /\ UNCHANGED <<command, store, want, disk, off, elf>>
-----------------------------------------------------------------------------
(***************************************************************************)
(* patcher.Patch.                                                          *)
(***************************************************************************)

\* The file p's copy goes to: a new one when there is none at its path.
Target(p) == IF dir[out[p]] = None THEN out[p] ELSE dir[out[p]]

\* Mutant: a file at the output path is written over, not truncated.
OpenFilesKeeps(p) ==
    /\ pc[p] = "patch"
    /\ \/ out[p] = Source[p] /\ Go(p, "chmod") /\ UNCHANGED disk
       \/ /\ out[p] # Source[p] /\ dir[Source[p]] # None
          /\ Go(p, "copy")
          /\ dir' = [dir EXCEPT ![out[p]] = Target(p)] /\ UNCHANGED file
       \/ Go(p, "failed") /\ UNCHANGED disk
    /\ UNCHANGED <<command, store, want, loader, off, elf>>

\* Without patchelf Patch fails.  Unless the paths are the same string,
\* copyFile opens the binary and creates or truncates the output.
OpenFiles(p) ==
    /\ pc[p] = "patch"
    /\ \/ out[p] = Source[p] /\ Go(p, "chmod") /\ UNCHANGED disk
       \/ /\ out[p] # Source[p] /\ dir[Source[p]] # None
          /\ Go(p, "copy")
          /\ dir' = [dir EXCEPT ![out[p]] = Target(p)]
          /\ file' = [file EXCEPT ![Target(p)] = <<>>]
       \/ Go(p, "failed") /\ UNCHANGED disk
    /\ UNCHANGED <<command, store, want, loader, off, elf>>

\* s with block k set to b: a write past the end leaves a hole.
PutAt(s, k, b) ==
    [j \in 1 .. (IF Len(s) < k THEN k ELSE Len(s)) |->
        IF j = k THEN b ELSE IF j <= Len(s) THEN s[j] ELSE Hole]

\* io.Copy, until the binary's file ends.
Copy(p) ==
    /\ pc[p] = "copy"
    /\ LET s == file[dir[Source[p]]]
       IN  IF off[p] < Len(s)
           THEN /\ file' = [file EXCEPT ![Target(p)] = PutAt(@, off[p] + 1, s[off[p] + 1])]
                /\ off' = [off EXCEPT ![p] = @ + 1]
                /\ UNCHANGED pc
           ELSE Go(p, "chmod") /\ UNCHANGED <<file, off>>
    /\ UNCHANGED <<command, store, want, loader, dir, elf>>

\* Reading, writing or Chmod fails, or patchelf does: the output stays as it is
\* then.
PatchError(p) ==
    /\ pc[p] \in {"copy", "chmod", "read", "patchelf", "write"}
    /\ Fail(p)
    /\ UNCHANGED <<command, store>>

\* patchelf opens the output and takes its length, ...
StatElf(p) ==
    /\ pc[p] = "chmod"
    /\ file[Target(p)] # <<>>
    /\ elf' = [elf EXCEPT ![p] = file[Target(p)]]
    /\ off' = [off EXCEPT ![p] = 0]
    /\ Go(p, "read")
    /\ UNCHANGED <<command, store, want, loader, disk>>

\* ... reads that many blocks, which others may be changing, and goes on if the
\* first is an ELF header.  An empty file, one cut short and one without a
\* header it refuses.
ReadElf(p) ==
    /\ pc[p] = "read"
    /\ LET s == file[Target(p)]
       IN  \/ /\ off[p] < Len(elf[p]) /\ off[p] < Len(s)
             /\ elf' = [elf EXCEPT ![p][off[p] + 1] = s[off[p] + 1]]
             /\ off' = [off EXCEPT ![p] = @ + 1]
             /\ UNCHANGED pc
          \/ /\ off[p] = Len(elf[p]) /\ elf[p][1].no = 1
             /\ Go(p, "patchelf")
             /\ UNCHANGED <<off, elf>>
    /\ UNCHANGED <<command, store, want, loader, disk>>

\* ... opens it again, which truncates it, ...
OpenElf(p) ==
    /\ pc[p] = "patchelf"
    /\ file' = [file EXCEPT ![Target(p)] = <<>>]
    /\ off' = [off EXCEPT ![p] = 0]
    /\ Go(p, "write")
    /\ UNCHANGED <<command, store, want, loader, dir, elf>>

\* A block, with the loader and the directory of version v.
Patched(b, v) == [b EXCEPT !.glibc = v]

\* Mutant: what is rewritten is the binary.
WriteElfSource(p) ==
    /\ pc[p] = "write"
    /\ IF off[p] < Len(elf[p])
       THEN /\ file' = [file EXCEPT ![dir[Source[p]]] =
                          PutAt(@, off[p] + 1, Patched(elf[p][off[p] + 1], want[p]))]
            /\ off' = [off EXCEPT ![p] = @ + 1]
            /\ UNCHANGED pc
       ELSE Go(p, "done") /\ UNCHANGED <<file, off>>
    /\ UNCHANGED <<command, store, want, loader, dir, elf>>

\* ... and writes what it read, patched, block by block.
WriteElf(p) ==
    /\ pc[p] = "write"
    /\ IF off[p] < Len(elf[p])
       THEN /\ file' = [file EXCEPT ![Target(p)] =
                          PutAt(@, off[p] + 1, Patched(elf[p][off[p] + 1], want[p]))]
            /\ off' = [off EXCEPT ![p] = @ + 1]
            /\ UNCHANGED pc
       ELSE Go(p, "done") /\ UNCHANGED <<file, off>>
    /\ UNCHANGED <<command, store, want, loader, dir, elf>>

Kill(p) ==
    /\ p \in Killable /\ pc[p] \notin Terminal \cup {"start"}
    /\ Go(p, "killed")
    /\ UNCHANGED <<command, store, want, loader, disk, off, elf>>
-----------------------------------------------------------------------------
Step(p) == Detect(p) \/ CheckLibs(p) \/ Extract(p) \/ DownloadEnds(p) \/ Load(p)
           \/ OpenFiles(p) \/ Copy(p) \/ StatElf(p) \/ ReadElf(p) \/ OpenElf(p) \/ WriteElf(p)

Rest == (\A p \in Procs : pc[p] \in Terminal) /\ UNCHANGED vars

Next == (\E p \in Procs : Step(p) \/ PatchError(p) \/ Kill(p)) \/ Rest

Spec == Init /\ [][Next]_vars
-----------------------------------------------------------------------------
(***************************************************************************)
(* Properties.                                                             *)
(***************************************************************************)
Block == [of : Files \cup {None}, no : Nat, glibc : Versions \cup {None}]

\* Type correctness of the commands and of the files.
TypeOK ==
    /\ out \in [Procs -> OutPaths]
    /\ libs \in [Versions -> Listings \cup {None}]
    /\ fetched \subseteq Versions
    /\ loader \in [Procs -> Loaders \cup {None}]
    /\ pc \in [Procs -> Terminal \cup
           {"start", "check", "download", "loader", "patch", "copy", "chmod", "read", "patchelf", "write"}]
    /\ want \in [Procs -> Versions \cup {None}]
    /\ \A p \in Procs : pc[p] \notin Terminal \cup {"start"} => want[p] # None
    /\ dir \in [Paths -> Paths \cup {None}]
    /\ file \in [Paths -> Seq(Block)]
    /\ off \in [Procs -> Nat]
    /\ elf \in [Procs -> Seq(Block)]

\* No command, whether it succeeds, fails or is killed, changes a file that is
\* not at the output path of one.
OthersKept ==
    \A i \in Files : (\A p \in Procs : FileAt[out[p]] # i) => file[i] = Blocks(i, None)

\* However commands that write the same file interleave, once all of them have
\* reported success nothing in it is unpatched: each block is patched for the
\* version of one of them, or a hole.  (It may be short, or mixed: one truncates
\* or writes back while another copies or writes.)  And when there was only one,
\* the file is a whole copy of the binary, patched, whatever was there before:
\* unless another command was writing to the binary meanwhile.
DoneIsPatched ==
    \A i \in Paths :
        LET ws == {p \in Procs : dir[out[p]] = i}
        IN  ws # {} /\ (\A p \in ws : pc[p] = "done") =>
            /\ file[i] # <<>>
            /\ \A k \in 1 .. Len(file[i]) :
                  file[i][k] = Hole \/ \E p \in ws : file[i][k].glibc = want[p]
            /\ \A p \in ws :
                  ws = {p} /\ (\A r \in Procs \ ws : FileAt[out[r]] # FileAt[Source[p]])
                  => file[i] = Blocks(FileAt[Source[p]], want[p])

\* The loader patched in is one of the version's directory, next to its libc,
\* and a link only when no file in it is a loader: what a patched binary names
\* must not go away when links are lost or made again.  A file once found stays
\* through any other command's download; a link is sure to only while nobody
\* downloads the version.
LoaderIsThere ==
    \A p \in Procs :
        pc[p] \in {"patch", "copy", "chmod", "read", "patchelf", "write", "done"} =>
            LET es == ToSet(libs[want[p]])
            IN  IF ~loader[p].link THEN loader[p] \in es
                ELSE want[p] \in fetched \/ (loader[p] \in es /\ \A e \in es : e.link)
=============================================================================
