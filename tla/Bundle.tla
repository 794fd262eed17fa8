------------------------------- MODULE Bundle -------------------------------
(***************************************************************************)
(* bundle export and bundle import (internal/bundle) on a version's        *)
(* directory, while a download may be extracting that version: Export      *)
(* walks the directory and writes a tar, which is carried to another       *)
(* machine, where Import extracts it with SafeExtractTar (internal/        *)
(* archive).  Nothing locks either directory.                              *)
(*                                                                         *)
(* A regular file is a sequence of blocks, each of the build of the        *)
(* package it comes from.                                                  *)
(***************************************************************************)
EXTENDS Integers, Sequences, SequencesExt

CONSTANTS Names,     \* the names a version's directory may hold, as os.ReadDir
                     \* sorts them
          Links,     \* those that are symbolic links
          Manifest,  \* PROVENANCE.json
          Builds,    \* the builds of the version
          Size,      \* Size[b][n]: the blocks of file n in build b
          None, Link

Regular == ToSet(Names) \ Links

ASSUME NamesAssumption ==
    /\ IsInjective(Names) /\ Manifest \in Regular /\ Links \subseteq ToSet(Names)
ASSUME BuildsAssumption ==
    /\ \A b \in Builds : Size[b] \in [Regular -> Nat \ {0}]
    /\ None \notin Builds \cup Seq(Builds) \cup ToSet(Names) /\ Link \notin Seq(Builds) \cup {None}

VARIABLES
    installed,  \* the build that was in the directory at first, or None
    src,        \* src[n]: what the directory has under n
    dpc,        \* where the download stands
    build,      \* the build it extracts
    left,       \* the files it has yet to extract
    open,       \* the file it is writing
    epc,        \* where the export stands
    todo,       \* the names it has yet to begin
    tar,        \* the entries it wrote: name, size in the header, data
    bundle,     \* the bundle: "open", "whole", or "cut" before its end
    ipc,        \* where the import stands
    pos,        \* the entries it has begun
    dst         \* dst[n]: what the other machine's directory has under n

download == <<dpc, build, left, open>>
export   == <<epc, todo, tar, bundle>>
import   == <<ipc, pos, dst>>
vars     == <<installed, src, download, export, import>>

Whole(b, n) == [k \in 1 .. Size[b][n] |-> b]
Dir(b) == [n \in ToSet(Names) |->
              IF b = None THEN None ELSE IF n \in Links THEN Link ELSE Whole(b, n)]

Terminal == {"done", "failed", "killed"}

\* Either machine may have the version; a download leaves what Dir gives.
Init ==
    /\ installed \in Builds \cup {None}
    /\ src = Dir(installed)
    /\ dpc = "idle" /\ build = None /\ left = {} /\ open = None
    /\ epc = "start" /\ todo = {} /\ tar = <<>> /\ bundle = "open"
    /\ ipc = "start" /\ pos = 0
    /\ \E b \in Builds \cup {None} : dst = Dir(b)
-----------------------------------------------------------------------------
(***************************************************************************)
(* A download of the version: SafeExtractTar, then the manifest.           *)
(***************************************************************************)
StartDownload ==
    /\ dpc = "idle" /\ dpc' = "extract"
    /\ build' \in Builds
    /\ left' = ToSet(Names) \ {Manifest}
    /\ UNCHANGED <<installed, src, open, export, import>>

\* A regular file is truncated, a link removed, before it is written.
Truncate(n) == src' = [src EXCEPT ![n] = IF n \in Links THEN None ELSE <<>>]

OpenFile ==
    /\ dpc = "extract" /\ open = None
    /\ \E n \in left : open' = n /\ left' = left \ {n} /\ Truncate(n)
    /\ UNCHANGED <<installed, dpc, build, export, import>>

\* Mutant: the manifest is written while the files are extracted.
OpenManifestEarly ==
    /\ dpc = "extract" /\ open = None /\ Manifest \notin left
    /\ src[Manifest] # Whole(build, Manifest)
    /\ open' = Manifest /\ Truncate(Manifest)
    /\ UNCHANGED <<installed, dpc, build, left, export, import>>

OpenManifest ==
    /\ dpc = "extract" /\ left = {} /\ open = None
    /\ dpc' = "manifest" /\ open' = Manifest /\ Truncate(Manifest)
    /\ UNCHANGED <<installed, build, left, export, import>>

WriteBlock ==
    /\ open # None
    /\ src' = [src EXCEPT ![open] = IF open \in Links THEN Link ELSE Append(@, build)]
    /\ open' = IF open \in Links \/ Len(src'[open]) = Size[build][open] THEN None ELSE open
    /\ UNCHANGED <<installed, dpc, build, left, export, import>>

\* The manifest is written; or something failed, or the process was killed.
StopDownload ==
    /\ dpc \in {"extract", "manifest"}
    /\ dpc' = IF dpc = "manifest" /\ open = None THEN "done" ELSE "failed"
    /\ open' = None
    /\ UNCHANGED <<installed, src, build, left, export, import>>
-----------------------------------------------------------------------------
(***************************************************************************)
(* Export.                                                                 *)
(***************************************************************************)

\* filepath.Walk reads the names there are, ...
ReadNames ==
    /\ epc = "start" /\ epc' = "next"
    /\ todo' = {n \in ToSet(Names) : src[n] # None}
    /\ UNCHANGED <<installed, src, download, tar, bundle, import>>

\* ... and takes them in their order.
IsNext(n) ==
    /\ n \in todo
    /\ \E k \in 1 .. Len(Names) : n = Names[k] /\ \A j \in 1 .. k - 1 : Names[j] \notin todo

\* archive/tar: the data of the last entry is shorter than its header says.
Short == tar # <<>> /\ Len(Last(tar).data) < Last(tar).size

\* Walk's Lstat and WriteHeader of the next name.  FileInfoHeader is given no
\* link target, so a link's entry says nothing of where it leads.
Stat ==
    /\ epc = "next" /\ ~Short
    /\ \E n \in todo :
        /\ IsNext(n) /\ src[n] # None
        /\ todo' = todo \ {n}
        /\ tar' = Append(tar, [name |-> n, data |-> <<>>,
                               size |-> IF n \in Links THEN 0 ELSE Len(src[n])])
        /\ epc' = IF n \in Links THEN "next" ELSE "open"
    /\ UNCHANGED <<installed, src, download, bundle, import>>

Open ==
    /\ epc = "open" /\ epc' = "copy"
    /\ UNCHANGED <<installed, src, download, todo, tar, bundle, import>>

\* io.Copy reads the file as it is now, until it ends.
Copy ==
    /\ epc = "copy"
    /\ LET e == Last(tar)
           f == src[e.name]
       IN  IF Len(e.data) < Len(f)
           THEN /\ Len(e.data) < e.size
                /\ tar' = [tar EXCEPT ![Len(tar)].data = Append(@, f[Len(@) + 1])]
                /\ UNCHANGED epc
           ELSE epc' = "next" /\ UNCHANGED tar
    /\ UNCHANGED <<installed, src, download, todo, bundle, import>>

\* The deferred Closes of a failed export still end the tar, unless its last
\* entry is short or the disk is full.
CloseBundle == bundle' \in (IF Short THEN {"cut"} ELSE {"whole", "cut"})

\* Export returns an error: the entry before is short, the next name is gone, or
\* the file has grown past its header.
ExportFails ==
    /\ \/ epc = "next" /\ \E n \in todo : IsNext(n) /\ (Short \/ src[n] = None)
       \/ /\ epc = "copy" /\ Len(Last(tar).data) = Last(tar).size
          /\ Len(src[Last(tar).name]) > Last(tar).size
    /\ epc' = "failed"
    /\ CloseBundle
    /\ UNCHANGED <<installed, src, download, todo, tar, import>>

\* Or reading or writing fails.
ExportError ==
    /\ epc \in {"start", "next", "open", "copy"}
    /\ epc' = "failed"
    /\ CloseBundle
    /\ UNCHANGED <<installed, src, download, todo, tar, import>>

\* Walk ends.  Export has already decided what it returns when the deferred
\* Closes fail, because the last entry is short or the disk is full.
ExportEnds ==
    /\ epc = "next" /\ todo = {}
    /\ epc' = "done"
    /\ CloseBundle
    /\ UNCHANGED <<installed, src, download, todo, tar, import>>

KillExport ==
    /\ epc \in {"next", "open", "copy"}
    /\ epc' = "killed" /\ bundle' = "cut"
    /\ UNCHANGED <<installed, src, download, todo, tar, import>>
-----------------------------------------------------------------------------
(***************************************************************************)
(* Import, on the other machine.                                           *)
(***************************************************************************)
StartImport ==
    /\ ipc = "start" /\ epc \in Terminal
    /\ ipc' = "next"
    /\ UNCHANGED <<installed, src, download, export, pos, dst>>

\* Mutant: a file that is there is not truncated.
NextEntryKeeps ==
    /\ ipc = "next" /\ pos < Len(tar)
    /\ pos' = pos + 1
    /\ LET n == tar[pos + 1].name
       IN  /\ dst' = [dst EXCEPT ![n] = IF n \in Links THEN None
                                        ELSE IF @ = None THEN <<>> ELSE @]
           /\ ipc' = IF n \in Links THEN "next" ELSE "write"
    /\ UNCHANGED <<installed, src, download, export>>

\* The next entry: a regular file is truncated; a link is removed, and
\* os.Symlink, given no target, fails, which is ignored.
NextEntry ==
    /\ ipc = "next" /\ pos < Len(tar)
    /\ pos' = pos + 1
    /\ LET n == tar[pos + 1].name
       IN  /\ dst' = [dst EXCEPT ![n] = IF n \in Links THEN None ELSE <<>>]
           /\ ipc' = IF n \in Links THEN "next" ELSE "write"
    /\ UNCHANGED <<installed, src, download, export>>

\* Mutant: the last block is left out.
WriteEntryShort ==
    /\ ipc = "write"
    /\ LET e == tar[pos]
       IN  IF Len(dst[e.name]) < e.size - 1
           THEN /\ Len(dst[e.name]) < Len(e.data)
                /\ dst' = [dst EXCEPT ![e.name] = Append(@, e.data[Len(@) + 1])]
                /\ UNCHANGED ipc
           ELSE ipc' = "next" /\ UNCHANGED dst
    /\ UNCHANGED <<installed, src, download, export, pos>>

\* io.CopyN copies as many blocks as the header says.
WriteEntry ==
    /\ ipc = "write"
    /\ LET e == tar[pos]
       IN  IF Len(dst[e.name]) < e.size
           THEN /\ Len(dst[e.name]) < Len(e.data)
                /\ dst' = [dst EXCEPT ![e.name] = Append(@, e.data[Len(@) + 1])]
                /\ UNCHANGED ipc
           ELSE ipc' = "next" /\ UNCHANGED dst
    /\ UNCHANGED <<installed, src, download, export, pos>>

\* Nobody looks at what follows the tar: of a bundle that was cut when its last
\* bytes were flushed, nothing else may be missing.
TarEnds == bundle = "whole" \/ (epc = "done" /\ ~Short)

ImportEnds ==
    /\ ipc = "next" /\ pos = Len(tar)
    /\ ipc' = IF TarEnds THEN "done" ELSE "failed"
    /\ UNCHANGED <<installed, src, download, export, pos, dst>>

\* The bundle ends within an entry.
ImportFails ==
    /\ ipc = "write"
    /\ dst[tar[pos].name] = tar[pos].data /\ Len(tar[pos].data) < tar[pos].size
    /\ ipc' = "failed"
    /\ UNCHANGED <<installed, src, download, export, pos, dst>>

\* A bundle that was cut ends before, reading or writing fails, or the import is
\* killed.
ImportError ==
    /\ ipc \in {"next", "write"}
    /\ ipc' = "failed"
    /\ UNCHANGED <<installed, src, download, export, pos, dst>>
-----------------------------------------------------------------------------
Download == StartDownload \/ OpenFile \/ OpenManifest \/ WriteBlock \/ StopDownload
Export   == ReadNames \/ Stat \/ Open \/ Copy \/ ExportFails \/ ExportEnds
Import   == StartImport \/ NextEntry \/ WriteEntry \/ ImportFails \/ ImportEnds

Rest == ipc \in Terminal /\ dpc \in {"idle", "done", "failed"} /\ UNCHANGED vars

Next == Download \/ Export \/ ExportError \/ KillExport \/ Import \/ ImportError \/ Rest

Spec == Init /\ [][Next]_vars
-----------------------------------------------------------------------------
(***************************************************************************)
(* Properties.                                                             *)
(***************************************************************************)
Trees   == {t \in [ToSet(Names) -> Seq(Builds) \cup {None, Link}] :
              \A n \in ToSet(Names) : t[n] = Link => n \in Links}
Entries == [name : ToSet(Names), size : Nat, data : Seq(Builds)]

\* Type correctness: also, no entry has more data than its header says, and
\* none but the last may have less.
TypeOK ==
    /\ installed \in Builds \cup {None}
    /\ src \in Trees /\ dst \in Trees
    /\ dpc \in {"idle", "extract", "manifest", "done", "failed"}
    /\ build \in Builds \cup {None}
    /\ left \subseteq ToSet(Names) /\ open \in ToSet(Names) \cup {None}
    /\ epc \in {"start", "next", "open", "copy"} \cup Terminal
    /\ todo \subseteq ToSet(Names)
    /\ tar \in Seq(Entries)
    /\ \A k \in 1 .. Len(tar) : Len(tar[k].data) <= tar[k].size
    /\ \A k \in 1 .. Len(tar) - 1 : Len(tar[k].data) = tar[k].size
    /\ bundle \in {"open", "whole", "cut"}
    /\ ipc \in {"start", "next", "write"} \cup Terminal /\ pos \in 0 .. Len(tar)

\* When the directory was empty before, a bundle that holds a manifest, be it only
\* begun, holds every file the manifest is of: Walk reads the names before the
\* files, and the manifest is the last thing a download writes, so a manifest
\* among the names means that the extraction was over.
ManifestCoversBundle ==
    installed = None /\ epc = "done" =>
        \A k \in 1 .. Len(tar) : tar[k].name = Manifest /\ tar[k].data # <<>> =>
            \A n \in Regular \ {Manifest} : \E j \in 1 .. Len(tar) :
                tar[j].name = n /\ tar[j].data = Whole(tar[k].data[1], n)

\* Carried over with no download under way, the version arrives: when both
\* commands report success, the other machine has its regular files, whatever
\* it had before.
RoundTrip ==
    ipc = "done" /\ epc = "done" /\ dpc = "idle" =>
        \A n \in Regular : src[n] # None => dst[n] = src[n]

\* An import that reports success took every entry over in full, even from a
\* bundle that was cut, or that an export which failed left behind.
ImportIsComplete ==
    ipc = "done" => \A k \in 1 .. Len(tar) : tar[k].name \in Regular =>
        Len(tar[k].data) = tar[k].size /\ dst[tar[k].name] = tar[k].data

\* An import that failed, or is at work, has done nothing but its first entries:
\* each regular file is as it was, or as an entry has it, but for the last
\* entry's, of which it has a beginning (extract.go:100 truncates in place).
ImportFailureConfined ==
    LET Written(n, k) == \/ dst[n] = tar[k].data
                         \/ k = pos /\ IsPrefix(dst[n], tar[k].data)
    IN  \E b \in Builds \cup {None} : \A n \in Regular :
           dst[n] = Dir(b)[n] \/ \E k \in 1 .. pos : tar[k].name = n /\ Written(n, k)
=============================================================================
