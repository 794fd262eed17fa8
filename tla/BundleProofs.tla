---------------------------- MODULE BundleProofs ----------------------------
(***************************************************************************)
(* Proofs about Bundle, for any names, links, builds and sizes: what a     *)
(* bundle that holds a manifest holds, that a quiet round trip is          *)
(* faithful, and that an import that succeeds is complete.                 *)
(***************************************************************************)
EXTENDS Bundle, TLAPS

USE NamesAssumption, BuildsAssumption

-----------------------------------------------------------------------------
(***************************************************************************)
(* The inductive invariant.                                                *)
(***************************************************************************)

\* s is what was written so far of file n of build b.
PartOf(s, b, n) ==
    s \in Seq(Builds) /\ Len(s) <= Size[b][n] /\ \A k \in 1 .. Len(s) : s[k] = b

\* s is what was copied so far of t.
Prefix(s, t) == Len(s) <= Len(t) /\ \A k \in 1 .. Len(s) : s[k] = t[k]

\* What a download has open, and that the manifest comes last.
Downloading ==
    /\ dpc = "idle" => open = None /\ src = Dir(installed)
    /\ open # None => dpc \in {"extract", "manifest"}
    /\ dpc = "extract" => open # Manifest
    /\ Manifest \notin left
    /\ dpc = "manifest" => left = {} /\ open \in {None, Manifest}
    /\ dpc \in {"extract", "manifest"} => build \in Builds
    /\ open \in Regular => PartOf(src[open], build, open) /\ Len(src[open]) < Size[build][open]

\* In a directory that was empty, the files are those of the build that is
\* extracted, and all there before the manifest is.
Fresh ==
    installed = None =>
        /\ dpc = "extract" => \A n \in Regular \ {Manifest} :
              n \in left \/ n = open \/ src[n] = Whole(build, n)
        /\ dpc = "manifest" => \A n \in Regular \ {Manifest} : src[n] = Whole(build, n)
        /\ src[Manifest] # None =>
              /\ dpc \in {"manifest", "done", "failed"} /\ build \in Builds
              /\ PartOf(src[Manifest], build, Manifest)
              /\ \A n \in Regular \ {Manifest} : src[n] = Whole(build, n)

\* The names Walk read: those it has yet to begin, and those it has.
Listed == todo \cup {tar[k].name : k \in 1 .. Len(tar)}

\* The tar's entries: one for each name, of files that stay there.
Exporting ==
    /\ epc = "start" => todo = {} /\ tar = <<>>
    /\ epc = "done" => todo = {}
    /\ epc \in {"open", "copy"} => Len(tar) > 0 /\ tar[Len(tar)].name \in Regular
    /\ \A k \in 1 .. Len(tar) :
          /\ tar[k].name \notin todo
          /\ tar[k].name \in Regular => src[tar[k].name] # None
          /\ \A j \in 1 .. Len(tar) : tar[j].name = tar[k].name => j = k

\* An export that read the manifest's name in a directory that was empty has all
\* the names, and copies the files of one build.
Covers ==
    installed = None /\ Manifest \in Listed =>
        /\ src[Manifest] # None
        /\ Regular \subseteq Listed
        /\ \A k \in 1 .. Len(tar) : tar[k].name \in Regular =>
              /\ PartOf(tar[k].data, build, tar[k].name)
              /\ tar[k].name # Manifest =>
                    /\ tar[k].size = Size[build][tar[k].name]
                    /\ epc \in {"next", "done"} => Len(tar[k].data) = tar[k].size

\* While no download has begun the bundle is a copy of what it was made of.
Quiet ==
    dpc = "idle" =>
        /\ epc \notin {"start", "failed"} => \A n \in ToSet(Names) : src[n] # None => n \in Listed
        /\ \A k \in 1 .. Len(tar) : tar[k].name \in Regular =>
              /\ tar[k].size = Len(src[tar[k].name])
              /\ Prefix(tar[k].data, src[tar[k].name])
              /\ epc \in {"next", "done"} => Len(tar[k].data) = tar[k].size

\* The entries an import is past have arrived.
Importing ==
    /\ ipc # "start" => epc \in Terminal
    /\ ipc = "start" => pos = 0
    /\ ipc = "write" => /\ pos > 0 /\ tar[pos].name \in Regular
                        /\ dst[tar[pos].name] # None
                        /\ Prefix(dst[tar[pos].name], tar[pos].data)
    /\ ipc = "done" => pos = Len(tar)
    /\ \A k \in 1 .. pos : tar[k].name \in Regular /\ (k < pos \/ ipc \in {"next", "done"}) =>
          Len(tar[k].data) = tar[k].size /\ dst[tar[k].name] = tar[k].data

IInv == TypeOK /\ Downloading /\ Fresh /\ Exporting /\ Covers /\ Quiet /\ Importing

-----------------------------------------------------------------------------
(***************************************************************************)
(* Lemmas about the data.                                                  *)
(***************************************************************************)

\* The names: the manifest is a regular file, None is not a name, and neither
\* None nor Link is a file's data.
LEMMA NamesApart ==
    /\ Manifest \in Regular /\ Regular \subseteq ToSet(Names)
    /\ None \notin ToSet(Names) /\ None \notin Seq(Builds) /\ None \notin Builds
    /\ Link \notin Seq(Builds) /\ Link # None
    /\ <<>> # None
    /\ \A n \in ToSet(Names) : n \in Links <=> n \notin Regular
<1>1. <<>> \in Seq(Builds)
  OBVIOUS
<1> QED
  BY <1>1 DEF Regular

\* A regular file of a build has at least one block.
LEMMA SizeType ==
    ASSUME NEW b \in Builds, NEW n \in Regular
    PROVE  Size[b][n] \in Nat \ {0}
OBVIOUS

\* A whole file is a file.
LEMMA WholeType ==
    ASSUME NEW b \in Builds, NEW n \in Regular
    PROVE  /\ Whole(b, n) \in Seq(Builds) /\ Len(Whole(b, n)) = Size[b][n]
           /\ PartOf(Whole(b, n), b, n)
BY SizeType DEF Whole, PartOf

\* What was written of a file is the whole file once it has its size.
LEMMA PartWhole ==
    ASSUME NEW b \in Builds, NEW n \in Regular, NEW s, PartOf(s, b, n), Len(s) = Size[b][n]
    PROVE  s = Whole(b, n)
BY SizeType DEF Whole, PartOf

\* One block more.
LEMMA PartAppend ==
    ASSUME NEW b \in Builds, NEW n \in Regular, NEW s, PartOf(s, b, n), Len(s) < Size[b][n]
    PROVE  /\ PartOf(Append(s, b), b, n) /\ Append(s, b) \in Seq(Builds)
           /\ Len(Append(s, b)) = Len(s) + 1
BY SizeType DEF PartOf

\* A prefix of the same length is the file.
LEMMA PrefixWhole ==
    ASSUME NEW s \in Seq(Builds), NEW t \in Seq(Builds), Prefix(s, t), Len(s) = Len(t)
    PROVE  s = t
BY DEF Prefix

\* One block more of what is copied.
LEMMA PrefixAppend ==
    ASSUME NEW s \in Seq(Builds), NEW t \in Seq(Builds), Prefix(s, t), Len(s) < Len(t)
    PROVE  /\ Append(s, t[Len(s) + 1]) \in Seq(Builds)
           /\ Len(Append(s, t[Len(s) + 1])) = Len(s) + 1
           /\ Prefix(Append(s, t[Len(s) + 1]), t)
BY DEF Prefix

\* What a regular name leads to in a tree.
LEMMA TreeFile ==
    ASSUME NEW t \in Trees, NEW n \in Regular
    PROVE  t[n] \in Seq(Builds) \cup {None}
BY NamesApart DEF Trees

\* A tree with another file, or a link, under a name is a tree.
LEMMA TreeExcept ==
    ASSUME NEW t \in Trees, NEW n \in ToSet(Names), NEW f,
           f \in Seq(Builds) \cup {None} \/ (f = Link /\ n \in Links)
    PROVE  [t EXCEPT ![n] = f] \in Trees
BY NamesApart DEF Trees

\* The directory of a build, or an empty one, is a tree.
LEMMA DirType ==
    ASSUME NEW b \in Builds \cup {None}
    PROVE  Dir(b) \in Trees
<1>1. ASSUME NEW n \in ToSet(Names)
      PROVE  /\ Dir(b)[n] \in Seq(Builds) \cup {None, Link}
             /\ Dir(b)[n] = Link => n \in Links
  <2>1. CASE b = None \/ n \in Links
    BY <2>1, NamesApart DEF Dir
  <2>2. CASE b # None /\ n \notin Links
    <3>1. Dir(b)[n] = Whole(b, n)
      BY <2>2 DEF Dir
    <3> QED
      BY <2>2, <3>1, WholeType, NamesApart
  <2> QED
    BY <2>1, <2>2
<1> QED
  BY <1>1 DEF Dir, Trees

\* Every initial state satisfies the invariant.
LEMMA InvInit == Init => IInv
<1> SUFFICES ASSUME Init PROVE IInv
  OBVIOUS
<1>1. TypeOK
  BY DirType, NamesApart DEF Init, TypeOK, Terminal
<1>2. Downloading /\ Exporting /\ Quiet /\ Importing
  BY NamesApart DEF Init, Downloading, Exporting, Quiet, Importing, Listed
<1>3. Fresh /\ Covers
  BY NamesApart DEF Init, Fresh, Covers, Listed, Dir
<1> QED
  BY <1>1, <1>2, <1>3 DEF IInv

-----------------------------------------------------------------------------
(***************************************************************************)
(* The steps of a download.                                                *)
(***************************************************************************)

\* A step that opens n, or writes to it, keeps a tree, and files stay files.
LEMMA TreeStep ==
    ASSUME TypeOK, NEW n \in ToSet(Names), NEW f, src' = [src EXCEPT ![n] = f],
           f \in Seq(Builds) \/ (f \in {None, Link} /\ n \in Links)
    PROVE  /\ src' \in Trees /\ src'[n] = f
           /\ \A m \in ToSet(Names) \ {n} : src'[m] = src[m]
           /\ \A m \in Regular : src[m] # None => src'[m] # None
<1>1. src' \in Trees
  BY TreeExcept, NamesApart DEF TypeOK
<1>2. src'[n] = f /\ \A m \in ToSet(Names) \ {n} : src'[m] = src[m]
  BY DEF TypeOK, Trees
<1> QED
  BY <1>1, <1>2, NamesApart

\* What a download leaves alone: the tar and the other machine.
LEMMA DownloadFrame ==
    ASSUME IInv, UNCHANGED <<export, import>>,
           \A m \in Regular : src[m] # None => src'[m] # None
    PROVE  Exporting' /\ Importing' /\ Listed' = Listed
<1>1. Exporting'
  BY DEF IInv, Exporting, export
<1>2. Importing'
  BY DEF IInv, Importing, export, import
<1> QED
  BY <1>1, <1>2 DEF Listed, export

\* While files are extracted into a directory that was empty there is no
\* manifest, and no export has its name.
LEMMA NoManifestYet ==
    ASSUME IInv, installed = None, dpc \in {"idle", "extract"}
    PROVE  src[Manifest] = None /\ Manifest \notin Listed
<1>1. src[Manifest] = None
  BY NamesApart DEF IInv, Downloading, Fresh, Dir
<1> QED
  BY <1>1 DEF IInv, Covers

LEMMA StartDownloadStep == IInv /\ StartDownload => IInv'
<1> SUFFICES ASSUME IInv, StartDownload PROVE IInv'
  OBVIOUS
<1> USE DEF StartDownload, export, import
<1>1. Exporting' /\ Importing' /\ Listed' = Listed
  BY DownloadFrame
<1>2. TypeOK'
  BY NamesApart DEF IInv, TypeOK
<1>3. Downloading'
  BY NamesApart DEF IInv, Downloading
<1>4. Fresh' /\ Covers'
  BY <1>1, NoManifestYet, NamesApart DEF Fresh, Covers
<1>5. Quiet'
  BY DEF Quiet
<1> QED
  BY <1>1, <1>2, <1>3, <1>4, <1>5 DEF IInv

LEMMA OpenFileStep == IInv /\ OpenFile => IInv'
<1> SUFFICES ASSUME IInv, NEW n \in left, open = None, dpc = "extract",
                    open' = n, left' = left \ {n}, Truncate(n),
                    UNCHANGED <<installed, dpc, build, export, import>>
             PROVE  IInv'
  BY DEF OpenFile
<1> DEFINE f == IF n \in Links THEN None ELSE <<>>
<1>1. n \in ToSet(Names) /\ n # Manifest /\ build \in Builds
  BY DEF IInv, TypeOK, Downloading
<1>2. /\ src' \in Trees /\ src'[n] = f
      /\ \A m \in ToSet(Names) \ {n} : src'[m] = src[m]
      /\ \A m \in Regular : src[m] # None => src'[m] # None
  <2>1. <<>> \in Seq(Builds)
    OBVIOUS
  <2> QED
    BY <1>1, <2>1, TreeStep DEF IInv, Truncate
<1>3. Exporting' /\ Importing' /\ Listed' = Listed
  BY <1>2, DownloadFrame
<1>4. TypeOK'
  BY <1>1, <1>2 DEF IInv, TypeOK, export, import
<1>5. Downloading'
  <2>1. n \in Regular => PartOf(<<>>, build, n) /\ Len(<<>>) < Size[build][n]
    BY <1>1, SizeType DEF PartOf
  <2> QED
    BY <1>1, <1>2, <2>1, NamesApart DEF IInv, Downloading
<1>6. Fresh' /\ Covers'
  BY <1>1, <1>2, <1>3, NoManifestYet, NamesApart DEF IInv, Fresh, Covers
<1>7. Quiet'
  BY DEF Quiet
<1> QED
  BY <1>3, <1>4, <1>5, <1>6, <1>7 DEF IInv

LEMMA OpenManifestStep == IInv /\ OpenManifest => IInv'
<1> SUFFICES ASSUME IInv, OpenManifest PROVE IInv'
  OBVIOUS
<1> USE DEF OpenManifest
<1>1. build \in Builds /\ Manifest \in ToSet(Names) /\ Manifest \notin Links
  BY NamesApart DEF IInv, Downloading
<1>2. /\ src' \in Trees /\ src'[Manifest] = <<>>
      /\ \A m \in ToSet(Names) \ {Manifest} : src'[m] = src[m]
      /\ \A m \in Regular : src[m] # None => src'[m] # None
  <2>1. <<>> \in Seq(Builds)
    OBVIOUS
  <2> QED
    BY <1>1, <2>1, TreeStep DEF IInv, Truncate
<1>3. Exporting' /\ Importing' /\ Listed' = Listed
  BY <1>2, DownloadFrame
<1>4. TypeOK'
  BY <1>1, <1>2 DEF IInv, TypeOK, export, import
<1>5. PartOf(<<>>, build, Manifest) /\ Len(<<>>) < Size[build][Manifest]
  BY <1>1, SizeType, NamesApart DEF PartOf
<1>6. Downloading'
  BY <1>1, <1>2, <1>5, NamesApart DEF IInv, Downloading
<1>7. Fresh' /\ Covers'
  BY <1>1, <1>2, <1>3, <1>5, NoManifestYet, NamesApart DEF IInv, Fresh, Covers
<1>8. Quiet'
  BY DEF Quiet
<1> QED
  BY <1>3, <1>4, <1>6, <1>7, <1>8 DEF IInv

LEMMA WriteBlockStep == IInv /\ WriteBlock => IInv'
<1> SUFFICES ASSUME IInv, WriteBlock PROVE IInv'
  OBVIOUS
<1> USE DEF WriteBlock
<1> DEFINE f == IF open \in Links THEN Link ELSE Append(src[open], build)
<1>1. /\ open \in ToSet(Names) /\ build \in Builds /\ dpc \in {"extract", "manifest"}
      /\ dpc = "extract" => open # Manifest
      /\ dpc = "manifest" => open = Manifest
  BY DEF IInv, TypeOK, Downloading
<1>2. ASSUME open \in Regular
      PROVE  /\ f = Append(src[open], build) /\ PartOf(f, build, open)
             /\ Len(f) = Size[build][open] => f = Whole(build, open)
             /\ Len(f) <= Size[build][open]
  <2>1. PartOf(src[open], build, open) /\ Len(src[open]) < Size[build][open]
    BY <1>2 DEF IInv, Downloading
  <2>2. f = Append(src[open], build)
    BY <1>1, <1>2, NamesApart
  <2>3. PartOf(f, build, open)
    BY <1>1, <1>2, <2>1, <2>2, PartAppend
  <2>4. Len(f) = Size[build][open] => f = Whole(build, open)
    BY <1>1, <1>2, <2>3, PartWhole
  <2> HIDE DEF f
  <2> QED
    BY <2>2, <2>3, <2>4 DEF PartOf
<1>3. /\ src' \in Trees /\ src'[open] = f
      /\ \A m \in ToSet(Names) \ {open} : src'[m] = src[m]
      /\ \A m \in Regular : src[m] # None => src'[m] # None
  <2>1. src' = [src EXCEPT ![open] = f]
    OBVIOUS
  <2>2. f \in Seq(Builds) \/ (f \in {None, Link} /\ open \in Links)
    BY <1>1, <1>2, NamesApart DEF PartOf
  <2> QED
    BY <1>1, <2>1, <2>2, TreeStep DEF IInv
<1>4. Exporting' /\ Importing' /\ Listed' = Listed
  BY <1>3, DownloadFrame
<1>5. open' = IF open \in Links \/ Len(f) = Size[build][open] THEN None ELSE open
  BY <1>3
<1>6. TypeOK'
  BY <1>1, <1>3, <1>5 DEF IInv, TypeOK, export, import
<1>7. Downloading'
  <2>1. open' \in Regular => PartOf(src'[open'], build, open') /\ Len(src'[open']) < Size[build][open']
    BY <1>1, <1>2, <1>3, <1>5, SizeType, NamesApart DEF PartOf
  <2> QED
    BY <1>1, <1>5, <2>1, NamesApart DEF IInv, Downloading
<1>8. Fresh'
  <2> SUFFICES ASSUME installed = None PROVE Fresh'
    BY DEF Fresh
  <2>1. CASE dpc = "extract"
    BY <1>1, <1>2, <1>3, <1>5, <2>1, NoManifestYet, NamesApart DEF IInv, Fresh
  <2>2. CASE dpc = "manifest"
    BY <1>1, <1>2, <1>3, <2>2, NamesApart DEF IInv, Fresh
  <2> QED
    BY <1>1, <2>1, <2>2
<1>9. Covers'
  <2>1. CASE dpc = "extract"
    BY <1>4, <2>1, NoManifestYet DEF Covers
  <2>2. CASE dpc = "manifest"
    BY <1>3, <1>4, <2>2, NamesApart DEF IInv, Covers, export
  <2> QED
    BY <1>1, <2>1, <2>2
<1>10. Quiet'
  BY <1>1 DEF Quiet
<1> QED
  BY <1>4, <1>6, <1>7, <1>8, <1>9, <1>10 DEF IInv

LEMMA StopDownloadStep == IInv /\ StopDownload => IInv'
<1> SUFFICES ASSUME IInv, StopDownload PROVE IInv'
  OBVIOUS
<1> USE DEF StopDownload, export, import
<1>1. Exporting' /\ Importing' /\ Listed' = Listed
  BY DownloadFrame
<1>2. TypeOK'
  BY NamesApart DEF IInv, TypeOK
<1>3. Downloading'
  BY NamesApart DEF IInv, Downloading
<1>4. Fresh' /\ Covers'
  BY <1>1, NoManifestYet DEF IInv, Fresh, Covers
<1>5. Quiet'
  BY DEF Quiet
<1> QED
  BY <1>1, <1>2, <1>3, <1>4, <1>5 DEF IInv

-----------------------------------------------------------------------------
(***************************************************************************)
(* The steps of an export.                                                 *)
(***************************************************************************)

\* What an export leaves alone; no import has begun.
LEMMA ExportFrame ==
    ASSUME IInv, epc \notin Terminal, UNCHANGED <<installed, src, download, import>>
    PROVE  Downloading' /\ Fresh' /\ Importing' /\ pos = 0
<1>1. ipc = "start" /\ pos = 0
  BY DEF IInv, Importing
<1>2. Downloading'
  BY DEF IInv, Downloading, download
<1>3. Fresh'
  BY DEF IInv, Fresh, download
<1>4. Importing'
  BY <1>1 DEF Importing, import
<1> QED
  BY <1>1, <1>2, <1>3, <1>4

\* The files of a directory that was empty, once the manifest is there.
LEMMA FilesWithManifest ==
    ASSUME IInv, installed = None, src[Manifest] # None
    PROVE  /\ build \in Builds
           /\ \A n \in Regular : src[n] # None /\ PartOf(src[n], build, n)
           /\ \A n \in Regular \ {Manifest} : Len(src[n]) = Size[build][n]
<1>1. /\ build \in Builds /\ PartOf(src[Manifest], build, Manifest)
      /\ \A n \in Regular \ {Manifest} : src[n] = Whole(build, n)
  BY DEF IInv, Fresh
<1>2. \A n \in Regular \ {Manifest} : PartOf(src[n], build, n) /\ Len(src[n]) = Size[build][n]
  BY <1>1, WholeType
<1>3. \A n \in Regular : src[n] # None
  BY <1>1, <1>2, NamesApart DEF PartOf
<1> QED
  BY <1>1, <1>2, <1>3

LEMMA ReadNamesStep == IInv /\ ReadNames => IInv'
<1> SUFFICES ASSUME IInv, ReadNames PROVE IInv'
  OBVIOUS
<1> USE DEF ReadNames
<1>1. Downloading' /\ Fresh' /\ Importing'
  BY ExportFrame DEF Terminal
<1>2. tar = <<>> /\ Len(tar) = 0 /\ Listed' = todo'
  BY DEF IInv, Exporting, Listed
<1>3. TypeOK'
  BY <1>2 DEF IInv, TypeOK, download, import
<1>4. Exporting'
  BY <1>2 DEF Exporting
<1>5. Covers'
  BY <1>2, FilesWithManifest, NamesApart DEF Covers
<1>6. Quiet'
  BY <1>2 DEF Quiet
<1> QED
  BY <1>1, <1>3, <1>4, <1>5, <1>6 DEF IInv

LEMMA StatStep == IInv /\ Stat => IInv'
<1> SUFFICES ASSUME IInv, epc = "next", ~Short, NEW n \in todo, src[n] # None,
                    todo' = todo \ {n},
                    tar' = Append(tar, [name |-> n, data |-> <<>>,
                                        size |-> IF n \in Links THEN 0 ELSE Len(src[n])]),
                    epc' = IF n \in Links THEN "next" ELSE "open",
                    UNCHANGED <<installed, src, download, bundle, import>>
             PROVE  IInv'
  BY DEF Stat
<1> DEFINE size == IF n \in Links THEN 0 ELSE Len(src[n])
           e == [name |-> n, data |-> <<>>, size |-> size]
<1>1. Downloading' /\ Fresh' /\ Importing' /\ pos = 0
  BY ExportFrame DEF Terminal
<1>2. n \in ToSet(Names) /\ (n \in Regular => src[n] \in Seq(Builds)) /\ size \in Nat
  BY TreeFile, NamesApart DEF IInv, TypeOK
<1>3. /\ tar' \in Seq(Entries) /\ Len(tar') = Len(tar) + 1 /\ Len(tar) \in Nat
      /\ tar'[Len(tar')] = e /\ \A k \in 1 .. Len(tar) : tar'[k] = tar[k]
      /\ \A k \in 1 .. Len(tar) : tar[k] \in Entries
  <2>1. e \in Entries
    BY <1>2 DEF Entries
  <2> QED
    BY <2>1 DEF IInv, TypeOK
<1>4. e.name = n /\ e.size = size /\ e.data = <<>> /\ Len(e.data) = 0
  OBVIOUS
<1> HIDE DEF e
<1>5. \A k \in 1 .. Len(tar) : Len(tar[k].data) = tar[k].size
  <2>1. Len(tar) # 0 => Len(tar[Len(tar)].data) = tar[Len(tar)].size
    BY <1>3 DEF IInv, TypeOK, Short, Last, Entries
  <2> QED
    BY <1>3, <2>1 DEF IInv, TypeOK
<1>6. TypeOK'
  BY <1>1, <1>2, <1>3, <1>4, <1>5 DEF IInv, TypeOK, download, import
<1>7. Listed' = Listed
  BY <1>3, <1>4 DEF Listed
<1>8. Exporting'
  BY <1>2, <1>3, <1>4, NamesApart DEF IInv, Exporting
<1>9. Covers'
  <2> SUFFICES ASSUME installed = None, Manifest \in Listed PROVE Covers'
    BY <1>7 DEF Covers
  <2>1. /\ src[Manifest] # None /\ Regular \subseteq Listed
        /\ \A k \in 1 .. Len(tar) : tar[k].name \in Regular =>
              /\ PartOf(tar[k].data, build, tar[k].name)
              /\ tar[k].name # Manifest => tar[k].size = Size[build][tar[k].name]
    BY DEF IInv, Covers
  <2>2. n \in Regular => PartOf(e.data, build, n) /\ (n # Manifest => e.size = Size[build][n])
    BY <1>4, <2>1, FilesWithManifest, SizeType, NamesApart DEF PartOf
  <2>3. n \notin Regular \/ epc' = "open"
    BY <1>2, NamesApart
  <2> QED
    BY <1>3, <1>4, <1>5, <1>7, <2>1, <2>2, <2>3 DEF Covers, download
<1>10. Quiet'
  <2>1. n \in Regular => Prefix(e.data, src[n]) /\ e.size = Len(src[n])
    BY <1>2, <1>4, NamesApart DEF Prefix
  <2>2. n \notin Regular \/ epc' = "open"
    BY <1>2, NamesApart
  <2> QED
    BY <1>3, <1>4, <1>5, <1>7, <2>1, <2>2 DEF IInv, Quiet, download
<1> QED
  BY <1>1, <1>6, <1>8, <1>9, <1>10 DEF IInv

\* A step that leaves names and tar alone, and does not end an entry or the
\* export.
LEMMA TarFrame ==
    ASSUME IInv, epc \notin Terminal, epc' \in {"copy", "failed", "killed"},
           epc' = "copy" => epc = "open", epc' = "killed" => epc # "start",
           UNCHANGED <<installed, src, download, todo, tar, import>>,
           bundle' \in {"open", "whole", "cut"}
    PROVE  IInv'
<1>1. Downloading' /\ Fresh' /\ Importing'
  BY ExportFrame
<1>2. Listed' = Listed
  BY DEF Listed
<1>3. TypeOK'
  BY DEF IInv, TypeOK, Terminal, download, import
<1>4. Exporting'
  BY DEF IInv, Exporting
<1>5. Covers' /\ Quiet'
  BY <1>2 DEF IInv, Covers, Quiet, Terminal, download
<1> QED
  BY <1>1, <1>3, <1>4, <1>5 DEF IInv

LEMMA CopyStep == IInv /\ Copy => IInv'
<1> SUFFICES ASSUME IInv, Copy PROVE IInv'
  OBVIOUS
<1> USE DEF Copy
<1> DEFINE N == Len(tar)
           e == tar[N]
           f == src[e.name]
<1>1. Downloading' /\ Fresh' /\ Importing' /\ pos = 0
  BY ExportFrame DEF Terminal
<1>2. /\ N \in Nat /\ N > 0 /\ e = Last(tar) /\ e.name \in Regular
      /\ f \in Seq(Builds) /\ e \in Entries /\ e.data \in Seq(Builds) /\ e.size \in Nat
      /\ \A k \in 1 .. N : tar[k] \in Entries /\ Len(tar[k].data) <= tar[k].size
      /\ \A k \in 1 .. N - 1 : Len(tar[k].data) = tar[k].size
  <2>1. N \in Nat /\ N > 0 /\ e \in Entries /\ e.name \in Regular /\ f # None
    BY DEF IInv, TypeOK, Exporting
  <2>2. f \in Seq(Builds)
    BY <2>1, TreeFile DEF IInv, TypeOK
  <2>3. e.data \in Seq(Builds) /\ e.size \in Nat /\ e = Last(tar)
    BY <2>1 DEF Entries, Last
  <2> QED
    BY <2>1, <2>2, <2>3 DEF IInv, TypeOK
<1>3. CASE Len(e.data) < Len(f)
  <2> DEFINE d == Append(e.data, f[Len(e.data) + 1])
  <2>1. /\ Len(e.data) < e.size /\ epc' = epc /\ epc = "copy"
        /\ tar' = [tar EXCEPT ![N].data = d]
    BY <1>2, <1>3
  <2>2. d \in Seq(Builds) /\ Len(d) = Len(e.data) + 1
    BY <1>2, <1>3
  <2>3. /\ tar' \in Seq(Entries) /\ Len(tar') = N
        /\ tar'[N].name = e.name /\ tar'[N].size = e.size /\ tar'[N].data = d
        /\ \A k \in 1 .. N : k # N => tar'[k] = tar[k]
        /\ \A k \in 1 .. N : tar'[k].name = tar[k].name
    <3>1. tar' = [tar EXCEPT ![N] = [e EXCEPT !.data = d]]
      BY <2>1
    <3>2. [e EXCEPT !.data = d] \in Entries
      BY <1>2, <2>2 DEF Entries
    <3>3. [e EXCEPT !.data = d].name = e.name /\ [e EXCEPT !.data = d].size = e.size
          /\ [e EXCEPT !.data = d].data = d
      BY <1>2 DEF Entries
    <3> QED
      BY <1>2, <3>1, <3>2, <3>3 DEF IInv, TypeOK
  <2> HIDE DEF d
  <2>4. TypeOK'
    BY <1>2, <2>1, <2>2, <2>3 DEF IInv, TypeOK, download, import
  <2>5. Listed' = Listed
    BY <2>3 DEF Listed
  <2>6. Exporting'
    BY <1>2, <2>1, <2>3 DEF IInv, Exporting
  <2>7. Covers'
    <3> SUFFICES ASSUME installed = None, Manifest \in Listed PROVE Covers'
      BY <2>5 DEF Covers
    <3>1. src[Manifest] # None /\ PartOf(e.data, build, e.name)
      BY <1>2 DEF IInv, Covers
    <3>2. PartOf(f, build, e.name) /\ build \in Builds
      BY <1>2, <3>1, FilesWithManifest
    <3>3. PartOf(d, build, e.name)
      <4>1. f[Len(e.data) + 1] = build
        <5>1. Len(e.data) + 1 \in 1 .. Len(f)
          BY <1>2, <1>3
        <5> QED
          BY <3>2, <5>1 DEF PartOf
      <4>2. Len(e.data) < Size[build][e.name]
        BY <1>2, <1>3, <3>2, SizeType DEF PartOf
      <4> QED
        BY <1>2, <3>1, <3>2, <4>1, <4>2, PartAppend DEF d
    <3> QED
      BY <1>2, <2>1, <2>3, <2>5, <3>3 DEF IInv, Covers, download
  <2>8. Quiet'
    <3> SUFFICES ASSUME dpc = "idle" PROVE Quiet'
      BY DEF Quiet, download
    <3>1. Prefix(e.data, f) /\ e.size = Len(f)
      <4>1. Quiet /\ N \in 1 .. Len(tar)
        BY <1>2 DEF IInv
      <4> QED
        BY <1>2, <4>1 DEF Quiet
    <3>2. Prefix(d, f)
      BY <1>2, <1>3, <3>1, PrefixAppend DEF d
    <3> QED
      BY <1>2, <2>1, <2>3, <2>5, <3>1, <3>2 DEF IInv, Quiet, download
  <2> QED
    BY <1>1, <2>4, <2>6, <2>7, <2>8 DEF IInv
<1>4. CASE ~(Len(e.data) < Len(f))
  <2>1. epc' = "next" /\ UNCHANGED <<tar, todo>>
    BY <1>2, <1>4
  <2>2. TypeOK' /\ Exporting' /\ Listed' = Listed
    BY <2>1 DEF IInv, TypeOK, Exporting, Listed, download, import
  <2>3. Covers'
    <3> SUFFICES ASSUME installed = None, Manifest \in Listed PROVE Covers'
      BY <2>2 DEF Covers
    <3>1. src[Manifest] # None /\ (e.name # Manifest => e.size = Size[build][e.name])
      BY <1>2 DEF IInv, Covers
    <3>2. e.name # Manifest => Len(e.data) = e.size
      <4>1. e.name # Manifest => Len(f) = e.size
        BY <1>2, <3>1, FilesWithManifest
      <4>2. Len(e.data) <= e.size /\ Len(e.data) \in Nat /\ Len(f) \in Nat
        BY <1>2
      <4> QED
        BY <1>4, <4>1, <4>2, <1>2
    <3> QED
      BY <1>2, <2>1, <2>2, <3>2 DEF IInv, Covers, download
  <2>4. Quiet'
    <3> SUFFICES ASSUME dpc = "idle" PROVE Quiet'
      BY DEF Quiet, download
    <3>1. Len(e.data) = e.size
      BY <1>2, <1>4 DEF IInv, Quiet
    <3> QED
      BY <1>2, <2>1, <2>2, <3>1 DEF IInv, Quiet, download
  <2> QED
    BY <1>1, <2>2, <2>3, <2>4 DEF IInv
<1> QED
  BY <1>3, <1>4

LEMMA ExportEndsStep == IInv /\ ExportEnds => IInv'
<1> SUFFICES ASSUME IInv, ExportEnds PROVE IInv'
  OBVIOUS
<1> USE DEF ExportEnds
<1>1. Downloading' /\ Fresh' /\ Importing'
  BY ExportFrame DEF Terminal
<1>2. Listed' = Listed
  BY DEF Listed
<1>3. TypeOK'
  BY DEF IInv, TypeOK, Terminal, CloseBundle, download, import
<1>4. Exporting'
  BY DEF IInv, Exporting
<1>5. Covers' /\ Quiet'
  BY <1>2 DEF IInv, Covers, Quiet, download
<1> QED
  BY <1>1, <1>3, <1>4, <1>5 DEF IInv

-----------------------------------------------------------------------------
(***************************************************************************)
(* The steps of an import.                                                 *)
(***************************************************************************)

\* What an import leaves alone.
LEMMA ImportFrame ==
    ASSUME IInv, UNCHANGED <<installed, src, download, export>>
    PROVE  /\ Downloading' /\ Fresh' /\ Exporting' /\ Covers' /\ Quiet'
           /\ tar' = tar /\ Len(tar) \in Nat
           /\ (dst' \in Trees /\ ipc' \in {"start", "next", "write"} \cup Terminal
               /\ pos' \in 0 .. Len(tar) => TypeOK')
<1>1. Downloading' /\ Fresh'
  BY DEF IInv, Downloading, Fresh, download
<1>2. Exporting'
  BY DEF IInv, Exporting, export
<1>3. Listed' = Listed
  BY DEF Listed, export
<1>4. Covers' /\ Quiet'
  BY <1>3 DEF IInv, Covers, Quiet, download, export
<1>5. dst' \in Trees /\ ipc' \in {"start", "next", "write"} \cup Terminal
      /\ pos' \in 0 .. Len(tar) => TypeOK'
  BY DEF IInv, TypeOK, download, export
<1> QED
  BY <1>1, <1>2, <1>4, <1>5 DEF IInv, TypeOK, export

LEMMA StartImportStep == IInv /\ StartImport => IInv'
<1> SUFFICES ASSUME IInv, StartImport PROVE IInv'
  OBVIOUS
<1>1. Importing'
  BY DEF IInv, Importing, StartImport, export
<1>2. TypeOK'
  BY ImportFrame DEF StartImport, IInv, TypeOK
<1> QED
  BY <1>1, <1>2, ImportFrame DEF IInv, StartImport

LEMMA NextEntryStep == IInv /\ NextEntry => IInv'
<1> SUFFICES ASSUME IInv, NextEntry PROVE IInv'
  OBVIOUS
<1> DEFINE n == tar[pos + 1].name
           f == IF n \in Links THEN None ELSE <<>>
<1>1. /\ pos \in Nat /\ Len(tar) \in Nat /\ pos < Len(tar) /\ pos' = pos + 1 /\ ipc = "next"
      /\ dst' = [dst EXCEPT ![n] = f] /\ ipc' = (IF n \in Links THEN "next" ELSE "write")
      /\ UNCHANGED <<installed, src, download, export>>
  BY DEF NextEntry, IInv, TypeOK
<1>2. n \in ToSet(Names) /\ \A k \in 1 .. Len(tar) : tar[k].name \in ToSet(Names)
  <2>1. \A k \in 1 .. Len(tar) : tar[k] \in Entries
    BY DEF IInv, TypeOK
  <2> QED
    BY <1>1, <2>1 DEF Entries
<1>3. dst' \in Trees /\ dst'[n] = f /\ \A m \in ToSet(Names) \ {n} : dst'[m] = dst[m]
  <2>1. <<>> \in Seq(Builds)
    OBVIOUS
  <2>2. dst' \in Trees
    BY <1>1, <1>2, <2>1, TreeExcept DEF IInv, TypeOK
  <2> QED
    BY <1>1, <1>2, <2>2 DEF IInv, TypeOK, Trees
<1>4. \A k \in 1 .. pos : tar[k].name # n
  BY <1>1 DEF IInv, Exporting
<1>5. tar' = tar /\ TypeOK'
  BY <1>1, <1>3, ImportFrame
<1>6. Importing'
  <2>1. \A k \in 1 .. pos : tar[k].name \in Regular =>
            Len(tar[k].data) = tar[k].size /\ dst'[tar[k].name] = tar[k].data
    BY <1>1, <1>2, <1>3, <1>4 DEF IInv, Importing
  <2>2. ipc' = "write" => n \in Regular /\ dst'[n] = <<>>
    BY <1>1, <1>2, <1>3, NamesApart
  <2>3. Prefix(<<>>, tar[pos + 1].data)
    BY <1>1 DEF Prefix, IInv, TypeOK, Entries
  <2>4. epc' \in Terminal /\ (n \in Links => n \notin Regular)
    BY <1>1, <1>2, NamesApart DEF IInv, Importing, export
  <2> QED
    BY <1>1, <1>5, <2>1, <2>2, <2>3, <2>4, NamesApart DEF Importing
<1> QED
  BY <1>1, <1>5, <1>6, ImportFrame DEF IInv

LEMMA WriteEntryStep == IInv /\ WriteEntry => IInv'
<1> SUFFICES ASSUME IInv, WriteEntry PROVE IInv'
  OBVIOUS
<1> DEFINE e == tar[pos]
           f == dst[e.name]
<1>1. /\ pos \in 1 .. Len(tar) /\ Len(tar) \in Nat /\ pos' = pos /\ ipc = "write"
      /\ UNCHANGED <<installed, src, download, export>>
      /\ IF Len(f) < e.size
         THEN /\ Len(f) < Len(e.data) /\ dst' = [dst EXCEPT ![e.name] = Append(f, e.data[Len(f) + 1])]
              /\ ipc' = ipc
         ELSE ipc' = "next" /\ dst' = dst
  BY DEF WriteEntry, IInv, TypeOK, Importing
<1>2. /\ e.name \in Regular /\ Prefix(f, e.data)
      /\ e.data \in Seq(Builds) /\ e.size \in Nat /\ Len(e.data) <= e.size
      /\ f \in Seq(Builds)
      /\ epc \in Terminal
  <2>1. e.name \in Regular /\ Prefix(f, e.data) /\ f # None /\ epc \in Terminal
    BY <1>1 DEF IInv, Importing
  <2>2. f \in Seq(Builds)
    BY <2>1, TreeFile DEF IInv, TypeOK
  <2>3. e \in Entries /\ Len(e.data) <= e.size
    BY <1>1 DEF IInv, TypeOK
  <2> QED
    BY <2>1, <2>2, <2>3 DEF Entries
<1>3. \A k \in 1 .. pos - 1 : tar[k].name \in Regular =>
          /\ Len(tar[k].data) = tar[k].size /\ dst[tar[k].name] = tar[k].data
          /\ tar[k].name # e.name
  BY <1>1 DEF IInv, Importing, Exporting
<1>4. CASE Len(f) < e.size
  <2> DEFINE d == Append(f, e.data[Len(f) + 1])
  <2>1. d \in Seq(Builds) /\ Prefix(d, e.data)
    BY <1>1, <1>2, <1>4, PrefixAppend
  <2>2. dst' = [dst EXCEPT ![e.name] = d] /\ ipc' = ipc
    BY <1>1, <1>4
  <2> HIDE DEF d
  <2>3. dst' \in Trees /\ dst'[e.name] = d
        /\ \A m \in ToSet(Names) \ {e.name} : dst'[m] = dst[m]
    <3>1. e.name \in ToSet(Names)
      BY <1>2, NamesApart
    <3>2. dst' \in Trees
      BY <2>1, <2>2, <3>1, TreeExcept DEF IInv, TypeOK
    <3> QED
      BY <2>2, <3>1, <3>2 DEF IInv, TypeOK, Trees
  <2>4. tar' = tar /\ TypeOK'
    BY <1>1, <2>2, <2>3, ImportFrame
  <2>5. d # None /\ epc' \in Terminal
    BY <1>1, <1>2, <2>1, NamesApart DEF export
  <2>6. Importing'
    BY <1>1, <1>2, <1>3, <2>1, <2>2, <2>3, <2>4, <2>5, NamesApart DEF Importing
  <2> QED
    BY <1>1, <2>4, <2>6, ImportFrame DEF IInv
<1>5. CASE ~(Len(f) < e.size)
  <2>1. ipc' = "next" /\ dst' = dst
    BY <1>1, <1>5
  <2>2. Len(f) = Len(e.data) /\ Len(e.data) = e.size
    BY <1>2, <1>5 DEF Prefix
  <2>3. f = e.data
    BY <1>2, <2>2, PrefixWhole
  <2>4. tar' = tar /\ TypeOK'
    BY <1>1, <2>1, ImportFrame DEF IInv, TypeOK
  <2>5. Importing'
    BY <1>1, <1>2, <1>3, <2>1, <2>2, <2>3, <2>4 DEF Importing, export
  <2> QED
    BY <1>1, <2>4, <2>5, ImportFrame DEF IInv
<1> QED
  BY <1>4, <1>5

\* An import that ends, or fails.
LEMMA ImportStops ==
    ASSUME IInv, UNCHANGED <<installed, src, download, export, pos, dst>>, ipc \in {"next", "write"},
           ipc' = "failed" \/ (ipc' = "done" /\ ipc = "next" /\ pos = Len(tar))
    PROVE  IInv'
<1>1. Importing'
  BY DEF IInv, Importing, export
<1>2. TypeOK'
  BY ImportFrame DEF IInv, TypeOK, Terminal
<1> QED
  BY <1>1, <1>2, ImportFrame DEF IInv

-----------------------------------------------------------------------------
(***************************************************************************)
(* The theorems.                                                           *)
(***************************************************************************)

\* No step of a download, an export or an import, and no error or kill of one,
\* leaves the invariant.
LEMMA InvStep == IInv /\ [Next]_vars => IInv'
<1> SUFFICES ASSUME IInv, [Next]_vars PROVE IInv'
  OBVIOUS
<1>1. CASE Download
  BY <1>1, StartDownloadStep, OpenFileStep, OpenManifestStep, WriteBlockStep, StopDownloadStep
     DEF Download
<1>2. CASE Export
  <2>1. CASE Open
    BY <2>1, TarFrame DEF Open, Terminal, IInv, TypeOK
  <2>2. CASE ExportFails
    BY <2>2, TarFrame DEF ExportFails, CloseBundle, Terminal
  <2> QED
    BY <1>2, <2>1, <2>2, ReadNamesStep, StatStep, CopyStep, ExportEndsStep DEF Export
<1>3. CASE ExportError
  BY <1>3, TarFrame DEF ExportError, CloseBundle, Terminal
<1>4. CASE KillExport
  BY <1>4, TarFrame DEF KillExport, Terminal
<1>5. CASE Import
  <2>1. CASE ImportFails
    BY <2>1, ImportStops DEF ImportFails
  <2>2. CASE ImportEnds
    BY <2>2, ImportStops DEF ImportEnds
  <2> QED
    BY <1>5, <2>1, <2>2, StartImportStep, NextEntryStep, WriteEntryStep DEF Import
<1>6. CASE ImportError
  BY <1>6, ImportStops DEF ImportError
<1>7. CASE Rest \/ UNCHANGED vars
  <2>1. UNCHANGED <<installed, src, download, export, import>>
    BY <1>7 DEF Rest, vars
  <2>2. Importing'
    BY <2>1 DEF IInv, Importing, export, import
  <2>3. TypeOK'
    BY <2>1, ImportFrame DEF IInv, TypeOK, import
  <2> QED
    BY <2>1, <2>2, <2>3, ImportFrame DEF IInv
<1> QED
  BY <1>1, <1>2, <1>3, <1>4, <1>5, <1>6, <1>7 DEF Next

\* The invariant holds in every reachable state, however download, export and
\* import interleave and wherever they stop.
THEOREM Invariance == Spec => []IInv
  BY InvInit, InvStep, PTL DEF Spec

\* The types, with what archive/tar sees to: only the last entry is ever short.
THEOREM TypeCorrect == Spec => []TypeOK
<1>1. IInv => TypeOK
  BY DEF IInv
<1> QED
  BY <1>1, Invariance, PTL

\* Of a directory that was empty, a finished bundle that holds the manifest
\* holds every file of the build it is of, whenever the export ran.
THEOREM ManifestMeansAll == Spec => []ManifestCoversBundle
<1>1. IInv => ManifestCoversBundle
  <2> SUFFICES ASSUME IInv, installed = None, epc = "done", NEW k \in 1 .. Len(tar),
                      tar[k].name = Manifest, tar[k].data # <<>>, NEW n \in Regular \ {Manifest}
               PROVE  \E j \in 1 .. Len(tar) :
                          tar[j].name = n /\ tar[j].data = Whole(tar[k].data[1], n)
    BY DEF ManifestCoversBundle
  <2>1. Manifest \in Listed /\ todo = {}
    BY DEF IInv, Exporting, Listed
  <2>2. /\ Regular \subseteq Listed
        /\ \A j \in 1 .. Len(tar) : tar[j].name \in Regular =>
              /\ PartOf(tar[j].data, build, tar[j].name)
              /\ tar[j].name # Manifest =>
                    tar[j].size = Size[build][tar[j].name] /\ Len(tar[j].data) = tar[j].size
    BY <2>1 DEF IInv, Covers
  <2>3. build \in Builds
    BY <2>1, FilesWithManifest DEF IInv, Covers
  <2>4. PartOf(tar[k].data, build, Manifest) /\ tar[k].data[1] = build
    <3>1. PartOf(tar[k].data, build, Manifest)
      BY <2>2, NamesApart
    <3>2. 1 \in 1 .. Len(tar[k].data)
      BY <3>1 DEF PartOf
    <3> QED
      BY <3>1, <3>2 DEF PartOf
  <2>5. PICK j \in 1 .. Len(tar) : tar[j].name = n
    BY <2>1, <2>2 DEF Listed
  <2> QED
    BY <2>2, <2>3, <2>4, <2>5, PartWhole
<1> QED
  BY <1>1, Invariance, PTL

\* With no download under way, two commands that succeed carry every regular
\* file over, block for block, whatever the other machine had.
THEOREM QuietRoundTrip == Spec => []RoundTrip
<1>1. IInv => RoundTrip
  <2> SUFFICES ASSUME IInv, ipc = "done", epc = "done", dpc = "idle",
                      NEW n \in Regular, src[n] # None
               PROVE  dst[n] = src[n]
    BY DEF RoundTrip
  <2>1. PICK k \in 1 .. Len(tar) : tar[k].name = n
    BY NamesApart DEF IInv, Quiet, Exporting, Listed
  <2>2. dst[n] = tar[k].data /\ Len(tar[k].data) = tar[k].size
    BY <2>1 DEF IInv, Importing
  <2>3. Prefix(tar[k].data, src[n]) /\ tar[k].size = Len(src[n])
    BY <2>1 DEF IInv, Quiet
  <2>4. src[n] \in Seq(Builds) /\ tar[k].data \in Seq(Builds)
    <3>1. src \in Trees /\ tar[k] \in Entries
      BY DEF IInv, TypeOK
    <3> QED
      BY <3>1, TreeFile DEF Entries
  <2> QED
    BY <2>2, <2>3, <2>4, PrefixWhole
<1> QED
  BY <1>1, Invariance, PTL

\* An import that succeeds took every regular file of the bundle over in full,
\* however the export that made it ended.
THEOREM CompleteImport == Spec => []ImportIsComplete
<1>1. IInv => ImportIsComplete
  BY DEF IInv, Importing, ImportIsComplete
<1> QED
  BY <1>1, Invariance, PTL

-----------------------------------------------------------------------------
(***************************************************************************)
(* An import that fails: what it has changed.                              *)
(***************************************************************************)

\* The entries an import has begun are all it has changed, and of the last it
\* has a beginning.
Confined ==
    /\ \E b \in Builds \cup {None} : \A n \in Regular :
          dst[n] = Dir(b)[n] \/ \E k \in 1 .. pos : tar[k].name = n
    /\ pos > 0 /\ tar[pos].name \in Regular =>
          dst[tar[pos].name] \in Seq(Builds) /\ Prefix(dst[tar[pos].name], tar[pos].data)

\* A bundle no longer changes when an import has begun an entry of it.
LEMMA ConfinedFrame ==
    ASSUME IInv, Confined, UNCHANGED <<pos, dst>>, tar' = tar \/ epc \notin Terminal
    PROVE  Confined'
<1>1. CASE tar' = tar
  BY <1>1 DEF Confined
<1>2. CASE epc \notin Terminal
  <2>1. pos = 0
    BY <1>2 DEF IInv, Importing
  <2> QED
    BY <2>1 DEF Confined
<1> QED
  BY <1>1, <1>2

\* An import begins an entry: no earlier one has its name.
LEMMA ConfinedNext == IInv /\ Confined /\ NextEntry => Confined'
<1> SUFFICES ASSUME IInv, Confined, NextEntry PROVE Confined'
  OBVIOUS
<1> DEFINE n == tar[pos + 1].name
           f == IF n \in Links THEN None ELSE <<>>
<1>1. /\ pos \in Nat /\ Len(tar) \in Nat /\ pos < Len(tar) /\ pos' = pos + 1 /\ tar' = tar
      /\ dst' = [dst EXCEPT ![n] = f]
  BY DEF NextEntry, IInv, TypeOK, export
<1>2. tar[pos + 1] \in Entries
  BY <1>1 DEF IInv, TypeOK
<1>3. n \in ToSet(Names) /\ tar[pos + 1].data \in Seq(Builds)
  BY <1>2 DEF Entries
<1>4. dst'[n] = f /\ \A m \in ToSet(Names) \ {n} : dst'[m] = dst[m]
  BY <1>1, <1>3 DEF IInv, TypeOK, Trees
<1>5. PICK b \in Builds \cup {None} : \A m \in Regular :
          dst[m] = Dir(b)[m] \/ \E k \in 1 .. pos : tar[k].name = m
  BY DEF Confined
<1>6. ASSUME NEW m \in Regular
      PROVE  dst'[m] = Dir(b)[m] \/ \E k \in 1 .. pos' : tar'[k].name = m
  <2>1. CASE m = n
    BY <1>1, <2>1
  <2>2. CASE m # n
    BY <1>1, <1>4, <1>5, <2>2, NamesApart
  <2> QED
    BY <2>1, <2>2
<1>7. n \in Regular => dst'[n] \in Seq(Builds) /\ Prefix(dst'[n], tar[pos + 1].data)
  <2>1. <<>> \in Seq(Builds) /\ Prefix(<<>>, tar[pos + 1].data)
    BY <1>3 DEF Prefix
  <2> QED
    BY <1>3, <1>4, <2>1, NamesApart
<1> QED
  BY <1>1, <1>6, <1>7 DEF Confined

\* A block more, of the entry an import is in.
LEMMA ConfinedWrite == IInv /\ Confined /\ WriteEntry => Confined'
<1> SUFFICES ASSUME IInv, Confined, WriteEntry PROVE Confined'
  OBVIOUS
<1> DEFINE e == tar[pos]
           f == dst[e.name]
           d == Append(f, e.data[Len(f) + 1])
<1>1. /\ pos \in 1 .. Len(tar) /\ pos' = pos /\ tar' = tar /\ e.name \in Regular
      /\ (Len(f) < Len(e.data) /\ dst' = [dst EXCEPT ![e.name] = d]) \/ dst' = dst
  BY DEF WriteEntry, IInv, TypeOK, Importing, export
<1>2. CASE dst' = dst
  BY <1>1, <1>2 DEF Confined
<1>3. CASE Len(f) < Len(e.data) /\ dst' = [dst EXCEPT ![e.name] = d]
  <2>1. e.data \in Seq(Builds) /\ f \in Seq(Builds) /\ Prefix(f, e.data)
    <3>1. e \in Entries
      BY <1>1 DEF IInv, TypeOK
    <3> QED
      BY <1>1, <3>1 DEF Confined, Entries
  <2>2. d \in Seq(Builds) /\ Prefix(d, e.data)
    BY <1>3, <2>1, PrefixAppend
  <2> HIDE DEF d
  <2>3. dst'[e.name] = d /\ \A m \in ToSet(Names) \ {e.name} : dst'[m] = dst[m]
    BY <1>1, <1>3, NamesApart DEF IInv, TypeOK, Trees
  <2>4. PICK b \in Builds \cup {None} : \A m \in Regular :
            dst[m] = Dir(b)[m] \/ \E k \in 1 .. pos : tar[k].name = m
    BY DEF Confined
  <2>5. \A m \in Regular : dst'[m] = Dir(b)[m] \/ \E k \in 1 .. pos : tar[k].name = m
    BY <1>1, <2>3, <2>4, NamesApart
  <2> QED
    BY <1>1, <2>2, <2>3, <2>5 DEF Confined
<1> QED
  BY <1>1, <1>2, <1>3

LEMMA ConfinedInit == Init => Confined
<1> SUFFICES ASSUME Init PROVE Confined
  OBVIOUS
<1>1. pos = 0 /\ \E b \in Builds \cup {None} : dst = Dir(b)
  BY DEF Init
<1> QED
  BY <1>1 DEF Confined

LEMMA ConfinedStep == IInv /\ Confined /\ [Next]_vars => Confined'
<1> SUFFICES ASSUME IInv, Confined, [Next]_vars PROVE Confined'
  OBVIOUS
<1>1. CASE Download
  BY <1>1, ConfinedFrame DEF Download, StartDownload, OpenFile, OpenManifest, WriteBlock,
     StopDownload, export, import
<1>2. CASE Export \/ ExportError \/ KillExport
  <2>1. UNCHANGED <<pos, dst>> /\ (tar' = tar \/ epc \notin Terminal)
    BY <1>2 DEF Export, ReadNames, Stat, Open, Copy, ExportFails, ExportEnds, ExportError,
       KillExport, import, Terminal
  <2> QED
    BY <2>1, ConfinedFrame
<1>3. CASE Import
  BY <1>3, ConfinedFrame, ConfinedNext, ConfinedWrite
     DEF Import, StartImport, ImportFails, ImportEnds, export
<1>4. CASE ImportError \/ Rest \/ UNCHANGED vars
  BY <1>4, ConfinedFrame DEF ImportError, Rest, vars, export, import
<1> QED
  BY <1>1, <1>2, <1>3, <1>4 DEF Next

\* An import that failed, or is at work, has changed nothing but the files of the
\* entries it has begun, and has each of those in full but the last.
THEOREM ImportConfined == Spec => []ImportFailureConfined
<1>1. ASSUME IInv, Confined
      PROVE  ImportFailureConfined
  <2>1. PICK b \in Builds \cup {None} : \A n \in Regular :
            dst[n] = Dir(b)[n] \/ \E k \in 1 .. pos : tar[k].name = n
    BY <1>1 DEF Confined
  <2>2. ASSUME NEW n \in Regular, NEW k \in 1 .. pos, tar[k].name = n
        PROVE  dst[n] = tar[k].data \/ (k = pos /\ IsPrefix(dst[n], tar[k].data))
    <3>1. CASE k < pos
      BY <1>1, <2>2, <3>1 DEF IInv, Importing
    <3>2. CASE k = pos
      <4>1. k \in 1 .. Len(tar)
        BY <1>1, <3>2 DEF IInv, TypeOK
      <4>2. tar[k] \in Entries
        BY <1>1, <4>1 DEF IInv, TypeOK
      <4>3. tar[k].data \in Seq(Builds) /\ dst[n] \in Seq(Builds) /\ Prefix(dst[n], tar[k].data)
        BY <1>1, <2>2, <3>2, <4>1, <4>2 DEF Confined, Entries
      <4> QED
        BY <3>2, <4>3 DEF Prefix, IsPrefix
    <3> QED
      BY <1>1, <3>1, <3>2 DEF IInv, TypeOK
  <2> QED
    BY <2>1, <2>2 DEF ImportFailureConfined
<1>2. Spec => []Confined
  BY ConfinedInit, ConfinedStep, Invariance, PTL DEF Spec
<1> QED
  BY <1>1, <1>2, Invariance, PTL
=============================================================================
