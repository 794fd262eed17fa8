---------------------------- MODULE StoreProofs ----------------------------
(***************************************************************************)
(* Proofs about Store, for any processes, versions, builds, lengths of     *)
(* files and number of blocks: type correctness, the index's lock, what is *)
(* on disk when a manifest exists, a download has reported success or      *)
(* patch uses a version; what the manifest says when no two commands       *)
(* download or patch the same version; and why a .deb stays behind.        *)
(***************************************************************************)
EXTENDS Store, TLAPS

USE RolesAssumption, StoreAssumption

-----------------------------------------------------------------------------
(***************************************************************************)
(* The inductive invariant.                                                *)
(***************************************************************************)

\* Where a process has indexed its version; has read a libc's symbols; its
\* headers; has extracted libc6; and has a download behind it or in hand.
Indexed == {"manifest", "write"}
Read    == {"dlopen", "index"} \cup Indexed
Loaded  == {"symbols"} \cup Read
HasMain == {"debug", "load"} \cup Loaded
InDeb   == {"copy", "read"}
Active  == InDeb \cup {"extract"} \cup HasMain
Before  == {"start", "idopen", "identify", "check", "fetch"}

\* The contents of a file of version v.
BlobsOf(v) == Seq(BodiesOf(v) \cup {Hole})

\* What a process holds, and what the disk and the index hold of a version, is
\* of builds of that version.
OwnBuilds ==
    /\ \A p \in Procs :
        /\ \A k \in Pkgs : /\ from[p][k] \in BodiesOf(Target[p]) \cup {None}
                           /\ data[p][k] \in BodiesOf(Target[p]) \cup {None}
                           /\ inode[p][k] \in BlobsOf(Target[p])
        /\ fd[p] # None => Target[fd[p]] = Target[p]
        /\ id[p] \in BodiesOf(Target[p]) \cup {None}
        /\ syms[p] \in BodiesOf(Target[p]) \cup {None, Torn}
    /\ \A v \in Versions :
        /\ \A k \in Pkgs : deb[v][k] # None => Target[deb[v][k]] = v
        /\ \A f \in Files : libs[v][f] \in BlobsOf(v) \cup {None}
        /\ symtab[v] \in BodiesOf(v) \cup {None, Torn}
        /\ meta[v] \in BodiesOf(v) \cup {None}

\* What only some commands do.
Commands ==
    \A p \in Procs :
        /\ pc[p] \in {"check", "use"} => Role[p] = "patch"
        /\ pc[p] \in {"idopen", "identify"} => Role[p] # "download"
        /\ pc[p] \in Active \cup {"fetch"} => Role[p] # "identify"
        /\ \A k \in Pkgs : data[p][k] # None => Role[p] # "identify"
        /\ pkg[p] = "dbg" => Role[p] = "download"

\* What p has yet to extract of package k.
LeftOf(p, k) == IF pkg[p] = k THEN left[p] ELSE {}

\* How far p has come with its packages.
ProgressOf(p) ==
    /\ pc[p] \in InDeb \cup {"extract"} => from[p][pkg[p]] # None
    /\ pc[p] \in HasMain \/ pkg[p] = "dbg" => from[p]["main"] # None
    /\ pc[p] = "copy" => fd[p] # None
    /\ pkg[p] = "main" => data[p]["dbg"] = None
    /\ pc[p] \in Before \cup InDeb => data[p][pkg[p]] = None
    /\ pc[p] \in Before \cup InDeb \cup {"debug"} => Extracted(p)
    /\ pc[p] = "debug" => pkg[p] = "main"
    /\ pc[p] = "extract" => data[p][pkg[p]] # None
    /\ left[p] \subseteq FilesOf(pkg[p]) \cup {Rest}
    /\ open[p] # None => /\ open[p] \in FilesOf(pkg[p]) \ left[p]
                         /\ data[p][pkg[p]] # None
                         /\ pos[p] < Chunks[data[p][pkg[p]][2]]
    /\ \/ pc[p] \in HasMain \/ pkg[p] = "dbg"
       \/ pc[p] = "done" /\ Role[p] = "download"
       => Finished(p, "main")
    /\ debug[p] => /\ pc[p] \notin Before \cup InDeb \cup {"extract", "debug"}
                   /\ pkg[p] = "dbg" /\ Finished(p, "dbg")
    /\ pc[p] \in Read => syms[p] # None

Progress == \A p \in Procs : ProgressOf(p)

\* A file that was extracted is there.
Placed ==
    /\ \A p \in Procs, k \in Pkgs : data[p][k] # None =>
          \A f \in FilesOf(k) \ LeftOf(p, k) : libs[Target[p]][f] # None
    /\ \A p \in Procs : pc[p] = "use" => HasLibc(Target[p])

\* The blocks of f that q has written since it opened it, of n.
Upto(q, f, n) == IF open[q] = f THEN pos[q] ELSE n

\* How far those who opened f are through it, when it is of build b.
Reached(v, k, f, b) ==
    {Upto(q, f, Chunks[b[2]]) : q \in {r \in writers[v][k] : f \notin LeftOf(r, k)}}

\* What the file s is while only blocks of b are written into it: blocks of b
\* and holes, and the part is whole that one of the writers has been through.
Growing(s, b, reached) ==
    /\ s # None /\ Len(s) <= Chunks[b[2]]
    /\ \A j \in 1 .. Len(s) : s[j] \in {b, Hole}
    /\ \E m \in reached : \A j \in 1 .. m : j <= Len(s) /\ s[j] = b

\* The last extractions that overlapped, and what they make of the files when
\* they are of one build.
Batch(v, k) ==
    LET W == writers[v][k]
    IN  /\ \A q \in W : Target[q] = v /\ data[q][k] # None
        /\ Extracting(v, k) \subseteq W
        /\ \A f \in FilesOf(k) : libs[v][f] # None => W # {}
        /\ \A b \in Bodies : (\A q \in W : data[q][k] = b) =>
              \A f \in FilesOf(k) :
                  Reached(v, k, f, b) # {} => Growing(libs[v][f], b, Reached(v, k, f, b))

Batches == \A v \in Versions, k \in Pkgs : Batch(v, k)

\* The transaction and the manifest are behind those who are past them.
Recorded ==
    \A p \in Procs :
        /\ pc[p] \in Indexed => symtab[Target[p]] # None
        /\ pc[p] = "write" => prov[Target[p]] # None
        /\ pc[p] = "done" /\ Role[p] = "download" =>
              symtab[Target[p]] # None /\ prov[Target[p]] # None

IInv == /\ TypeOK /\ LockDiscipline /\ OwnBuilds /\ Commands /\ Progress
        /\ Placed /\ Batches /\ Recorded /\ IndexedBeforeManifest

\* Every initial state satisfies it.
LEMMA InvInit == Init => IInv
<1> SUFFICES ASSUME Init PROVE IInv
  OBVIOUS
<1> USE DEF Init
<1>0. <<>> \in Blobs /\ \A v : <<>> \in BlobsOf(v)
  BY DEF Blobs, BlobsOf
<1>1. TypeOK
  BY <1>0 DEF TypeOK, PcValues, Terminal, Waiting, Holding, Pkgs
<1>2. LockDiscipline /\ Commands
  BY DEF LockDiscipline, Commands, Holding, Active, HasMain, InDeb, Loaded, Read, Indexed
<1>3. OwnBuilds
  BY <1>0 DEF OwnBuilds
<1>4. Progress
  BY DEF Progress, ProgressOf, Active, HasMain, InDeb, Loaded, Read, Indexed, Before, Extracted, FilesOf, Pkgs
<1>5. Recorded /\ IndexedBeforeManifest
  BY DEF Recorded, IndexedBeforeManifest, Indexed
<1>6. \A k \in Pkgs : FilesOf(k) \subseteq Files
  BY DEF Files
<1>7. Placed /\ Batches
  BY <1>6 DEF Placed, Batches, Batch, Extracting, Reached
<1> QED
  BY <1>1, <1>2, <1>3, <1>4, <1>5, <1>7 DEF IInv
-----------------------------------------------------------------------------
(***************************************************************************)
(* Lemmas about the data.                                                  *)
(***************************************************************************)

\* A body is the build of one version only, and its files have some length.
LEMMA BodiesFacts ==
    /\ \A v, w, b : b \in BodiesOf(v) /\ b \in BodiesOf(w) => v = w
    /\ \A v \in Versions : BodiesOf(v) \subseteq Bodies
    /\ \A b \in Bodies : /\ Chunks[b[2]] \in Nat \ {0}
                         /\ b # None /\ b # Torn /\ b # Hole
BY DEF BodiesOf, Bodies

\* The two packages have no file in common.
LEMMA FilesFacts ==
    /\ Pkgs = {"main", "dbg"}
    /\ \A k \in Pkgs : FilesOf(k) \subseteq Files
    /\ \A k, l \in Pkgs : \A f : f \in FilesOf(k) /\ f \in FilesOf(l) => k = l
    /\ "libc" \in FilesOf("main") /\ "ld" \in FilesOf("main") /\ "libc" \in Files
    /\ \A k \in Pkgs : Rest \notin FilesOf(k) /\ None \notin FilesOf(k)
    /\ Rest \notin Files
BY DEF Pkgs, FilesOf, Files, Rest

\* What PutAt returns.
LEMMA PutAtFacts ==
    ASSUME NEW S, NEW s \in Seq(S), Hole \in S, NEW j \in Nat \ {0}, NEW b \in S
    PROVE  /\ PutAt(s, j, b) \in Seq(S)
           /\ Len(PutAt(s, j, b)) = IF Len(s) < j THEN j ELSE Len(s)
           /\ \A i \in 1 .. Len(PutAt(s, j, b)) :
                 PutAt(s, j, b)[i] = IF i = j THEN b ELSE IF i <= Len(s) THEN s[i] ELSE Hole
<1> DEFINE m == IF Len(s) < j THEN j ELSE Len(s)
           e(i) == IF i = j THEN b ELSE IF i <= Len(s) THEN s[i] ELSE Hole
<1>1. Len(s) \in Nat /\ m \in Nat
  OBVIOUS
<1>2. PutAt(s, j, b) = [i \in 1 .. m |-> e(i)]
  BY DEF PutAt
<1>3. \A i \in 1 .. m : e(i) \in S
  BY <1>1
<1> HIDE DEF m, e
<1>4. PutAt(s, j, b) \in Seq(S) /\ Len(PutAt(s, j, b)) = m
  BY <1>1, <1>2, <1>3
<1>5. \A i \in 1 .. m : PutAt(s, j, b)[i] = e(i)
  BY <1>2
<1> QED
  BY <1>4, <1>5 DEF m, e

\* Its length.
LEMMA PutAtLen ==
    ASSUME NEW S, NEW s \in Seq(S), NEW j \in Nat \ {0}, NEW b
    PROVE  Len(PutAt(s, j, b)) = IF Len(s) < j THEN j ELSE Len(s)
<1> DEFINE m == IF Len(s) < j THEN j ELSE Len(s)
           e(i) == IF i = j THEN b ELSE IF i <= Len(s) THEN s[i] ELSE Hole
<1>1. m \in Nat
  OBVIOUS
<1>2. PutAt(s, j, b) = [i \in 1 .. m |-> e(i)]
  BY DEF PutAt
<1> HIDE DEF m, e
<1>3. Len(PutAt(s, j, b)) = m
  BY <1>1, <1>2
<1> QED
  BY <1>3 DEF m

\* It brings nothing but the block and holes.
LEMMA PutAtIn ==
    ASSUME NEW S, NEW s \in Blobs, \A i \in 1 .. Len(s) : s[i] \in S,
           NEW j \in Nat \ {0}, NEW b \in Bodies, b \in S, Hole \in S
    PROVE  \A i \in 1 .. Len(PutAt(s, j, b)) : PutAt(s, j, b)[i] \in S
<1> DEFINE m == IF Len(s) < j THEN j ELSE Len(s)
<1>1. Len(s) \in Nat /\ m \in Nat
  BY DEF Blobs
<1>2. Len(PutAt(s, j, b)) = m
  BY PutAtLen DEF Blobs
<1>3. ASSUME NEW i \in 1 .. m PROVE PutAt(s, j, b)[i] \in S
  <2>1. PutAt(s, j, b)[i] = IF i = j THEN b ELSE IF i <= Len(s) THEN s[i] ELSE Hole
    BY DEF PutAt
  <2>2. i <= Len(s) => i \in 1 .. Len(s)
    BY <1>1
  <2> QED
    BY <2>1, <2>2
<1> QED
  BY <1>2, <1>3

\* A whole file has one build.
LEMMA WholeFacts ==
    ASSUME NEW s, NEW b \in Bodies, IsWhole(s, Chunks[b[2]], b)
    PROVE  BuildOf(s) = b /\ In(s) = {b} /\ IdsOf(s) = {IF b[2] \in WithId THEN b ELSE None}
<1>1. 1 \in 1 .. Chunks[b[2]] /\ s # None /\ s[1] = b /\ Len(s) = Chunks[b[2]]
  BY BodiesFacts DEF IsWhole
<1>2. \A c \in Bodies : IsWhole(s, Chunks[c[2]], c) => c = b
  <2> SUFFICES ASSUME NEW c \in Bodies, IsWhole(s, Chunks[c[2]], c) PROVE c = b
    OBVIOUS
  <2>1. 1 \in 1 .. Chunks[c[2]]
    BY BodiesFacts
  <2> QED
    BY <1>1, <2>1 DEF IsWhole
<1>3. BuildOf(s) = b
  BY <1>2 DEF BuildOf
<1>4. In(s) = {b}
  BY <1>1 DEF In, IsWhole
<1>5. b # Torn
  BY BodiesFacts
<1> QED
  BY <1>3, <1>4, <1>5 DEF IdsOf

\* What a file of the version has blocks of is builds of the version.
LEMMA InIsOwn ==
    ASSUME NEW v \in Versions, NEW s \in BlobsOf(v) \cup {None}
    PROVE  In(s) \subseteq BodiesOf(v)
BY BodiesFacts DEF In, BlobsOf

\* An empty file is a file.
LEMMA EmptyFacts == <<>> \in Blobs /\ <<>> # None /\ \A v : <<>> \in BlobsOf(v)
<1>1. <<>> \in Blobs
  BY DEF Blobs
<1> QED
  BY <1>1 DEF BlobsOf
-----------------------------------------------------------------------------
(***************************************************************************)
(* Each part of the invariant is preserved.                                *)
(***************************************************************************)

\* A block written leaves a file of the version one.
LEMMA PutAtBlobs ==
    ASSUME NEW v \in Versions, NEW s \in BlobsOf(v), s \in Blobs,
           NEW j \in Nat \ {0}, NEW b \in BodiesOf(v)
    PROVE  PutAt(s, j, b) \in BlobsOf(v) /\ PutAt(s, j, b) \in Blobs
<1> DEFINE S == BodiesOf(v) \cup {Hole}
           T == Bodies \cup {Hole}
<1>1. s \in Seq(S) /\ s \in Seq(T) /\ b \in S /\ b \in T /\ Hole \in S /\ Hole \in T
  BY BodiesFacts DEF BlobsOf, Blobs
<1> HIDE DEF S, T
<1>2. PutAt(s, j, b) \in Seq(S)
  BY <1>1, PutAtFacts
<1>3. PutAt(s, j, b) \in Seq(T)
  BY <1>1, PutAtFacts
<1> QED
  BY <1>2, <1>3 DEF S, T, BlobsOf, Blobs

\* What a process finds in a .deb, in a libc or in the headers it read of one
\* is of its version.
LEMMA FindsOwn ==
    ASSUME TypeOK, OwnBuilds, NEW p \in Procs
    PROVE  /\ In(Content(Target[p], pkg[p])) \subseteq BodiesOf(Target[p])
           /\ In(libs[Target[p]]["libc"]) \subseteq BodiesOf(Target[p])
           /\ IdsOf(libs[Target[p]]["libc"]) \subseteq BodiesOf(Target[p]) \cup {None}
           /\ BuildOf(libs[Target[p]]["libc"]) \in Bodies \cup {Torn}
<1>1. Target[p] \in Versions /\ pkg[p] \in Pkgs
  BY DEF TypeOK
<1>2. Content(Target[p], pkg[p]) \in BlobsOf(Target[p])
  <2>1. CASE deb[Target[p]][pkg[p]] = None
    BY <2>1 DEF Content, BlobsOf
  <2>2. CASE deb[Target[p]][pkg[p]] # None
    <3>1. deb[Target[p]][pkg[p]] \in Procs
      BY <1>1, <2>2 DEF TypeOK
    <3>2. Target[deb[Target[p]][pkg[p]]] = Target[p]
      BY <1>1, <2>2 DEF OwnBuilds
    <3> QED
      BY <1>1, <2>2, <3>1, <3>2 DEF Content, OwnBuilds
  <2> QED
    BY <2>1, <2>2
<1>3. libs[Target[p]]["libc"] \in BlobsOf(Target[p]) \cup {None}
  BY <1>1, FilesFacts DEF OwnBuilds
<1>4. In(libs[Target[p]]["libc"]) \subseteq BodiesOf(Target[p])
  BY <1>1, <1>3, InIsOwn
<1>5. IdsOf(libs[Target[p]]["libc"]) \subseteq BodiesOf(Target[p]) \cup {None}
  BY <1>4 DEF IdsOf
<1>6. BuildOf(libs[Target[p]]["libc"]) \in Bodies \cup {Torn}
  BY DEF BuildOf
<1> QED
  BY <1>1, <1>2, <1>4, <1>5, <1>6, InIsOwn

\* WriteFile sets a block of the open file to the build being extracted.
LEMMA WriteFacts ==
    ASSUME TypeOK, OwnBuilds, Progress, Placed, NEW p \in Procs, WriteFile(p)
    PROVE  LET v == Target[p]
               k == pkg[p]
               f == open[p]
               b == data[p][k]
               s == PutAt(libs[v][f], pos[p] + 1, b)
           IN  /\ v \in Versions /\ k \in Pkgs /\ b \in BodiesOf(v) /\ b \in Bodies
               /\ f \in FilesOf(k) \ left[p] /\ f \in Files
               /\ pos[p] \in Nat /\ pos[p] < Chunks[b[2]]
               /\ libs[v][f] \in BlobsOf(v) /\ libs[v][f] # None
               /\ s \in BlobsOf(v) /\ s \in Blobs
               /\ libs' = [libs EXCEPT ![v][f] = s]
<1> DEFINE v == Target[p]
           k == pkg[p]
           f == open[p]
           b == data[p][k]
           s == PutAt(libs[v][f], pos[p] + 1, b)
<1>1. v \in Versions /\ k \in Pkgs /\ pos[p] \in Nat
  BY DEF TypeOK
<1>2. f # None /\ libs' = [libs EXCEPT ![v][f] = s]
  BY DEF WriteFile
<1>3. f \in FilesOf(k) \ left[p] /\ b # None /\ pos[p] < Chunks[b[2]]
  BY <1>2 DEF Progress, ProgressOf
<1>4. b \in BodiesOf(v) /\ b \in Bodies
  BY <1>1, <1>3, BodiesFacts DEF OwnBuilds
<1>5. f \in Files
  BY <1>1, <1>3, FilesFacts
<1>6. libs[v][f] # None
  BY <1>1, <1>3 DEF Placed, LeftOf
<1>7. libs[v][f] \in BlobsOf(v) /\ libs[v][f] \in Blobs
  BY <1>1, <1>5, <1>6 DEF OwnBuilds, TypeOK
<1>8. pos[p] + 1 \in Nat \ {0}
  BY <1>1
<1>9. s \in BlobsOf(v) /\ s \in Blobs
  BY <1>1, <1>4, <1>7, <1>8, PutAtBlobs
<1> QED
  BY <1>1, <1>2, <1>3, <1>4, <1>5, <1>6, <1>7, <1>8, <1>9

\* CopyDeb sets a block of a .deb of the same version.
LEMMA CopyFacts ==
    ASSUME TypeOK, OwnBuilds, Progress, NEW p \in Procs, CopyDeb(p)
    PROVE  LET k == pkg[p]
               q == fd[p]
               b == from[p][k]
               s == PutAt(inode[q][k], off[p] + 1, b)
           IN  /\ k \in Pkgs /\ q \in Procs /\ Target[q] = Target[p] /\ b \in BodiesOf(Target[p])
               /\ s \in BlobsOf(Target[p]) /\ s \in Blobs
               /\ inode' = [inode EXCEPT ![q][k] = s]
               /\ off[p] \in Nat /\ off[p] + 1 \in 0 .. Blocks
<1> DEFINE k == pkg[p]
           q == fd[p]
           b == from[p][k]
           s == PutAt(inode[q][k], off[p] + 1, b)
<1>1. k \in Pkgs /\ off[p] \in Nat /\ off[p] + 1 \in 0 .. Blocks
  BY DEF TypeOK, CopyDeb
<1>2. q \in Procs /\ Target[q] = Target[p]
  BY DEF CopyDeb, Progress, ProgressOf, OwnBuilds, TypeOK
<1>3. b \in BodiesOf(Target[p]) /\ b \in Bodies
  BY <1>1 DEF CopyDeb, Progress, ProgressOf, InDeb, OwnBuilds, TypeOK
<1>4. inode[q][k] \in BlobsOf(Target[p]) /\ inode[q][k] \in Blobs
  BY <1>1, <1>2 DEF OwnBuilds, TypeOK
<1>5. off[p] + 1 \in Nat \ {0} /\ Target[p] \in Versions
  BY <1>1
<1>6. s \in BlobsOf(Target[p]) /\ s \in Blobs
  BY <1>3, <1>4, <1>5, PutAtBlobs
<1>7. inode' = [inode EXCEPT ![q][k] = s]
  BY DEF CopyDeb
<1> QED
  BY <1>1, <1>2, <1>3, <1>5, <1>6, <1>7

\* No step of a process, and no kill, leaves the types; the builds are needed
\* where a block or a manifest is written.
LEMMA TypeStep ==
    TypeOK /\ OwnBuilds /\ Progress /\ Placed /\ [Next]_vars => TypeOK'
<1> SUFFICES ASSUME TypeOK, OwnBuilds, Progress, Placed, [Next]_vars PROVE TypeOK'
  OBVIOUS
<1> USE DEF TypeOK, PcValues, Terminal, Waiting, Holding, cached, reading, loaded, locals, index, disk, Go,
            Unlock
<1>1. ASSUME NEW p \in Procs, Step(p) \/ Kill(p) PROVE TypeOK'
  <2>0. Target[p] \in Versions /\ pkg[p] \in Pkgs
    OBVIOUS
  <2>1. CASE StartDownload(p) \/ StartIdentify(p)
    BY <2>1 DEF StartDownload, StartIdentify
  <2>19. CASE CheckLibs(p)
    BY <2>19 DEF CheckLibs
  <2>20. CASE UseLibs(p)
    BY <2>20 DEF UseLibs
  <2>21. CASE CopyEnds(p)
    BY <2>21 DEF CopyEnds
  <2>15. CASE OpenIndex(p)
    BY <2>15 DEF OpenIndex
  <2>16. CASE OpenTimesOut(p)
    BY <2>16 DEF OpenTimesOut
  <2>17. CASE EndIdentify(p)
    <3>1. pc' \in [Procs -> PcValues] /\ lock' \in Procs \cup {None}
      BY <2>17 DEF EndIdentify
    <3> QED
      BY <2>17, <3>1 DEF EndIdentify
  <2>18. CASE Kill(p)
    BY <2>18 DEF Kill
  <2>2. CASE NoMirror(p) \/ CopyFails(p)
    BY <2>2 DEF NoMirror, CopyFails, Fails
  <2>3. CASE CreateDeb(p)
    <3> DEFINE v == Target[p]
               n == IF deb[v][pkg[p]] = None THEN p ELSE deb[v][pkg[p]]
    <3>1. PICK b \in BodiesOf(v) : from' = [from EXCEPT ![p][pkg[p]] = b]
      BY <2>3 DEF CreateDeb
    <3>2. n \in Procs /\ b \in Bodies
      BY <2>0, BodiesFacts
    <3>3. inode' = [inode EXCEPT ![n][pkg[p]] = <<>>] /\ <<>> \in Blobs
      BY <2>3 DEF CreateDeb, Blobs
    <3>4. inode' \in [Procs -> [Pkgs -> Blobs]]
      BY <2>0, <3>3
    <3>5. /\ fd' = [fd EXCEPT ![p] = n] /\ deb' = [deb EXCEPT ![v][pkg[p]] = n]
          /\ off' = [off EXCEPT ![p] = 0]
      BY <2>3 DEF CreateDeb
    <3>6. deb' \in [Versions -> [Pkgs -> Procs \cup {None}]]
      BY <2>0, <3>2, <3>5
    <3>7. from' \in [Procs -> [Pkgs -> Bodies \cup {None}]]
      BY <2>0, <3>1, <3>2
    <3>8. fd' \in [Procs -> Procs \cup {None}] /\ off' \in [Procs -> 0 .. Blocks]
      BY <3>2, <3>5
    <3> QED
      BY <2>3, <3>4, <3>6, <3>7, <3>8 DEF CreateDeb
  <2>4. CASE CopyDeb(p)
    <3> DEFINE k == pkg[p]
               q == fd[p]
               s == PutAt(inode[q][k], off[p] + 1, from[p][k])
    <3>1. /\ k \in Pkgs /\ q \in Procs /\ s \in Blobs
          /\ inode' = [inode EXCEPT ![q][k] = s]
          /\ off[p] + 1 \in 0 .. Blocks
      BY <2>4, CopyFacts
    <3> HIDE DEF s
    <3>2. inode' \in [Procs -> [Pkgs -> Blobs]]
      BY <3>1
    <3>3. off' \in [Procs -> 0 .. Blocks]
      BY <2>4, <3>1 DEF CopyDeb
    <3> QED
      BY <2>4, <3>2, <3>3 DEF CopyDeb
  <2>5. CASE ReadDeb(p)
    <3>1. CASE \E b \in In(Content(Target[p], pkg[p])), files \in SUBSET (Files \cup {Rest}) :
                  BeginExtract(p, b, files) /\ UNCHANGED deb
      <4>1. PICK b \in Bodies, files \in SUBSET (Files \cup {Rest}) :
                    BeginExtract(p, b, files) /\ UNCHANGED deb
        BY <3>1 DEF In
      <4>2. data' \in [Procs -> [Pkgs -> Bodies \cup {None}]]
        BY <2>0, <4>1 DEF BeginExtract
      <4>3. writers' \in [Versions -> [Pkgs -> SUBSET Procs]]
        BY <2>0, <4>1 DEF BeginExtract
      <4> QED
        BY <2>5, <4>1, <4>2, <4>3 DEF ReadDeb, BeginExtract
    <3>2. CASE Fails(p) /\ RemoveDeb(p) /\ UNCHANGED <<data, left, writers>>
      BY <2>0, <2>5, <3>2 DEF ReadDeb, Fails, RemoveDeb
    <3>3. FilesOf(pkg[p]) \subseteq Files
      BY <2>0, FilesFacts
    <3> QED
      BY <2>5, <3>1, <3>2, <3>3 DEF ReadDeb
  <2>6. CASE OpenFile(p)
    <3>1. PICK f \in left[p] \ {Rest} :
                  /\ open' = [open EXCEPT ![p] = f]
                  /\ libs' = [libs EXCEPT ![Target[p]][f] = <<>>]
                  /\ left' = [left EXCEPT ![p] = @ \ {f}]
      BY <2>6 DEF OpenFile
    <3>2. f \in Files /\ <<>> \in Blobs
      BY DEF Blobs
    <3>3. libs' \in [Versions -> [Files -> Blobs \cup {None}]]
      BY <2>0, <3>1, <3>2
    <3> QED
      BY <2>6, <3>1, <3>2, <3>3 DEF OpenFile
  <2>7. CASE WriteFile(p)
    <3>1. PICK s \in Blobs : libs' = [libs EXCEPT ![Target[p]][open[p]] = s]
      BY <2>7, WriteFacts
    <3>2. libs' \in [Versions -> [Files -> Blobs \cup {None}]]
      BY <3>1
    <3>3. open' \in [Procs -> Files \cup {None}] /\ pos' \in [Procs -> Nat]
      BY <2>7 DEF WriteFile
    <3> QED
      BY <2>7, <3>2, <3>3 DEF WriteFile
  <2>8. CASE ExtractEnds(p)
    <3>1. deb' \in [Versions -> [Pkgs -> Procs \cup {None}]]
      BY <2>0, <2>8 DEF ExtractEnds, RemoveDeb
    <3>2. pc' \in [Procs -> PcValues] /\ debug' \in [Procs -> BOOLEAN]
      BY <2>8 DEF ExtractEnds, Succeeds, Fails
    <3> QED
      BY <2>8, <3>1, <3>2 DEF ExtractEnds
  <2>9. CASE FetchDebug(p)
    <3>1. pkg' \in [Procs -> Pkgs]
      BY <2>9, FilesFacts DEF FetchDebug
    <3>2. PICK l \in {"fetch", "load"} : pc' = [pc EXCEPT ![p] = l]
      BY <2>9 DEF FetchDebug
    <3>3. pc' \in [Procs -> PcValues]
      BY <3>2
    <3> QED
      BY <2>9, <3>1, <3>3 DEF FetchDebug
  <2>10. CASE LoadLibc(p)
    <3>1. /\ IdsOf(libs[Target[p]]["libc"]) \subseteq Bodies \cup {None}
          /\ BuildOf(libs[Target[p]]["libc"]) \in Bodies \cup {Torn}
      BY <2>0, FindsOwn, BodiesFacts
    <3>2. CASE UNCHANGED <<info, id>>
      BY <2>10, <3>2 DEF LoadLibc
    <3>3. CASE \E i \in Bodies \cup {Torn}, b \in Bodies \cup {None} :
                   /\ info' = [info EXCEPT ![p] = i] /\ id' = [id EXCEPT ![p] = b]
                   /\ pc' = [pc EXCEPT ![p] = "symbols"]
      BY <2>10, <3>3 DEF LoadLibc
    <3> QED
      BY <2>10, <3>1, <3>2, <3>3 DEF LoadLibc
  <2>11. CASE LoadSymbols(p)
    <3>1. In(libs[Target[p]]["libc"]) \subseteq Bodies
      BY DEF In
    <3>2. syms' \in [Procs -> Bodies \cup {None, Torn}]
      BY <2>11, <3>1 DEF LoadSymbols
    <3> QED
      BY <2>11, <3>2 DEF LoadSymbols
  <2>12. CASE IndexVersion(p)
    <3>1. CASE Put(Target[p], id[p], syms[p])
      <4>1. buildid' \in [Bodies -> Versions \cup {None}]
        BY <2>0, <3>1 DEF Put
      <4>2. /\ symtab' \in [Versions -> Bodies \cup {None, Torn}]
            /\ meta' \in [Versions -> Bodies \cup {None}]
        BY <2>0, <3>1 DEF Put
      <4>3. pc' \in [Procs -> PcValues] /\ lock' \in Procs \cup {None}
        BY <2>12 DEF IndexVersion
      <4> QED
        BY <2>12, <4>1, <4>2, <4>3 DEF IndexVersion
    <3>2. CASE UNCHANGED index
      BY <2>12, <3>2 DEF IndexVersion
    <3> QED
      BY <2>12, <3>1, <3>2 DEF IndexVersion
  <2>13. CASE OpenManifest(p)
    BY <2>13 DEF OpenManifest
  <2>14. CASE WriteManifest(p)
    <3>1. from[p]["main"] \in Bodies /\ debug[p] \in BOOLEAN
      BY <2>14, FilesFacts DEF WriteManifest, Progress, ProgressOf, HasMain, Loaded, Read, Indexed
    <3>2. [sha |-> from[p]["main"], debug |-> debug[p]] \in Manifests
      BY <3>1 DEF Manifests
    <3>3. pc' \in [Procs -> PcValues] /\ lock' \in Procs \cup {None}
      BY <2>14 DEF WriteManifest
    <3>4. CASE prov' = prov
      BY <2>14, <3>3, <3>4 DEF WriteManifest
    <3>5. CASE prov' = [prov EXCEPT ![Target[p]] = [sha |-> from[p]["main"], debug |-> debug[p]]]
      <4>1. PICK m \in Manifests : prov' = [prov EXCEPT ![Target[p]] = m]
        BY <3>2, <3>5
      <4>2. prov' \in [Versions -> Manifests \cup {None, Torn}]
        BY <2>0, <4>1
      <4> QED
        BY <2>14, <3>3, <4>2 DEF WriteManifest
    <3> QED
      BY <2>14, <3>4, <3>5 DEF WriteManifest
  <2> QED
    BY <1>1, <2>1, <2>2, <2>3, <2>4, <2>5, <2>6, <2>7, <2>8, <2>9, <2>10, <2>11, <2>12, <2>13, <2>14,
       <2>15, <2>16, <2>17, <2>18, <2>19, <2>20, <2>21 DEF Step
<1>2. CASE Idle \/ UNCHANGED vars
  BY <1>2 DEF Idle, vars
<1> QED
  BY <1>1, <1>2 DEF Next
\* The lock follows the position of its holder.
LEMMA LockStep ==
    TypeOK /\ LockDiscipline /\ [Next]_vars => LockDiscipline'
<1> SUFFICES ASSUME TypeOK /\ LockDiscipline, [Next]_vars PROVE LockDiscipline'
  OBVIOUS
<1> USE DEF LockDiscipline, Terminal, Waiting, Holding, Go, Unlock
<1> pc \in [Procs -> PcValues] /\ lock \in Procs \cup {None}
  BY DEF TypeOK
<1>1. ASSUME NEW p \in Procs, Step(p) \/ Kill(p) PROVE LockDiscipline'
  <2>0. Target[p] \in Versions /\ pkg[p] \in Pkgs
    BY DEF TypeOK
  <2>1. CASE StartDownload(p)
    BY <2>0, <2>1 DEF StartDownload
  <2>2. CASE StartIdentify(p)
    BY <2>0, <2>2 DEF StartIdentify
  <2>3. CASE CheckLibs(p)
    BY <2>0, <2>3 DEF CheckLibs
  <2>4. CASE UseLibs(p)
    BY <2>0, <2>4 DEF UseLibs
  <2>5. CASE OpenIndex(p)
    BY <2>0, <2>5 DEF OpenIndex
  <2>6. CASE OpenTimesOut(p)
    BY <2>0, <2>6 DEF OpenTimesOut
  <2>7. CASE EndIdentify(p)
    BY <2>0, <2>7 DEF EndIdentify
  <2>8. CASE NoMirror(p)
    BY <2>0, <2>8 DEF NoMirror, Fails
  <2>9. CASE CreateDeb(p)
    BY <2>0, <2>9 DEF CreateDeb
  <2>10. CASE CopyDeb(p)
    BY <2>0, <2>10 DEF CopyDeb
  <2>11. CASE CopyFails(p)
    BY <2>0, <2>11 DEF CopyFails, Fails
  <2>12. CASE CopyEnds(p)
    BY <2>0, <2>12 DEF CopyEnds
  <2>13. CASE ReadDeb(p)
    BY <2>0, <2>13 DEF ReadDeb, BeginExtract, Fails, RemoveDeb
  <2>14. CASE OpenFile(p)
    BY <2>0, <2>14 DEF OpenFile
  <2>15. CASE WriteFile(p)
    BY <2>0, <2>15 DEF WriteFile
  <2>16. CASE ExtractEnds(p)
    BY <2>0, <2>16 DEF ExtractEnds, Succeeds, Fails, RemoveDeb
  <2>17. CASE FetchDebug(p)
    BY <2>0, <2>17 DEF FetchDebug
  <2>18. CASE LoadLibc(p)
    BY <2>0, <2>18 DEF LoadLibc
  <2>19. CASE LoadSymbols(p)
    BY <2>0, <2>19 DEF LoadSymbols
  <2>20. CASE IndexVersion(p)
    BY <2>0, <2>20 DEF IndexVersion, Put
  <2>21. CASE OpenManifest(p)
    BY <2>0, <2>21 DEF OpenManifest
  <2>22. CASE WriteManifest(p)
    BY <2>0, <2>22 DEF WriteManifest
  <2>23. CASE Kill(p)
    BY <2>0, <2>23 DEF Kill
  <2> QED
    BY <1>1, <2>1, <2>2, <2>3, <2>4, <2>5, <2>6, <2>7, <2>8, <2>9, <2>10, <2>11, <2>12,
       <2>13, <2>14, <2>15, <2>16, <2>17, <2>18, <2>19, <2>20, <2>21, <2>22, <2>23 DEF Step
<1>2. CASE Idle \/ UNCHANGED vars
  BY <1>2 DEF Idle, vars
<1> QED
  BY <1>1, <1>2 DEF Next

\* Only patch uses a directory, only downloads have a second package.
LEMMA CommandStep ==
    TypeOK /\ Commands /\ [Next]_vars => Commands'
<1> SUFFICES ASSUME TypeOK /\ Commands, [Next]_vars PROVE Commands'
  OBVIOUS
<1> USE DEF Commands, Active, HasMain, InDeb, Loaded, Read, Indexed, Terminal, Waiting, Go, cached, reading, loaded, locals
<1> /\ pc \in [Procs -> PcValues] /\ pkg \in [Procs -> Pkgs]
    /\ data \in [Procs -> [Pkgs -> Bodies \cup {None}]]
    /\ Role \in [Procs -> {"download", "identify", "patch"}]
  BY DEF TypeOK
<1>1. ASSUME NEW p \in Procs, Step(p) \/ Kill(p) PROVE Commands'
  <2>0. Target[p] \in Versions /\ pkg[p] \in Pkgs
    BY DEF TypeOK
  <2>1. CASE StartDownload(p)
    BY <2>0, <2>1 DEF StartDownload
  <2>2. CASE StartIdentify(p)
    BY <2>0, <2>2 DEF StartIdentify
  <2>3. CASE CheckLibs(p)
    BY <2>0, <2>3 DEF CheckLibs
  <2>4. CASE UseLibs(p)
    BY <2>0, <2>4 DEF UseLibs
  <2>5. CASE OpenIndex(p)
    BY <2>0, <2>5 DEF OpenIndex
  <2>6. CASE OpenTimesOut(p)
    BY <2>0, <2>6 DEF OpenTimesOut
  <2>7. CASE EndIdentify(p)
    BY <2>0, <2>7 DEF EndIdentify
  <2>8. CASE NoMirror(p)
    BY <2>0, <2>8 DEF NoMirror, Fails
  <2>9. CASE CreateDeb(p)
    BY <2>0, <2>9 DEF CreateDeb
  <2>10. CASE CopyDeb(p)
    BY <2>0, <2>10 DEF CopyDeb
  <2>11. CASE CopyFails(p)
    BY <2>0, <2>11 DEF CopyFails, Fails
  <2>12. CASE CopyEnds(p)
    BY <2>0, <2>12 DEF CopyEnds
  <2>13. CASE ReadDeb(p)
    <3>1. Role[p] # "identify" /\ \A q \in Procs \ {p} : data'[q] = data[q]
      BY <2>13 DEF ReadDeb, BeginExtract
    <3>2. \A q \in Procs : \A k \in Pkgs : data'[q][k] # None => Role[q] # "identify"
      BY <3>1
    <3>3. pc' = [pc EXCEPT ![p] = "extract"] \/ Fails(p)
      BY <2>13 DEF ReadDeb, BeginExtract
    <3> QED
      BY <2>0, <2>13, <3>2, <3>3 DEF ReadDeb, Fails
  <2>14. CASE OpenFile(p)
    BY <2>0, <2>14 DEF OpenFile
  <2>15. CASE WriteFile(p)
    BY <2>0, <2>15 DEF WriteFile
  <2>16. CASE ExtractEnds(p)
    BY <2>0, <2>16 DEF ExtractEnds, Succeeds, Fails, RemoveDeb
  <2>17. CASE FetchDebug(p)
    BY <2>0, <2>17 DEF FetchDebug
  <2>18. CASE LoadLibc(p)
    BY <2>0, <2>18 DEF LoadLibc
  <2>19. CASE LoadSymbols(p)
    BY <2>0, <2>19 DEF LoadSymbols
  <2>20. CASE IndexVersion(p)
    BY <2>0, <2>20 DEF IndexVersion, Put
  <2>21. CASE OpenManifest(p)
    BY <2>0, <2>21 DEF OpenManifest
  <2>22. CASE WriteManifest(p)
    BY <2>0, <2>22 DEF WriteManifest
  <2>23. CASE Kill(p)
    BY <2>0, <2>23 DEF Kill
  <2> QED
    BY <1>1, <2>1, <2>2, <2>3, <2>4, <2>5, <2>6, <2>7, <2>8, <2>9, <2>10, <2>11, <2>12,
       <2>13, <2>14, <2>15, <2>16, <2>17, <2>18, <2>19, <2>20, <2>21, <2>22, <2>23 DEF Step
<1>2. CASE Idle \/ UNCHANGED vars
  BY <1>2 DEF Idle, vars
<1> QED
  BY <1>1, <1>2 DEF Next

\* Nothing of one version reaches the disk, the index or a process of another:
\* two versions have different .deb paths and directories.
LEMMA OwnStep ==
    TypeOK /\ OwnBuilds /\ Progress /\ Placed /\ [Next]_vars => OwnBuilds'
<1> SUFFICES ASSUME TypeOK /\ OwnBuilds /\ Progress /\ Placed, [Next]_vars PROVE OwnBuilds'
  OBVIOUS
<1> USE DEF OwnBuilds, cached, reading, loaded, locals, index, disk
<1> /\ pkg \in [Procs -> Pkgs] /\ deb \in [Versions -> [Pkgs -> Procs \cup {None}]]
    /\ inode \in [Procs -> [Pkgs -> Blobs]] /\ fd \in [Procs -> Procs \cup {None}]
    /\ from \in [Procs -> [Pkgs -> Bodies \cup {None}]]
    /\ data \in [Procs -> [Pkgs -> Bodies \cup {None}]]
    /\ libs \in [Versions -> [Files -> Blobs \cup {None}]]
    /\ id \in [Procs -> Bodies \cup {None}] /\ syms \in [Procs -> Bodies \cup {None, Torn}]
    /\ symtab \in [Versions -> Bodies \cup {None, Torn}]
    /\ meta \in [Versions -> Bodies \cup {None}]
  BY DEF TypeOK
<1>1. ASSUME NEW p \in Procs, Step(p) \/ Kill(p) PROVE OwnBuilds'
  <2>0. Target[p] \in Versions /\ pkg[p] \in Pkgs
    BY DEF TypeOK
  <2>1. CASE StartDownload(p)
    BY <2>0, <2>1 DEF StartDownload
  <2>2. CASE StartIdentify(p)
    BY <2>0, <2>2 DEF StartIdentify
  <2>3. CASE CheckLibs(p)
    BY <2>0, <2>3 DEF CheckLibs
  <2>4. CASE UseLibs(p)
    BY <2>0, <2>4 DEF UseLibs
  <2>5. CASE OpenIndex(p)
    BY <2>0, <2>5 DEF OpenIndex
  <2>6. CASE OpenTimesOut(p)
    BY <2>0, <2>6 DEF OpenTimesOut
  <2>7. CASE EndIdentify(p)
    BY <2>0, <2>7 DEF EndIdentify
  <2>8. CASE NoMirror(p)
    BY <2>0, <2>8 DEF NoMirror, Fails
  <2>9. CASE CreateDeb(p)
    <3> DEFINE v == Target[p]
               k == pkg[p]
               n == IF deb[v][k] = None THEN p ELSE deb[v][k]
    <3>1. PICK b \in BodiesOf(v) : from' = [from EXCEPT ![p][k] = b]
      BY <2>9 DEF CreateDeb
    <3>2. n \in Procs /\ Target[n] = v
      BY <2>0
    <3>3. /\ inode' = [inode EXCEPT ![n][k] = <<>>] /\ fd' = [fd EXCEPT ![p] = n]
          /\ deb' = [deb EXCEPT ![v][k] = n] /\ <<>> \in BlobsOf(v)
      BY <2>9 DEF CreateDeb, BlobsOf
    <3>4. UNCHANGED <<data, id, syms, libs, symtab, meta>>
      BY <2>9 DEF CreateDeb
    <3> HIDE DEF n
    <3> QED
      BY <2>0, <3>1, <3>2, <3>3, <3>4
  <2>10. CASE CopyDeb(p)
    <3> DEFINE k == pkg[p]
               q == fd[p]
               s == PutAt(inode[q][k], off[p] + 1, from[p][k])
    <3>1. /\ k \in Pkgs /\ q \in Procs /\ s \in BlobsOf(Target[q])
          /\ inode' = [inode EXCEPT ![q][k] = s]
      BY <2>10, CopyFacts
    <3> HIDE DEF s
    <3> QED
      BY <2>10, <3>1 DEF CopyDeb
  <2>11. CASE CopyFails(p)
    BY <2>0, <2>11 DEF CopyFails, Fails
  <2>12. CASE CopyEnds(p)
    BY <2>0, <2>12 DEF CopyEnds
  <2>13. CASE ReadDeb(p)
    <3>1. deb' = deb \/ deb' = [deb EXCEPT ![Target[p]][pkg[p]] = None]
      BY <2>13 DEF ReadDeb, RemoveDeb
    <3>2. data' = data \/ \E b \in BodiesOf(Target[p]) : data' = [data EXCEPT ![p][pkg[p]] = b]
      BY <2>13, FindsOwn DEF ReadDeb, BeginExtract
    <3>3. UNCHANGED <<from, inode, fd, id, syms, libs, symtab, meta>>
      BY <2>13 DEF ReadDeb
    <3>4. ASSUME NEW v \in Versions, NEW k \in Pkgs, deb'[v][k] # None PROVE Target[deb'[v][k]] = v
      <4>1. deb'[v][k] = deb[v][k]
        <5>1. CASE deb' = deb
          BY <5>1
        <5>2. CASE deb' = [deb EXCEPT ![Target[p]][pkg[p]] = None]
          <6>1. CASE v = Target[p] /\ k = pkg[p]
            BY <2>0, <3>4, <5>2, <6>1
          <6>2. CASE v # Target[p] \/ k # pkg[p]
            BY <2>0, <5>2, <6>2
          <6> QED
            BY <6>1, <6>2
        <5> QED
          BY <3>1, <5>1, <5>2
      <4> QED
        BY <3>4, <4>1
    <3>5. ASSUME NEW q \in Procs, NEW k \in Pkgs PROVE data'[q][k] \in BodiesOf(Target[q]) \cup {None}
      <4>1. data'[q][k] = data[q][k] \/ (q = p /\ data'[q][k] \in BodiesOf(Target[p]))
        BY <2>0, <3>2
      <4> QED
        BY <4>1
    <3> QED
      BY <3>3, <3>4, <3>5
  <2>14. CASE OpenFile(p)
    <3>1. PICK f \in Files : libs' = [libs EXCEPT ![Target[p]][f] = <<>>]
      BY <2>14 DEF OpenFile, TypeOK
    <3>2. <<>> \in BlobsOf(Target[p])
      BY DEF BlobsOf
    <3> QED
      BY <2>0, <2>14, <3>1, <3>2 DEF OpenFile
  <2>15. CASE WriteFile(p)
    <3> DEFINE s == PutAt(libs[Target[p]][open[p]], pos[p] + 1, data[p][pkg[p]])
    <3>1. s \in BlobsOf(Target[p]) /\ libs' = [libs EXCEPT ![Target[p]][open[p]] = s]
      BY <2>15, WriteFacts
    <3> HIDE DEF s
    <3> QED
      BY <2>0, <2>15, <3>1 DEF WriteFile
  <2>16. CASE ExtractEnds(p)
    BY <2>0, <2>16 DEF ExtractEnds, Succeeds, Fails, RemoveDeb
  <2>17. CASE FetchDebug(p)
    BY <2>0, <2>17 DEF FetchDebug
  <2>18. CASE LoadLibc(p)
    <3>1. id' = id \/ \E b \in BodiesOf(Target[p]) \cup {None} : id' = [id EXCEPT ![p] = b]
      BY <2>18, FindsOwn DEF LoadLibc
    <3>2. UNCHANGED <<from, data, inode, fd, syms, deb, libs, symtab, meta>>
      BY <2>18 DEF LoadLibc
    <3> QED
      BY <2>0, <3>1, <3>2
  <2>19. CASE LoadSymbols(p)
    <3>1. \E b \in BodiesOf(Target[p]) \cup {Torn} : syms' = [syms EXCEPT ![p] = b]
      BY <2>19, FindsOwn DEF LoadSymbols
    <3> QED
      BY <2>0, <2>19, <3>1 DEF LoadSymbols
  <2>20. CASE IndexVersion(p)
    <3>1. CASE Put(Target[p], id[p], syms[p])
      <4>1. \A v \in Versions : symtab'[v] \in BodiesOf(v) \cup {None, Torn}
        BY <2>0, <3>1 DEF Put
      <4>2. \A v \in Versions : meta'[v] \in BodiesOf(v) \cup {None}
        BY <2>0, <3>1 DEF Put
      <4> QED
        BY <2>20, <4>1, <4>2 DEF IndexVersion
    <3>2. CASE UNCHANGED index
      BY <2>20, <3>2 DEF IndexVersion
    <3> QED
      BY <2>20, <3>1, <3>2 DEF IndexVersion
  <2>21. CASE OpenManifest(p)
    BY <2>0, <2>21 DEF OpenManifest
  <2>22. CASE WriteManifest(p)
    BY <2>0, <2>22 DEF WriteManifest
  <2>23. CASE Kill(p)
    BY <2>0, <2>23 DEF Kill
  <2> QED
    BY <1>1, <2>1, <2>2, <2>3, <2>4, <2>5, <2>6, <2>7, <2>8, <2>9, <2>10, <2>11, <2>12,
       <2>13, <2>14, <2>15, <2>16, <2>17, <2>18, <2>19, <2>20, <2>21, <2>22, <2>23 DEF Step
<1>2. CASE Idle \/ UNCHANGED vars
  BY <1>2 DEF Idle, vars
<1> QED
  BY <1>1, <1>2 DEF Next

\* A step of p moves no other process.
LEMMA OthersStay ==
    ASSUME TypeOK, NEW p \in Procs, Step(p) \/ Kill(p), NEW q \in Procs \ {p}
    PROVE  /\ pc'[q] = pc[q] /\ pkg'[q] = pkg[q] /\ from'[q] = from[q] /\ data'[q] = data[q]
           /\ left'[q] = left[q] /\ open'[q] = open[q] /\ pos'[q] = pos[q]
           /\ debug'[q] = debug[q] /\ info'[q] = info[q] /\ id'[q] = id[q] /\ syms'[q] = syms[q]
           /\ fd'[q] = fd[q]
<1> USE DEF Go, cached, reading, loaded, locals, index, disk
<1> /\ pc \in [Procs -> PcValues] /\ pkg \in [Procs -> Pkgs]
    /\ fd \in [Procs -> Procs \cup {None}]
    /\ from \in [Procs -> [Pkgs -> Bodies \cup {None}]]
    /\ data \in [Procs -> [Pkgs -> Bodies \cup {None}]]
    /\ left \in [Procs -> SUBSET (Files \cup {Rest})] /\ open \in [Procs -> Files \cup {None}]
    /\ pos \in [Procs -> Nat] /\ debug \in [Procs -> BOOLEAN]
    /\ info \in [Procs -> Bodies \cup {None, Torn}] /\ id \in [Procs -> Bodies \cup {None}]
    /\ syms \in [Procs -> Bodies \cup {None, Torn}]
  BY DEF TypeOK
<1>1. CASE StartDownload(p)
  BY <1>1 DEF StartDownload
<1>2. CASE StartIdentify(p)
  BY <1>2 DEF StartIdentify
<1>3. CASE CheckLibs(p)
  BY <1>3 DEF CheckLibs
<1>4. CASE UseLibs(p)
  BY <1>4 DEF UseLibs
<1>5. CASE OpenIndex(p)
  BY <1>5 DEF OpenIndex
<1>6. CASE OpenTimesOut(p)
  BY <1>6 DEF OpenTimesOut
<1>7. CASE EndIdentify(p)
  BY <1>7 DEF EndIdentify
<1>8. CASE NoMirror(p)
  BY <1>8 DEF NoMirror, Fails
<1>9. CASE CreateDeb(p)
  BY <1>9 DEF CreateDeb
<1>10. CASE CopyDeb(p)
  BY <1>10 DEF CopyDeb
<1>11. CASE CopyFails(p)
  BY <1>11 DEF CopyFails, Fails
<1>12. CASE CopyEnds(p)
  BY <1>12 DEF CopyEnds
<1>13. CASE ReadDeb(p)
  BY <1>13 DEF ReadDeb, BeginExtract, Fails, RemoveDeb
<1>14. CASE OpenFile(p)
  BY <1>14 DEF OpenFile
<1>15. CASE WriteFile(p)
  BY <1>15 DEF WriteFile
<1>16. CASE ExtractEnds(p)
  BY <1>16 DEF ExtractEnds, Succeeds, Fails, RemoveDeb
<1>17. CASE FetchDebug(p)
  BY <1>17 DEF FetchDebug
<1>18. CASE LoadLibc(p)
  BY <1>18 DEF LoadLibc
<1>19. CASE LoadSymbols(p)
  BY <1>19 DEF LoadSymbols
<1>20. CASE IndexVersion(p)
  BY <1>20 DEF IndexVersion, Put
<1>21. CASE OpenManifest(p)
  BY <1>21 DEF OpenManifest
<1>22. CASE WriteManifest(p)
  BY <1>22 DEF WriteManifest
<1>23. CASE Kill(p)
  BY <1>23 DEF Kill
<1> QED
  BY <1>1, <1>2, <1>3, <1>4, <1>5, <1>6, <1>7, <1>8, <1>9, <1>10, <1>11, <1>12,
     <1>13, <1>14, <1>15, <1>16, <1>17, <1>18, <1>19, <1>20, <1>21, <1>22, <1>23 DEF Step

\* Where a process stands tells what it has behind it.
LEMMA ProgressStep ==
    TypeOK /\ Commands /\ Progress /\ [Next]_vars => Progress'
<1> SUFFICES ASSUME TypeOK, Commands, Progress, [Next]_vars PROVE Progress'
  OBVIOUS
<1> USE DEF cached, reading, loaded, locals, index, disk
<1>1. ASSUME NEW p \in Procs, Step(p) \/ Kill(p) PROVE Progress'
  <2>1. ASSUME NEW q \in Procs \ {p} PROVE ProgressOf(q)'
    BY <1>1, <2>1, OthersStay DEF Progress, ProgressOf, Finished, Extracted
  <2>2. ProgressOf(p)'
    <3> USE DEF ProgressOf, Finished, Extracted, Active, HasMain, InDeb, Loaded, Read, Indexed, Before, Go,
                Terminal, Waiting
    <3> ProgressOf(p)
      BY DEF Progress
    <3> /\ pc \in [Procs -> PcValues] /\ pkg \in [Procs -> Pkgs] /\ Pkgs = {"main", "dbg"}
        /\ fd \in [Procs -> Procs \cup {None}]
        /\ from \in [Procs -> [Pkgs -> Bodies \cup {None}]]
        /\ data \in [Procs -> [Pkgs -> Bodies \cup {None}]]
        /\ left \in [Procs -> SUBSET (Files \cup {Rest})] /\ open \in [Procs -> Files \cup {None}]
        /\ pos \in [Procs -> Nat] /\ debug \in [Procs -> BOOLEAN]
        /\ syms \in [Procs -> Bodies \cup {None, Torn}]
      BY DEF TypeOK, Pkgs
    <3>0. Target[p] \in Versions /\ pkg[p] \in Pkgs
      OBVIOUS
    <3>1. CASE StartDownload(p)
      BY <3>0, <3>1 DEF StartDownload
    <3>2. CASE StartIdentify(p)
      BY <3>0, <3>2 DEF StartIdentify
    <3>3. CASE CheckLibs(p)
      BY <3>0, <3>3 DEF CheckLibs, Commands
    <3>4. CASE UseLibs(p)
      BY <3>0, <3>4 DEF UseLibs, Commands
    <3>5. CASE OpenIndex(p)
      BY <3>0, <3>5 DEF OpenIndex
    <3>6. CASE OpenTimesOut(p)
      BY <3>0, <3>6 DEF OpenTimesOut
    <3>7. CASE EndIdentify(p)
      BY <3>0, <3>7 DEF EndIdentify, Commands
    <3>8. CASE NoMirror(p)
      BY <3>0, <3>8 DEF NoMirror, Fails
    <3>9. CASE CreateDeb(p)
      <4> DEFINE n == IF deb[Target[p]][pkg[p]] = None THEN p ELSE deb[Target[p]][pkg[p]]
      <4>1. PICK b \in BodiesOf(Target[p]) : from' = [from EXCEPT ![p][pkg[p]] = b]
        BY <3>9 DEF CreateDeb
      <4>2. n # None /\ b # None
        BY <3>0, BodiesFacts
      <4>3. fd'[p] = n /\ from'[p][pkg[p]] = b /\ (pkg[p] = "dbg" => from'[p]["main"] = from[p]["main"])
        BY <3>9, <3>0, <4>1 DEF CreateDeb
      <4>4. /\ pc[p] = "fetch" /\ pc'[p] = "copy"
            /\ UNCHANGED <<pkg, data, left, open, pos, debug, syms>>
        BY <3>9 DEF CreateDeb
      <4> HIDE DEF n
      <4> QED
        BY <4>2, <4>3, <4>4
    <3>10. CASE CopyDeb(p)
      BY <3>0, <3>10 DEF CopyDeb
    <3>11. CASE CopyFails(p)
      BY <3>0, <3>11 DEF CopyFails, Fails
    <3>12. CASE CopyEnds(p)
      BY <3>0, <3>12 DEF CopyEnds
    <3>13. CASE ReadDeb(p)
      <4>0. pc[p] = "read" /\ UNCHANGED <<from, pkg, open, pos, debug, syms, fd>>
        BY <3>13 DEF ReadDeb
      <4>1. CASE Fails(p) /\ UNCHANGED <<data, left, writers>>
        BY <4>0, <4>1 DEF Fails
      <4>2. CASE \E b \in Bodies : BeginExtract(p, b, FilesOf(pkg[p]) \cup
                                           IF IsWhole(Content(Target[p], pkg[p]), Blocks, b) THEN {} ELSE {Rest})
        <5>1. PICK b \in Bodies, files \in SUBSET (FilesOf(pkg[p]) \cup {Rest}) : BeginExtract(p, b, files)
          BY <4>2
        <5>2. data'[p][pkg[p]] = b /\ b # None /\ left'[p] = files /\ pc'[p] = "extract"
              /\ \A k \in Pkgs \ {pkg[p]} : data'[p][k] = data[p][k]
          BY <3>0, <5>1, BodiesFacts DEF BeginExtract
        <5> QED
          BY <3>0, <4>0, <5>2
      <4> QED
        BY <3>13, <4>1, <4>2 DEF ReadDeb, In
    <3>14. CASE OpenFile(p)
      <4>1. PICK f \in left[p] \ {Rest} : open'[p] = f /\ left'[p] = left[p] \ {f} /\ pos'[p] = 0
        BY <3>14 DEF OpenFile
      <4>2. pc[p] = "extract" /\ UNCHANGED <<pc, pkg, data, from, debug, syms, fd>>
        BY <3>14 DEF OpenFile
      <4>3. data[p][pkg[p]] \in Bodies
        BY <3>0, <4>2
      <4>4. 0 < Chunks[data[p][pkg[p]][2]]
        BY <4>3, BodiesFacts
      <4> QED
        BY <4>1, <4>2, <4>3, <4>4
    <3>15. CASE WriteFile(p)
      <4>1. pc[p] = "extract" /\ UNCHANGED <<pc, pkg, data, left, from, debug, syms, fd>>
        BY <3>15 DEF WriteFile
      <4>2. /\ open'[p] = IF pos[p] + 1 = Chunks[data[p][pkg[p]][2]] THEN None ELSE open[p]
            /\ open[p] # None /\ pos'[p] = pos[p] + 1
        BY <3>15 DEF WriteFile
      <4>3. data[p][pkg[p]] \in Bodies
        BY <3>0, <4>1
      <4>4. Chunks[data[p][pkg[p]][2]] \in Nat
        BY <4>3, BodiesFacts
      <4>7. pos[p] \in Nat /\ pos[p] < Chunks[data[p][pkg[p]][2]]
        BY <4>2
      <4> DEFINE n == Chunks[data[p][pkg[p]][2]]
      <4>8. open'[p] = IF pos[p] + 1 = n THEN None ELSE open[p]
        BY <4>2
      <4>5. open'[p] # None => open'[p] = open[p] /\ pos'[p] < n
        <5> n \in Nat /\ pos[p] < n
          BY <4>4, <4>7
        <5> HIDE DEF n
        <5> QED
          BY <4>2, <4>7, <4>8
      <4>6. ~debug[p]
        BY <4>1
      <4> QED
        BY <4>1, <4>2, <4>5, <4>6
    <3>16. CASE ExtractEnds(p)
      BY <3>0, <3>16 DEF ExtractEnds, Succeeds, Fails, RemoveDeb
    <3>17. CASE FetchDebug(p)
      BY <3>0, <3>17 DEF FetchDebug
    <3>18. CASE LoadLibc(p)
      BY <3>0, <3>18 DEF LoadLibc
    <3>19. CASE LoadSymbols(p)
      <4>1. PICK b \in Bodies \cup {Torn} : syms' = [syms EXCEPT ![p] = b]
        BY <3>19 DEF LoadSymbols, In
      <4>2. syms'[p] # None
        BY <4>1, BodiesFacts
      <4> QED
        BY <3>19, <4>2 DEF LoadSymbols
    <3>20. CASE IndexVersion(p)
      BY <3>0, <3>20 DEF IndexVersion, Put
    <3>21. CASE OpenManifest(p)
      BY <3>0, <3>21 DEF OpenManifest
    <3>22. CASE WriteManifest(p)
      BY <3>0, <3>22 DEF WriteManifest
    <3>23. CASE Kill(p)
      BY <3>0, <3>23 DEF Kill
    <3> QED
      BY <1>1, <3>1, <3>2, <3>3, <3>4, <3>5, <3>6, <3>7, <3>8, <3>9, <3>10, <3>11, <3>12,
         <3>13, <3>14, <3>15, <3>16, <3>17, <3>18, <3>19, <3>20, <3>21, <3>22, <3>23 DEF Step
  <2> QED
    BY <2>1, <2>2 DEF Progress
<1>2. CASE Idle \/ UNCHANGED vars
  BY <1>2 DEF Idle, vars, Progress, ProgressOf, Finished, Extracted
<1> QED
  BY <1>1, <1>2 DEF Next

\* Only OpenFile and WriteFile touch a file, and no file goes away.
LEMMA FilesStay ==
    ASSUME TypeOK, OwnBuilds, Progress, Placed, NEW p \in Procs, Step(p) \/ Kill(p),
           NEW v \in Versions, NEW f \in Files
    PROVE  /\ libs[v][f] # None => libs'[v][f] # None
           /\ OpenFile(p) \/ WriteFile(p) \/ libs' = libs
<1>1. CASE OpenFile(p)
  <2>1. PICK g \in Files : libs' = [libs EXCEPT ![Target[p]][g] = <<>>]
    BY <1>1 DEF OpenFile, TypeOK
  <2>2. <<>> # None
    BY EmptyFacts
  <2> QED
    BY <1>1, <2>1, <2>2 DEF TypeOK
<1>2. CASE WriteFile(p)
  <2> DEFINE s == PutAt(libs[Target[p]][open[p]], pos[p] + 1, data[p][pkg[p]])
  <2>1. s \in Blobs /\ libs' = [libs EXCEPT ![Target[p]][open[p]] = s]
    BY <1>2, WriteFacts
  <2>2. s # None
    BY <2>1
  <2> HIDE DEF s
  <2> QED
    BY <1>2, <2>1, <2>2 DEF TypeOK
<1>3. CASE ~OpenFile(p) /\ ~WriteFile(p)
  <2> USE DEF cached, reading, loaded, locals, index, disk
  <2>1. CASE StartDownload(p) \/ StartIdentify(p) \/ CheckLibs(p) \/ UseLibs(p) \/ OpenIndex(p)
             \/ OpenTimesOut(p) \/ EndIdentify(p) \/ Kill(p)
    BY <2>1 DEF StartDownload, StartIdentify, CheckLibs, UseLibs, OpenIndex, OpenTimesOut,
       EndIdentify, Kill
  <2>2. CASE NoMirror(p) \/ CreateDeb(p) \/ CopyDeb(p) \/ CopyFails(p) \/ CopyEnds(p) \/ ReadDeb(p)
             \/ ExtractEnds(p) \/ FetchDebug(p)
    BY <2>2 DEF NoMirror, CreateDeb, CopyDeb, CopyFails, CopyEnds, ReadDeb, ExtractEnds, FetchDebug
  <2>3. CASE LoadLibc(p) \/ LoadSymbols(p) \/ IndexVersion(p) \/ OpenManifest(p) \/ WriteManifest(p)
    BY <2>3 DEF LoadLibc, LoadSymbols, IndexVersion, OpenManifest, WriteManifest
  <2> QED
    BY <1>3, <2>1, <2>2, <2>3 DEF Step
<1> QED
  BY <1>1, <1>2, <1>3

\* What p has of a package changes when it begins to extract it and when it
\* opens a file of it.
LEMMA HasStays ==
    ASSUME TypeOK, Progress, NEW p \in Procs, Step(p) \/ Kill(p), NEW k \in Pkgs
    PROVE  \/ data'[p][k] = data[p][k] /\ LeftOf(p, k)' = LeftOf(p, k)
           \/ ReadDeb(p) /\ k = pkg[p] /\ FilesOf(k) \subseteq LeftOf(p, k)'
           \/ OpenFile(p) /\ k = pkg[p] /\ data'[p][k] = data[p][k]
<1> USE DEF cached, reading, loaded, locals, index, disk, LeftOf
<1>1. CASE StartDownload(p) \/ StartIdentify(p) \/ CheckLibs(p) \/ UseLibs(p) \/ OpenIndex(p)
           \/ OpenTimesOut(p) \/ EndIdentify(p) \/ Kill(p)
  BY <1>1 DEF StartDownload, StartIdentify, CheckLibs, UseLibs, OpenIndex, OpenTimesOut,
     EndIdentify, Kill
<1>2. CASE NoMirror(p) \/ CreateDeb(p) \/ CopyDeb(p) \/ CopyFails(p) \/ CopyEnds(p) \/ WriteFile(p)
           \/ ExtractEnds(p)
  BY <1>2 DEF NoMirror, CreateDeb, CopyDeb, CopyFails, CopyEnds, ExtractEnds, WriteFile
<1>3. CASE LoadLibc(p) \/ LoadSymbols(p) \/ IndexVersion(p) \/ OpenManifest(p) \/ WriteManifest(p)
  BY <1>3 DEF LoadLibc, LoadSymbols, IndexVersion, OpenManifest, WriteManifest
<1>4. CASE ReadDeb(p)
  <2>1. CASE UNCHANGED <<data, left, writers>>
    BY <1>4, <2>1 DEF ReadDeb
  <2>2. CASE \E b, F : BeginExtract(p, b, FilesOf(pkg[p]) \cup F)
    <3>1. PICK b, F : BeginExtract(p, b, FilesOf(pkg[p]) \cup F)
      BY <2>2
    <3>2. data' = [data EXCEPT ![p][pkg[p]] = b] /\ left'[p] = FilesOf(pkg[p]) \cup F /\ pkg' = pkg
      BY <1>4, <3>1 DEF BeginExtract, ReadDeb, TypeOK
    <3> QED
      BY <1>4, <3>2 DEF TypeOK
  <2> QED
    BY <1>4, <2>1, <2>2 DEF ReadDeb
<1>5. CASE OpenFile(p)
  <2>1. PICK f \in left[p] \ {Rest} : left' = [left EXCEPT ![p] = @ \ {f}]
    BY <1>5 DEF OpenFile
  <2> QED
    BY <1>5, <2>1 DEF OpenFile, TypeOK
<1>6. CASE FetchDebug(p)
  <2>1. left[p] = {} /\ left' = left /\ data' = data
    BY <1>6 DEF FetchDebug, Progress, ProgressOf, Extracted
  <2> QED
    BY <2>1
<1> QED
  BY <1>1, <1>2, <1>3, <1>4, <1>5, <1>6 DEF Step

\* A file that was extracted stays, and whoever goes on to use a directory has
\* found a libc there.
LEMMA PlacedStep ==
    TypeOK /\ OwnBuilds /\ Commands /\ Progress /\ Placed /\ [Next]_vars => Placed'
<1> SUFFICES ASSUME TypeOK, OwnBuilds, Commands, Progress, Placed, [Next]_vars PROVE Placed'
  OBVIOUS
<1>1. ASSUME NEW p \in Procs, Step(p) \/ Kill(p) PROVE Placed'
  <2>0. Target[p] \in Versions /\ \A q \in Procs : Target[q] \in Versions
    BY DEF TypeOK
  <2>1. ASSUME NEW q \in Procs, NEW k \in Pkgs, data'[q][k] # None,
               NEW f \in FilesOf(k), f \notin LeftOf(q, k)'
        PROVE  libs'[Target[q]][f] # None
    <3>1. f \in Files
      BY FilesFacts
    <3>2. CASE q # p
      <4>1. data[q][k] # None /\ f \notin LeftOf(q, k)
        BY <1>1, <2>1, <3>2, OthersStay DEF LeftOf
      <4>2. libs[Target[q]][f] # None
        BY <4>1 DEF Placed
      <4> QED
        BY <1>1, <2>0, <3>1, <4>2, FilesStay
    <3>3. CASE q = p /\ data'[p][k] = data[p][k] /\ LeftOf(p, k)' = LeftOf(p, k)
      <4>1. libs[Target[q]][f] # None
        BY <2>1, <3>3 DEF Placed
      <4> QED
        BY <1>1, <2>0, <3>1, <4>1, FilesStay
    <3>4. CASE q = p /\ OpenFile(p) /\ k = pkg[p] /\ data'[p][k] = data[p][k]
      <4>1. PICK g \in left[p] \ {Rest} : /\ libs' = [libs EXCEPT ![Target[p]][g] = <<>>]
                                          /\ left' = [left EXCEPT ![p] = @ \ {g}]
        BY <3>4 DEF OpenFile
      <4>2. CASE f = g
        <5>1. libs'[Target[p]][f] = <<>> /\ <<>> # None
          BY <2>0, <3>1, <4>1, <4>2, EmptyFacts DEF TypeOK
        <5> QED
          BY <3>4, <5>1
      <4>3. CASE f # g
        <5>1. f \notin LeftOf(p, k)
          BY <2>1, <3>4, <4>1, <4>3 DEF LeftOf, OpenFile, TypeOK, locals
        <5>2. libs[Target[p]][f] # None
          BY <2>1, <3>4, <5>1 DEF Placed
        <5> QED
          BY <1>1, <2>0, <3>1, <3>4, <5>2, FilesStay
      <4> QED
        BY <4>2, <4>3
    <3> QED
      BY <1>1, <2>1, <3>2, <3>3, <3>4, HasStays
  <2>2. ASSUME NEW q \in Procs, pc'[q] = "use" PROVE HasLibc(Target[q])'
    <3> USE DEF HasLibc, TypeOK, Go
    <3>1. "libc" \in Files
      BY FilesFacts
    <3>2. CASE q # p \/ pc[q] = "use"
      <4>1. pc[q] = "use"
        BY <1>1, <2>2, <3>2, OthersStay
      <4>2. libs[Target[q]]["libc"] # None
        BY <4>1 DEF Placed
      <4> QED
        BY <1>1, <2>0, <3>1, <4>2, FilesStay
    <3>3. CASE q = p /\ CheckLibs(p)
      BY <2>2, <3>3 DEF CheckLibs, disk
    <3>4. CASE q = p /\ WriteManifest(p)
      <4>1. Finished(p, "main") /\ "libc" \in FilesOf("main") /\ "main" \in Pkgs
        BY <3>4, FilesFacts DEF WriteManifest, Progress, ProgressOf, HasMain, Loaded, Read, Indexed
      <4>2. data[p]["main"] # None /\ "libc" \notin LeftOf(p, "main")
        BY <4>1 DEF Finished, LeftOf, Extracted
      <4>3. libs[Target[p]]["libc"] # None
        BY <4>1, <4>2 DEF Placed
      <4> QED
        BY <1>1, <2>0, <3>1, <3>4, <4>3, FilesStay
    <3>5. CASE q = p /\ pc[q] # "use" /\ ~CheckLibs(p) /\ ~WriteManifest(p)
      <4> USE DEF cached, reading, loaded, locals, index, disk
      <4>1. CASE StartDownload(p) \/ StartIdentify(p) \/ UseLibs(p) \/ OpenIndex(p)
                 \/ OpenTimesOut(p) \/ EndIdentify(p) \/ Kill(p)
        BY <2>2, <3>5, <4>1 DEF StartDownload, StartIdentify, UseLibs, OpenIndex, OpenTimesOut,
           EndIdentify, Kill
      <4>2. CASE NoMirror(p) \/ CreateDeb(p) \/ CopyDeb(p) \/ CopyFails(p) \/ CopyEnds(p)
                 \/ OpenFile(p) \/ WriteFile(p)
        BY <2>2, <3>5, <4>2 DEF NoMirror, CreateDeb, CopyDeb, CopyFails, CopyEnds, OpenFile,
           WriteFile, Fails
      <4>3. CASE ReadDeb(p) \/ ExtractEnds(p) \/ FetchDebug(p)
        BY <2>2, <3>5, <4>3 DEF ReadDeb, ExtractEnds, FetchDebug, Fails, Succeeds, BeginExtract
      <4>4. CASE LoadLibc(p) \/ LoadSymbols(p) \/ IndexVersion(p) \/ OpenManifest(p)
        BY <2>2, <3>5, <4>4 DEF LoadLibc, LoadSymbols, IndexVersion, OpenManifest
      <4> QED
        BY <1>1, <3>5, <4>1, <4>2, <4>3, <4>4 DEF Step
    <3> QED
      BY <3>2, <3>3, <3>4, <3>5
  <2> QED
    BY <2>1, <2>2 DEF Placed, HasLibc
<1>2. CASE Idle \/ UNCHANGED vars
  BY <1>2 DEF Idle, vars, Placed, LeftOf, HasLibc, reading, locals, disk
<1> QED
  BY <1>1, <1>2 DEF Next

\* What p is writing, and how much of it, changes when it opens a file and
\* when it writes; and only ReadDeb makes it extract.
LEMMA WritingStays ==
    ASSUME TypeOK, NEW p \in Procs, Step(p) \/ Kill(p)
    PROVE  /\ OpenFile(p) \/ WriteFile(p) \/ (open' = open /\ pos' = pos)
           /\ ReadDeb(p) \/ writers' = writers
           /\ pc'[p] = "extract" => ReadDeb(p) \/ (pc[p] = "extract" /\ pkg' = pkg)
<1> USE DEF cached, reading, loaded, locals, index, disk, TypeOK, Go
<1>1. CASE StartDownload(p) \/ StartIdentify(p) \/ CheckLibs(p) \/ UseLibs(p) \/ OpenIndex(p)
           \/ OpenTimesOut(p) \/ EndIdentify(p) \/ Kill(p)
  BY <1>1 DEF StartDownload, StartIdentify, CheckLibs, UseLibs, OpenIndex, OpenTimesOut,
     EndIdentify, Kill
<1>2. CASE NoMirror(p) \/ CreateDeb(p) \/ CopyDeb(p) \/ CopyFails(p) \/ CopyEnds(p)
  BY <1>2 DEF NoMirror, CreateDeb, CopyDeb, CopyFails, CopyEnds, Fails
<1>3. CASE ReadDeb(p)
  BY <1>3 DEF ReadDeb
<1>4. CASE OpenFile(p) \/ WriteFile(p)
  BY <1>4 DEF OpenFile, WriteFile
<1>5. CASE ExtractEnds(p) \/ FetchDebug(p)
  BY <1>5 DEF ExtractEnds, FetchDebug, Succeeds, Fails
<1>6. CASE LoadLibc(p) \/ LoadSymbols(p) \/ IndexVersion(p) \/ OpenManifest(p) \/ WriteManifest(p)
  BY <1>6 DEF LoadLibc, LoadSymbols, IndexVersion, OpenManifest, WriteManifest
<1> QED
  BY <1>1, <1>2, <1>3, <1>4, <1>5, <1>6 DEF Step

\* A step that is at none of a package's files leaves its extractions alone.
LEMMA SameBatch ==
    ASSUME NEW v \in Versions, NEW k \in Pkgs, Batch(v, k),
           writers'[v][k] = writers[v][k],
           Extracting(v, k)' \subseteq Extracting(v, k),
           \A f \in FilesOf(k) : libs'[v][f] = libs[v][f],
           \A q \in Procs : Target[q] = v =>
              /\ data'[q][k] = data[q][k] /\ LeftOf(q, k)' = LeftOf(q, k)
              /\ \A f \in FilesOf(k) : \A n : Upto(q, f, n)' = Upto(q, f, n),
           writers[v][k] \subseteq Procs
    PROVE  Batch(v, k)'
<1>1. \A q \in writers[v][k] : q \in Procs /\ Target[q] = v
  BY DEF Batch
<1>2. ASSUME NEW b \in Bodies, NEW f \in FilesOf(k)
      PROVE  Reached(v, k, f, b)' = Reached(v, k, f, b)
  BY <1>1 DEF Reached
<1>3. ASSUME NEW b \in Bodies, \A q \in writers[v][k] : data'[q][k] = b
      PROVE  \A q \in writers[v][k] : data[q][k] = b
  BY <1>1, <1>3
<1> QED
  BY <1>1, <1>2, <1>3 DEF Batch

\* The next to extract a package either begins afresh or joins those at it.
LEMMA BeginsBatch ==
    ASSUME TypeOK, Progress, NEW p \in Procs, ReadDeb(p), writers' # writers,
           NEW v, v = Target[p], NEW k, k = pkg[p], Batch(v, k)
    PROVE  Batch(v, k)'
<1> DEFINE W == writers[v][k]
<1>0. v \in Versions /\ k \in Pkgs /\ W \subseteq Procs
  BY DEF TypeOK
<1>1a. PICK b0 \in Bodies : \E F : BeginExtract(p, b0, FilesOf(k) \cup F)
  BY DEF ReadDeb, In
<1>1. PICK F : BeginExtract(p, b0, FilesOf(k) \cup F)
  BY <1>1a
<1>2. /\ data' = [data EXCEPT ![p][k] = b0] /\ left' = [left EXCEPT ![p] = FilesOf(k) \cup F]
      /\ writers' = [writers EXCEPT ![v][k] = IF Extracting(v, k) = {} THEN {p} ELSE @ \cup {p}]
      /\ pc' = [pc EXCEPT ![p] = "extract"]
      /\ UNCHANGED <<pkg, open, pos, libs>>
  BY <1>1 DEF ReadDeb, BeginExtract, Go, disk
<1>3. /\ writers'[v][k] = IF Extracting(v, k) = {} THEN {p} ELSE W \cup {p}
      /\ data'[p][k] = b0 /\ b0 # None
      /\ FilesOf(k) \subseteq LeftOf(p, k)'
  BY <1>0, <1>2, BodiesFacts DEF TypeOK, LeftOf
<1>4. p \notin W
  <2>1. data[p][k] = None
    BY DEF ReadDeb, Progress, ProgressOf, InDeb
  <2> QED
    BY <2>1 DEF Batch
<1>5. \A q \in Procs \ {p} : /\ data'[q][k] = data[q][k] /\ LeftOf(q, k)' = LeftOf(q, k)
                            /\ \A f, n : Upto(q, f, n)' = Upto(q, f, n)
  BY <1>2 DEF TypeOK, LeftOf, Upto
<1>6. Extracting(v, k)' \subseteq Extracting(v, k) \cup {p}
  BY <1>2 DEF Extracting, TypeOK
<1>7. \A q \in writers'[v][k] : Target[q] = v /\ data'[q][k] # None
  BY <1>0, <1>3, <1>4, <1>5 DEF Batch
<1>8. Extracting(v, k)' \subseteq writers'[v][k] /\ writers'[v][k] # {}
  BY <1>3, <1>6 DEF Batch
<1>9. ASSUME NEW b \in Bodies, \A q \in writers'[v][k] : data'[q][k] = b,
             NEW f \in FilesOf(k), Reached(v, k, f, b)' # {}
      PROVE  Growing(libs'[v][f], b, Reached(v, k, f, b)')
  <2>1. PICK q \in writers'[v][k] : f \notin LeftOf(q, k)'
    BY <1>9 DEF Reached
  <2>2. writers'[v][k] = W \cup {p} /\ q \in W
    BY <1>3, <2>1
  <2>3. \A r \in W : data[r][k] = b
    BY <1>0, <1>4, <1>5, <1>9, <2>2
  <2>4. Reached(v, k, f, b)' = Reached(v, k, f, b)
    <3>1. {r \in writers'[v][k] : f \notin LeftOf(r, k)'} = {r \in W : f \notin LeftOf(r, k)}
      BY <1>0, <1>3, <1>4, <1>5, <2>2
    <3>2. \A r \in W : Upto(r, f, Chunks[b[2]])' = Upto(r, f, Chunks[b[2]])
      BY <1>0, <1>4, <1>5
    <3> QED
      BY <3>1, <3>2 DEF Reached
  <2> QED
    BY <1>2, <1>9, <2>3, <2>4 DEF Batch
<1> QED
  BY <1>7, <1>8, <1>9 DEF Batch

\* Whoever opens a file begins it again: nothing of it is there yet.
LEMMA OpensInBatch ==
    ASSUME TypeOK, OwnBuilds, Progress, NEW p \in Procs, OpenFile(p),
           NEW v, v = Target[p], NEW k, k = pkg[p], Batch(v, k)
    PROVE  Batch(v, k)'
<1> DEFINE W == writers[v][k]
<1>0. v \in Versions /\ k \in Pkgs /\ W \subseteq Procs
  BY DEF TypeOK
<1>1. PICK g \in left[p] \ {Rest} : /\ open' = [open EXCEPT ![p] = g]
                                    /\ libs' = [libs EXCEPT ![v][g] = <<>>]
                                    /\ left' = [left EXCEPT ![p] = @ \ {g}]
  BY DEF OpenFile
<1>2. g \in Files /\ open[p] = None
  BY DEF OpenFile, TypeOK
<1>3. UNCHANGED <<pc, pkg, data, writers>> /\ pos' = [pos EXCEPT ![p] = 0]
  BY DEF OpenFile
<1>4. p \in W
  BY <1>0 DEF Batch, Extracting, OpenFile
<1>5. \A q \in Procs \ {p} : /\ LeftOf(q, k)' = LeftOf(q, k)
                            /\ \A f, n : Upto(q, f, n)' = Upto(q, f, n)
  BY <1>1, <1>3 DEF TypeOK, LeftOf, Upto
<1>6. /\ LeftOf(p, k)' = LeftOf(p, k) \ {g} /\ Upto(p, g, 0)' = 0
      /\ \A n : Upto(p, g, n)' = 0
      /\ \A f, n : f # g /\ f # None => Upto(p, f, n)' = n /\ Upto(p, f, n) = n
  BY <1>1, <1>2, <1>3 DEF TypeOK, LeftOf, Upto
<1>7. Extracting(v, k)' = Extracting(v, k)
  BY <1>3 DEF Extracting
<1>8. ASSUME NEW b \in Bodies, \A q \in W : data[q][k] = b,
             NEW f \in FilesOf(k), Reached(v, k, f, b)' # {}
      PROVE  Growing(libs'[v][f], b, Reached(v, k, f, b)')
  <2>0. f \in Files /\ f # None
    BY <1>0, FilesFacts
  <2>1. CASE f = g
    <3>1. libs'[v][f] = <<>> /\ <<>> # None /\ 0 <= Chunks[b[2]]
      BY <1>0, <1>1, <2>0, <2>1, EmptyFacts, BodiesFacts DEF TypeOK
    <3>2. 0 \in Reached(v, k, f, b)'
      BY <1>3, <1>4, <1>6, <2>1 DEF Reached
    <3> QED
      BY <3>1, <3>2 DEF Growing
  <2>2. CASE f # g
    <3>1. libs'[v][f] = libs[v][f]
      BY <1>0, <1>1, <2>0, <2>2 DEF TypeOK
    <3>2. \A r \in W : /\ f \notin LeftOf(r, k) <=> f \notin LeftOf(r, k)'
                       /\ Upto(r, f, Chunks[b[2]])' = Upto(r, f, Chunks[b[2]])
      BY <1>0, <1>5, <1>6, <2>0, <2>2
    <3>3. Reached(v, k, f, b)' = Reached(v, k, f, b)
      BY <1>3, <3>2 DEF Reached
    <3> QED
      BY <1>8, <3>1, <3>3 DEF Batch
  <2> QED
    BY <2>1, <2>2
<1> QED
  BY <1>3, <1>4, <1>7, <1>8 DEF Batch

\* A block of the one build brings whoever writes it a block further, and
\* takes nothing from the others.
LEMMA WritesInBatch ==
    ASSUME TypeOK, OwnBuilds, Progress, Placed, NEW p \in Procs, WriteFile(p),
           NEW v, v = Target[p], NEW k, k = pkg[p], Batch(v, k)
    PROVE  Batch(v, k)'
<1> DEFINE W == writers[v][k]
           g == open[p]
           b0 == data[p][k]
           s == libs[v][g]
           t == PutAt(s, pos[p] + 1, b0)
<1>0. v \in Versions /\ k \in Pkgs /\ W \subseteq Procs
  BY DEF TypeOK
<1>1. /\ libs' = [libs EXCEPT ![v][g] = t]
      /\ open' = [open EXCEPT ![p] = IF pos[p] + 1 = Chunks[b0[2]] THEN None ELSE @]
      /\ pos' = [pos EXCEPT ![p] = @ + 1]
      /\ UNCHANGED <<pc, pkg, data, left, writers>>
  BY DEF WriteFile
<1>2. /\ b0 \in BodiesOf(v) /\ b0 \in Bodies /\ g \in FilesOf(k) \ left[p] /\ g \in Files
      /\ pos[p] \in Nat /\ pos[p] < Chunks[b0[2]] /\ s \in Blobs /\ t # None
  <2>1. s \in BlobsOf(v) /\ s # None /\ t \in Blobs
    BY WriteFacts
  <2> QED
    BY <1>0, <2>1, WriteFacts DEF TypeOK
<1>3. p \in W
  BY <1>0 DEF Batch, Extracting, WriteFile
<1>4. /\ \A q \in Procs : LeftOf(q, k)' = LeftOf(q, k)
      /\ \A q \in Procs \ {p} : \A f, n : Upto(q, f, n)' = Upto(q, f, n)
      /\ \A f, n : f # g /\ f # None => Upto(p, f, n)' = Upto(p, f, n)
  BY <1>1 DEF TypeOK, LeftOf, Upto
<1>5. ASSUME NEW f, f = g, NEW n, n = Chunks[b0[2]]
      PROVE  Upto(p, f, n) = pos[p] /\ Upto(p, f, n)' = pos[p] + 1
  <2>1. f # None
    BY <1>5 DEF WriteFile
  <2>2. open'[p] = (IF pos[p] + 1 = n THEN None ELSE f) /\ pos'[p] = pos[p] + 1 /\ open[p] = f
    BY <1>1, <1>5 DEF TypeOK
  <2> QED
    BY <2>1, <2>2 DEF Upto
<1>6. Extracting(v, k)' = Extracting(v, k)
  BY <1>1 DEF Extracting
<1>7. ASSUME NEW b \in Bodies, \A q \in W : data[q][k] = b,
             NEW f \in FilesOf(k), Reached(v, k, f, b)' # {}
      PROVE  Growing(libs'[v][f], b, Reached(v, k, f, b)')
  <2>0. f \in Files /\ f # None
    BY <1>0, FilesFacts
  <2>2. CASE f # g
    <3>1. libs'[v][f] = libs[v][f]
      BY <1>0, <1>1, <2>0, <2>2 DEF TypeOK
    <3>2. \A r \in W : \A n : Upto(r, f, n)' = Upto(r, f, n) /\ LeftOf(r, k)' = LeftOf(r, k)
      BY <1>0, <1>4, <2>0, <2>2
    <3>3. Reached(v, k, f, b)' = Reached(v, k, f, b)
      BY <1>1, <3>2 DEF Reached
    <3> QED
      BY <1>7, <3>1, <3>3 DEF Batch
  <2>3. CASE f = g
    <3> DEFINE n == Chunks[b[2]]
    <3>0. pos[p] \in Reached(v, k, f, b) /\ g \notin LeftOf(p, k) /\ b0 = b
      BY <1>2, <1>3, <1>5, <1>7, <2>3 DEF Reached, LeftOf
    <3>1. n \in Nat /\ pos[p] + 1 <= n /\ pos[p] + 1 \in Nat \ {0}
      BY <1>2, <3>0, BodiesFacts
    <3>2. libs'[v][f] = t /\ t = PutAt(s, pos[p] + 1, b)
      BY <1>0, <1>1, <1>2, <2>3, <3>0 DEF TypeOK
    <3>3. Growing(s, b, Reached(v, k, f, b))
      BY <1>7, <2>3, <3>0 DEF Batch
    <3>4. /\ Len(t) = IF Len(s) < pos[p] + 1 THEN pos[p] + 1 ELSE Len(s)
          /\ \A i \in 1 .. Len(t) : t[i] = IF i = pos[p] + 1 THEN b ELSE IF i <= Len(s) THEN s[i] ELSE Hole
      <4> DEFINE S == Bodies \cup {Hole}
      <4>1. s \in Seq(S) /\ Hole \in S /\ b \in S
        BY <1>2 DEF Blobs
      <4> DEFINE j == pos[p] + 1
      <4>2. j \in Nat \ {0} /\ t = PutAt(s, j, b)
        BY <3>1, <3>2
      <4> HIDE DEF S, t, s, j
      <4>3. /\ Len(t) = IF Len(s) < j THEN j ELSE Len(s)
            /\ \A i \in 1 .. Len(t) : t[i] = IF i = j THEN b ELSE IF i <= Len(s) THEN s[i] ELSE Hole
        <5>1. Len(PutAt(s, j, b)) = IF Len(s) < j THEN j ELSE Len(s)
          BY <4>1, <4>2, PutAtLen
        <5>2. ASSUME NEW i \in 1 .. Len(PutAt(s, j, b))
              PROVE  PutAt(s, j, b)[i] = IF i = j THEN b ELSE IF i <= Len(s) THEN s[i] ELSE Hole
          <6>1. i \in 1 .. IF Len(s) < j THEN j ELSE Len(s)
            BY <5>1, <5>2
          <6> QED
            BY <6>1 DEF PutAt
        <5> QED
          BY <4>2, <5>1, <5>2
      <4> QED
        BY <4>3 DEF j
    <3>5. Len(s) \in Nat
      BY <1>2 DEF Blobs
    <3> HIDE DEF t, n
    <3>6. t # None /\ Len(t) <= n /\ \A j \in 1 .. Len(t) : t[j] \in {b, Hole}
      <4>1. Len(s) <= n /\ \A j \in 1 .. Len(s) : s[j] \in {b, Hole}
        BY <3>3 DEF Growing, n
      <4>2. Len(t) \in Nat /\ Len(t) <= n
        BY <3>1, <3>4, <3>5, <4>1
      <4> HIDE DEF s
      <4>3. \A j \in 1 .. Len(t) : j <= Len(s) => j \in 1 .. Len(s)
        BY <3>5, <4>2
      <4>4. \A j \in 1 .. Len(t) : t[j] \in {b, Hole}
        BY <3>4, <4>1, <4>3
      <4> QED
        BY <1>2, <4>2, <4>4
    <3>7. PICK m \in Reached(v, k, f, b) : \A j \in 1 .. m : j <= Len(s) /\ s[j] = b
      BY <3>3 DEF Growing
    <3>8. PICK r \in W : f \notin LeftOf(r, k) /\ m = Upto(r, f, n)
      BY <3>7 DEF Reached, n
    <3>9. m \in Nat /\ \A j \in 1 .. m : j <= Len(t) /\ t[j] = b
      <4>1. m \in Nat
        BY <1>0, <3>1, <3>8 DEF Upto, TypeOK
      <4> QED
        BY <3>1, <3>4, <3>5, <3>7, <4>1
    <3>10. CASE r # p
      <4>1. m \in Reached(v, k, f, b)'
        BY <1>0, <1>1, <1>4, <3>8, <3>10 DEF Reached, n
      <4> QED
        BY <3>2, <3>6, <3>9, <4>1 DEF Growing, n
    <3>11. CASE r = p
      <4>3. m = pos[p] /\ Upto(p, f, Chunks[b[2]])' = pos[p] + 1
        <5>1. Chunks[b[2]] = Chunks[b0[2]]
          BY <3>0
        <5> QED
          BY <1>5, <2>3, <3>8, <3>11, <5>1 DEF n
      <4>4. p \in writers'[v][k] /\ f \notin LeftOf(p, k)'
        BY <1>1, <1>3, <1>4, <2>3, <3>0
      <4>1. m = pos[p] /\ pos[p] + 1 \in Reached(v, k, f, b)'
        BY <4>3, <4>4 DEF Reached
      <4>2. \A j \in 1 .. pos[p] + 1 : j <= Len(t) /\ t[j] = b
        BY <1>2, <3>1, <3>4, <3>5, <3>9, <4>1
      <4> QED
        BY <3>2, <3>6, <4>1, <4>2 DEF Growing, n
    <3> QED
      BY <3>10, <3>11
  <2> QED
    BY <2>2, <2>3
<1> QED
  BY <1>1, <1>3, <1>6, <1>7 DEF Batch

\* What the files of a package are follows the extractions of it that overlap.
LEMMA BatchesStep ==
    TypeOK /\ OwnBuilds /\ Progress /\ Placed /\ Batches /\ [Next]_vars => Batches'
<1> SUFFICES ASSUME TypeOK, OwnBuilds, Progress, Placed, Batches, [Next]_vars,
                    NEW v \in Versions, NEW k \in Pkgs
             PROVE  Batch(v, k)'
  BY DEF Batches
<1>0. Batch(v, k) /\ writers[v][k] \subseteq Procs
  BY DEF Batches, TypeOK
<1>1. ASSUME NEW p \in Procs, Step(p) \/ Kill(p) PROVE Batch(v, k)'
  <2>1. CASE v = Target[p] /\ k = pkg[p] /\ (OpenFile(p) \/ WriteFile(p))
    BY <1>0, <2>1, OpensInBatch, WritesInBatch
  <2>2. CASE v = Target[p] /\ k = pkg[p] /\ ReadDeb(p) /\ writers' # writers
    BY <1>0, <2>2, BeginsBatch
  <2>3. CASE /\ ~(v = Target[p] /\ k = pkg[p] /\ (OpenFile(p) \/ WriteFile(p)))
             /\ ~(v = Target[p] /\ k = pkg[p] /\ ReadDeb(p) /\ writers' # writers)
    <3>0. Target[p] \in Versions /\ pkg[p] \in Pkgs
      BY DEF TypeOK
    <3>1. ReadDeb(p) => \/ UNCHANGED <<data, left, writers, pkg>> /\ pc'[p] # "extract"
                        \/ writers' # writers /\ (v # Target[p] \/ k # pkg[p])
      <4> SUFFICES ASSUME ReadDeb(p), ~UNCHANGED <<data, left, writers>> \/ pc'[p] = "extract"
                   PROVE  writers' # writers /\ (v # Target[p] \/ k # pkg[p])
        BY DEF ReadDeb, locals
      <4>1a. PICK b \in Bodies : \E F : BeginExtract(p, b, F)
        BY DEF ReadDeb, In, Fails, Go, TypeOK
      <4>1. PICK F : BeginExtract(p, b, F)
        BY <4>1a
      <4>2. p \in writers'[Target[p]][pkg[p]]
        BY <3>0, <4>1 DEF BeginExtract, TypeOK
      <4>3. data[p][pkg[p]] = None
        BY DEF ReadDeb, Progress, ProgressOf, InDeb
      <4>4. p \notin writers[Target[p]][pkg[p]]
        BY <3>0, <4>3 DEF Batches, Batch
      <4> QED
        BY <2>3, <4>2, <4>4
    <3>2. writers'[v][k] = writers[v][k]
      <4>1. CASE writers' = writers
        BY <4>1
      <4>2. CASE writers' # writers
        <5>1. ReadDeb(p) /\ (v # Target[p] \/ k # pkg[p])
          BY <1>1, <2>3, <4>2, WritingStays
        <5>2a. PICK b \in Bodies : \E F : BeginExtract(p, b, F)
          BY <4>2, <5>1 DEF ReadDeb, In
        <5>2. PICK F : BeginExtract(p, b, F)
          BY <5>2a
        <5> QED
          BY <3>0, <5>1, <5>2 DEF BeginExtract, TypeOK
      <4> QED
        BY <4>1, <4>2
    <3>3. Extracting(v, k)' \subseteq Extracting(v, k)
      <4> SUFFICES ASSUME NEW q \in Procs, pc'[q] = "extract", Target[q] = v, pkg'[q] = k
                   PROVE  pc[q] = "extract" /\ pkg[q] = k
        BY DEF Extracting
      <4>1. CASE q # p
        BY <1>1, <4>1, OthersStay
      <4>2. CASE q = p
        <5>1. ReadDeb(p) => pkg' = pkg
          BY DEF ReadDeb, locals
        <5> QED
          BY <1>1, <3>1, <4>2, <5>1, WritingStays
      <4> QED
        BY <4>1, <4>2
    <3>4. ASSUME NEW f \in FilesOf(k) PROVE libs'[v][f] = libs[v][f]
      <4>0. f \in Files
        BY FilesFacts
      <4>1. CASE OpenFile(p)
        <5>1. PICK g \in left[p] \ {Rest} : libs' = [libs EXCEPT ![Target[p]][g] = <<>>]
          BY <4>1 DEF OpenFile
        <5>2. g \in FilesOf(pkg[p]) /\ g \in Files
          BY <5>1 DEF Progress, ProgressOf, TypeOK
        <5>3. v # Target[p] \/ f # g
          BY <2>3, <3>0, <4>1, <5>2, FilesFacts
        <5> QED
          BY <3>0, <4>0, <5>1, <5>2, <5>3 DEF TypeOK
      <4>2. CASE WriteFile(p)
        <5>1. /\ libs' = [libs EXCEPT ![Target[p]][open[p]] = PutAt(libs[Target[p]][open[p]], pos[p] + 1, data[p][pkg[p]])]
              /\ open[p] \in FilesOf(pkg[p]) /\ open[p] \in Files
          BY <4>2, WriteFacts
        <5>2. v # Target[p] \/ f # open[p]
          BY <2>3, <3>0, <4>2, <5>1, FilesFacts
        <5> QED
          BY <3>0, <4>0, <5>1, <5>2 DEF TypeOK
      <4>3. CASE ~OpenFile(p) /\ ~WriteFile(p)
        BY <1>1, <4>0, <4>3, FilesStay
      <4> QED
        BY <4>1, <4>2, <4>3
    <3>5. ASSUME NEW q \in Procs, Target[q] = v
          PROVE  data'[q][k] = data[q][k] /\ LeftOf(q, k)' = LeftOf(q, k)
      <4>1. CASE q # p
        BY <1>1, <4>1, OthersStay DEF LeftOf
      <4>2. CASE q = p
        <5>1. CASE ReadDeb(p)
          BY <1>1, <2>3, <3>1, <3>5, <4>2, <5>1, HasStays DEF LeftOf
        <5>2. CASE OpenFile(p)
          BY <1>1, <2>3, <3>5, <4>2, <5>2, HasStays DEF OpenFile
        <5>3. CASE ~ReadDeb(p) /\ ~OpenFile(p)
          BY <1>1, <4>2, <5>3, HasStays
        <5> QED
          BY <5>1, <5>2, <5>3
      <4> QED
        BY <4>1, <4>2
    <3>6. ASSUME NEW q \in Procs, Target[q] = v, NEW f \in FilesOf(k), NEW n
          PROVE  Upto(q, f, n)' = Upto(q, f, n)
      <4>0. f \in Files /\ f # None
        BY FilesFacts
      <4>1. CASE q # p
        BY <1>1, <4>1, OthersStay DEF Upto
      <4>2. CASE q = p /\ (OpenFile(p) \/ WriteFile(p))
        <5>1. k # pkg[p]
          BY <2>3, <3>6, <4>2
        <5>2. open[p] # f /\ open'[p] # f
          <6>1. open[p] \in FilesOf(pkg[p]) \cup {None}
            BY DEF Progress, ProgressOf
          <6>2. open'[p] \in FilesOf(pkg[p]) \cup {None}
            <7>1. CASE OpenFile(p)
              <8>1. PICK g \in left[p] \ {Rest} : open' = [open EXCEPT ![p] = g]
                BY <7>1 DEF OpenFile
              <8> QED
                BY <8>1 DEF Progress, ProgressOf, TypeOK
            <7>2. CASE WriteFile(p)
              BY <6>1, <7>2 DEF WriteFile, TypeOK
            <7> QED
              BY <4>2, <7>1, <7>2
          <6> QED
            BY <3>0, <4>0, <5>1, <6>1, <6>2, FilesFacts
        <5> QED
          BY <4>2, <5>2 DEF Upto
      <4>3. CASE q = p /\ ~OpenFile(p) /\ ~WriteFile(p)
        BY <1>1, <4>3, WritingStays DEF Upto
      <4> QED
        BY <4>1, <4>2, <4>3
    <3> QED
      BY <1>0, <3>2, <3>3, <3>4, <3>5, <3>6, SameBatch
  <2> QED
    BY <2>1, <2>2, <2>3
<1>2. CASE Idle \/ UNCHANGED vars
  <2>1. UNCHANGED <<pc, pkg, data, left, open, pos, libs, writers>>
    BY <1>2 DEF Idle, vars, reading, locals, disk
  <2> QED
    BY <1>0, <2>1, SameBatch DEF Extracting, LeftOf, Upto
<1> QED
  BY <1>1, <1>2 DEF Next

\* Nobody removes an index entry or a manifest.
LEMMA RecordedStep ==
    TypeOK /\ Commands /\ Progress /\ Recorded /\ [Next]_vars => Recorded'
<1> SUFFICES ASSUME TypeOK /\ Commands /\ Progress /\ Recorded, [Next]_vars PROVE Recorded'
  OBVIOUS
<1> USE DEF Recorded, Indexed, Waiting, Terminal, Go, cached, reading, loaded, locals, index, disk
<1> /\ pc \in [Procs -> PcValues] /\ id \in [Procs -> Bodies \cup {None}]
    /\ symtab \in [Versions -> Bodies \cup {None, Torn}]
    /\ meta \in [Versions -> Bodies \cup {None}]
    /\ buildid \in [Bodies -> Versions \cup {None}]
    /\ prov \in [Versions -> Manifests \cup {None, Torn}]
  BY DEF TypeOK
<1>1. ASSUME NEW p \in Procs, Step(p) \/ Kill(p) PROVE Recorded'
  <2>0. Target[p] \in Versions /\ pkg[p] \in Pkgs
    BY DEF TypeOK
  <2>1. CASE StartDownload(p)
    BY <2>0, <2>1 DEF StartDownload
  <2>2. CASE StartIdentify(p)
    BY <2>0, <2>2 DEF StartIdentify
  <2>3. CASE CheckLibs(p)
    BY <2>0, <2>3 DEF CheckLibs
  <2>4. CASE UseLibs(p)
    BY <2>0, <2>4 DEF UseLibs, Commands
  <2>5. CASE OpenIndex(p)
    BY <2>0, <2>5 DEF OpenIndex
  <2>6. CASE OpenTimesOut(p)
    BY <2>0, <2>6 DEF OpenTimesOut
  <2>7. CASE EndIdentify(p)
    BY <2>0, <2>7 DEF EndIdentify
  <2>8. CASE NoMirror(p)
    BY <2>0, <2>8 DEF NoMirror, Fails
  <2>9. CASE CreateDeb(p)
    BY <2>0, <2>9 DEF CreateDeb
  <2>10. CASE CopyDeb(p)
    BY <2>0, <2>10 DEF CopyDeb
  <2>11. CASE CopyFails(p)
    BY <2>0, <2>11 DEF CopyFails, Fails
  <2>12. CASE CopyEnds(p)
    BY <2>0, <2>12 DEF CopyEnds
  <2>13. CASE ReadDeb(p)
    BY <2>0, <2>13 DEF ReadDeb, BeginExtract, Fails, RemoveDeb
  <2>14. CASE OpenFile(p)
    BY <2>0, <2>14 DEF OpenFile
  <2>15. CASE WriteFile(p)
    BY <2>0, <2>15 DEF WriteFile
  <2>16. CASE ExtractEnds(p)
    BY <2>0, <2>16 DEF ExtractEnds, Succeeds, Fails, RemoveDeb
  <2>17. CASE FetchDebug(p)
    BY <2>0, <2>17 DEF FetchDebug
  <2>18. CASE LoadLibc(p)
    BY <2>0, <2>18 DEF LoadLibc
  <2>19. CASE LoadSymbols(p)
    BY <2>0, <2>19 DEF LoadSymbols
  <2>20. CASE IndexVersion(p)
    <3>1. CASE Put(Target[p], id[p], syms[p]) /\ pc' = [pc EXCEPT ![p] = "manifest"]
      <4>1. syms[p] # None
        BY <2>20 DEF IndexVersion, Progress, ProgressOf, Read
      <4>2. \A v \in Versions : symtab[v] # None => symtab'[v] # None
        BY <2>0, <3>1, <4>1 DEF Put
      <4>3. symtab'[Target[p]] # None
        BY <2>0, <3>1, <4>1 DEF Put
      <4> QED
        BY <2>0, <2>20, <3>1, <4>2, <4>3 DEF IndexVersion
    <3>2. CASE UNCHANGED index /\ pc' = [pc EXCEPT ![p] = "failed"]
      BY <2>20, <3>2 DEF IndexVersion
    <3> QED
      BY <2>20, <3>1, <3>2 DEF IndexVersion
  <2>21. CASE OpenManifest(p)
    BY <2>0, <2>21 DEF OpenManifest
  <2>22. CASE WriteManifest(p)
    <3>1. from[p]["main"] \in Bodies /\ debug[p] \in BOOLEAN
      BY <2>22, FilesFacts DEF WriteManifest, Progress, ProgressOf, HasMain, Loaded, Read, TypeOK
    <3>2. [sha |-> from[p]["main"], debug |-> debug[p]] # None
      BY <3>1 DEF Manifests
    <3>3. \A v \in Versions : prov[v] # None => prov'[v] # None
      BY <2>22, <3>2 DEF WriteManifest
    <3> QED
      BY <2>0, <2>22, <3>3 DEF WriteManifest
  <2>23. CASE Kill(p)
    BY <2>0, <2>23 DEF Kill
  <2> QED
    BY <1>1, <2>1, <2>2, <2>3, <2>4, <2>5, <2>6, <2>7, <2>8, <2>9, <2>10, <2>11, <2>12,
       <2>13, <2>14, <2>15, <2>16, <2>17, <2>18, <2>19, <2>20, <2>21, <2>22, <2>23 DEF Step
<1>2. CASE Idle \/ UNCHANGED vars
  BY <1>2 DEF Idle, vars
<1> QED
  BY <1>1, <1>2 DEF Next

\* The order index, then manifest, for any number of writers of one version.
LEMMA ManifestStep ==
    TypeOK /\ OwnBuilds /\ Progress /\ Recorded /\ IndexedBeforeManifest /\ [Next]_vars => IndexedBeforeManifest'
<1> SUFFICES ASSUME TypeOK /\ OwnBuilds /\ Progress /\ Recorded /\ IndexedBeforeManifest, [Next]_vars PROVE IndexedBeforeManifest'
  OBVIOUS
<1> USE DEF IndexedBeforeManifest, Go, cached, reading, loaded, locals, index, disk
<1> /\ pc \in [Procs -> PcValues] /\ id \in [Procs -> Bodies \cup {None}]
    /\ symtab \in [Versions -> Bodies \cup {None, Torn}]
    /\ meta \in [Versions -> Bodies \cup {None}]
    /\ buildid \in [Bodies -> Versions \cup {None}]
    /\ prov \in [Versions -> Manifests \cup {None, Torn}]
  BY DEF TypeOK
<1>1. ASSUME NEW p \in Procs, Step(p) \/ Kill(p) PROVE IndexedBeforeManifest'
  <2>0. Target[p] \in Versions /\ pkg[p] \in Pkgs
    BY DEF TypeOK
  <2>1. CASE StartDownload(p)
    BY <2>0, <2>1 DEF StartDownload
  <2>2. CASE StartIdentify(p)
    BY <2>0, <2>2 DEF StartIdentify
  <2>3. CASE CheckLibs(p)
    BY <2>0, <2>3 DEF CheckLibs
  <2>4. CASE UseLibs(p)
    BY <2>0, <2>4 DEF UseLibs
  <2>5. CASE OpenIndex(p)
    BY <2>0, <2>5 DEF OpenIndex
  <2>6. CASE OpenTimesOut(p)
    BY <2>0, <2>6 DEF OpenTimesOut
  <2>7. CASE EndIdentify(p)
    BY <2>0, <2>7 DEF EndIdentify
  <2>8. CASE NoMirror(p)
    BY <2>0, <2>8 DEF NoMirror, Fails
  <2>9. CASE CreateDeb(p)
    BY <2>0, <2>9 DEF CreateDeb
  <2>10. CASE CopyDeb(p)
    BY <2>0, <2>10 DEF CopyDeb
  <2>11. CASE CopyFails(p)
    BY <2>0, <2>11 DEF CopyFails, Fails
  <2>12. CASE CopyEnds(p)
    BY <2>0, <2>12 DEF CopyEnds
  <2>13. CASE ReadDeb(p)
    BY <2>0, <2>13 DEF ReadDeb, BeginExtract, Fails, RemoveDeb
  <2>14. CASE OpenFile(p)
    BY <2>0, <2>14 DEF OpenFile
  <2>15. CASE WriteFile(p)
    BY <2>0, <2>15 DEF WriteFile
  <2>16. CASE ExtractEnds(p)
    BY <2>0, <2>16 DEF ExtractEnds, Succeeds, Fails, RemoveDeb
  <2>17. CASE FetchDebug(p)
    BY <2>0, <2>17 DEF FetchDebug
  <2>18. CASE LoadLibc(p)
    BY <2>0, <2>18 DEF LoadLibc
  <2>19. CASE LoadSymbols(p)
    BY <2>0, <2>19 DEF LoadSymbols
  <2>20. CASE IndexVersion(p)
    <3>1. CASE Put(Target[p], id[p], syms[p])
      <4>1. id[p] \in BodiesOf(Target[p]) \cup {None} /\ syms[p] # None
        BY <2>20 DEF IndexVersion, OwnBuilds, Progress, ProgressOf, Read
      <4>2. UNCHANGED prov
        BY <2>20 DEF IndexVersion
      <4>3. \A v \in Versions : symtab[v] # None => symtab'[v] # None
        BY <2>0, <3>1, <4>1 DEF Put
      <4>4. ASSUME NEW v \in Versions, meta'[v] # None PROVE buildid'[meta'[v]] = v
        <5>1. CASE v = Target[p]
          <6>1. meta'[v] = id[p] /\ id[p] \in Bodies
            BY <2>0, <3>1, <4>1, <4>4, <5>1, BodiesFacts DEF Put
          <6> QED
            BY <3>1, <5>1, <6>1 DEF Put
        <5>2. CASE v # Target[p]
          <6>1. meta'[v] = meta[v] /\ meta[v] \in BodiesOf(v) /\ meta[v] \in Bodies
            BY <2>0, <3>1, <4>4, <5>2 DEF Put, OwnBuilds
          <6>2. meta[v] # id[p]
            BY <4>1, <4>4, <5>2, <6>1, BodiesFacts
          <6> QED
            BY <3>1, <4>4, <6>1, <6>2 DEF Put
        <5> QED
          BY <5>1, <5>2
      <4> QED
        BY <4>2, <4>3, <4>4
    <3>2. CASE UNCHANGED index
      BY <2>20, <3>2 DEF IndexVersion
    <3> QED
      BY <2>20, <3>1, <3>2 DEF IndexVersion
  <2>21. CASE OpenManifest(p)
    <3>1. symtab[Target[p]] # None /\ UNCHANGED index
      BY <2>21 DEF OpenManifest, Recorded, Indexed
    <3>2. \A v \in Versions : prov'[v] # None => prov[v] # None \/ v = Target[p]
      BY <2>21 DEF OpenManifest
    <3> QED
      BY <3>1, <3>2
  <2>22. CASE WriteManifest(p)
    <3>1. symtab[Target[p]] # None /\ UNCHANGED index
      BY <2>22 DEF WriteManifest, Recorded, Indexed
    <3>2. \A v \in Versions : prov'[v] # None => prov[v] # None \/ v = Target[p]
      BY <2>22 DEF WriteManifest
    <3> QED
      BY <3>1, <3>2
  <2>23. CASE Kill(p)
    BY <2>0, <2>23 DEF Kill
  <2> QED
    BY <1>1, <2>1, <2>2, <2>3, <2>4, <2>5, <2>6, <2>7, <2>8, <2>9, <2>10, <2>11, <2>12,
       <2>13, <2>14, <2>15, <2>16, <2>17, <2>18, <2>19, <2>20, <2>21, <2>22, <2>23 DEF Step
<1>2. CASE Idle \/ UNCHANGED vars
  BY <1>2 DEF Idle, vars
<1> QED
  BY <1>1, <1>2 DEF Next


-----------------------------------------------------------------------------
(***************************************************************************)
(* The theorems.                                                           *)
(***************************************************************************)

\* The parts together are inductive.
LEMMA InvStep == IInv /\ [Next]_vars => IInv'
BY TypeStep, LockStep, CommandStep, OwnStep, ProgressStep, PlacedStep, BatchesStep, RecordedStep,
   ManifestStep DEF IInv

\* Every state that any number of processes reach satisfies the inductive
\* invariant.
THEOREM Invariance == Spec => []IInv
BY InvInit, InvStep, PTL DEF Spec

\* The processes and what they share keep their types.
THEOREM TypeCorrect == Spec => []TypeOK
<1>1. IInv => TypeOK
  BY DEF IInv
<1> QED
  BY <1>1, Invariance, PTL

\* The index's lock is held exactly between index.Open and the command's
\* return, on every path, a kill included.
THEOREM LockIsDisciplined == Spec => []LockDiscipline
<1>1. IInv => LockDiscipline
  BY DEF IInv
<1> QED
  BY <1>1, Invariance, PTL

\* identify's lookups, with a call to libc.rip in between, all see one index:
\* only the transaction of a download changes it, and that needs the lock.
THEOREM LookupsSeeOne == Spec => LookupsSeeOneIndex
<1>1. LockDiscipline /\ [Next]_vars =>
          [(\E p \in Procs : pc[p] = "identify") => UNCHANGED index]_vars
  <2> SUFFICES ASSUME LockDiscipline, Next, NEW p \in Procs, pc[p] = "identify"
               PROVE  UNCHANGED index
    BY DEF vars
  <2>1. ASSUME NEW q \in Procs, IndexVersion(q) PROVE FALSE
    <3>1. lock = q /\ lock = p
      BY <2>1 DEF IndexVersion, LockDiscipline, Holding
    <3> QED
      BY <2>1, <3>1 DEF IndexVersion
  <2>2. ASSUME NEW q \in Procs, Step(q) \/ Kill(q) PROVE index' = index
    BY <2>1, <2>2 DEF Step, Kill, StartDownload, StartIdentify, CheckLibs, UseLibs, OpenIndex,
       OpenTimesOut, EndIdentify, NoMirror, CreateDeb, CopyDeb, CopyFails, CopyEnds, ReadDeb,
       OpenFile, WriteFile, ExtractEnds, FetchDebug, LoadLibc, LoadSymbols, OpenManifest,
       WriteManifest
  <2>3. CASE Idle
    BY <2>3 DEF Idle, vars
  <2> QED
    BY <2>2, <2>3 DEF Next
<1> QED
  BY <1>1, LockIsDisciplined, PTL DEF Spec, LookupsSeeOneIndex

\* A version directory with a PROVENANCE.json is in the index, and a BuildID
\* that the index has for a version leads back to it.
THEOREM IndexBeforeManifest == Spec => []IndexedBeforeManifest
<1>1. IInv => IndexedBeforeManifest
  BY DEF IInv
<1> QED
  BY <1>1, Invariance, PTL

\* The files of a package are whole and of one build once all who wrote them
\* last have finished with it, having had one build.
LEMMA WholeWhenDone ==
    ASSUME TypeOK, OwnBuilds, Progress, Batches, NEW v \in Versions, NEW k \in Pkgs,
           writers[v][k] # {},
           \A q \in writers[v][k] : Finished(q, k),
           \A q, r \in writers[v][k] : data[q][k] = data[r][k]
    PROVE  \E b \in Bodies : /\ \A q \in writers[v][k] : data[q][k] = b
                            /\ \A f \in FilesOf(k) : IsWhole(libs[v][f], Chunks[b[2]], b)
<1> DEFINE W == writers[v][k]
<1>0. W \subseteq Procs /\ Batch(v, k)
  BY DEF TypeOK, Batches
<1>1. PICK q \in W : TRUE
  OBVIOUS
<1>2. PICK b \in Bodies : \A r \in W : data[r][k] = b
  <2>1. data[q][k] \in Bodies
    BY <1>0 DEF Batch, TypeOK
  <2> QED
    BY <1>1, <2>1
<1>3. ASSUME NEW f \in FilesOf(k) PROVE IsWhole(libs[v][f], Chunks[b[2]], b)
  <2> DEFINE n == Chunks[b[2]]
             s == libs[v][f]
  <2>0. f \in Files /\ f # None /\ n \in Nat \ {0}
    BY FilesFacts, BodiesFacts
  <2>1. \A r \in W : f \notin LeftOf(r, k) /\ Upto(r, f, n) = n
    <3> SUFFICES ASSUME NEW r \in W PROVE f \notin LeftOf(r, k) /\ Upto(r, f, n) = n
      OBVIOUS
    <3>1. CASE pkg[r] = k
      <4>1. left[r] = {} /\ open[r] = None
        BY <3>1 DEF Finished, Extracted
      <4> QED
        BY <2>0, <3>1, <4>1 DEF LeftOf, Upto
    <3>2. CASE pkg[r] # k
      <4>1. r \in Procs /\ pkg[r] \in Pkgs /\ open[r] \in FilesOf(pkg[r]) \cup {None}
        BY <1>0 DEF TypeOK, Progress, ProgressOf
      <4>2. open[r] # f
        BY <2>0, <3>2, <4>1, FilesFacts
      <4> QED
        BY <3>2, <4>2 DEF LeftOf, Upto
    <3> QED
      BY <3>1, <3>2
  <2>2. Growing(s, b, Reached(v, k, f, b)) /\ Reached(v, k, f, b) = {n}
    <3>1. Reached(v, k, f, b) = {n}
      BY <1>1, <2>1 DEF Reached
    <3> QED
      BY <1>0, <1>2, <3>1 DEF Batch
  <2>3. s # None /\ s \in Blobs
    BY <2>0, <2>2 DEF Growing, TypeOK
  <2>4. Len(s) \in Nat /\ Len(s) <= n /\ \A j \in 1 .. n : j <= Len(s) /\ s[j] = b
    BY <2>2, <2>3 DEF Growing, Blobs
  <2> HIDE DEF n, s
  <2>5. Len(s) = n
    BY <2>0, <2>4
  <2> QED
    BY <2>3, <2>4, <2>5 DEF IsWhole, n, s
<1> QED
  BY <1>2, <1>3

\* A download that ended with success left its index entry, its manifest and
\* its files, which no other process's failure or death takes away; and they
\* are whole and of one build but for the named disturbances, whatever the
\* order in which any number of processes wrote their blocks.
THEOREM SuccessComplete == Spec => []SuccessIsComplete
<1>1. IInv => SuccessIsComplete
  <2> SUFFICES ASSUME IInv, NEW p \in Procs, pc[p] = "done", Role[p] = "download",
                      NEW k \in Pkgs, k = "main" \/ debug[p]
               PROVE  /\ symtab[Target[p]] # None /\ prov[Target[p]] # None
                      /\ \A f \in FilesOf(k) : libs[Target[p]][f] # None
                      /\ WholeOfOne(Target[p], k) \/ Disturbed(Target[p], k, Procs \ {p})
    BY FilesFacts DEF SuccessIsComplete, IInv, Recorded
  <2> USE DEF IInv
  <2> DEFINE v == Target[p]
  <2>0. v \in Versions
    BY DEF TypeOK
  <2>1. symtab[v] # None /\ prov[v] # None
    BY DEF Recorded
  <2>2. Finished(p, k)
    BY FilesFacts DEF Progress, ProgressOf
  <2>3. ASSUME NEW f \in FilesOf(k) PROVE libs[v][f] # None
    BY <2>2 DEF Finished, Extracted, LeftOf, Placed
  <2>4. ASSUME ~Disturbed(v, k, Procs \ {p}) PROVE WholeOfOne(v, k)
    <3>1. writers[v][k] # {} /\ writers[v][k] \subseteq Procs
      <4>1. \E f : f \in FilesOf(k)
        BY FilesFacts DEF FilesOf
      <4> QED
        BY <2>0, <2>3, <4>1 DEF Batches, Batch, TypeOK
    <3>2. \A q \in writers[v][k] : Finished(q, k)
      BY <2>2, <2>4, <3>1 DEF Disturbed
    <3>3. \A q, r \in writers[v][k] : data[q][k] = data[r][k]
      BY <2>4 DEF Disturbed
    <3> QED
      BY <2>0, <3>1, <3>2, <3>3, WholeWhenDone DEF WholeOfOne
  <2> QED
    BY <2>1, <2>3, <2>4
<1> QED
  BY <1>1, Invariance, PTL

\* patch takes any directory with a libc in it, one that others filled, are
\* filling or left half filled included; what it uses is of one build but for
\* the named disturbances.
THEOREM PatchUsesOne == Spec => PatchUsesOneBuild
<1>1. IInv /\ [Next]_vars =>
          [\A p \in Procs : pc[p] = "use" /\ pc'[p] = "done" =>
              WholeOfOne(Target[p], "main") \/ Disturbed(Target[p], "main", Procs)]_vars
  <2> SUFFICES ASSUME IInv, [Next]_vars, NEW p \in Procs, pc[p] = "use", pc'[p] = "done",
                      ~Disturbed(Target[p], "main", Procs)
               PROVE  WholeOfOne(Target[p], "main")
    OBVIOUS
  <2> USE DEF IInv
  <2> DEFINE v == Target[p]
             W == writers[v]["main"]
  <2>0. v \in Versions /\ "main" \in Pkgs /\ W \subseteq Procs
    BY FilesFacts DEF TypeOK
  <2>1. HasLibc(v)
    BY DEF Placed
  <2>2. W # {}
    BY <2>0, <2>1, FilesFacts DEF HasLibc, Batches, Batch
  <2>3. \A q \in W : Finished(q, "main")
    BY <2>0 DEF Disturbed
  <2>4. \A q, r \in W : data[q]["main"] = data[r]["main"]
    BY DEF Disturbed
  <2> QED
    BY <2>0, <2>2, <2>3, <2>4, WholeWhenDone DEF WholeOfOne
<1> QED
  BY <1>1, Invariance, PTL DEF Spec, PatchUsesOneBuild

-----------------------------------------------------------------------------
(***************************************************************************)
(* No two commands download or patch the same version.                     *)
(***************************************************************************)

\* A process that may write to a version's directory.
Worker(p) == Role[p] # "identify"

\* No two of them work on the same version.
Alone == \A p, q \in Procs : Worker(p) /\ Worker(q) /\ Target[p] = Target[q] => p = q

\* The .debs: p's own, of blocks it wrote; so that is what it reads back.
OwnDeb(p) ==
    /\ fd[p] \in {p, None} /\ \A k \in Pkgs : deb[Target[p]][k] \in {p, None}
    /\ \A k \in Pkgs : data[p][k] \in {None, from[p][k]}
    /\ pc[p] \in InDeb => \A j \in 1 .. Len(inode[p][pkg[p]]) :
                             inode[p][pkg[p]][j] \in {from[p][pkg[p]], Hole}

\* The BuildID, or none, of build b's libc.
IdOf(b) == IF b[2] \in WithId THEN b ELSE None

\* What p read of its libc, its index entry and its manifest.
OwnRecords(p) ==
    LET v == Target[p]
        b == from[p]["main"]
    IN  /\ pc[p] \in Loaded => info[p] = b /\ id[p] = IdOf(b)
        /\ pc[p] \in Read => syms[p] = b
        /\ pc[p] \in Indexed => symtab[v] = b /\ meta[v] = IdOf(b)
        /\ pc[p] = "write" => prov[v] = Torn
        /\ prov[v] # None => pc[p] \in {"write", "use"} \cup Terminal
        /\ prov[v] \notin {None, Torn} =>
              prov[v].sha = b /\ symtab[v] = b /\ meta[v] = IdOf(b) /\ Finished(p, "main")

Private(p) == OwnDeb(p) /\ OwnRecords(p)

\* Only a worker writes a manifest.
HasWorker == \A v \in Versions : prov[v] # None => \E p \in Procs : Worker(p) /\ Target[p] = v

AInv == IInv /\ HasWorker /\ \A p \in Procs : Worker(p) => Private(p)

\* What p shares with others only in name.
OwnDisk(p) ==
    <<deb[Target[p]], inode[p], symtab[Target[p]], meta[Target[p]], prov[Target[p]]>>

LEMMA AInvInit == Init => AInv
<1> SUFFICES ASSUME Init PROVE AInv
  OBVIOUS
<1>1. HasWorker
  BY DEF Init, HasWorker
<1>2. ASSUME NEW p \in Procs PROVE Private(p)
  BY DEF Init, Private, OwnDeb, OwnRecords, InDeb, Loaded, Read, Indexed
<1> QED
  BY <1>1, <1>2, InvInit DEF AInv

\* p's libc is whole, and of the body p downloaded, once p has extracted it.
LEMMA OwnIsWhole ==
    ASSUME Alone, AInv, NEW p \in Procs, Worker(p), Finished(p, "main")
    PROVE  LET b == from[p]["main"]
           IN  /\ b \in Bodies
               /\ \A f \in FilesOf("main") : IsWhole(libs[Target[p]][f], Chunks[b[2]], b)
<1> USE DEF AInv, IInv
<1> DEFINE v == Target[p]
           W == writers[v]["main"]
<1>0. v \in Versions /\ "main" \in Pkgs /\ W \subseteq Procs
  BY FilesFacts DEF TypeOK
<1>1. data[p]["main"] # None /\ data[p]["main"] = from[p]["main"] /\ data[p]["main"] \in Bodies
  BY <1>0 DEF Finished, Private, OwnDeb, TypeOK
<1>2. ASSUME NEW q \in W PROVE q = p
  <2>1. Target[q] = v /\ data[q]["main"] # None
    BY <1>0 DEF Batches, Batch
  <2> QED
    BY <1>0, <2>1 DEF Commands, Worker, Alone
<1>3. W # {}
  <2>1. libs[v]["libc"] # None
    BY <1>0, <1>1, FilesFacts DEF Placed, Finished, Extracted, LeftOf
  <2> QED
    BY <1>0, <2>1, FilesFacts DEF Batches, Batch
<1>4. PICK b \in Bodies : /\ \A q \in W : data[q]["main"] = b
                          /\ \A f \in FilesOf("main") : IsWhole(libs[v][f], Chunks[b[2]], b)
  <2>1. \A q \in W : Finished(q, "main")
    BY <1>2
  <2>2. \A q, r \in W : data[q]["main"] = data[r]["main"]
    BY <1>2
  <2> QED
    BY <1>0, <1>3, <2>1, <2>2, WholeWhenDone
<1>5. b = from[p]["main"]
  BY <1>1, <1>2, <1>3, <1>4
<1> QED
  BY <1>4, <1>5

\* A step of q leaves what is every other worker's as it is.
LEMMA OthersStep ==
    ASSUME Alone, AInv, NEW p \in Procs, Worker(p), NEW q \in Procs \ {p}, Step(q) \/ Kill(q)
    PROVE  OwnDisk(p)' = OwnDisk(p)
<1> USE DEF cached, reading, loaded, locals, index, disk, OwnDisk
<1>0. /\ deb \in [Versions -> [Pkgs -> Procs \cup {None}]]
      /\ inode \in [Procs -> [Pkgs -> Blobs]]
      /\ symtab \in [Versions -> Bodies \cup {None, Torn}]
      /\ meta \in [Versions -> Bodies \cup {None}]
      /\ prov \in [Versions -> Manifests \cup {None, Torn}]
      /\ Target[p] \in Versions /\ Target[q] \in Versions /\ pkg[q] \in Pkgs
  BY DEF AInv, IInv, TypeOK
<1>1. pc[q] \in Active \cup {"fetch"} => Worker(q) /\ Private(q) /\ Target[q] # Target[p]
  BY DEF AInv, IInv, Commands, Worker, Alone
<1> USE DEF Active, HasMain, InDeb, Loaded, Read, Indexed
<1>2. CASE StartDownload(q) \/ StartIdentify(q) \/ CheckLibs(q) \/ UseLibs(q) \/ OpenIndex(q)
           \/ OpenTimesOut(q) \/ EndIdentify(q) \/ Kill(q)
  BY <1>2 DEF StartDownload, StartIdentify, CheckLibs, UseLibs, OpenIndex,
     OpenTimesOut, EndIdentify, Kill
<1>3. CASE CreateDeb(q)
  <2>1. deb[Target[q]][pkg[q]] \in {q, None} /\ Target[q] # Target[p]
    BY <1>0, <1>1, <1>3 DEF CreateDeb, Private, OwnDeb
  <2>2. inode' = [inode EXCEPT ![q][pkg[q]] = <<>>]
    BY <1>3, <2>1 DEF CreateDeb
  <2> QED
    BY <1>0, <1>3, <2>1, <2>2 DEF CreateDeb
<1>4. CASE CopyDeb(q)
  <2>1. fd[q] = q
    BY <1>1, <1>4 DEF CopyDeb, Private, OwnDeb, AInv, IInv, Progress, ProgressOf
  <2>2. inode'[p] = inode[p]
    BY <1>0, <1>4, <2>1 DEF CopyDeb
  <2> QED
    BY <1>4, <2>2 DEF CopyDeb
<1>5. CASE ReadDeb(q) \/ ExtractEnds(q)
  BY <1>0, <1>1, <1>5 DEF ReadDeb, ExtractEnds, RemoveDeb
<1>6. CASE NoMirror(q) \/ CopyFails(q) \/ CopyEnds(q) \/ OpenFile(q) \/ WriteFile(q)
           \/ FetchDebug(q) \/ LoadLibc(q) \/ LoadSymbols(q)
  BY <1>6 DEF NoMirror, CopyFails, CopyEnds, OpenFile, WriteFile, FetchDebug, LoadLibc, LoadSymbols
<1>7. CASE IndexVersion(q) \/ OpenManifest(q) \/ WriteManifest(q)
  BY <1>0, <1>1, <1>7 DEF IndexVersion, Put, OpenManifest, WriteManifest
<1> QED
  BY <1>2, <1>3, <1>4, <1>5, <1>6, <1>7 DEF Step

\* The invariant of p depends on what is its own.
LEMMA PrivateFrame ==
    ASSUME NEW p \in Procs, Private(p), OwnDisk(p)' = OwnDisk(p),
           pc'[p] = pc[p], pkg'[p] = pkg[p], from'[p] = from[p], data'[p] = data[p],
           left'[p] = left[p], open'[p] = open[p], info'[p] = info[p], id'[p] = id[p],
           syms'[p] = syms[p], fd'[p] = fd[p]
    PROVE  Private(p)'
BY DEF Private, OwnDeb, OwnRecords, OwnDisk, Finished, Extracted

\* The .deb at the path is the process's own, so that is what it reads back.
LEMMA OwnDebStep ==
    ASSUME AInv, NEW p \in Procs, Worker(p), Step(p) \/ Kill(p)
    PROVE  OwnDeb(p)'
<1> USE DEF cached, reading, loaded, locals, index, disk, Go
<1>0. /\ pc \in [Procs -> PcValues] /\ pkg \in [Procs -> Pkgs]
      /\ deb \in [Versions -> [Pkgs -> Procs \cup {None}]]
      /\ fd \in [Procs -> Procs \cup {None}] /\ inode \in [Procs -> [Pkgs -> Blobs]]
      /\ from \in [Procs -> [Pkgs -> Bodies \cup {None}]]
      /\ data \in [Procs -> [Pkgs -> Bodies \cup {None}]]
      /\ OwnDeb(p) /\ Target[p] \in Versions /\ pkg[p] \in Pkgs
  BY DEF AInv, IInv, TypeOK, Private
<1> USE DEF OwnDeb, InDeb
<1>1. CASE StartDownload(p) \/ StartIdentify(p) \/ CheckLibs(p) \/ UseLibs(p) \/ OpenIndex(p)
           \/ OpenTimesOut(p) \/ EndIdentify(p)
  BY <1>0, <1>1 DEF StartDownload, StartIdentify, CheckLibs, UseLibs, OpenIndex, OpenTimesOut,
     EndIdentify, Waiting
<1>2. CASE NoMirror(p) \/ CopyFails(p) \/ CopyEnds(p)
  BY <1>0, <1>2 DEF NoMirror, CopyFails, CopyEnds, Fails
<1>3. CASE CreateDeb(p)
  <2> DEFINE k == pkg[p]
  <2>1. PICK b \in BodiesOf(Target[p]) : from' = [from EXCEPT ![p][k] = b]
    BY <1>3 DEF CreateDeb
  <2>2. /\ inode' = [inode EXCEPT ![p][k] = <<>>] /\ deb' = [deb EXCEPT ![Target[p]][k] = p]
        /\ fd' = [fd EXCEPT ![p] = p]
        /\ UNCHANGED <<data, pkg>>
    BY <1>0, <1>3 DEF CreateDeb
  <2>3. data[p][k] = None
    BY <1>3 DEF CreateDeb, AInv, IInv, Progress, ProgressOf, Before
  <2>4. inode'[p][pkg'[p]] = <<>>
    BY <1>0, <2>2
  <2>5. \A l \in Pkgs : data'[p][l] \in {None, from'[p][l]}
    BY <1>0, <2>1, <2>2, <2>3
  <2>6. fd'[p] = p /\ \A l \in Pkgs : deb'[Target[p]][l] \in {p, None}
    BY <1>0, <2>2
  <2> QED
    BY <2>4, <2>5, <2>6
<1>4. CASE CopyDeb(p)
  <2> DEFINE k == pkg[p]
             b == from[p][k]
             s == inode[p][k]
             t == PutAt(s, off[p] + 1, b)
  <2>1. /\ fd[p] = p /\ inode' = [inode EXCEPT ![p][k] = t] /\ b \in Bodies /\ off[p] + 1 \in Nat \ {0}
        /\ UNCHANGED <<pc, pkg, deb, fd, from, data>> /\ pc[p] = "copy"
    <3>1. pc[p] = "copy" /\ fd[p] = p /\ UNCHANGED <<pc, pkg, deb, fd, from, data>>
      BY <1>0, <1>4 DEF CopyDeb, AInv, IInv, Progress, ProgressOf
    <3>2. b \in Bodies /\ off[p] \in Nat
      BY <1>0, <3>1, FilesFacts, BodiesFacts DEF AInv, IInv, TypeOK, Progress, ProgressOf
    <3> QED
      BY <1>4, <3>1, <3>2 DEF CopyDeb
  <2>2. \A j \in 1 .. Len(t) : t[j] \in {b, Hole}
    <3> DEFINE S == {b, Hole}
    <3>1. \A j \in 1 .. Len(s) : s[j] \in S
      BY <1>0, <2>1
    <3>2. s \in Blobs
      BY <1>0
    <3>3. b \in S /\ Hole \in S
      OBVIOUS
    <3> DEFINE j == off[p] + 1
    <3>4. j \in Nat \ {0} /\ t = PutAt(s, j, b)
      BY <2>1
    <3>5. b \in Bodies
      BY <2>1
    <3> HIDE DEF S, s, t, b, j
    <3>6. \A i \in 1 .. Len(PutAt(s, j, b)) : PutAt(s, j, b)[i] \in S
      BY <3>1, <3>2, <3>3, <3>4, <3>5, PutAtIn
    <3> QED
      BY <3>4, <3>6 DEF S
  <2>3. inode'[p][pkg'[p]] = t /\ from'[p][pkg'[p]] = b
    BY <1>0, <2>1
  <2> HIDE DEF t
  <2> QED
    BY <1>0, <2>1, <2>2, <2>3
<1>5. CASE ReadDeb(p)
  <2> DEFINE k == pkg[p]
  <2>0. /\ pc[p] = "read" /\ UNCHANGED <<fd, from, inode, pkg>> /\ pc'[p] \notin InDeb
    BY <1>0, <1>5 DEF ReadDeb, BeginExtract, Fails
  <2>1. \A b \in In(Content(Target[p], k)) : b = from[p][k]
    <3>1. Content(Target[p], k) \in {<<>>, inode[p][k]}
      BY <1>0 DEF Content
    <3>2. In(<<>>) = {}
      BY DEF In
    <3>3. \A b \in In(inode[p][k]) : b = from[p][k]
      BY <1>0, <2>0 DEF In
    <3> QED
      BY <3>1, <3>2, <3>3
  <2>2. data' = data \/ data' = [data EXCEPT ![p][k] = from[p][k]]
    <3>1. CASE UNCHANGED <<data, left, writers>>
      BY <3>1
    <3>2. CASE \E b \in In(Content(Target[p], k)) : \E F : BeginExtract(p, b, F)
      BY <2>1, <3>2 DEF BeginExtract
    <3> QED
      BY <1>5, <3>1, <3>2 DEF ReadDeb
  <2>3. \A l \in Pkgs : data'[p][l] \in {None, from'[p][l]}
    BY <1>0, <2>0, <2>2
  <2>4. \A l \in Pkgs : deb'[Target[p]][l] \in {p, None}
    <3>1. deb' = deb \/ deb' = [deb EXCEPT ![Target[p]][k] = None]
      BY <1>5 DEF ReadDeb, RemoveDeb
    <3> QED
      BY <1>0, <3>1
  <2> QED
    BY <1>0, <2>0, <2>3, <2>4
<1>6. CASE ExtractEnds(p)
  BY <1>0, <1>6 DEF ExtractEnds, RemoveDeb, Succeeds, Fails
<1>7. CASE OpenFile(p) \/ WriteFile(p) \/ FetchDebug(p) \/ LoadLibc(p) \/ LoadSymbols(p)
  BY <1>0, <1>7 DEF OpenFile, WriteFile, FetchDebug, LoadLibc, LoadSymbols
<1>8. CASE IndexVersion(p) \/ OpenManifest(p) \/ WriteManifest(p)
  BY <1>0, <1>8 DEF IndexVersion, OpenManifest, WriteManifest
<1>9. CASE Kill(p)
  BY <1>0, <1>9 DEF Kill
<1> QED
  BY <1>1, <1>2, <1>3, <1>4, <1>5, <1>6, <1>7, <1>8, <1>9 DEF Step

\* The index and the manifest tell of the same body.
LEMMA OwnRecordsStep ==
    ASSUME Alone, AInv, NEW p \in Procs, Worker(p), Step(p) \/ Kill(p)
    PROVE  OwnRecords(p)'
<1> USE DEF cached, reading, loaded, locals, index, disk, Go
<1>0. /\ pc \in [Procs -> PcValues] /\ pkg \in [Procs -> Pkgs]
      /\ from \in [Procs -> [Pkgs -> Bodies \cup {None}]]
      /\ info \in [Procs -> Bodies \cup {None, Torn}] /\ id \in [Procs -> Bodies \cup {None}]
      /\ syms \in [Procs -> Bodies \cup {None, Torn}]
      /\ symtab \in [Versions -> Bodies \cup {None, Torn}]
      /\ meta \in [Versions -> Bodies \cup {None}]
      /\ prov \in [Versions -> Manifests \cup {None, Torn}]
      /\ OwnRecords(p) /\ Target[p] \in Versions /\ pkg[p] \in Pkgs
  BY DEF AInv, IInv, TypeOK, Private
<1> USE DEF OwnRecords, Loaded, Read, Indexed, Terminal, Finished, Extracted
<1>1. CASE StartDownload(p) \/ StartIdentify(p) \/ CheckLibs(p) \/ UseLibs(p) \/ OpenIndex(p)
           \/ OpenTimesOut(p) \/ EndIdentify(p)
  BY <1>0, <1>1 DEF StartDownload, StartIdentify, CheckLibs, UseLibs, OpenIndex, OpenTimesOut,
     EndIdentify, Waiting
<1>2. CASE NoMirror(p) \/ CopyDeb(p) \/ CopyFails(p) \/ CopyEnds(p)
           \/ OpenFile(p) \/ WriteFile(p)
  BY <1>0, <1>2 DEF NoMirror, CopyDeb, CopyFails, CopyEnds, OpenFile, WriteFile, Fails
<1>3. CASE CreateDeb(p) \/ ReadDeb(p) \/ ExtractEnds(p) \/ FetchDebug(p)
  BY <1>0, <1>3 DEF CreateDeb, ReadDeb, ExtractEnds, FetchDebug, BeginExtract, Fails, Succeeds
<1>4. CASE LoadLibc(p) \/ LoadSymbols(p)
  <2> DEFINE b == from[p]["main"]
             s == libs[Target[p]]["libc"]
  <2>1. Finished(p, "main")
    BY <1>4 DEF LoadLibc, LoadSymbols, AInv, IInv, Progress, ProgressOf, HasMain
  <2>2. BuildOf(s) = b /\ In(s) = {b} /\ IdsOf(s) = {IdOf(b)} /\ b # Torn
    BY <2>1, OwnIsWhole, FilesFacts, WholeFacts, BodiesFacts DEF IdOf
  <2>3. CASE LoadLibc(p)
    BY <1>0, <2>2, <2>3 DEF LoadLibc
  <2>4. CASE LoadSymbols(p)
    BY <1>0, <2>2, <2>4 DEF LoadSymbols
  <2> QED
    BY <1>4, <2>3, <2>4
<1>5. CASE IndexVersion(p)
  BY <1>0, <1>5 DEF IndexVersion, Put
<1>6. CASE OpenManifest(p)
  BY <1>0, <1>6 DEF OpenManifest
<1>7. CASE WriteManifest(p)
  <2>1. Finished(p, "main")
    BY <1>7 DEF WriteManifest, AInv, IInv, Progress, ProgressOf, HasMain
  <2>2. [sha |-> from[p]["main"], debug |-> debug[p]].sha = from[p]["main"]
    OBVIOUS
  <2> QED
    BY <1>0, <1>7, <2>1, <2>2 DEF WriteManifest
<1>8. CASE Kill(p)
  BY <1>0, <1>8 DEF Kill
<1> QED
  BY <1>1, <1>2, <1>3, <1>4, <1>5, <1>6, <1>7, <1>8 DEF Step

\* A manifest is written by a worker, into its version's directory.
LEMMA HasWorkerStep ==
    ASSUME AInv, NEW p \in Procs, Step(p) \/ Kill(p)
    PROVE  HasWorker'
<1>1. prov' = prov \/ (Worker(p) /\ \A v \in Versions \ {Target[p]} : prov'[v] = prov[v])
  <2>1. CASE OpenManifest(p) \/ WriteManifest(p)
    BY <2>1 DEF OpenManifest, WriteManifest, Worker, AInv, IInv, TypeOK, Commands, Active,
       HasMain, Loaded, Read, Indexed
  <2>2. CASE ~(OpenManifest(p) \/ WriteManifest(p))
    BY <2>2 DEF Step, Kill, StartDownload, StartIdentify, CheckLibs, UseLibs, OpenIndex,
       OpenTimesOut, EndIdentify, NoMirror, CreateDeb, CopyDeb, CopyFails, CopyEnds, ReadDeb,
       OpenFile, WriteFile, ExtractEnds, FetchDebug, LoadLibc, LoadSymbols, IndexVersion
  <2> QED
    BY <2>1, <2>2
<1> QED
  BY <1>1 DEF AInv, HasWorker

LEMMA AInvStep ==
    ASSUME Alone, AInv, [Next]_vars
    PROVE  AInv'
<1>1. IInv'
  BY InvStep DEF AInv
<1>2. ASSUME NEW q \in Procs, Step(q) \/ Kill(q)
      PROVE  HasWorker' /\ \A p \in Procs : Worker(p) => Private(p)'
  <2>1. ASSUME NEW p \in Procs, Worker(p) PROVE Private(p)'
    <3>1. CASE p = q
      BY <1>2, <2>1, <3>1, OwnDebStep, OwnRecordsStep DEF Private
    <3>2. CASE p # q
      <4>1. OwnDisk(p)' = OwnDisk(p)
        BY <1>2, <2>1, <3>2, OthersStep
      <4>2. TypeOK /\ Private(p)
        BY <2>1 DEF AInv, IInv
      <4> QED
        BY <1>2, <3>2, <4>1, <4>2, OthersStay, PrivateFrame
    <3> QED
      BY <3>1, <3>2
  <2> QED
    BY <1>2, <2>1, HasWorkerStep
<1>3. CASE Idle \/ UNCHANGED vars
  <2>1. UNCHANGED <<pc, deb, inode, symtab, meta, prov, pkg, from, data, left, open, info, id, syms, fd>>
    BY <1>3 DEF Idle, vars, cached, reading, loaded, locals, index
  <2>2. HasWorker'
    BY <2>1 DEF AInv, HasWorker
  <2>3. ASSUME NEW p \in Procs, Worker(p) PROVE Private(p)'
    <3>1. OwnDisk(p)' = OwnDisk(p) /\ Private(p)
      BY <2>1, <2>3 DEF OwnDisk, AInv
    <3> QED
      BY <2>1, <3>1, PrivateFrame
  <2> QED
    BY <1>1, <2>2, <2>3 DEF AInv, Worker
<1> QED
  BY <1>1, <1>2, <1>3 DEF Next, AInv, Worker

LEMMA AloneInvariance == ASSUME Alone PROVE Spec => []AInv
<1>1. AInv /\ [Next]_vars => AInv'
  BY AInvStep
<1> QED
  BY <1>1, AInvInit, PTL DEF Spec

\* When no two commands work on the same version, a manifest gives the SHA-256
\* of the .deb that the version's files and its index entry came from.
THEOREM ManifestIsTrue == ASSUME Alone PROVE Spec => []ManifestTrue
<1>1. AInv => ManifestTrue
  <2> SUFFICES ASSUME AInv, NEW v \in Versions, prov[v] \notin {None, Torn}
               PROVE  LET b == prov[v].sha
                      IN  /\ \A f \in FilesOf("main") : IsWhole(libs[v][f], Chunks[b[2]], b)
                          /\ symtab[v] = b
                          /\ meta[v] = IF b[2] \in WithId THEN b ELSE None
    BY DEF ManifestTrue
  <2>1. PICK p \in Procs : Worker(p) /\ Target[p] = v
    BY DEF AInv, HasWorker
  <2> QED
    BY <2>1, OwnIsWhole DEF AInv, Private, OwnRecords, IdOf
<1> QED
  BY <1>1, AloneInvariance, PTL
-----------------------------------------------------------------------------
(***************************************************************************)
(* Why a .deb stays behind, however many work on the same version.         *)
(***************************************************************************)

\* Whoever made, or truncated, the .deb last has yet to remove it, or never
\* will.
Keeps(p, k) ==
    /\ from[p][k] # None
    /\ p \in KeepDeb \/ pc[p] = "killed" \/ data[p][k] = None \/ (pc[p] = "extract" /\ pkg[p] = k)

DebKept == \A v \in Versions, k \in Pkgs : deb[v][k] # None =>
              \E p \in Procs : Target[p] = v /\ Keeps(p, k)

LEMMA DebKeptStep == IInv /\ DebKept /\ [Next]_vars => DebKept'
<1> SUFFICES ASSUME IInv, DebKept, [Next]_vars PROVE DebKept'
  OBVIOUS
<1> USE DEF cached, reading, loaded, locals, index, disk, Go
<1>0. /\ pc \in [Procs -> PcValues] /\ pkg \in [Procs -> Pkgs]
      /\ from \in [Procs -> [Pkgs -> Bodies \cup {None}]]
      /\ data \in [Procs -> [Pkgs -> Bodies \cup {None}]]
      /\ deb \in [Versions -> [Pkgs -> Procs \cup {None}]]
  BY DEF IInv, TypeOK
<1>1. ASSUME NEW p \in Procs, Step(p) \/ Kill(p) PROVE DebKept'
  <2> DEFINE w == Target[p]
             l == pkg[p]
  <2>0. w \in Versions /\ l \in Pkgs /\ TypeOK
    BY DEF IInv, TypeOK
  <2>1. ASSUME NEW q \in Procs \ {p}, NEW k \in Pkgs, Keeps(q, k) PROVE Keeps(q, k)'
    BY <1>1, <2>0, <2>1, OthersStay DEF Keeps
  <2>2. CASE CreateDeb(p)
    <3>1. PICK b \in BodiesOf(w) : from' = [from EXCEPT ![p][l] = b]
      BY <2>2 DEF CreateDeb
    <3>2. pc[p] = "fetch" /\ UNCHANGED <<data, pkg>> /\ pc' = [pc EXCEPT ![p] = "copy"]
          /\ \A v \in Versions, k \in Pkgs : v # w \/ k # l => deb'[v][k] = deb[v][k]
      BY <1>0, <2>0, <2>2 DEF CreateDeb
    <3>3. b # None /\ data[p][l] = None
      BY <2>0, <3>2, BodiesFacts DEF IInv, Progress, ProgressOf, Before
    <3>4. Keeps(p, l)'
      BY <1>0, <2>0, <3>1, <3>2, <3>3 DEF Keeps
    <3>5. \A k \in Pkgs \ {l} : Keeps(p, k) => Keeps(p, k)'
      BY <1>0, <2>0, <3>1, <3>2 DEF Keeps
    <3> QED
      BY <2>0, <2>1, <3>2, <3>4, <3>5 DEF DebKept
  <2>3. CASE ReadDeb(p) /\ pc'[p] = "extract"
    <3>1. deb' = deb /\ from' = from /\ pkg' = pkg /\ pc[p] = "read"
      BY <1>0, <2>3 DEF ReadDeb, Fails
    <3>2. \A k \in Pkgs : k # l => data'[p][k] = data[p][k]
      BY <1>0, <2>0, <2>3 DEF ReadDeb, BeginExtract
    <3>3. \A k \in Pkgs : Keeps(p, k) => Keeps(p, k)'
      BY <2>3, <3>1, <3>2 DEF Keeps
    <3> QED
      BY <2>1, <3>1, <3>3 DEF DebKept
  <2>4. CASE (ReadDeb(p) /\ pc'[p] # "extract") \/ ExtractEnds(p)
    <3>1. /\ from' = from /\ pkg' = pkg /\ data' = data /\ RemoveDeb(p)
          /\ pc[p] \in {"read", "extract"} /\ pc'[p] # "killed"
      BY <1>0, <2>4 DEF ReadDeb, BeginExtract, Fails, ExtractEnds, Succeeds
    <3>2. CASE p \in KeepDeb
      BY <2>0, <2>1, <3>1, <3>2 DEF DebKept, RemoveDeb, Keeps
    <3>3. CASE p \notin KeepDeb
      <4>1. deb' = [deb EXCEPT ![w][l] = None]
        BY <3>1, <3>3 DEF RemoveDeb
      <4>2. \A k \in Pkgs \ {l} : Keeps(p, k) => Keeps(p, k)'
        BY <2>0, <3>1 DEF Keeps
      <4>3. \A v \in Versions, k \in Pkgs : deb'[v][k] # None =>
                deb[v][k] # None /\ (v # w \/ k # l)
        BY <1>0, <2>0, <4>1
      <4> QED
        BY <2>0, <2>1, <4>2, <4>3 DEF DebKept
    <3> QED
      BY <3>2, <3>3
  <2>5. CASE ~CreateDeb(p) /\ ~ReadDeb(p) /\ ~ExtractEnds(p)
    <3>1. UNCHANGED <<deb, from, data>>
      BY <1>1, <2>5 DEF Step, Kill, StartDownload, StartIdentify, CheckLibs, UseLibs, OpenIndex,
         OpenTimesOut, EndIdentify, NoMirror, CopyDeb, CopyFails, CopyEnds,
         OpenFile, WriteFile, FetchDebug, LoadLibc, LoadSymbols, IndexVersion, OpenManifest,
         WriteManifest
    <3>2. pc[p] = "extract" => pc'[p] \in {"extract", "killed"} /\ pkg' = pkg
      BY <1>0, <1>1, <2>5 DEF Step, Kill, StartDownload, StartIdentify, CheckLibs, UseLibs, OpenIndex,
         OpenTimesOut, EndIdentify, NoMirror, CopyDeb, CopyFails, CopyEnds,
         OpenFile, WriteFile, FetchDebug, LoadLibc, LoadSymbols, IndexVersion, OpenManifest,
         WriteManifest, Waiting
    <3>3. pc[p] # "killed"
      BY <1>0, <1>1, <2>5 DEF Step, Kill, StartDownload, StartIdentify, CheckLibs, UseLibs, OpenIndex,
         OpenTimesOut, EndIdentify, NoMirror, CopyDeb, CopyFails, CopyEnds,
         OpenFile, WriteFile, FetchDebug, LoadLibc, LoadSymbols, IndexVersion, OpenManifest,
         WriteManifest, Waiting, Terminal
    <3>4. \A k \in Pkgs : Keeps(p, k) => Keeps(p, k)'
      BY <3>1, <3>2, <3>3 DEF Keeps
    <3> QED
      BY <2>1, <3>1, <3>4 DEF DebKept
  <2> QED
    BY <1>1, <2>2, <2>3, <2>4, <2>5
<1>2. CASE Idle \/ UNCHANGED vars
  BY <1>2 DEF Idle, vars, DebKept, Keeps
<1> QED
  BY <1>1, <1>2 DEF Next

\* A .deb, of libc6 or of libc6-dbg, that outlives the commands was kept on
\* request, or left by a command that was killed or whose copy failed.
THEOREM DebHasCause == Spec => []DebLeftHasCause
<1>1. Init => DebKept
  BY DEF Init, DebKept
<1>2. DebKept => DebLeftHasCause
  BY DEF DebKept, Keeps, DebLeftHasCause, AllEnded, Terminal
<1> QED
  BY <1>1, <1>2, DebKeptStep, Invariance, PTL DEF Spec
-----------------------------------------------------------------------------
(***************************************************************************)
(* The processes implement Cache.                                          *)
(***************************************************************************)

\* What outside observers of the cache can tell apart.
LEMMA StageIs ==
    /\ \A l \in PcValues \ (Holding \cup Terminal) : Stage(l) = "out"
    /\ Stage("identify") = "looking" /\ Stage("index") = "adding"
    /\ Stage("manifest") = "added" /\ Stage("write") = "recording"
    /\ Stage("done") = "ok" /\ Stage("failed") = "failed" /\ Stage("killed") = "failed"
<1>1. \A l \in PcValues \ (Holding \cup Terminal) : Stage(l) = "out"
  BY DEF Stage, PcValues, Holding, Terminal, Waiting
<1> QED
  BY <1>1 DEF Stage

\* Moving the program counter moves the stage.
LEMMA StageMoves ==
    ASSUME pc \in [Procs -> PcValues], NEW p \in Procs, NEW l, Go(p, l)
    PROVE  /\ Shared!Becomes(p, Stage(l))
           /\ Stage(l) = Stage(pc[p]) => Stages' = Stages
<1>1. \A q \in Procs : pc'[q] = IF q = p THEN l ELSE pc[q]
  BY DEF Go
<1>2. Stages' = [q \in Procs |-> IF q = p THEN Stage(l) ELSE Stage(pc[q])]
  BY <1>1 DEF Stages
<1> QED
  BY <1>2 DEF Stages, Shared!Becomes

\* A step that moves no stage, adds no file and leaves the lock, the index and
\* the manifests alone is not to be seen.
LEMMA StepStutters ==
    ASSUME Stages' = Stages, lock' = lock, Present' = Present,
           symtab' = symtab, buildid' = buildid, prov' = prov
    PROVE  UNCHANGED Shared!kvars
BY DEF Records, Shared!kvars, Shared!index

\* Whoever has extracted a version finds all of libc6's files.
LEMMA AllPresent ==
    ASSUME IInv, NEW p \in Procs, pc[p] \in HasMain
    PROVE  Present[Target[p]] = FilesOf("main")
<1>1. Finished(p, "main") /\ "main" \in Pkgs /\ Target[p] \in Versions
  BY FilesFacts DEF IInv, TypeOK, Progress, ProgressOf
<1>2. data[p]["main"] # None /\ LeftOf(p, "main") = {}
  BY <1>1 DEF Finished, LeftOf, Extracted
<1>3. \A f \in FilesOf("main") : libs[Target[p]][f] # None
  BY <1>1, <1>2 DEF IInv, Placed
<1> QED
  BY <1>1, <1>3 DEF Present

\* Steps that touch neither a file, the index, a manifest nor the lock: none
\* is seen outside, but for a failure and for patch's success.
LEMMA InnerMaps ==
    ASSUME IInv, NEW p \in Procs,
           \/ StartDownload(p) \/ StartIdentify(p) \/ CheckLibs(p) \/ UseLibs(p)
           \/ OpenTimesOut(p) \/ NoMirror(p) \/ CreateDeb(p) \/ CopyDeb(p) \/ CopyFails(p)
           \/ CopyEnds(p) \/ ReadDeb(p) \/ ExtractEnds(p) \/ FetchDebug(p) \/ LoadLibc(p)
           \/ LoadSymbols(p)
    PROVE  [Shared!KNext]_Shared!kvars
<1> USE DEF cached, reading, loaded, locals, index, disk
<1>0. pc \in [Procs -> PcValues] /\ TypeOK /\ LockDiscipline
  BY DEF IInv, TypeOK
<1>1. pc[p] \in PcValues \ (Holding \cup Terminal)
  BY <1>0 DEF StartDownload, StartIdentify, CheckLibs, UseLibs, OpenTimesOut, NoMirror, CreateDeb,
     CopyDeb, CopyFails, CopyEnds, ReadDeb, ExtractEnds, FetchDebug, LoadLibc, LoadSymbols,
     PcValues, Holding, Terminal, Waiting
<1>2. /\ lock # p /\ lock' = lock /\ libs' = libs
      /\ symtab' = symtab /\ buildid' = buildid /\ prov' = prov
  <2>1. CASE StartDownload(p) \/ StartIdentify(p) \/ CheckLibs(p) \/ UseLibs(p)
             \/ OpenTimesOut(p) \/ NoMirror(p) \/ CreateDeb(p) \/ CopyDeb(p)
    BY <1>0, <1>1, <2>1 DEF StartDownload, StartIdentify, CheckLibs, UseLibs, OpenTimesOut, NoMirror,
       CreateDeb, CopyDeb, LockDiscipline
  <2>2. CASE CopyFails(p) \/ CopyEnds(p) \/ ReadDeb(p) \/ ExtractEnds(p) \/ FetchDebug(p)
             \/ LoadLibc(p) \/ LoadSymbols(p)
    BY <1>0, <1>1, <2>2 DEF CopyFails, CopyEnds, ReadDeb, ExtractEnds, FetchDebug, LoadLibc,
       LoadSymbols, LockDiscipline
  <2> QED
    BY <2>1, <2>2
<1>3. Stage(pc[p]) = "out" /\ Stages[p] = "out" /\ Present' = Present /\ Records' = Records
  BY <1>1, <1>2, StageIs DEF Stages, Present, Records
<1>4. CASE pc' = pc
  <2>1. Stages' = Stages
    BY <1>4 DEF Stages
  <2> QED
    BY <1>2, <1>3, <2>1, StepStutters
<1>5. CASE Go(p, "failed")
  <2>1. Shared!Becomes(p, "failed")
    BY <1>0, <1>5, StageMoves, StageIs
  <2>2. Shared!Fail(p)
    BY <1>2, <1>3, <2>1 DEF Shared!Fail, Shared!index
  <2> QED
    BY <2>2 DEF Shared!KNext
<1>6. CASE Go(p, "done") /\ UseLibs(p)
  <2>1. Shared!Becomes(p, "ok")
    BY <1>0, <1>6, StageMoves, StageIs
  <2>2. pc[p] = "use" /\ pc'[p] = "done"
    BY <1>0, <1>6 DEF UseLibs, Go
  <2>3. libs[Target[p]]["ld"] # None /\ Role[p] = "patch" /\ HasLibc(Target[p])
    BY <1>0, <1>6, <2>2 DEF UseLibs, Go, IInv, Commands, Placed
  <2>4. Present[Target[p]] = FilesOf("main") /\ Target[p] \in Versions
    BY <1>0, <2>3 DEF Present, FilesOf, HasLibc, TypeOK
  <2>5. Shared!Use(p)
    BY <1>2, <1>3, <2>1, <2>3, <2>4 DEF Shared!Use, Shared!index
  <2> QED
    BY <2>5 DEF Shared!KNext
<1>7. ASSUME NEW l \in PcValues \ (Holding \cup Terminal), Go(p, l)
      PROVE  [Shared!KNext]_Shared!kvars
  <2>1. Stages' = Stages
    BY <1>0, <1>3, <1>7, StageMoves, StageIs
  <2> QED
    BY <1>2, <1>3, <2>1, StepStutters
<1>8. \/ pc' = pc \/ Go(p, "failed") \/ (Go(p, "done") /\ UseLibs(p))
      \/ Go(p, "fetch") \/ Go(p, "idopen") \/ Go(p, "use") \/ Go(p, "copy") \/ Go(p, "read")
      \/ Go(p, "extract") \/ Go(p, "debug") \/ Go(p, "load") \/ Go(p, "symbols")
      \/ Go(p, "dlopen")
  <2>1. CASE UseLibs(p)
    <3>1. CASE libs[Target[p]]["ld"] # None
      BY <2>1, <3>1 DEF UseLibs, Go
    <3>2. CASE libs[Target[p]]["ld"] = None
      BY <2>1, <3>2 DEF UseLibs, Go
    <3> QED
      BY <3>1, <3>2
  <2>2. CASE FetchDebug(p) \/ LoadLibc(p) \/ LoadSymbols(p)
    BY <2>2 DEF FetchDebug, LoadLibc, LoadSymbols
  <2>3. CASE StartDownload(p) \/ StartIdentify(p) \/ CheckLibs(p) \/ OpenTimesOut(p)
             \/ CreateDeb(p) \/ CopyDeb(p) \/ CopyEnds(p)
    BY <2>3 DEF StartDownload, StartIdentify, CheckLibs, OpenTimesOut, CreateDeb, CopyDeb, CopyEnds
  <2>4. Fails(p) => Go(p, "failed") \/ Go(p, "load")
    BY DEF Fails, Go
  <2>5. Succeeds(p) => Go(p, "debug") \/ Go(p, "load")
    BY DEF Succeeds, Go
  <2>6. CASE NoMirror(p) \/ CopyFails(p) \/ ReadDeb(p) \/ ExtractEnds(p)
    BY <2>4, <2>5, <2>6 DEF NoMirror, CopyFails, ReadDeb, ExtractEnds, BeginExtract
  <2> QED
    BY <2>1, <2>2, <2>3, <2>6
<1>9. {"fetch", "idopen", "use", "copy", "read", "extract", "debug", "load", "symbols", "dlopen"}
          \subseteq PcValues \ (Holding \cup Terminal)
  BY DEF PcValues, Holding, Terminal, Waiting
<1> QED
  BY <1>4, <1>5, <1>6, <1>7, <1>8, <1>9

\* A file of libc6 that is opened appears; one that is written is there
\* already, and the debug symbols are not to be seen.
LEMMA FileMaps ==
    ASSUME IInv, NEW p \in Procs, OpenFile(p) \/ WriteFile(p)
    PROVE  [Shared!KNext]_Shared!kvars
<1>0. TypeOK /\ pc[p] = "extract" /\ Target[p] \in Versions
  BY DEF IInv, TypeOK, OpenFile, WriteFile
<1>1. /\ Stages[p] = "out" /\ Role[p] # "identify"
      /\ Stages' = Stages /\ lock' = lock /\ symtab' = symtab /\ buildid' = buildid
      /\ prov' = prov /\ Records' = Records
  <2>1. Stages[p] = "out"
    BY <1>0 DEF Stages, Stage
  <2>2. pc' = pc /\ lock' = lock /\ prov' = prov /\ symtab' = symtab /\ buildid' = buildid
    BY DEF OpenFile, WriteFile, index
  <2>3. Role[p] # "identify"
    BY <1>0 DEF IInv, Commands, Active
  <2> QED
    BY <2>1, <2>2, <2>3 DEF Stages, Records
<1>2. PICK f \in Files, s \in Blobs : libs' = [libs EXCEPT ![Target[p]][f] = s]
  <2>1. CASE OpenFile(p)
    <3>1. PICK f \in left[p] \ {Rest} : libs' = [libs EXCEPT ![Target[p]][f] = <<>>]
      BY <2>1 DEF OpenFile
    <3>2. f \in Files
      BY <1>0, <3>1 DEF TypeOK
    <3> QED
      BY <3>1, <3>2, EmptyFacts
  <2>2. CASE WriteFile(p)
    BY <2>2, WriteFacts DEF IInv
  <2> QED
    BY <2>1, <2>2
<1>3. \A v \in Versions, g \in Files :
          libs'[v][g] # None <=> libs[v][g] # None \/ (v = Target[p] /\ g = f)
  BY <1>0, <1>2 DEF TypeOK
<1>4. FilesOf("main") \subseteq Files
  BY FilesFacts
<1> DEFINE P(v) == {g \in FilesOf("main") : libs[v][g] # None}
           Q(v) == {g \in FilesOf("main") : libs'[v][g] # None}
<1>5. Present' = [v \in Versions |-> Q(v)] /\ Present = [v \in Versions |-> P(v)]
  BY DEF Present
<1>6. CASE f \in FilesOf("main")
  <2>1. \A v \in Versions : Q(v) = IF v = Target[p] THEN P(v) \cup {f} ELSE P(v)
    BY <1>3, <1>4, <1>6
  <2> HIDE DEF P, Q
  <2>2. Present' = [Present EXCEPT ![Target[p]] = @ \cup {f}]
    BY <1>0, <1>5, <2>1
  <2>3. Shared!PutFile(p)
    BY <1>1, <1>6, <2>2 DEF Shared!PutFile, Shared!index
  <2> QED
    BY <2>3 DEF Shared!KNext
<1>7. CASE f \notin FilesOf("main")
  <2>1. \A v \in Versions : Q(v) = P(v)
    BY <1>3, <1>4, <1>7
  <2> HIDE DEF P, Q
  <2>2. Present' = Present
    BY <1>5, <2>1
  <2> QED
    BY <1>1, <2>2, StepStutters
<1> QED
  BY <1>6, <1>7

\* Opening the index begins a lookup, or the addition of a version whose files
\* are all there.
LEMMA OpenMaps ==
    ASSUME IInv, NEW p \in Procs, OpenIndex(p)
    PROVE  Shared!KNext
<1>0. /\ pc \in [Procs -> PcValues] /\ lock = None /\ lock' = p
      /\ symtab' = symtab /\ buildid' = buildid
      /\ Present' = Present /\ Records' = Records
  BY DEF IInv, TypeOK, OpenIndex, index, disk, Present, Records
<1>1. pc[p] \in Waiting /\ Stages[p] = "out"
  BY <1>0 DEF OpenIndex, Waiting, Stages, Stage
<1>2. CASE pc[p] = "idopen"
  <2>1. Shared!Becomes(p, "looking")
    BY <1>0, <1>2, StageMoves, StageIs DEF OpenIndex
  <2>2. Role[p] # "download"
    BY <1>2 DEF IInv, Commands
  <2>3. Shared!BeginLookup(p)
    BY <1>0, <1>1, <2>1, <2>2 DEF Shared!BeginLookup, Shared!index
  <2> QED
    BY <2>3 DEF Shared!KNext
<1>3. CASE pc[p] = "dlopen"
  <2>1. Shared!Becomes(p, "adding")
    BY <1>0, <1>3, StageMoves, StageIs DEF OpenIndex
  <2>2. Role[p] # "identify"
    BY <1>3 DEF IInv, Commands, Active, HasMain, Loaded, Read
  <2>3. Present[Target[p]] = FilesOf("main")
    BY <1>3, AllPresent DEF HasMain, Loaded, Read
  <2>4. Shared!BeginAdd(p)
    BY <1>0, <1>1, <2>1, <2>2, <2>3 DEF Shared!BeginAdd, Shared!index
  <2> QED
    BY <2>4 DEF Shared!KNext
<1> QED
  BY <1>1, <1>2, <1>3 DEF Waiting

\* A command that fails, or is killed, leaves the index to others and what it
\* did where it is.
LEMMA FailMaps ==
    ASSUME TypeOK, NEW p \in Procs, pc[p] \in PcValues \ Terminal,
           Go(p, "failed") \/ Go(p, "killed"), Unlock(p),
           libs' = libs, symtab' = symtab, buildid' = buildid, prov' = prov
    PROVE  Shared!KNext
<1>0. pc \in [Procs -> PcValues]
  BY DEF TypeOK
<1>1. Shared!Becomes(p, "failed")
  BY <1>0, StageMoves, StageIs
<1>2. Stages[p] \notin {"ok", "failed"}
  BY DEF Stages, Stage, Terminal
<1>3. Present' = Present /\ Records' = Records
  BY DEF Present, Records
<1>4. Shared!Fail(p)
  BY <1>1, <1>2, <1>3 DEF Shared!Fail, Shared!index, Unlock
<1> QED
  BY <1>4 DEF Shared!KNext

\* Under the lock: a lookup ends; a version is added, whole, and then recorded.
LEMMA LockedMaps ==
    ASSUME IInv, NEW p \in Procs,
           EndIdentify(p) \/ IndexVersion(p) \/ OpenManifest(p) \/ WriteManifest(p)
    PROVE  Shared!KNext
<1>0. /\ pc \in [Procs -> PcValues] /\ TypeOK /\ Target[p] \in Versions
      /\ symtab \in [Versions -> Bodies \cup {None, Torn}]
      /\ buildid \in [Bodies -> Versions \cup {None}]
      /\ prov \in [Versions -> Manifests \cup {None, Torn}]
  BY DEF IInv, TypeOK
<1>1. pc[p] \in Holding /\ lock = p
  BY DEF IInv, LockDiscipline, EndIdentify, IndexVersion, OpenManifest, WriteManifest, Holding
<1>2. pc[p] \in PcValues \ Terminal
  BY <1>1 DEF Holding, Terminal, PcValues
<1>3. libs' = libs /\ Present' = Present
  BY DEF EndIdentify, IndexVersion, OpenManifest, WriteManifest, Present, disk
<1>4. CASE /\ Go(p, "failed") /\ Unlock(p)
           /\ symtab' = symtab /\ buildid' = buildid /\ prov' = prov
  BY <1>0, <1>2, <1>3, <1>4, FailMaps
<1>5. CASE EndIdentify(p) /\ ~Go(p, "failed")
  <2>1. /\ Go(p, IF Role[p] = "identify" THEN "done" ELSE "check") /\ pc[p] = "identify"
        /\ lock' = None /\ symtab' = symtab /\ buildid' = buildid /\ prov' = prov
    BY <1>1, <1>5 DEF EndIdentify, Unlock, index
  <2>2. Shared!Becomes(p, IF Role[p] = "identify" THEN "ok" ELSE "out")
    <3>1. Stage("check") = "out" /\ Stage("done") = "ok"
      BY DEF Stage
    <3> QED
      BY <1>0, <2>1, <3>1, StageMoves
  <2>3. Stages[p] = "looking" /\ Records' = Records
    BY <2>1 DEF Stages, Stage, Records
  <2>4. Shared!EndLookup(p)
    BY <1>1, <1>3, <2>1, <2>2, <2>3 DEF Shared!EndLookup, Shared!index
  <2> QED
    BY <2>4 DEF Shared!KNext
<1>6. CASE IndexVersion(p) /\ ~Go(p, "failed")
  <2>1. /\ Go(p, "manifest") /\ pc[p] = "index" /\ lock' = lock /\ prov' = prov
        /\ Put(Target[p], id[p], syms[p])
    BY <1>6 DEF IndexVersion
  <2> DEFINE own == {b \in Bodies : b[1] = Target[p]}
  <2>2. BodiesOf(Target[p]) \subseteq own
    BY <1>0, BodiesFacts DEF BodiesOf
  <2>3. syms[p] \in own \cup {Torn} /\ id[p] \in own \cup {None}
    <3>1. syms[p] # None
      BY <2>1 DEF IInv, Progress, ProgressOf, Read
    <3> QED
      BY <2>2, <3>1 DEF IInv, OwnBuilds
  <2> HIDE DEF own
  <2>4. symtab' = [symtab EXCEPT ![Target[p]] = syms[p]]
    BY <2>1 DEF Put
  <2>5. (\E b \in own : buildid' = [buildid EXCEPT ![b] = Target[p]]) \/ UNCHANGED buildid
    <3>1. buildid' = [b \in Bodies |-> IF b = id[p] THEN Target[p] ELSE buildid[b]]
      BY <2>1 DEF Put
    <3>2. CASE id[p] = None
      <4>1. \A b \in Bodies : b # id[p]
        BY <3>2
      <4>2. buildid' = buildid
        BY <1>0, <3>1, <4>1
      <4> QED
        BY <4>2
    <3>3. CASE id[p] \in own
      <4>1. buildid' = [buildid EXCEPT ![id[p]] = Target[p]]
        BY <1>0, <3>1
      <4> QED
        BY <3>3, <4>1
    <3> QED
      BY <2>3, <3>2, <3>3
  <2>6. Shared!Becomes(p, "added")
    BY <1>0, <2>1, StageMoves, StageIs
  <2>7. Stages[p] = "adding" /\ Records' = Records
    BY <2>1 DEF Stages, Stage, Records
  <2>8. Shared!Add(p)
    BY <1>1, <1>3, <2>1, <2>3, <2>4, <2>5, <2>6, <2>7 DEF Shared!Add, own
  <2> QED
    BY <2>8 DEF Shared!KNext
<1>7. CASE OpenManifest(p) /\ ~Go(p, "failed")
  <2>1. /\ Go(p, "write") /\ pc[p] = "manifest" /\ lock' = lock
        /\ symtab' = symtab /\ buildid' = buildid
        /\ prov' = [prov EXCEPT ![Target[p]] = Torn]
    BY <1>7 DEF OpenManifest, index
  <2>2. Shared!Becomes(p, "recording")
    BY <1>0, <2>1, StageMoves, StageIs
  <2>3. Stages[p] = "added"
    BY <2>1 DEF Stages, Stage
  <2>4. Records' = [Records EXCEPT ![Target[p]] = "begun"]
    BY <1>0, <2>1 DEF Records
  <2>5. Shared!BeginRecord(p)
    BY <1>1, <1>3, <2>1, <2>2, <2>3, <2>4 DEF Shared!BeginRecord, Shared!index
  <2> QED
    BY <2>5 DEF Shared!KNext
<1>8. CASE WriteManifest(p) /\ ~Go(p, "failed")
  <2> DEFINE m == [sha |-> from[p]["main"], debug |-> debug[p]]
  <2>1. /\ Go(p, IF Role[p] = "patch" THEN "use" ELSE "done") /\ pc[p] = "write"
        /\ lock' = None /\ symtab' = symtab /\ buildid' = buildid
        /\ prov' = [prov EXCEPT ![Target[p]] = m]
    BY <1>1, <1>8 DEF WriteManifest, Unlock, index
  <2>2. Role[p] \in {"download", "patch"}
    BY <2>1 DEF IInv, Commands, Active, HasMain, Loaded, Read, Indexed
  <2>3. Shared!Becomes(p, IF Role[p] = "download" THEN "ok" ELSE "out")
    <3>1. Stage("use") = "out" /\ Stage("done") = "ok"
      BY DEF Stage
    <3> QED
      BY <1>0, <2>1, <2>2, <3>1, StageMoves
  <2>4. Stages[p] = "recording"
    BY <2>1 DEF Stages, Stage
  <2>5. m \notin {None, Torn}
    <3>1. from[p]["main"] # None
      BY <2>1 DEF IInv, Progress, ProgressOf, HasMain, Loaded, Read, Indexed
    <3>2. from[p]["main"] \in Bodies /\ debug[p] \in BOOLEAN
      BY <1>0, <3>1, FilesFacts DEF TypeOK
    <3>3. m \in Manifests
      BY <3>2 DEF Manifests
    <3> QED
      BY <3>3
  <2> HIDE DEF m
  <2>6. Records' = [Records EXCEPT ![Target[p]] = "written"]
    BY <1>0, <2>1, <2>5 DEF Records
  <2>7. Shared!EndRecord(p)
    BY <1>1, <1>3, <2>1, <2>3, <2>4, <2>6 DEF Shared!EndRecord, Shared!index
  <2> QED
    BY <2>7 DEF Shared!KNext
<1>9. \/ /\ Go(p, "failed") /\ Unlock(p)
         /\ symtab' = symtab /\ buildid' = buildid /\ prov' = prov
      \/ ~Go(p, "failed")
  <2>1. \A l : Go(p, l) => pc'[p] = l
    BY <1>0 DEF Go
  <2>2. "failed" \notin {"done", "check", "manifest", "write", "use"}
    OBVIOUS
  <2> QED
    BY <2>1, <2>2 DEF EndIdentify, IndexVersion, OpenManifest, WriteManifest, index
<1> QED
  BY <1>4, <1>5, <1>6, <1>7, <1>8, <1>9

\* Every step of the processes is a step of the abstract cache, or not seen.
LEMMA CacheStep == IInv /\ [Next]_vars => [Shared!KNext]_Shared!kvars
<1> SUFFICES ASSUME IInv, [Next]_vars PROVE [Shared!KNext]_Shared!kvars
  OBVIOUS
<1>1. ASSUME NEW p \in Procs, Step(p) PROVE [Shared!KNext]_Shared!kvars
  BY <1>1, InnerMaps, FileMaps, OpenMaps, LockedMaps DEF Step
<1>2. ASSUME NEW p \in Procs, Kill(p) PROVE [Shared!KNext]_Shared!kvars
  <2>1. /\ pc[p] \in PcValues \ Terminal /\ Go(p, "killed") /\ Unlock(p)
        /\ libs' = libs /\ symtab' = symtab /\ buildid' = buildid /\ prov' = prov /\ TypeOK
    BY <1>2 DEF Kill, IInv, TypeOK, index, disk
  <2> QED
    BY <2>1, FailMaps
<1>3. CASE Idle \/ UNCHANGED vars
  <2>1. /\ Stages' = Stages /\ lock' = lock /\ Present' = Present
        /\ symtab' = symtab /\ buildid' = buildid /\ prov' = prov
    BY <1>3 DEF Idle, vars, Stages, Present, index, disk
  <2> QED
    BY <2>1, StepStutters
<1> QED
  BY <1>1, <1>2, <1>3 DEF Next

\* Store implements Cache, for any number of processes, versions, builds and
\* blocks: no race for a .deb, truncated file, timeout or kill shows the
\* commands anything but files that stay, an index used in turns whose entries
\* have all their files, and success that was earned.
THEOREM StoreImplementsCache == Spec => ImplementsCache
<1>1. Init => Shared!KInit
  <2> SUFFICES ASSUME Init PROVE Shared!KInit
    OBVIOUS
  <2>1. Stages = [p \in Procs |-> "out"]
    BY DEF Init, Stages, Stage
  <2>2. Present = [v \in Versions |-> {}] /\ Records = [v \in Versions |-> "none"]
    BY FilesFacts DEF Init, Present, Records
  <2> QED
    BY <2>1, <2>2 DEF Init, Shared!KInit
<1> QED
  BY <1>1, Invariance, CacheStep, PTL DEF Spec, ImplementsCache, Shared!KSpec

\* A promise of the abstract cache, and so of the processes: no command,
\* whether it ends well, fails or is killed, takes away a file, an index entry
\* or a manifest that was there.
THEOREM NothingGoesFromCache == Spec => Shared!NothingGoes
<1> DEFINE Keeping == \A v \in Versions :
               /\ Present[v] \subseteq Present'[v]
               /\ symtab[v] # None => symtab'[v] # None
               /\ Records[v] # "none" => Records'[v] # "none"
<1>1. TypeOK /\ [Shared!KNext]_Shared!kvars => [Keeping]_Shared!kvars
  <2> SUFFICES ASSUME TypeOK, NEW p \in Procs,
                      \/ Shared!PutFile(p) \/ Shared!BeginLookup(p) \/ Shared!EndLookup(p)
                      \/ Shared!BeginAdd(p) \/ Shared!Add(p) \/ Shared!BeginRecord(p)
                      \/ Shared!EndRecord(p) \/ Shared!Use(p) \/ Shared!Fail(p)
               PROVE  Keeping
    BY DEF Shared!KNext
  <2>0. /\ symtab \in [Versions -> Bodies \cup {None, Torn}] /\ Target[p] \in Versions
        /\ DOMAIN Present = Versions /\ DOMAIN Records = Versions
    BY DEF TypeOK, Present, Records
  <2>1. CASE Shared!PutFile(p)
    <3>1. PICK f \in FilesOf("main") : Present' = [Present EXCEPT ![Target[p]] = @ \cup {f}]
      BY <2>1 DEF Shared!PutFile
    <3>2. symtab' = symtab /\ Records' = Records
      BY <2>1 DEF Shared!PutFile, Shared!index
    <3> QED
      BY <2>0, <3>1, <3>2
  <2>2. CASE Shared!Add(p)
    <3>1. PICK s \in Bodies \cup {Torn} : symtab' = [symtab EXCEPT ![Target[p]] = s]
      BY <2>2 DEF Shared!Add
    <3>2. Present' = Present /\ Records' = Records
      BY <2>2 DEF Shared!Add
    <3> QED
      BY <2>0, <3>1, <3>2
  <2>3. CASE Shared!BeginRecord(p) \/ Shared!EndRecord(p)
    <3>1. \/ Records' = [Records EXCEPT ![Target[p]] = "begun"]
          \/ Records' = [Records EXCEPT ![Target[p]] = "written"]
      BY <2>3 DEF Shared!BeginRecord, Shared!EndRecord
    <3>2. Present' = Present /\ symtab' = symtab
      BY <2>3 DEF Shared!BeginRecord, Shared!EndRecord, Shared!index
    <3> QED
      BY <2>0, <3>1, <3>2
  <2>4. CASE \/ Shared!BeginLookup(p) \/ Shared!EndLookup(p) \/ Shared!BeginAdd(p)
             \/ Shared!Use(p) \/ Shared!Fail(p)
    <3>1. Present' = Present /\ symtab' = symtab /\ Records' = Records
      BY <2>4 DEF Shared!BeginLookup, Shared!EndLookup, Shared!BeginAdd, Shared!Use, Shared!Fail,
         Shared!index
    <3> QED
      BY <3>1
  <2> QED
    BY <2>1, <2>2, <2>3, <2>4
<1> QED
  BY <1>1, TypeCorrect, StoreImplementsCache, PTL
     DEF ImplementsCache, Shared!KSpec, Shared!NothingGoes
=============================================================================
