---------------------------- MODULE PatchProofs ----------------------------
(***************************************************************************)
(* Proofs about Patch, for any commands, paths, files and versions: which  *)
(* files a command can touch, what success means when commands write to    *)
(* one file, and that the loader patched in is there.                      *)
(***************************************************************************)
EXTENDS Patch, TLAPS

\* A function on 1 .. n is a sequence.
LEMMA FunctionSeq ==
    ASSUME NEW S, NEW n \in Nat, NEW f \in [1 .. n -> S]
    PROVE  f \in Seq(S) /\ Len(f) = n
OBVIOUS

USE PathsAssumption, VersionsAssumption

-----------------------------------------------------------------------------
(***************************************************************************)
(* The inductive invariant.                                                *)
(***************************************************************************)

\* Where p stands before it touches a file.
Preparing == {"start", "check", "download", "loader", "patch"}

\* The file a path leads to, now or as soon as it leads to one; and the file
\* p's path leads to at first.
FileOf(path) == IF FileAt[path] = None THEN path ELSE FileAt[path]
Src(p) == FileAt[Source[p]]

\* A path leads to one file for good, and to a new one only when a copy was
\* made there.
Directory ==
    \A path \in Paths :
        /\ dir[path] \in {FileAt[path], FileOf(path)}
        /\ dir[path] # FileAt[path] => \E r \in Procs : out[r] = path /\ Source[r] # path
        /\ dir[path] = None => file[path] = <<>>

\* What p has done when it stands where it does.
ProgressOf(p) ==
    /\ pc[p] \in Preparing => off[p] = 0
    /\ pc[p] = "copy" => dir[Source[p]] # None /\ dir[out[p]] # None /\ out[p] # Source[p]
    /\ pc[p] \in {"read", "patchelf", "write", "done"} => dir[out[p]] # None
    /\ pc[p] \in {"read", "patchelf", "write"} => elf[p] # <<>>
    /\ pc[p] = "download" =>
           libs[want[p]] = None \/ ToSet(libs[want[p]]) \subseteq ToSet(Package[want[p]])
    /\ pc[p] \in {"loader", "patch", "copy", "chmod", "read", "patchelf", "write", "done"} =>
           want[p] # None /\ libs[want[p]] # None

Progress == \A p \in Procs : ProgressOf(p)

\* LoaderIsThere, of p.
LoaderOf(p) ==
    pc[p] \in {"patch", "copy", "chmod", "read", "patchelf", "write", "done"} =>
        LET es == ToSet(libs[want[p]])
        IN  IF ~loader[p].link THEN loader[p] \in es
            ELSE want[p] \in fetched \/ (loader[p] \in es /\ \A e \in es : e.link)

\* Where p's patchelf has opened the output for writing.
Rewriting == {"write", "done"}

\* A file all of whose writers are that far has no other blocks than theirs, and
\* some, unless one of them has just truncated it.
Mixed ==
    \A i \in Paths :
        LET ws == {p \in Procs : dir[out[p]] = i}
        IN  ws # {} /\ (\A p \in ws : pc[p] \in Rewriting) =>
            /\ \A k \in 1 .. Len(file[i]) :
                  file[i][k] = Hole \/ \E p \in ws : file[i][k].glibc = want[p]
            /\ file[i] # <<>> \/ \E p \in ws : pc[p] = "write" /\ off[p] = 0

\* No other command writes to p's output or to its binary.
Alone(p) == \A r \in Procs \ {p} : FileOf(out[r]) # FileOf(out[p]) /\ FileAt[out[r]] # Src(p)

\* s is the first n blocks of t.
FirstOf(s, n, t) == Len(s) = n /\ n <= Len(t) /\ \A k \in 1 .. n : s[k] = t[k]

\* What becomes of the copy of a command that is alone.
CopyOf(p) ==
    LET s == file[FileOf(out[p])]
        t == Blocks(Src(p), None)
    IN  /\ pc[p] \in Preparing => (FileOf(out[p]) = Src(p) => s = t)
        /\ pc[p] = "copy" => IF FileOf(out[p]) = Src(p) THEN s = <<>> /\ off[p] = 0
                             ELSE FirstOf(s, off[p], t)
        /\ pc[p] = "chmod" => s = <<>> \/ (s = t /\ Src(p) # None)
        /\ pc[p] \in {"read", "patchelf"} => s = t /\ elf[p] = t /\ Src(p) # None
        /\ pc[p] = "write" => /\ FirstOf(s, off[p], Blocks(Src(p), want[p]))
                              /\ elf[p] = t /\ Src(p) # None
        /\ pc[p] = "done" => s = Blocks(Src(p), want[p]) /\ Src(p) # None

OneCopy == \A p \in Procs : Alone(p) => CopyOf(p)

IInv == TypeOK /\ Directory /\ Progress /\ LoaderIsThere /\ OthersKept /\ Mixed /\ OneCopy

-----------------------------------------------------------------------------
(***************************************************************************)
(* Lemmas about files.                                                     *)
(***************************************************************************)

\* Files are paths, and each is known by itself.
LEMMA FilesArePaths ==
    /\ None \notin Files /\ Files \subseteq Paths
    /\ \A i \in Files : FileAt[i] = i
    /\ \A path \in Paths : /\ FileAt[path] # None => FileAt[path] \in Files
                           /\ FileOf(path) \in Paths /\ FileOf(path) # None
    /\ \A p \in Procs : Source[p] \in Paths
BY DEF Files, FileOf

\* The blocks of a file.
LEMMA BlocksType ==
    ASSUME NEW i \in Files, NEW v \in Versions \cup {None}
    PROVE  /\ Blocks(i, v) \in Seq(Block) /\ Len(Blocks(i, v)) = Length[i]
           /\ \A k \in 1 .. Length[i] : Blocks(i, v)[k] = [of |-> i, no |-> k, glibc |-> v]
<1>1. Length[i] \in Nat
  BY FilesArePaths
<1>2. \A k \in 1 .. Length[i] : [of |-> i, no |-> k, glibc |-> v] \in Block
  BY <1>1 DEF Block
<1>3. Blocks(i, v) = [k \in 1 .. Length[i] |-> [of |-> i, no |-> k, glibc |-> v]]
  BY DEF Blocks
<1> DEFINE e(k) == [of |-> i, no |-> k, glibc |-> v]
<1>4. Blocks(i, v) = [k \in 1 .. Length[i] |-> e(k)] /\ \A k \in 1 .. Length[i] : e(k) \in Block
  BY <1>2, <1>3
<1> HIDE DEF e
<1>5. Blocks(i, v) \in [1 .. Length[i] -> Block]
  BY <1>4
<1>6. Blocks(i, v) \in Seq(Block) /\ Len(Blocks(i, v)) = Length[i]
  BY <1>1, <1>5, FunctionSeq
<1>7. \A k \in 1 .. Length[i] : Blocks(i, v)[k] = e(k)
  BY <1>4
<1> QED
  BY <1>6, <1>7 DEF e

\* Writing a block keeps a file a sequence of blocks.
LEMMA PutAtType ==
    ASSUME NEW s \in Seq(Block), NEW n \in Nat, NEW b \in Block
    PROVE  PutAt(s, n + 1, b) \in Seq(Block)
<1> DEFINE m == IF Len(s) < n + 1 THEN n + 1 ELSE Len(s)
<1>1. Len(s) \in Nat /\ m \in Nat
  OBVIOUS
<1>2. Hole \in Block
  BY DEF Hole, Block
<1>3. \A j \in 1 .. m : (IF j = n + 1 THEN b ELSE IF j <= Len(s) THEN s[j] ELSE Hole) \in Block
  BY <1>1, <1>2
<1> DEFINE e(j) == IF j = n + 1 THEN b ELSE IF j <= Len(s) THEN s[j] ELSE Hole
<1>4. PutAt(s, n + 1, b) = [j \in 1 .. m |-> e(j)]
  BY DEF PutAt
<1>5. \A j \in 1 .. m : e(j) \in Block
  BY <1>3
<1> HIDE DEF m, e
<1>6. PutAt(s, n + 1, b) \in [1 .. m -> Block]
  BY <1>4, <1>5
<1> QED
  BY <1>1, <1>6, FunctionSeq

\* What a block written leaves in a file.
LEMMA PutAtBlocks ==
    ASSUME NEW s \in Seq(Block), NEW n \in Nat, NEW b \in Block
    PROVE  LET t == PutAt(s, n + 1, b)
           IN  /\ t # <<>>
               /\ \A k \in 1 .. Len(t) : t[k] = Hole \/ t[k] = b \/ (k \in 1 .. Len(s) /\ t[k] = s[k])
<1> DEFINE m == IF Len(s) < n + 1 THEN n + 1 ELSE Len(s)
           e(j) == IF j = n + 1 THEN b ELSE IF j <= Len(s) THEN s[j] ELSE Hole
<1>1. m \in Nat /\ m # 0
  OBVIOUS
<1>2. PutAt(s, n + 1, b) = [j \in 1 .. m |-> e(j)]
  BY DEF PutAt
<1>3. \A j \in 1 .. m : e(j) = Hole \/ e(j) = b \/ (j \in 1 .. Len(s) /\ e(j) = s[j])
  OBVIOUS
<1> HIDE DEF m, e
<1>4. Len(PutAt(s, n + 1, b)) = m
  BY <1>1, <1>2
<1> QED
  BY <1>1, <1>2, <1>3, <1>4

\* Patching changes the version of a block only.
LEMMA PatchedBlock ==
    ASSUME NEW i, NEW k, NEW u, NEW v
    PROVE  Patched([of |-> i, no |-> k, glibc |-> u], v) = [of |-> i, no |-> k, glibc |-> v]
BY DEF Patched

\* Writing the next block of a copy.
LEMMA FirstOfPut ==
    ASSUME NEW t \in Seq(Block), NEW n \in Nat, NEW s \in Seq(Block), FirstOf(s, n, t), n < Len(t)
    PROVE  FirstOf(PutAt(s, n + 1, t[n + 1]), n + 1, t)
<1>1. PutAt(s, n + 1, t[n + 1]) =
        [j \in 1 .. n + 1 |-> IF j = n + 1 THEN t[n + 1] ELSE IF j <= n THEN s[j] ELSE Hole]
  BY DEF PutAt, FirstOf
<1>2. Len(PutAt(s, n + 1, t[n + 1])) = n + 1
  BY <1>1
<1> QED
  BY <1>1, <1>2 DEF FirstOf

\* A copy of all of it.
LEMMA FirstOfAll ==
    ASSUME NEW t \in Seq(Block), NEW s \in Seq(Block), FirstOf(s, Len(t), t)
    PROVE  s = t
<1>1. Len(s) = Len(t) /\ \A k \in 1 .. Len(t) : s[k] = t[k]
  BY DEF FirstOf
<1>2. s = [k \in 1 .. Len(s) |-> s[k]] /\ t = [k \in 1 .. Len(t) |-> t[k]]
  OBVIOUS
<1>3. [k \in 1 .. Len(t) |-> s[k]] = [k \in 1 .. Len(t) |-> t[k]]
  BY <1>1
<1> QED
  BY <1>1, <1>2, <1>3

\* A command under way knows its version.
LEMMA WantKnown ==
    ASSUME TypeOK, NEW p \in Procs, pc[p] \notin Terminal \cup {"start"}
    PROVE  want[p] # None /\ want[p] \in Versions
<1>1. want[p] # None
  BY DEF TypeOK
<1>2. want[p] \in Versions \cup {None}
  BY DEF TypeOK
<1> QED
  BY <1>1, <1>2

\* The file p writes to is fixed.
LEMMA TargetFixed ==
    ASSUME TypeOK, Directory, NEW p \in Procs
    PROVE  /\ Target(p) = FileOf(out[p]) /\ out[p] \in Paths
           /\ dir[out[p]] # None => dir[out[p]] = FileOf(out[p])
BY DEF TypeOK, Directory, Target, FileOf

\* A binary that was not there is made by another command only.
LEMMA SourceThere ==
    ASSUME TypeOK, Directory, NEW p \in Procs, Alone(p), dir[Source[p]] # None
    PROVE  Src(p) \in Files /\ dir[Source[p]] = Src(p)
<1>1. Src(p) # None
  <2> SUFFICES ASSUME Src(p) = None PROVE FALSE
    OBVIOUS
  <2>1. PICK r \in Procs : out[r] = Source[p] /\ Source[r] # Source[p]
    BY FilesArePaths DEF Directory, Src
  <2> QED
    BY <2>1 DEF Alone, Src
<1> QED
  BY <1>1, FilesArePaths DEF Directory, Src, FileOf

\* The binary of a command that is alone stays as it is, unless it writes to it.
LEMMA SourceKept ==
    ASSUME TypeOK, OthersKept, NEW p \in Procs, Alone(p), Src(p) \in Files, FileOf(out[p]) # Src(p)
    PROVE  file[Src(p)] = Blocks(Src(p), None)
<1>1. \A r \in Procs : FileAt[out[r]] # Src(p)
  BY FilesArePaths DEF Alone, FileOf
<1> QED
  BY <1>1 DEF OthersKept

-----------------------------------------------------------------------------
(***************************************************************************)
(* Every initial state satisfies the invariant, and every step keeps it.   *)
(***************************************************************************)

LEMMA InvInit == Init => IInv
<1> SUFFICES ASSUME Init PROVE IInv
  OBVIOUS
<1> USE DEF Init
<1>1. TypeOK
  <2>1. file \in [Paths -> Seq(Block)]
    BY BlocksType
  <2> QED
    BY <2>1 DEF TypeOK, Terminal
<1>2. Directory
  BY FilesArePaths DEF Directory, Files
<1>3. Progress /\ LoaderIsThere
  BY DEF Progress, ProgressOf, LoaderIsThere
<1>m. Mixed
  <2>1. \A p \in Procs : pc[p] \notin Rewriting
    BY DEF Rewriting
  <2> QED
    BY <2>1 DEF Mixed
<1>4. OthersKept
  BY FilesArePaths DEF OthersKept
<1>5. OneCopy
  BY FilesArePaths DEF OneCopy, CopyOf, Src, FileOf
<1> QED
  BY <1>1, <1>2, <1>3, <1>m, <1>4, <1>5 DEF IInv

\* What extracting a version does to its directory.
Extracts(v) ==
    /\ libs'[v] \in Listings /\ v \in fetched'
    /\ ToSet(libs'[v]) \subseteq ToSet(Package[v])
    /\ libs[v] # None => {e \in ToSet(libs[v]) : ~e.link} \subseteq ToSet(libs'[v])

\* What any step of p does to what the others depend on: it changes no file but
\* the one at its output path, and none before that path leads to one; its
\* patchelf begins with an empty file, and brings nothing but what is patched.
StepOf(p) ==
    /\ out' = out
    /\ \A r \in Procs \ {p} : /\ pc'[r] = pc[r] /\ want'[r] = want[r] /\ loader'[r] = loader[r]
                              /\ off'[r] = off[r] /\ elf'[r] = elf[r]
    /\ \A v \in Versions : libs'[v] = libs[v] \/ Extracts(v)
    /\ fetched \subseteq fetched'
    /\ dir' = dir \/ (out[p] # Source[p] /\ dir' = [dir EXCEPT ![out[p]] = FileOf(out[p])])
    /\ \A i \in Paths \ {FileOf(out[p])} : file'[i] = file[i]
    /\ (dir' = dir /\ file' = file) \/ dir'[out[p]] # None
    /\ pc'[p] \in Rewriting =>
          /\ dir' = dir /\ want'[p] = want[p]
          /\ LET s == file[FileOf(out[p])]
                 t == file'[FileOf(out[p])]
             IN  \/ t = <<>> /\ pc'[p] = "write" /\ off'[p] = 0
                 \/ /\ pc[p] \in Rewriting /\ t # <<>>
                    /\ \A k \in 1 .. Len(t) : \/ t[k] = Hole \/ t[k].glibc = want[p]
                                              \/ k \in 1 .. Len(s) /\ t[k] = s[k]
                 \/ pc[p] \in Rewriting /\ t = s /\ off[p] # 0

\* The invariant about all but p itself.
LEMMA InvOthers ==
    ASSUME IInv, TypeOK', NEW p \in Procs, StepOf(p)
    PROVE  /\ Directory' /\ OthersKept' /\ Mixed'
           /\ \A r \in Procs \ {p} : /\ ProgressOf(r)' /\ LoaderOf(r)'
                                     /\ (Alone(r) => CopyOf(r))'
<1> DEFINE f == FileOf(out[p])
<1>1. TypeOK /\ Directory /\ Progress /\ LoaderIsThere /\ OthersKept /\ Mixed /\ OneCopy
  BY DEF IInv
<1>2. f \in Paths /\ f # None /\ out[p] \in Paths /\ out' = out
  BY <1>1, FilesArePaths DEF TypeOK, StepOf
<1>3. \A path \in Paths : dir'[path] = dir[path] \/ (path = out[p] /\ dir'[path] = f)
  BY <1>1 DEF StepOf, TypeOK
<1>4. Directory'
  <2> SUFFICES ASSUME NEW path \in Paths
               PROVE  /\ dir'[path] \in {FileAt[path], FileOf(path)}
                      /\ dir'[path] # FileAt[path] => \E r \in Procs : out[r] = path /\ Source[r] # path
                      /\ dir'[path] = None => file'[path] = <<>>
    BY <1>2 DEF Directory
  <2>1. dir'[path] \in {FileAt[path], FileOf(path)}
    BY <1>1, <1>3 DEF Directory
  <2>2. dir'[path] # FileAt[path] => \E r \in Procs : out[r] = path /\ Source[r] # path
    <3>1. CASE dir'[path] = dir[path]
      BY <1>1, <3>1 DEF Directory
    <3>2. CASE dir'[path] # dir[path]
      BY <1>3, <3>2 DEF StepOf
    <3> QED
      BY <3>1, <3>2
  <2>3. ASSUME dir'[path] = None PROVE file'[path] = <<>>
    <3>1. dir[path] = None /\ file[path] = <<>>
      BY <1>1, <1>2, <1>3, <2>3 DEF Directory
    <3>2. CASE path # f
      BY <3>1, <3>2 DEF StepOf
    <3>3. CASE path = f
      <4>1. FileAt[out[p]] = None
        BY <1>1, <1>2, <3>1, <3>3, FilesArePaths DEF FileOf, Directory
      <4>2. dir'[out[p]] = None
        BY <4>1, <3>3, <2>3 DEF FileOf
      <4> QED
        BY <4>2, <3>1 DEF StepOf
    <3> QED
      BY <3>2, <3>3
  <2> QED
    BY <2>1, <2>2, <2>3
<1>5. OthersKept'
  <2> SUFFICES ASSUME NEW i \in Files, \A r \in Procs : FileAt[out[r]] # i
               PROVE  file'[i] = Blocks(i, None)
    BY <1>2 DEF OthersKept, Blocks
  <2>1. i # f /\ i \in Paths
    BY <1>2, FilesArePaths DEF FileOf
  <2> QED
    BY <1>1, <2>1 DEF OthersKept, StepOf
<1>6. Mixed'
  <2> SUFFICES ASSUME NEW i \in Paths, NEW w \in Procs, dir'[out[w]] = i,
                      \A r \in Procs : dir'[out[r]] = i => pc'[r] \in Rewriting
               PROVE  /\ \A k \in 1 .. Len(file'[i]) :
                            \/ file'[i][k] = Hole
                            \/ \E r \in Procs : dir'[out[r]] = i /\ file'[i][k].glibc = want'[r]
                      /\ \/ file'[i] # <<>>
                         \/ \E r \in Procs : dir'[out[r]] = i /\ pc'[r] = "write" /\ off'[r] = 0
    BY <1>2 DEF Mixed
  <2>0. \A r \in Procs : out[r] \in Paths
    BY <1>1 DEF TypeOK
  <2>m. ASSUME NEW u \in Procs, dir[out[u]] = i,
               \A r \in Procs : dir[out[r]] = i => pc[r] \in Rewriting
        PROVE  /\ \A k \in 1 .. Len(file[i]) :
                     file[i][k] = Hole \/ \E r \in Procs : dir[out[r]] = i /\ file[i][k].glibc = want[r]
               /\ \/ file[i] # <<>>
                  \/ \E r \in Procs : dir[out[r]] = i /\ pc[r] = "write" /\ off[r] = 0
    BY <1>1, <2>m DEF Mixed
  <2>1. CASE dir'[out[p]] = i
    <3>1. i = f
      BY <2>1, <1>1, <1>2, <1>3, TargetFixed
    <3>2. pc'[p] \in Rewriting
      BY <2>1
    <3>3. dir' = dir
      BY <3>2 DEF StepOf
    <3> DEFINE s == file[f]
               t == file'[f]
    <3>4. CASE t = <<>> /\ pc'[p] = "write" /\ off'[p] = 0
      BY <2>1, <3>1, <3>4
    <3>5. CASE /\ pc[p] \in Rewriting /\ t # <<>>
               /\ \A k \in 1 .. Len(t) : \/ t[k] = Hole \/ t[k].glibc = want[p]
                                         \/ k \in 1 .. Len(s) /\ t[k] = s[k]
      <4>1. \A r \in Procs : dir[out[r]] = i => pc[r] \in Rewriting
        BY <3>3, <3>5 DEF StepOf
      <4>0. dir[out[p]] = i
        BY <2>1, <3>3
      <4>2. \A k \in 1 .. Len(s) :
                s[k] = Hole \/ \E r \in Procs : dir[out[r]] = i /\ s[k].glibc = want[r]
        BY <2>m, <3>1, <4>0, <4>1
      <4>3. \A r \in Procs : want'[r] = want[r]
        BY <3>2 DEF StepOf
      <4>4. ASSUME NEW k \in 1 .. Len(t), t[k] # Hole
            PROVE  \E r \in Procs : dir[out[r]] = i /\ t[k].glibc = want[r]
        <5>1. CASE t[k].glibc = want[p]
          BY <4>0, <5>1
        <5>2. CASE k \in 1 .. Len(s) /\ t[k] = s[k]
          BY <4>2, <4>4, <5>2
        <5> QED
          BY <3>5, <4>4, <5>1, <5>2
      <4> HIDE DEF s, t
      <4>5. \A k \in 1 .. Len(t) :
                t[k] = Hole \/ \E r \in Procs : dir'[out[r]] = i /\ t[k].glibc = want'[r]
        BY <3>3, <4>3, <4>4
      <4> QED
        BY <3>1, <3>5, <4>5 DEF t
    <3>6. CASE pc[p] \in Rewriting /\ t = s /\ off[p] # 0
      <4>1. \A r \in Procs : dir[out[r]] = i => pc[r] \in Rewriting
        BY <3>3, <3>6 DEF StepOf
      <4>2. \A r \in Procs : want'[r] = want[r]
        BY <3>2 DEF StepOf
      <4>3. \A r \in Procs : r # p => pc'[r] = pc[r] /\ off'[r] = off[r]
        BY DEF StepOf
      <4>4. dir[out[p]] = i
        BY <2>1, <3>3
      <4>5. /\ \A k \in 1 .. Len(s) :
                  s[k] = Hole \/ \E r \in Procs : dir[out[r]] = i /\ s[k].glibc = want[r]
            /\ s # <<>> \/ \E r \in Procs : dir[out[r]] = i /\ pc[r] = "write" /\ off[r] = 0
        BY <2>m, <3>1, <4>1, <4>4
      <4>6. /\ \A k \in 1 .. Len(t) :
                  t[k] = Hole \/ \E r \in Procs : dir'[out[r]] = i /\ t[k].glibc = want'[r]
        BY <3>3, <3>6, <4>2, <4>5
      <4>7. t # <<>> \/ \E r \in Procs : dir'[out[r]] = i /\ pc'[r] = "write" /\ off'[r] = 0
        BY <3>3, <3>6, <4>3, <4>5
      <4> QED
        BY <3>1, <4>6, <4>7
    <3> QED
      BY <3>2, <3>4, <3>5, <3>6 DEF StepOf, Rewriting
  <2>2. CASE dir'[out[p]] # i
    <3>1. \A r \in Procs : dir'[out[r]] = i <=> dir[out[r]] = i
      BY <2>2, <1>1, <1>2, <1>3, <2>0, TargetFixed
    <3>2. file'[i] = file[i]
      <4>1. CASE dir'[out[p]] # None
        <5>1. dir'[out[p]] = f
          BY <4>1, <1>1, <1>2, <1>3, TargetFixed
        <5> QED
          BY <5>1, <2>2 DEF StepOf
      <4> QED
        BY <4>1 DEF StepOf
    <3>3. \A r \in Procs : dir[out[r]] = i =>
              r # p /\ pc'[r] = pc[r] /\ off'[r] = off[r] /\ want'[r] = want[r]
      BY <2>2, <3>1 DEF StepOf
    <3>4. dir[out[w]] = i
      BY <3>1
    <3>5. \A r \in Procs : dir[out[r]] = i => pc[r] \in Rewriting
      <4> TAKE r \in Procs
      <4> HAVE dir[out[r]] = i
      <4>1. dir'[out[r]] = i /\ pc'[r] = pc[r]
        BY <3>1, <3>3
      <4> QED
        BY <4>1
    <3>6. /\ \A k \in 1 .. Len(file[i]) :
                file[i][k] = Hole \/ \E r \in Procs : dir[out[r]] = i /\ file[i][k].glibc = want[r]
          /\ file[i] # <<>> \/ \E r \in Procs : dir[out[r]] = i /\ pc[r] = "write" /\ off[r] = 0
      BY <2>m, <3>4, <3>5
    <3>7. \A k \in 1 .. Len(file'[i]) :
              \/ file'[i][k] = Hole
              \/ \E r \in Procs : dir'[out[r]] = i /\ file'[i][k].glibc = want'[r]
      BY <3>1, <3>2, <3>3, <3>6
    <3>8. file'[i] # <<>> \/ \E r \in Procs : dir'[out[r]] = i /\ pc'[r] = "write" /\ off'[r] = 0
      BY <3>1, <3>2, <3>3, <3>6
    <3> QED
      BY <3>7, <3>8
  <2> QED
    BY <2>1, <2>2
<1>7. ASSUME NEW r \in Procs \ {p}
      PROVE  ProgressOf(r)' /\ LoaderOf(r)' /\ (Alone(r) => CopyOf(r))'
  <2>1. /\ pc'[r] = pc[r] /\ want'[r] = want[r] /\ loader'[r] = loader[r]
        /\ off'[r] = off[r] /\ elf'[r] = elf[r] /\ want[r] \in Versions \cup {None}
        /\ out[r] \in Paths /\ Source[r] \in Paths
    BY <1>1 DEF StepOf, TypeOK
  <2>2. ProgressOf(r)'
    <3>1. ProgressOf(r)
      BY <1>1 DEF Progress
    <3>2. \A path \in Paths : dir[path] # None => dir'[path] # None
      BY <1>2, <1>3
    <3>3. pc[r] = "download" => want[r] \in Versions
      BY <1>1, <2>1 DEF TypeOK, Terminal
    <3>4. pc[r] = "download" =>
              libs'[want[r]] = None \/ ToSet(libs'[want[r]]) \subseteq ToSet(Package[want[r]])
      BY <3>1, <3>3 DEF ProgressOf, StepOf, Extracts
    <3>5. pc[r] \in {"loader", "patch", "copy", "chmod", "read", "patchelf", "write", "done"} =>
              want[r] # None /\ libs'[want[r]] # None
      BY <2>1, <3>1 DEF ProgressOf, StepOf, Extracts
    <3> QED
      BY <1>2, <2>1, <3>1, <3>2, <3>4, <3>5 DEF ProgressOf
  <2>3. LoaderOf(r)'
    <3>1. ProgressOf(r) /\ LoaderOf(r)
      BY <1>1 DEF Progress, LoaderIsThere, LoaderOf
    <3>2. CASE pc[r] \in {"patch", "copy", "chmod", "read", "patchelf", "write", "done"}
      <4>1. want[r] \in Versions /\ libs[want[r]] # None
        BY <2>1, <3>1, <3>2 DEF ProgressOf
      <4>2. libs'[want[r]] = libs[want[r]] \/ Extracts(want[r])
        BY <4>1 DEF StepOf
      <4>3. CASE libs'[want[r]] = libs[want[r]]
        BY <2>1, <3>1, <3>2, <4>3 DEF LoaderOf, StepOf
      <4>4. CASE Extracts(want[r])
        BY <2>1, <3>1, <3>2, <4>1, <4>4 DEF LoaderOf, Extracts
      <4> QED
        BY <4>2, <4>3, <4>4
    <3>3. CASE pc[r] \notin {"patch", "copy", "chmod", "read", "patchelf", "write", "done"}
      BY <2>1, <3>3 DEF LoaderOf
    <3> QED
      BY <3>2, <3>3
  <2>4. (Alone(r) => CopyOf(r))'
    <3> SUFFICES ASSUME Alone(r) PROVE CopyOf(r)'
      BY <1>2 DEF Alone
    <3>1. CopyOf(r) /\ FileOf(out[r]) # f /\ FileOf(out[r]) \in Paths
      BY <1>1, <2>1, FilesArePaths DEF OneCopy, Alone
    <3>2. file'[FileOf(out[r])] = file[FileOf(out[r])]
      BY <3>1 DEF StepOf
    <3> QED
      BY <1>2, <2>1, <3>1, <3>2 DEF CopyOf
  <2> QED
    BY <2>2, <2>3, <2>4
<1> QED
  BY <1>4, <1>5, <1>6, <1>7

\* So it is enough to see to p.
LEMMA InvStepOf ==
    ASSUME IInv, TypeOK', NEW p \in Procs, StepOf(p),
           ProgressOf(p)', LoaderOf(p)', Alone(p) => CopyOf(p)'
    PROVE  IInv'
<1>1. Alone(p)' <=> Alone(p)
  BY DEF StepOf, Alone
<1>2. Progress' /\ LoaderIsThere' /\ OneCopy'
  BY <1>1, InvOthers DEF Progress, LoaderIsThere, LoaderOf, OneCopy
<1> QED
  BY <1>2, InvOthers DEF IInv

\* p fails or is killed.
LEMMA InvEnd ==
    ASSUME IInv, NEW p \in Procs, NEW l \in {"failed", "killed"}, Go(p, l),
           UNCHANGED <<out, libs, fetched, want, loader, dir, off, elf, file>>
    PROVE  IInv'
<1>1. TypeOK /\ pc' = [pc EXCEPT ![p] = l]
  BY DEF IInv, Go
<1>2. pc'[p] = l /\ \A r \in Procs \ {p} : pc'[r] = pc[r]
  BY <1>1 DEF TypeOK
<1>3. TypeOK'
  BY <1>1, <1>2 DEF TypeOK, Terminal
<1>4. StepOf(p)
  BY <1>2 DEF StepOf, Rewriting
<1>5. ProgressOf(p)' /\ LoaderOf(p)' /\ CopyOf(p)'
  BY <1>2 DEF ProgressOf, LoaderOf, CopyOf, Preparing
<1> QED
  BY <1>3, <1>4, <1>5, InvStepOf

\* A version is found.
LEMMA InvDetect ==
    ASSUME IInv, NEW p \in Procs, Detect(p)
    PROVE  IInv'
<1>1. CASE Fail(p) /\ UNCHANGED <<command, store>>
  BY <1>1, InvEnd DEF Fail, command, store, disk
<1>2. ASSUME NEW v \in Detected(p), Go(p, "check"), want' = [want EXCEPT ![p] = v],
             UNCHANGED <<loader, disk, off, elf, command, store>>
      PROVE  IInv'
  <2>1. TypeOK /\ Progress /\ OneCopy /\ pc[p] = "start"
    BY DEF IInv, Detect
  <2>2. v \in Versions /\ v # None
    BY <1>2 DEF Detected, CoLocated, IsLibc
  <2>3. /\ pc'[p] = "check" /\ want'[p] = v
        /\ \A r \in Procs \ {p} : pc'[r] = pc[r] /\ want'[r] = want[r]
    BY <1>2, <2>1 DEF TypeOK, Go
  <2>4. TypeOK'
    BY <1>2, <2>1, <2>2, <2>3 DEF TypeOK, Terminal, Go, command, store, disk
  <2>5. StepOf(p)
    BY <1>2, <2>3 DEF StepOf, Rewriting, command, store, disk
  <2>6. ProgressOf(p)' /\ LoaderOf(p)' /\ (Alone(p) => CopyOf(p)')
    BY <1>2, <2>1, <2>3
       DEF Progress, ProgressOf, LoaderOf, OneCopy, CopyOf, Preparing, Src, command, store, disk
  <2> QED
    BY <2>4, <2>5, <2>6, InvStepOf
<1> QED
  BY <1>1, <1>2 DEF Detect

\* The directory of the version is looked at.
LEMMA InvCheckLibs ==
    ASSUME IInv, NEW p \in Procs, CheckLibs(p)
    PROVE  IInv'
<1>1. TypeOK /\ Progress /\ OneCopy /\ pc[p] = "check" /\ want[p] # None /\ want[p] \in Versions
  <2>1. TypeOK /\ Progress /\ OneCopy
    BY DEF IInv
  <2>2. pc[p] = "check"
    BY DEF CheckLibs
  <2> QED
    BY <2>1, <2>2, WantKnown DEF Terminal
<1>2. /\ UNCHANGED <<out, beside, libs, fetched, want, loader, dir, file, off, elf>>
      /\ \/ Go(p, "loader") /\ libs[want[p]] # None
         \/ Go(p, "failed")
         \/ Go(p, "download") /\ libs[want[p]] = None
  BY DEF CheckLibs, command, store, disk
<1>3. CASE Go(p, "failed")
  BY <1>2, <1>3, InvEnd
<1>4. ASSUME NEW l \in {"loader", "download"}, Go(p, l),
             l = "loader" => libs[want[p]] # None, l = "download" => libs[want[p]] = None
      PROVE  IInv'
  <2>1. pc'[p] = l /\ \A r \in Procs \ {p} : pc'[r] = pc[r]
    BY <1>1, <1>4 DEF TypeOK, Go
  <2>2. TypeOK'
    BY <1>1, <1>2, <1>4, <2>1 DEF TypeOK, Terminal, Go
  <2>3. StepOf(p)
    BY <1>2, <1>4, <2>1 DEF StepOf, Rewriting
  <2>4. ProgressOf(p)' /\ LoaderOf(p)' /\ (Alone(p) => CopyOf(p)')
    BY <1>1, <1>2, <1>4, <2>1
       DEF Progress, ProgressOf, LoaderOf, OneCopy, CopyOf, Preparing, Src
  <2> QED
    BY <2>2, <2>3, <2>4, InvStepOf
<1> QED
  BY <1>2, <1>3, <1>4

\* Some of the package is extracted.
LEMMA InvExtract ==
    ASSUME IInv, NEW p \in Procs, Extract(p)
    PROVE  IInv'
<1>1. TypeOK /\ Progress /\ OneCopy /\ pc[p] = "download" /\ want[p] # None /\ want[p] \in Versions
  <2>1. TypeOK /\ Progress /\ OneCopy
    BY DEF IInv
  <2>2. pc[p] = "download"
    BY DEF Extract
  <2> QED
    BY <2>1, <2>2, WantKnown DEF Terminal
<1>2. PICK es \in Listings :
          /\ ToSet(es) \subseteq ToSet(Package[want[p]])
          /\ libs[want[p]] # None => {e \in ToSet(libs[want[p]]) : ~e.link} \subseteq ToSet(es)
          /\ libs' = [libs EXCEPT ![want[p]] = es]
  BY DEF Extract
<1>3. /\ UNCHANGED <<out, beside, pc, want, loader, dir, file, off, elf>>
      /\ fetched' = fetched \cup {want[p]}
  BY DEF Extract, command, disk
<1>4. libs' \in [Versions -> Listings \cup {None}] /\ libs'[want[p]] = es
  BY <1>1, <1>2 DEF TypeOK
<1>5. TypeOK'
  BY <1>1, <1>3, <1>4 DEF TypeOK
<1>6. \A v \in Versions : libs'[v] = libs[v] \/ Extracts(v)
  BY <1>1, <1>2, <1>3, <1>4 DEF TypeOK, Extracts
<1>7. StepOf(p)
  BY <1>1, <1>3, <1>6 DEF StepOf, Rewriting
<1>8. ProgressOf(p)' /\ LoaderOf(p)' /\ (Alone(p) => CopyOf(p)')
  BY <1>1, <1>2, <1>3, <1>4
     DEF Progress, ProgressOf, LoaderOf, OneCopy, CopyOf, Preparing, Src
<1> QED
  BY <1>5, <1>7, <1>8, InvStepOf

\* The download ends.
LEMMA InvDownloadEnds ==
    ASSUME IInv, NEW p \in Procs, DownloadEnds(p)
    PROVE  IInv'
<1>1. TypeOK /\ Progress /\ OneCopy /\ pc[p] = "download" /\ want[p] # None
  <2>1. TypeOK /\ Progress /\ OneCopy
    BY DEF IInv
  <2>2. pc[p] = "download"
    BY DEF DownloadEnds
  <2> QED
    BY <2>1, <2>2, WantKnown DEF Terminal
<1>2. UNCHANGED <<out, beside, libs, fetched, want, loader, dir, file, off, elf>>
  BY DEF DownloadEnds, command, store, disk
<1>3. CASE Go(p, "failed")
  BY <1>2, <1>3, InvEnd
<1>4. CASE libs[want[p]] # None /\ Go(p, "loader")
  <2>1. pc'[p] = "loader" /\ \A r \in Procs \ {p} : pc'[r] = pc[r]
    BY <1>1, <1>4 DEF TypeOK, Go
  <2>2. TypeOK'
    BY <1>1, <1>2, <1>4, <2>1 DEF TypeOK, Terminal, Go
  <2>3. StepOf(p)
    BY <1>2, <2>1 DEF StepOf, Rewriting
  <2>4. ProgressOf(p)' /\ LoaderOf(p)' /\ (Alone(p) => CopyOf(p)')
    BY <1>1, <1>2, <1>4, <2>1
       DEF Progress, ProgressOf, LoaderOf, OneCopy, CopyOf, Preparing, Src
  <2> QED
    BY <2>2, <2>3, <2>4, InvStepOf
<1> QED
  BY <1>3, <1>4 DEF DownloadEnds

\* A loader is found, a link only when there is nothing else.
LEMMA InvLoad ==
    ASSUME IInv, NEW p \in Procs, Load(p)
    PROVE  IInv'
<1>1. TypeOK /\ Progress /\ OneCopy /\ pc[p] = "loader" /\ want[p] # None /\ want[p] \in Versions
  <2>1. TypeOK /\ Progress /\ OneCopy
    BY DEF IInv
  <2>2. pc[p] = "loader"
    BY DEF Load
  <2> QED
    BY <2>1, <2>2, WantKnown DEF Terminal
<1> DEFINE es == libs[want[p]]
<1>2. es \in Listings /\ es \in Seq(Loaders)
  BY <1>1 DEF TypeOK, Progress, ProgressOf
<1>3. UNCHANGED <<out, beside, libs, fetched, want, dir, file, off, elf>>
  BY DEF Load, command, store, disk
<1>4. CASE Go(p, "failed") /\ UNCHANGED loader
  BY <1>3, <1>4, InvEnd
<1>5. ASSUME NEW k \in FindLoader(es), loader' = [loader EXCEPT ![p] = es[k]], Go(p, "patch")
      PROVE  IInv'
  <2>1. k \in 1 .. Len(es) /\ es[k] \in Loaders
    BY <1>2 DEF FindLoader
  <2>2. /\ pc'[p] = "patch" /\ loader'[p] = es[k]
        /\ \A r \in Procs \ {p} : pc'[r] = pc[r] /\ loader'[r] = loader[r]
    BY <1>1, <1>5 DEF TypeOK, Go
  <2>3. TypeOK'
    BY <1>1, <1>3, <1>5, <2>1, <2>2 DEF TypeOK, Terminal, Go
  <2>4. StepOf(p)
    BY <1>3, <2>2 DEF StepOf, Rewriting
  <2>5. es[k] \in ToSet(es) /\ (es[k].link => \A e \in ToSet(es) : e.link)
    <3>1. es[k] \in ToSet(es)
      BY <2>1 DEF ToSet
    <3>2. ASSUME es[k].link, NEW e \in ToSet(es) PROVE e.link
      <4>1. IsGeneric(es[k])
        BY <2>1, <3>2 DEF IsGeneric, Loaders
      <4>2. k = Len(es) /\ \A j \in 1 .. k - 1 : IsGeneric(es[j])
        BY <4>1, <1>5 DEF FindLoader
      <4> DOMAIN es = 1 .. Len(es)
        BY <1>2
      <4>3. PICK j \in DOMAIN es : e = es[j]
        BY <3>2 DEF ToSet
      <4>4. j \in 1 .. k - 1 \/ j = k
        BY <1>2, <4>2, <4>3
      <4>5. IsGeneric(es[j])
        BY <4>1, <4>2, <4>4
      <4> QED
        BY <4>3, <4>5 DEF IsGeneric
    <3> QED
      BY <3>1, <3>2
  <2>6. LoaderOf(p)'
    BY <1>3, <2>2, <2>5 DEF LoaderOf
  <2>7. ProgressOf(p)' /\ (Alone(p) => CopyOf(p)')
    BY <1>1, <1>3, <2>2 DEF Progress, ProgressOf, OneCopy, CopyOf, Preparing, Src
  <2> QED
    BY <2>3, <2>4, <2>6, <2>7, InvStepOf
<1> QED
  BY <1>4, <1>5 DEF Load

\* The binary and the output are opened.
LEMMA InvOpenFiles ==
    ASSUME IInv, NEW p \in Procs, OpenFiles(p)
    PROVE  IInv'
<1>1. /\ TypeOK /\ Directory /\ Progress /\ LoaderIsThere /\ OneCopy /\ pc[p] = "patch"
      /\ off[p] = 0
  BY DEF IInv, OpenFiles, Progress, ProgressOf, Preparing
<1>2. UNCHANGED <<out, beside, libs, fetched, want, loader, off, elf>>
  BY DEF OpenFiles, command, store
<1>3. /\ Target(p) = FileOf(out[p]) /\ FileOf(out[p]) \in Paths /\ FileOf(out[p]) # None
      /\ out[p] \in Paths /\ Source[p] \in Paths
  BY <1>1, TargetFixed, FilesArePaths
<1>4. CASE Go(p, "failed") /\ UNCHANGED disk
  BY <1>2, <1>4, InvEnd DEF disk
<1>5. CASE out[p] = Source[p] /\ Go(p, "chmod") /\ UNCHANGED disk
  <2>1. pc'[p] = "chmod" /\ (\A r \in Procs \ {p} : pc'[r] = pc[r]) /\ dir' = dir /\ file' = file
    BY <1>1, <1>5 DEF TypeOK, Go, disk
  <2>2. TypeOK'
    BY <1>1, <1>2, <1>5, <2>1 DEF TypeOK, Terminal, Go
  <2>3. StepOf(p)
    BY <1>2, <2>1 DEF StepOf, Rewriting
  <2>4. ProgressOf(p)' /\ LoaderOf(p)'
    BY <1>1, <1>2, <2>1
       DEF Progress, ProgressOf, LoaderIsThere, LoaderOf, Preparing
  <2>5. ASSUME Alone(p) PROVE CopyOf(p)'
    <3>1. CASE Src(p) # None
      BY <1>1, <1>2, <1>5, <2>1, <2>5, <3>1 DEF OneCopy, CopyOf, Preparing, Src, FileOf
    <3>2. CASE Src(p) = None
      <4>1. FileOf(out[p]) = out[p] /\ FileAt[out[p]] = None
        BY <1>5, <3>2 DEF FileOf, Src
      <4>2. dir[out[p]] = None
        <5> SUFFICES ASSUME dir[out[p]] # None PROVE FALSE
          OBVIOUS
        <5>1. PICK r \in Procs : out[r] = out[p] /\ Source[r] # out[p]
          BY <1>1, <1>3, <4>1 DEF Directory
        <5>2. r # p
          BY <1>5, <5>1
        <5> QED
          BY <5>1, <5>2, <2>5 DEF Alone
      <4> QED
        BY <1>1, <1>2, <1>3, <2>1, <4>1, <4>2 DEF Directory, CopyOf, Preparing
    <3> QED
      BY <3>1, <3>2
  <2> QED
    BY <2>2, <2>3, <2>4, <2>5, InvStepOf
<1>6. CASE /\ out[p] # Source[p] /\ dir[Source[p]] # None /\ Go(p, "copy")
           /\ dir' = [dir EXCEPT ![out[p]] = Target(p)]
           /\ file' = [file EXCEPT ![Target(p)] = <<>>]
  <2>1. /\ pc'[p] = "copy" /\ \A r \in Procs \ {p} : pc'[r] = pc[r]
        /\ dir' = [dir EXCEPT ![out[p]] = FileOf(out[p])] /\ dir'[out[p]] # None
        /\ dir'[Source[p]] = dir[Source[p]]
    BY <1>1, <1>3, <1>6 DEF TypeOK, Go
  <2>2. /\ file' \in [Paths -> Seq(Block)] /\ file'[FileOf(out[p])] = <<>>
        /\ \A i \in Paths \ {FileOf(out[p])} : file'[i] = file[i]
    <3>1. file \in [Paths -> Seq(Block)] /\ <<>> \in Seq(Block)
      BY <1>1 DEF TypeOK
    <3> QED
      BY <1>3, <1>6, <3>1
  <2>3. TypeOK'
    BY <1>1, <1>2, <1>3, <1>6, <2>1, <2>2 DEF TypeOK, Terminal, Go
  <2>4. StepOf(p)
    BY <1>2, <1>6, <2>1, <2>2 DEF StepOf, Rewriting
  <2>5. ProgressOf(p)' /\ LoaderOf(p)'
    BY <1>1, <1>2, <1>6, <2>1
       DEF Progress, ProgressOf, LoaderIsThere, LoaderOf, Preparing
  <2>6. ASSUME Alone(p) PROVE CopyOf(p)'
    <3>1. Src(p) \in Files
      BY <1>1, <1>6, <2>6, SourceThere
    <3>2. Len(Blocks(Src(p), None)) \in Nat
      BY <3>1, BlocksType
    <3> QED
      BY <1>1, <1>2, <2>1, <2>2, <3>2 DEF CopyOf, FirstOf, Preparing
  <2> QED
    BY <2>3, <2>4, <2>5, <2>6, InvStepOf
<1> QED
  BY <1>4, <1>5, <1>6 DEF OpenFiles

\* A block is copied, or the copy is over.
LEMMA InvCopy ==
    ASSUME IInv, NEW p \in Procs, Copy(p)
    PROVE  IInv'
<1>1. /\ TypeOK /\ Directory /\ Progress /\ LoaderIsThere /\ OthersKept /\ OneCopy
      /\ pc[p] = "copy" /\ dir[Source[p]] # None /\ dir[out[p]] # None /\ off[p] \in Nat
  BY DEF IInv, Copy, TypeOK, Progress, ProgressOf
<1>2. UNCHANGED <<out, beside, libs, fetched, want, loader, dir, elf>>
  BY DEF Copy, command, store
<1> DEFINE f == FileOf(out[p])
           s == file[dir[Source[p]]]
           t == Blocks(Src(p), None)
<1>3. /\ Target(p) = f /\ f \in Paths /\ file[f] \in Seq(Block)
      /\ s \in Seq(Block) /\ Len(s) \in Nat
  BY <1>1, TargetFixed, FilesArePaths DEF TypeOK
\* The binary of a command that is alone is as it was, or is what it writes to.
<1>4. ASSUME Alone(p)
      PROVE  /\ t \in Seq(Block) /\ Len(t) \in Nat
             /\ f = Src(p) => s = file[f] /\ file[f] = <<>> /\ off[p] = 0
             /\ f # Src(p) => s = t /\ FirstOf(file[f], off[p], t)
  <2>1. Src(p) \in Files /\ dir[Source[p]] = Src(p)
    BY <1>1, <1>4, SourceThere
  <2>2. t \in Seq(Block) /\ Len(t) \in Nat
    BY <2>1, BlocksType
  <2>3. CopyOf(p)
    BY <1>1, <1>4 DEF OneCopy
  <2>4. f # Src(p) => s = t
    BY <1>1, <1>4, <2>1, SourceKept
  <2> QED
    BY <1>1, <2>1, <2>2, <2>3, <2>4 DEF CopyOf
<1>5. CASE off[p] < Len(s)
  <2>1. /\ file' = [file EXCEPT ![f] = PutAt(file[f], off[p] + 1, s[off[p] + 1])]
        /\ off' = [off EXCEPT ![p] = off[p] + 1] /\ pc' = pc
    BY <1>3, <1>5 DEF Copy
  <2>2. s[off[p] + 1] \in Block
    BY <1>1, <1>3, <1>5
  <2>3. PutAt(file[f], off[p] + 1, s[off[p] + 1]) \in Seq(Block)
    BY <1>1, <1>3, <2>2, PutAtType
  <2>4. /\ file' \in [Paths -> Seq(Block)]
        /\ file'[f] = PutAt(file[f], off[p] + 1, s[off[p] + 1])
        /\ \A i \in Paths \ {f} : file'[i] = file[i]
    BY <1>1, <1>3, <2>1, <2>3 DEF TypeOK
  <2>5. /\ off' \in [Procs -> Nat] /\ off'[p] = off[p] + 1
        /\ \A r \in Procs \ {p} : off'[r] = off[r]
    BY <1>1, <2>1 DEF TypeOK
  <2>6. TypeOK'
    BY <1>1, <1>2, <2>1, <2>4, <2>5 DEF TypeOK
  <2>7. StepOf(p)
    BY <1>1, <1>2, <2>1, <2>4, <2>5 DEF StepOf, Rewriting
  <2>8. ProgressOf(p)' /\ LoaderOf(p)'
    BY <1>1, <1>2, <2>1 DEF Progress, ProgressOf, LoaderIsThere, LoaderOf, Preparing
  <2>9. ASSUME Alone(p) PROVE CopyOf(p)'
    <3>1. f # Src(p)
      BY <1>1, <1>4, <1>5, <2>9
    <3>2. s = t /\ FirstOf(file[f], off[p], t) /\ t \in Seq(Block)
      BY <1>4, <2>9, <3>1
    <3>3. FirstOf(file'[f], off'[p], t)
      BY <1>1, <1>3, <1>5, <2>4, <2>5, <3>2, FirstOfPut
    <3> QED
      BY <1>1, <1>2, <2>1, <3>1, <3>3 DEF CopyOf, Preparing
  <2> QED
    BY <2>6, <2>7, <2>8, <2>9, InvStepOf
<1>6. CASE ~(off[p] < Len(s))
  <2>1. Go(p, "chmod") /\ file' = file /\ off' = off
    BY <1>6 DEF Copy
  <2>2. pc'[p] = "chmod" /\ \A r \in Procs \ {p} : pc'[r] = pc[r]
    BY <1>1, <2>1 DEF TypeOK, Go
  <2>3. TypeOK'
    BY <1>1, <1>2, <2>1, <2>2 DEF TypeOK, Terminal, Go
  <2>4. StepOf(p)
    BY <1>2, <2>1, <2>2 DEF StepOf, Rewriting
  <2>5. ProgressOf(p)' /\ LoaderOf(p)'
    BY <1>1, <1>2, <2>1, <2>2 DEF Progress, ProgressOf, LoaderIsThere, LoaderOf, Preparing
  <2>6. ASSUME Alone(p) PROVE CopyOf(p)'
    <3>1. file[f] = <<>> \/ (file[f] = t /\ Src(p) # None)
      <4>1. CASE f = Src(p)
        BY <1>4, <2>6, <4>1
      <4>2. CASE f # Src(p)
        <5>1. s = t /\ FirstOf(file[f], off[p], t) /\ t \in Seq(Block) /\ Len(t) \in Nat
          BY <1>4, <2>6, <4>2
        <5>2. off[p] = Len(t)
          BY <1>1, <1>6, <5>1 DEF FirstOf
        <5>3. Src(p) # None
          BY <1>1, <2>6, SourceThere, FilesArePaths
        <5> QED
          BY <1>3, <5>1, <5>2, <5>3, FirstOfAll
      <4> QED
        BY <4>1, <4>2
    <3> QED
      BY <1>2, <2>1, <2>2, <3>1 DEF CopyOf, Preparing
  <2> QED
    BY <2>3, <2>4, <2>5, <2>6, InvStepOf
<1> QED
  BY <1>5, <1>6

\* patchelf opens the output.
LEMMA InvStatElf ==
    ASSUME IInv, NEW p \in Procs, StatElf(p)
    PROVE  IInv'
<1>1. TypeOK /\ Directory /\ Progress /\ LoaderIsThere /\ OneCopy /\ pc[p] = "chmod"
  BY DEF IInv, StatElf
<1>2. UNCHANGED <<out, beside, libs, fetched, want, loader, dir, file>>
  BY DEF StatElf, command, store, disk
<1> DEFINE f == FileOf(out[p])
<1>3. Target(p) = f /\ f \in Paths /\ file[f] \in Seq(Block)
  BY <1>1, TargetFixed, FilesArePaths DEF TypeOK
<1>4. /\ file[f] # <<>> /\ Go(p, "read") /\ elf' = [elf EXCEPT ![p] = file[f]]
      /\ off' = [off EXCEPT ![p] = 0]
  BY <1>3 DEF StatElf
<1>5. /\ pc'[p] = "read" /\ elf'[p] = file[f]
      /\ \A r \in Procs \ {p} : pc'[r] = pc[r] /\ elf'[r] = elf[r] /\ off'[r] = off[r]
  BY <1>1, <1>4 DEF TypeOK, Go
<1>6. TypeOK'
  BY <1>1, <1>2, <1>3, <1>4, <1>5 DEF TypeOK, Terminal, Go
<1>7. StepOf(p)
  BY <1>2, <1>5 DEF StepOf, Rewriting
<1>8. dir[out[p]] # None
  BY <1>1, <1>3, <1>4, TargetFixed, FilesArePaths DEF Directory, Target
<1>9. ProgressOf(p)' /\ LoaderOf(p)'
  BY <1>1, <1>2, <1>4, <1>5, <1>8 DEF Progress, ProgressOf, LoaderIsThere, LoaderOf, Preparing
<1>10. ASSUME Alone(p) PROVE CopyOf(p)'
  BY <1>1, <1>2, <1>4, <1>5, <1>10 DEF OneCopy, CopyOf, Preparing
<1> QED
  BY <1>6, <1>7, <1>9, <1>10, InvStepOf

\* patchelf reads a block of the output, or has them all.
LEMMA InvReadElf ==
    ASSUME IInv, NEW p \in Procs, ReadElf(p)
    PROVE  IInv'
<1>1. /\ TypeOK /\ Directory /\ Progress /\ LoaderIsThere /\ OneCopy /\ pc[p] = "read"
      /\ elf[p] # <<>> /\ elf[p] \in Seq(Block) /\ off[p] \in Nat /\ dir[out[p]] # None
  BY DEF IInv, ReadElf, TypeOK, Progress, ProgressOf
<1>2. UNCHANGED <<out, beside, libs, fetched, want, loader, dir, file>>
  BY DEF ReadElf, command, store, disk
<1> DEFINE f == FileOf(out[p])
           n == off[p] + 1
<1>3. Target(p) = f /\ f \in Paths /\ file[f] \in Seq(Block)
  BY <1>1, TargetFixed, FilesArePaths DEF TypeOK
<1>4. CASE Go(p, "patchelf") /\ UNCHANGED <<off, elf>>
  <2>1. pc'[p] = "patchelf" /\ \A r \in Procs \ {p} : pc'[r] = pc[r]
    BY <1>1, <1>4 DEF TypeOK, Go
  <2>2. TypeOK'
    BY <1>1, <1>2, <1>4, <2>1 DEF TypeOK, Terminal, Go
  <2>3. StepOf(p)
    BY <1>2, <1>4, <2>1 DEF StepOf, Rewriting
  <2>4. ProgressOf(p)' /\ LoaderOf(p)' /\ (Alone(p) => CopyOf(p)')
    BY <1>1, <1>2, <1>4, <2>1
       DEF Progress, ProgressOf, LoaderIsThere, LoaderOf, OneCopy, CopyOf, Preparing, Src
  <2> QED
    BY <2>2, <2>3, <2>4, InvStepOf
<1>5. CASE /\ off[p] < Len(elf[p]) /\ off[p] < Len(file[f]) /\ pc' = pc
           /\ elf' = [elf EXCEPT ![p][n] = file[f][n]]
           /\ off' = [off EXCEPT ![p] = off[p] + 1]
  <2>1. n \in 1 .. Len(elf[p]) /\ n \in 1 .. Len(file[f]) /\ file[f][n] \in Block
    BY <1>1, <1>3, <1>5
  <2>2. /\ elf'[p] = [elf[p] EXCEPT ![n] = file[f][n]]
        /\ \A r \in Procs \ {p} : elf'[r] = elf[r] /\ off'[r] = off[r]
    BY <1>1, <1>5 DEF TypeOK
  <2>3. elf'[p] \in Seq(Block) /\ Len(elf'[p]) = Len(elf[p]) /\ elf'[p] # <<>>
    BY <1>1, <2>1, <2>2
  <2>4. TypeOK'
    <3>1. elf' \in [Procs -> Seq(Block)]
      BY <1>1, <1>5, <2>2, <2>3 DEF TypeOK
    <3>2. off' \in [Procs -> Nat]
      BY <1>1, <1>5 DEF TypeOK
    <3> QED
      BY <1>1, <1>2, <1>5, <3>1, <3>2 DEF TypeOK
  <2>5. StepOf(p)
    BY <1>1, <1>2, <1>5, <2>2 DEF StepOf, Rewriting
  <2>6. ProgressOf(p)' /\ LoaderOf(p)'
    BY <1>1, <1>2, <1>5, <2>3 DEF Progress, ProgressOf, LoaderIsThere, LoaderOf, Preparing
  <2>7. ASSUME Alone(p) PROVE CopyOf(p)'
    <3>1. elf[p] = file[f] /\ CopyOf(p)
      BY <1>1, <2>7 DEF OneCopy, CopyOf
    <3>2. elf'[p] = elf[p]
      BY <1>1, <2>1, <2>2, <3>1
    <3> QED
      BY <1>1, <1>2, <1>5, <3>1, <3>2 DEF CopyOf, Preparing
  <2> QED
    BY <2>4, <2>5, <2>6, <2>7, InvStepOf
<1> QED
  BY <1>3, <1>4, <1>5 DEF ReadElf

\* patchelf opens the output to write it.
LEMMA InvOpenElf ==
    ASSUME IInv, NEW p \in Procs, OpenElf(p)
    PROVE  IInv'
<1>1. /\ TypeOK /\ Directory /\ Progress /\ LoaderIsThere /\ OneCopy /\ pc[p] = "patchelf"
      /\ elf[p] # <<>> /\ dir[out[p]] # None /\ want[p] \in Versions
  <2>1. TypeOK /\ Directory /\ Progress /\ LoaderIsThere /\ OneCopy
    BY DEF IInv
  <2>2. pc[p] = "patchelf"
    BY DEF OpenElf
  <2>3. elf[p] # <<>> /\ dir[out[p]] # None
    BY <2>1, <2>2 DEF Progress, ProgressOf
  <2> QED
    BY <2>1, <2>2, <2>3, WantKnown DEF Terminal
<1>2. UNCHANGED <<out, beside, libs, fetched, want, loader, dir, elf>>
  BY DEF OpenElf, command, store
<1> DEFINE f == FileOf(out[p])
<1>3. Target(p) = f /\ f \in Paths
  BY <1>1, TargetFixed, FilesArePaths
<1>4. /\ pc'[p] = "write" /\ off'[p] = 0
      /\ \A r \in Procs \ {p} : pc'[r] = pc[r] /\ off'[r] = off[r]
  BY <1>1 DEF OpenElf, TypeOK, Go
<1>5. /\ file' \in [Paths -> Seq(Block)] /\ file'[f] = <<>>
      /\ \A i \in Paths \ {f} : file'[i] = file[i]
  <2>1. file \in [Paths -> Seq(Block)] /\ <<>> \in Seq(Block) /\ file' = [file EXCEPT ![f] = <<>>]
    BY <1>1, <1>3 DEF TypeOK, OpenElf
  <2> QED
    BY <1>3, <2>1
<1>6. TypeOK'
  <2>1. off' \in [Procs -> Nat]
    BY <1>1 DEF TypeOK, OpenElf
  <2>2. /\ pc' = [pc EXCEPT ![p] = "write"]
        /\ \A r \in Procs : pc'[r] \notin Terminal \cup {"start"} => want'[r] # None
    BY <1>1, <1>2, <1>4 DEF TypeOK, Terminal, OpenElf, Go
  <2> QED
    BY <1>1, <1>2, <1>5, <2>1, <2>2 DEF TypeOK
<1>7. StepOf(p)
  BY <1>1, <1>2, <1>4, <1>5 DEF StepOf
<1>8. ProgressOf(p)' /\ LoaderOf(p)'
  BY <1>1, <1>2, <1>4 DEF Progress, ProgressOf, LoaderIsThere, LoaderOf, Preparing
<1>9. ASSUME Alone(p) PROVE CopyOf(p)'
  <2>1. Src(p) \in Files /\ elf[p] = Blocks(Src(p), None)
    BY <1>1, <1>9, FilesArePaths DEF OneCopy, CopyOf, Src
  <2>2. Len(Blocks(Src(p), want[p])) \in Nat
    BY <1>1, <2>1, BlocksType
  <2> QED
    BY <1>2, <1>4, <1>5, <2>1, <2>2, FilesArePaths DEF CopyOf, FirstOf, Preparing
<1> QED
  BY <1>6, <1>7, <1>8, <1>9, InvStepOf

\* patchelf writes a block of the output, or has written them all.
LEMMA InvWriteElf ==
    ASSUME IInv, NEW p \in Procs, WriteElf(p)
    PROVE  IInv'
<1>1. /\ TypeOK /\ Directory /\ Progress /\ LoaderIsThere /\ OneCopy /\ pc[p] = "write"
      /\ elf[p] # <<>> /\ dir[out[p]] # None /\ off[p] \in Nat
      /\ want[p] \in Versions /\ elf[p] \in Seq(Block)
  <2>1. TypeOK /\ Directory /\ Progress /\ LoaderIsThere /\ OneCopy
    BY DEF IInv
  <2>2. pc[p] = "write"
    BY DEF WriteElf
  <2>3. elf[p] # <<>> /\ dir[out[p]] # None
    BY <2>1, <2>2 DEF Progress, ProgressOf
  <2>4. off[p] \in Nat /\ elf[p] \in Seq(Block)
    BY <2>1 DEF TypeOK
  <2> QED
    BY <2>1, <2>2, <2>3, <2>4, WantKnown DEF Terminal
<1>2. UNCHANGED <<out, beside, libs, fetched, want, loader, dir, elf>>
  BY DEF WriteElf, command, store
<1> DEFINE f == FileOf(out[p])
           t == Blocks(Src(p), want[p])
<1>3. Target(p) = f /\ f \in Paths /\ file[f] \in Seq(Block) /\ Len(elf[p]) \in Nat
  BY <1>1, TargetFixed, FilesArePaths DEF TypeOK
<1>4. ASSUME Alone(p)
      PROVE  /\ Src(p) \in Files /\ Src(p) # None /\ elf[p] = Blocks(Src(p), None)
             /\ t \in Seq(Block) /\ Len(t) = Len(elf[p]) /\ FirstOf(file[f], off[p], t)
             /\ \A k \in 1 .. Len(elf[p]) : Patched(elf[p][k], want[p]) = t[k]
  <2>1. Src(p) \in Files /\ elf[p] = Blocks(Src(p), None) /\ FirstOf(file[f], off[p], t)
    BY <1>1, <1>4, FilesArePaths DEF OneCopy, CopyOf, Src
  <2> DEFINE u == Blocks(Src(p), None)
  <2>2. /\ t \in Seq(Block) /\ Len(t) = Length[Src(p)] /\ Len(u) = Length[Src(p)]
        /\ \A k \in 1 .. Length[Src(p)] : t[k] = [of |-> Src(p), no |-> k, glibc |-> want[p]]
        /\ \A k \in 1 .. Length[Src(p)] : u[k] = [of |-> Src(p), no |-> k, glibc |-> None]
    <3>1. /\ Src(p) \in Files /\ want[p] \in Versions \cup {None}
          /\ None \in Versions \cup {None}
      BY <1>1, <2>1
    <3> DEFINE i == Src(p)
               v == want[p]
    <3> HIDE DEF i, v
    <3>2. ASSUME i \in Files, v \in Versions \cup {None}
          PROVE  /\ Blocks(i, v) \in Seq(Block) /\ Len(Blocks(i, v)) = Length[i]
                 /\ \A k \in 1 .. Length[i] : Blocks(i, v)[k] = [of |-> i, no |-> k, glibc |-> v]
      BY <3>2, BlocksType
    <3>3. ASSUME i \in Files, None \in Versions \cup {None}
          PROVE  /\ Len(Blocks(i, None)) = Length[i]
                 /\ \A k \in 1 .. Length[i] : Blocks(i, None)[k] = [of |-> i, no |-> k, glibc |-> None]
      BY <3>3, BlocksType
    <3> QED
      BY <3>1, <3>2, <3>3 DEF i, v
  <2> HIDE DEF t, u
  <2>3. ASSUME NEW k \in 1 .. Len(u) PROVE Patched(u[k], want[p]) = t[k]
    <3>1. /\ u[k] = [of |-> Src(p), no |-> k, glibc |-> None]
          /\ t[k] = [of |-> Src(p), no |-> k, glibc |-> want[p]]
      BY <2>2, <2>3
    <3> QED
      BY <3>1, PatchedBlock
  <2>4. elf[p] = u
    BY <2>1 DEF u
  <2> QED
    BY <2>1, <2>2, <2>3, <2>4, FilesArePaths
<1>5. CASE off[p] < Len(elf[p])
  <2> DEFINE b == Patched(elf[p][off[p] + 1], want[p])
             s == PutAt(file[f], off[p] + 1, b)
  <2>1. /\ file' = [file EXCEPT ![f] = s]
        /\ off' = [off EXCEPT ![p] = off[p] + 1] /\ pc' = pc
    BY <1>3, <1>5 DEF WriteElf
  <2>2. b \in Block /\ b.glibc = want[p]
    <3>1. elf[p][off[p] + 1] \in Block
      BY <1>1, <1>3, <1>5
    <3> QED
      BY <1>1, <3>1 DEF Patched, Block
  <2>3. s \in Seq(Block)
    BY <1>1, <1>3, <2>2, PutAtType
  <2>4. /\ s # <<>>
        /\ \A k \in 1 .. Len(s) : \/ s[k] = Hole \/ s[k].glibc = want[p]
                                  \/ k \in 1 .. Len(file[f]) /\ s[k] = file[f][k]
    <3> HIDE DEF b
    <3>1. /\ s # <<>>
          /\ \A k \in 1 .. Len(s) :
                s[k] = Hole \/ s[k] = b \/ (k \in 1 .. Len(file[f]) /\ s[k] = file[f][k])
      BY <1>1, <1>3, <2>2, PutAtBlocks
    <3> HIDE DEF s, f
    <3> QED
      BY <2>2, <3>1
  <2>5. Alone(p) => FirstOf(s, off[p] + 1, t)
    <3>1. ASSUME Alone(p) PROVE FirstOf(s, off[p] + 1, t)
      <4>1. off[p] + 1 \in 1 .. Len(elf[p])
        BY <1>1, <1>3, <1>5
      <4>2. b = t[off[p] + 1] /\ off[p] < Len(t) /\ t \in Seq(Block) /\ FirstOf(file[f], off[p], t)
        BY <1>4, <1>5, <3>1, <4>1
      <4> HIDE DEF t, b
      <4> QED
        BY <1>1, <1>3, <4>2, FirstOfPut
    <3> QED
      BY <3>1
  <2> HIDE DEF s, b
  <2>6. /\ file' \in [Paths -> Seq(Block)] /\ file'[f] = s
        /\ \A i \in Paths \ {f} : file'[i] = file[i]
    BY <1>1, <1>3, <2>1, <2>3 DEF TypeOK
  <2>7. /\ off' \in [Procs -> Nat] /\ off'[p] = off[p] + 1
        /\ \A r \in Procs \ {p} : off'[r] = off[r]
    BY <1>1, <2>1 DEF TypeOK
  <2>8. TypeOK'
    BY <1>1, <1>2, <2>1, <2>6, <2>7 DEF TypeOK
  <2>9. StepOf(p)
    BY <1>1, <1>2, <2>1, <2>4, <2>6, <2>7 DEF StepOf, Rewriting
  <2>10. ProgressOf(p)' /\ LoaderOf(p)'
    BY <1>1, <1>2, <2>1 DEF Progress, ProgressOf, LoaderIsThere, LoaderOf, Preparing
  <2>11. ASSUME Alone(p) PROVE CopyOf(p)'
    BY <1>1, <1>2, <1>4, <2>1, <2>5, <2>6, <2>7, <2>11 DEF CopyOf, Preparing, Src
  <2> QED
    BY <2>8, <2>9, <2>10, <2>11, InvStepOf
<1>6. CASE ~(off[p] < Len(elf[p]))
  <2>1. Go(p, "done") /\ file' = file /\ off' = off
    BY <1>6 DEF WriteElf
  <2>2. pc'[p] = "done" /\ \A r \in Procs \ {p} : pc'[r] = pc[r]
    BY <1>1, <2>1 DEF TypeOK, Go
  <2>3. TypeOK'
    BY <1>1, <1>2, <2>1, <2>2 DEF TypeOK, Terminal, Go
  <2>4. off[p] # 0
    BY <1>1, <1>3, <1>6
  <2>5. StepOf(p)
    BY <1>1, <1>2, <2>1, <2>2, <2>4 DEF StepOf, Rewriting
  <2>6. ProgressOf(p)' /\ LoaderOf(p)'
    BY <1>1, <1>2, <2>1, <2>2 DEF Progress, ProgressOf, LoaderIsThere, LoaderOf, Preparing
  <2>7. ASSUME Alone(p) PROVE CopyOf(p)'
    <3>1. t \in Seq(Block) /\ FirstOf(file[f], off[p], t) /\ Len(t) = Len(elf[p]) /\ Src(p) # None
      BY <1>4, <2>7
    <3>2. file[f] = t
      <4> HIDE DEF t
      <4>1. off[p] = Len(t)
        BY <1>1, <1>3, <1>6, <3>1 DEF FirstOf
      <4> QED
        BY <1>3, <3>1, <4>1, FirstOfAll
    <3> QED
      BY <1>2, <2>1, <2>2, <3>1, <3>2 DEF CopyOf, Preparing, Src
  <2> QED
    BY <2>3, <2>5, <2>6, <2>7, InvStepOf
<1> QED
  BY <1>5, <1>6

\* Every step keeps the invariant.
LEMMA InvNext == IInv /\ [Next]_vars => IInv'
<1> SUFFICES ASSUME IInv, [Next]_vars PROVE IInv'
  OBVIOUS
<1>1. ASSUME NEW p \in Procs, Step(p) PROVE IInv'
  BY <1>1, InvDetect, InvCheckLibs, InvExtract, InvDownloadEnds, InvLoad, InvOpenFiles, InvCopy,
     InvStatElf, InvReadElf, InvOpenElf, InvWriteElf DEF Step
<1>2. ASSUME NEW p \in Procs, PatchError(p) PROVE IInv'
  BY <1>2, InvEnd DEF PatchError, Fail, command, store, disk
<1>3. ASSUME NEW p \in Procs, Kill(p) PROVE IInv'
  BY <1>3, InvEnd DEF Kill, command, store, disk
<1>4. CASE UNCHANGED vars
  <2>1. /\ UNCHANGED <<out, beside, libs, fetched, pc, want, loader, dir, file, off, elf>>
    BY <1>4 DEF vars, command, store, disk
  <2>2. TypeOK' /\ Directory' /\ Progress' /\ LoaderIsThere'
    BY <2>1 DEF IInv, TypeOK, Directory, Progress, ProgressOf, LoaderIsThere
  <2>3. OthersKept' /\ OneCopy'
    BY <2>1 DEF IInv, OthersKept, OneCopy, Alone, CopyOf
  <2>4. Mixed'
    <3>1. out' = out /\ pc' = pc /\ want' = want /\ dir' = dir /\ off' = off /\ file' = file
      BY <2>1
    <3> SUFFICES ASSUME NEW i \in Paths, NEW w \in Procs, dir'[out'[w]] = i,
                        \A r \in Procs : dir'[out'[r]] = i => pc'[r] \in Rewriting
                 PROVE  /\ \A k \in 1 .. Len(file'[i]) :
                              \/ file'[i][k] = Hole
                              \/ \E r \in Procs : dir'[out'[r]] = i /\ file'[i][k].glibc = want'[r]
                        /\ \/ file'[i] # <<>>
                           \/ \E r \in Procs : dir'[out'[r]] = i /\ pc'[r] = "write" /\ off'[r] = 0
      BY SMTT(30) DEF Mixed, Rewriting
    <3>0. Mixed
      BY DEF IInv
    <3>2. dir[out[w]] = i /\ \A r \in Procs : dir[out[r]] = i => pc[r] \in Rewriting
      BY <3>1
    <3>3. /\ \A k \in 1 .. Len(file[i]) :
                file[i][k] = Hole \/ \E r \in Procs : dir[out[r]] = i /\ file[i][k].glibc = want[r]
          /\ file[i] # <<>> \/ \E r \in Procs : dir[out[r]] = i /\ pc[r] = "write" /\ off[r] = 0
      BY <3>0, <3>2, SMTT(30) DEF Mixed
    <3> QED
      BY <3>1, <3>3
  <2> QED
    BY <2>2, <2>3, <2>4 DEF IInv
<1> QED
  BY <1>1, <1>2, <1>3, <1>4 DEF Next, Rest

\* The invariant holds in every state of every behaviour.
THEOREM Invariance == Spec => []IInv
BY InvInit, InvNext, PTL DEF Spec
-----------------------------------------------------------------------------
(***************************************************************************)
(* What follows.                                                           *)
(***************************************************************************)

\* Type correctness: the commands, the directories and the files keep to their types.
THEOREM TypeCorrect == Spec => []TypeOK
<1>1. IInv => TypeOK
  BY DEF IInv
<1> QED
  BY <1>1, Invariance, PTL

\* No command ever changes a file that is not at an output path: copyFile and
\* patchelf write to the output only, whatever the commands, their number, and
\* the moment one is killed.
THEOREM OthersUntouched == Spec => []OthersKept
<1>1. IInv => OthersKept
  BY DEF IInv
<1> QED
  BY <1>1, Invariance, PTL

\* What FindLoader took, when it is a file, is in the version's directory through
\* whatever other commands extract into it; it is a link only when there was no
\* choice, and stays unless somebody downloads the version.
THEOREM LoaderPresent == Spec => []LoaderIsThere
<1>1. IInv => LoaderIsThere
  BY DEF IInv
<1> QED
  BY <1>1, Invariance, PTL

\* When all that write to a file report success, nothing in it is unpatched, and a
\* single one's is a whole copy of its binary: however many there are, and
\* however their copies, reads, truncations and writes interleave.
THEOREM SuccessIsPatched == Spec => []DoneIsPatched
<1>1. IInv => DoneIsPatched
  <2> SUFFICES ASSUME IInv, NEW i \in Paths, NEW w \in Procs, dir[out[w]] = i,
                      \A p \in Procs : dir[out[p]] = i => pc[p] = "done"
               PROVE  LET ws == {p \in Procs : dir[out[p]] = i}
                      IN  /\ file[i] # <<>>
                          /\ \A k \in 1 .. Len(file[i]) :
                                file[i][k] = Hole \/ \E p \in ws : file[i][k].glibc = want[p]
                          /\ \A p \in ws :
                                /\ ws = {p}
                                /\ \A r \in Procs \ ws : FileAt[out[r]] # FileAt[Source[p]]
                                => file[i] = Blocks(FileAt[Source[p]], want[p])
    BY DEF DoneIsPatched
  <2> DEFINE ws == {p \in Procs : dir[out[p]] = i}
  <2>1. /\ \A k \in 1 .. Len(file[i]) :
              file[i][k] = Hole \/ \E p \in ws : file[i][k].glibc = want[p]
        /\ file[i] # <<>>
    BY DEF IInv, Mixed, Rewriting
  <2>2. ASSUME NEW p \in ws, ws = {p},
               \A r \in Procs \ ws : FileAt[out[r]] # FileAt[Source[p]]
        PROVE  file[i] = Blocks(FileAt[Source[p]], want[p])
    <3>1. i = FileOf(out[p]) /\ pc[p] = "done"
      BY TargetFixed DEF IInv
    <3>2. ASSUME NEW r \in Procs \ {p} PROVE FileOf(out[r]) # FileOf(out[p])
      <4> SUFFICES ASSUME FileOf(out[r]) = i PROVE FALSE
        BY <3>1
      <4>1. dir[out[r]] # i
        BY <2>2
      <4>2. out[r] \in Paths /\ dir[out[r]] \in {FileAt[out[r]], FileOf(out[r])}
        BY DEF IInv, TypeOK, Directory
      <4>3. FileAt[out[r]] = None /\ out[r] = i
        BY <4>1, <4>2 DEF FileOf
      <4>4. out[p] = i
        BY <3>1, <4>3, FilesArePaths, TargetFixed DEF FileOf, IInv
      <4> QED
        BY <4>1, <4>3, <4>4
    <3>3. Alone(p)
      BY <2>2, <3>2 DEF Alone, Src
    <3> QED
      BY <3>1, <3>3 DEF IInv, OneCopy, CopyOf, Src
  <2> QED
    BY <2>1, <2>2
<1> QED
  BY <1>1, Invariance, PTL
=============================================================================
