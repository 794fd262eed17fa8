------------------------------- MODULE Store -------------------------------
(***************************************************************************)
(* Concurrent pwnlibc processes over one cache directory: download and     *)
(* patch (internal/cli) put a version's files into libs/<version>/<arch>,  *)
(* index them and write PROVENANCE.json; identify, and patch without       *)
(* --version, hold the index while they look a file up.  The processes     *)
(* share the .deb cache, the version directories and the bbolt index,      *)
(* whose file lock is the only lock there is; any of them may be killed.   *)
(*                                                                         *)
(* A body is what some mirror serves of one version: a build.  A .deb is   *)
(* Blocks blocks of a body, a libs file of build b is Chunks[b] of them,   *)
(* each written at the writer's own offset: a file that two processes      *)
(* write at once may hold blocks of both.  The race inside fetch (module   *)
(* Fetch) appears here as its effects: the destination is created, grows,  *)
(* and the call returns.                                                   *)
(***************************************************************************)
EXTENDS Integers, Sequences

CONSTANTS Procs,     \* the processes
          Role,      \* Role[p]: "download", "identify" or "patch"
          Target,    \* Target[p]: the version_arch p works on
          Versions,  \* the version_archs
          Builds,    \* the builds of a version that mirrors serve
          Chunks,    \* Chunks[b]: the blocks of a libs file of build b
          WithId,    \* the builds whose libc has a BuildID
          KeepDeb,   \* the processes run with --keep-deb
          WantDbg,   \* the processes that also want libc6-dbg
          NoVersion, \* the patch processes run without --version
          Killable,  \* the processes that may be killed
          Blocks,    \* the blocks of a .deb
          None,
          Torn       \* what is of no build, or only half there

BodiesOf(v) == {<<v, b>> : b \in Builds}
Bodies == UNION {BodiesOf(v) : v \in Versions}
Hole   == <<"hole">>
Blobs  == Seq(Bodies \cup {Hole})   \* what a file may hold

\* The packages of a version: libc6 and libc6-dbg; and the files of theirs
\* that libFilter and debugFilter let through.
Pkgs       == {"main", "dbg"}
FilesOf(k) == IF k = "main" THEN {"ld", "libc"} ELSE {"debug"}
Files      == UNION {FilesOf(k) : k \in Pkgs}

\* PROVENANCE.json as runDownload fills it in.
Manifests == [sha : Bodies, debug : BOOLEAN]

ASSUME RolesAssumption ==
    /\ Role \in [Procs -> {"download", "identify", "patch"}]
    /\ Target \in [Procs -> Versions]
    /\ NoVersion \subseteq {p \in Procs : Role[p] = "patch"}
    /\ WantDbg \cup KeepDeb \subseteq {p \in Procs : Role[p] = "download"}
ASSUME StoreAssumption ==
    /\ Blocks \in Nat \ {0}
    /\ Chunks \in [Builds -> Nat \ {0}]
    /\ None \notin Procs \cup Bodies \cup Files \cup Blobs
    /\ Torn \notin Bodies /\ Hole \notin Bodies
    /\ Torn # None /\ {Torn, None} \cap Manifests = {}

VARIABLES
    pc,       \* pc[p]: where process p stands
    lock,     \* the process holding the index file's lock
    pkg,      \* pkg[p]: the package p is at
    deb,      \* deb[v][k]: the file at the path of k's cached .deb, named by
              \*   its creator
    inode,    \* inode[p][k]: the blocks of the .deb file p created for k
    fd,       \* fd[p]: the file p writes its download to
    off,      \* off[p]: the blocks p has written, and hashed
    from,     \* from[p][k]: the body of p's winning mirror
    data,     \* data[p][k]: the body p read back from the cached .deb
    left,     \* left[p]: the files p has yet to extract
    open,     \* open[p]: the file p is writing
    pos,      \* pos[p]: the blocks p has written to it
    libs,     \* libs[v][f]: what the file f of version v holds
    info,     \* info[p]: the build of the libc p loaded, if it was whole
    id,       \* id[p]: the BuildID p found, named by its build
    syms,     \* syms[p]: the build whose symbols p found
    debug,    \* debug[p]: whether p extracted the debug symbols
    symtab,   \* symtab[v]: the build whose symbols the index holds for v
    meta,     \* meta[v]: the BuildID that v's metadata in the index names
    buildid,  \* buildid[b]: the version the index holds for b's BuildID
    prov,     \* prov[v]: PROVENANCE.json of v: None, Torn or its record
    writers   \* writers[v][k]: who has written k's files since somebody last
              \*   began to with nobody else at it (read by properties only)

cached  == <<deb, inode, fd, off, from>>
reading == <<data, left, open, pos>>
loaded  == <<info, id, syms, debug>>
locals  == <<pkg, reading, loaded>>
index   == <<symtab, meta, buildid>>
disk    == <<libs, writers>>
vars    == <<pc, lock, cached, locals, disk, index, prov>>

Terminal == {"done", "failed", "killed"}

Init ==
    /\ pc = [p \in Procs |-> "start"]
    /\ lock = None
    /\ pkg = [p \in Procs |-> "main"]
    /\ deb = [v \in Versions |-> [k \in Pkgs |-> None]]
    /\ inode = [p \in Procs |-> [k \in Pkgs |-> <<>>]]
    /\ fd = [p \in Procs |-> None]
    /\ off = [p \in Procs |-> 0]
    /\ from = [p \in Procs |-> [k \in Pkgs |-> None]]
    /\ data = [p \in Procs |-> [k \in Pkgs |-> None]]
    /\ left = [p \in Procs |-> {}]
    /\ open = [p \in Procs |-> None]
    /\ pos = [p \in Procs |-> 0]
    /\ libs = [v \in Versions |-> [f \in Files |-> None]]
    /\ info = [p \in Procs |-> None]
    /\ id = [p \in Procs |-> None]
    /\ syms = [p \in Procs |-> None]
    /\ debug = [p \in Procs |-> FALSE]
    /\ symtab = [v \in Versions |-> None]
    /\ meta = [v \in Versions |-> None]
    /\ buildid = [b \in Bodies |-> None]
    /\ prov = [v \in Versions |-> None]
    /\ writers = [v \in Versions |-> [k \in Pkgs |-> {}]]

Go(p, l)  == pc' = [pc EXCEPT ![p] = l]
Unlock(p) == lock' = IF lock = p THEN None ELSE lock
-----------------------------------------------------------------------------
(***************************************************************************)
(* Commands begin.                                                         *)
(***************************************************************************)

\* findMainLibc: the version directory holds a libc.
HasLibc(v) == libs[v]["libc"] # None

\* runDownload looks the version up and makes its directory; either may fail.
StartDownload(p) ==
    /\ pc[p] = "start" /\ Role[p] = "download"
    /\ Go(p, "fetch") \/ Go(p, "failed")
    /\ UNCHANGED <<lock, cached, locals, disk, index, prov>>

\* identify, and patch without --version, load a file and open the index.
StartIdentify(p) ==
    /\ pc[p] = "start" /\ (Role[p] = "identify" \/ p \in NoVersion)
    /\ Go(p, "idopen") \/ Go(p, "failed")
    /\ UNCHANGED <<lock, cached, locals, disk, index, prov>>

\* patch looks for the version on disk and otherwise downloads it (or, with
\* --no-download, fails).
CheckLibs(p) ==
    /\ Role[p] = "patch"
    /\ pc[p] = "check" \/ (pc[p] = "start" /\ p \notin NoVersion)
    /\ \/ HasLibc(Target[p]) /\ Go(p, "use")
       \/ ~HasLibc(Target[p]) /\ (Go(p, "fetch") \/ Go(p, "failed"))
    /\ UNCHANGED <<lock, cached, locals, disk, index, prov>>

\* FindLoader and Patch: a loader must be beside the libc.  Neither file is
\* looked into.
UseLibs(p) ==
    /\ pc[p] = "use"
    /\ Go(p, IF libs[Target[p]]["ld"] # None THEN "done" ELSE "failed")
    /\ UNCHANGED <<lock, cached, locals, disk, index, prov>>
-----------------------------------------------------------------------------
(***************************************************************************)
(* The index's file lock.  index.Open waits five seconds for it.           *)
(***************************************************************************)
Waiting == {"idopen", "dlopen"}

\* Mutant: a command that only reads the index does not wait for its lock.
OpenIndexToRead(p) ==
    /\ pc[p] \in Waiting /\ (lock = None \/ pc[p] = "idopen")
    /\ lock' = IF lock = None THEN p ELSE lock
    /\ Go(p, IF pc[p] = "idopen" THEN "identify" ELSE "index")
    /\ UNCHANGED <<cached, locals, disk, index, prov>>

OpenIndex(p) ==
    /\ pc[p] \in Waiting /\ lock = None
    /\ lock' = p
    /\ Go(p, IF pc[p] = "idopen" THEN "identify" ELSE "index")
    /\ UNCHANGED <<cached, locals, disk, index, prov>>

OpenTimesOut(p) ==
    /\ pc[p] \in Waiting /\ lock # None
    /\ Go(p, "failed")
    /\ UNCHANGED <<lock, cached, locals, disk, index, prov>>

\* Identify only reads the index; the deferred Close releases the lock
\* before patch goes on.
EndIdentify(p) ==
    /\ pc[p] = "identify"
    /\ \/ Go(p, IF Role[p] = "identify" THEN "done" ELSE "check")
       \/ Go(p, "failed")
    /\ Unlock(p)
    /\ UNCHANGED <<cached, locals, disk, index, prov>>
-----------------------------------------------------------------------------
(***************************************************************************)
(* downloadAndExtractDeb, for libc6 and then for libc6-dbg.                *)
(***************************************************************************)

\* It fails: for libc6-dbg that is only a warning.
Fails(p) == Go(p, IF pkg[p] = "main" THEN "failed" ELSE "load")

\* DownloadFileRacing has no winner, or cannot create the file.
NoMirror(p) ==
    /\ pc[p] = "fetch"
    /\ Fails(p)
    /\ UNCHANGED <<lock, cached, locals, disk, index, prov>>

\* Mutant: the cached .deb's path leaves the version out.
CreateDebOnePath(p) ==
    /\ pc[p] = "fetch"
    /\ LET k == pkg[p]
           n == IF deb[Target[p]][k] = None THEN p ELSE deb[Target[p]][k]
       IN  /\ fd' = [fd EXCEPT ![p] = n]
           /\ deb' = [v \in Versions |-> [deb[v] EXCEPT ![k] = n]]
           /\ inode' = [inode EXCEPT ![n][k] = <<>>]
           /\ \E b \in BodiesOf(Target[p]) : from' = [from EXCEPT ![p][k] = b]
    /\ off' = [off EXCEPT ![p] = 0]
    /\ Go(p, "copy")
    /\ UNCHANGED <<lock, locals, disk, index, prov>>

\* os.Create: a file already at the path is truncated, and shared with
\* whoever has it open.
CreateDeb(p) ==
    /\ pc[p] = "fetch"
    /\ LET v == Target[p]
           k == pkg[p]
           n == IF deb[v][k] = None THEN p ELSE deb[v][k]
       IN  /\ fd' = [fd EXCEPT ![p] = n]
           /\ deb' = [deb EXCEPT ![v][k] = n]
           /\ inode' = [inode EXCEPT ![n][k] = <<>>]
           /\ \E b \in BodiesOf(v) : from' = [from EXCEPT ![p][k] = b]
    /\ off' = [off EXCEPT ![p] = 0]
    /\ Go(p, "copy")
    /\ UNCHANGED <<lock, locals, disk, index, prov>>

\* s with block j set to b: a write past the end leaves a hole.
PutAt(s, j, b) ==
    [i \in 1 .. (IF Len(s) < j THEN j ELSE Len(s)) |->
        IF i = j THEN b ELSE IF i <= Len(s) THEN s[i] ELSE Hole]

CopyDeb(p) ==
    /\ pc[p] = "copy" /\ off[p] < Blocks
    /\ off' = [off EXCEPT ![p] = @ + 1]
    /\ inode' = [inode EXCEPT ![fd[p]][pkg[p]] = PutAt(@, off[p] + 1, from[p][pkg[p]])]
    /\ UNCHANGED <<pc, lock, deb, fd, from, locals, disk, index, prov>>

\* Mutant: a download that fails in its copy is begun again, as often as it
\* takes.
CopyFailsAgain(p) ==
    /\ pc[p] = "copy"
    /\ Go(p, "fetch")
    /\ UNCHANGED <<lock, cached, locals, disk, index, prov>>

\* io.Copy fails: the partial file stays at the path.
CopyFails(p) ==
    /\ pc[p] = "copy"
    /\ Fails(p)
    /\ UNCHANGED <<lock, cached, locals, disk, index, prov>>

CopyEnds(p) ==
    /\ pc[p] = "copy" /\ off[p] = Blocks
    /\ Go(p, "read")
    /\ UNCHANGED <<lock, cached, locals, disk, index, prov>>

\* The deferred os.Remove of downloadAndExtractDeb.
RemoveDeb(p) ==
    deb' = IF p \in KeepDeb THEN deb ELSE [deb EXCEPT ![Target[p]][pkg[p]] = None]

\* What the .deb's path holds; nothing when it is gone.
Content(v, k) == IF deb[v][k] = None THEN <<>> ELSE inode[deb[v][k]][k]

\* s is n blocks of b and nothing else.
IsWhole(s, n, b) == s # None /\ Len(s) = n /\ \A j \in 1 .. n : s[j] = b

\* The builds s has blocks of.
In(s) == {b \in Bodies : s # None /\ \E j \in 1 .. Len(s) : s[j] = b}

\* Who is extracting package k of version v.
Extracting(v, k) == {q \in Procs : pc[q] = "extract" /\ Target[q] = v /\ pkg[q] = k}

\* A damaged archive has a rest that cannot be read.
Rest == "rest"

\* p goes on to extract a .deb of build b.
BeginExtract(p, b, files) ==
    /\ data' = [data EXCEPT ![p][pkg[p]] = b]
    /\ left' = [left EXCEPT ![p] = files]
    /\ writers' = [writers EXCEPT ![Target[p]][pkg[p]] =
                      IF Extracting(Target[p], pkg[p]) = {} THEN {p} ELSE @ \cup {p}]
    /\ Go(p, "extract")

\* ReadFile, ParseAr, FindMember and Decompress: the path may be gone, and
\* what is there may be what another process downloaded, or damaged; that
\* shows at once, or when some of it has been extracted.
ReadDeb(p) ==
    /\ pc[p] = "read"
    /\ LET s == Content(Target[p], pkg[p])
       IN  \/ \E b \in In(s) :
                 /\ BeginExtract(p, b, FilesOf(pkg[p]) \cup
                                       IF IsWhole(s, Blocks, b) THEN {} ELSE {Rest})
                 /\ UNCHANGED deb
           \/ /\ \A b \in Bodies : ~IsWhole(s, Blocks, b)
              /\ Fails(p)
              /\ RemoveDeb(p)
              /\ UNCHANGED <<data, left, writers>>
    /\ UNCHANGED <<lock, inode, fd, off, from, pkg, open, pos, loaded, libs, index, prov>>

\* Mutant: the file is opened without O_TRUNC.
OpenFileKeeps(p) ==
    /\ pc[p] = "extract" /\ open[p] = None
    /\ \E f \in left[p] \ {Rest} :
        /\ open' = [open EXCEPT ![p] = f]
        /\ libs' = [libs EXCEPT ![Target[p]][f] = IF @ = None THEN <<>> ELSE @]
        /\ left' = [left EXCEPT ![p] = @ \ {f}]
    /\ pos' = [pos EXCEPT ![p] = 0]
    /\ UNCHANGED <<pc, lock, cached, pkg, data, loaded, writers, index, prov>>

\* SafeExtractTar opens the next file, truncating what is there, ...
OpenFile(p) ==
    /\ pc[p] = "extract" /\ open[p] = None
    /\ \E f \in left[p] \ {Rest} :
        /\ open' = [open EXCEPT ![p] = f]
        /\ libs' = [libs EXCEPT ![Target[p]][f] = <<>>]
        /\ left' = [left EXCEPT ![p] = @ \ {f}]
    /\ pos' = [pos EXCEPT ![p] = 0]
    /\ UNCHANGED <<pc, lock, cached, pkg, data, loaded, writers, index, prov>>

\* ... and copies a block to where it is in the file; it closes the file with
\* the last one.
WriteFile(p) ==
    /\ pc[p] = "extract" /\ open[p] # None
    /\ LET b == data[p][pkg[p]]
       IN  /\ libs' = [libs EXCEPT ![Target[p]][open[p]] = PutAt(@, pos[p] + 1, b)]
           /\ open' = [open EXCEPT ![p] = IF pos[p] + 1 = Chunks[b[2]] THEN None ELSE @]
    /\ pos' = [pos EXCEPT ![p] = @ + 1]
    /\ UNCHANGED <<pc, lock, cached, pkg, data, left, loaded, writers, index, prov>>

\* The package is extracted.
Extracted(p) == left[p] = {} /\ open[p] = None

\* runDownload goes on to libc6-dbg, or has it.
Succeeds(p) ==
    /\ Go(p, IF pkg[p] = "main" THEN "debug" ELSE "load")
    /\ debug' = [debug EXCEPT ![p] = pkg[p] = "dbg"]

\* Mutant: the error of the extraction is dropped.
ExtractEndsShort(p) ==
    /\ pc[p] = "extract"
    /\ Succeeds(p)
    /\ RemoveDeb(p)
    /\ UNCHANGED <<lock, inode, fd, off, from, pkg, reading, info, id, syms, disk, index, prov>>

\* Mutant: only an extraction that works removes the .deb.
ExtractEndsKeeps(p) ==
    /\ pc[p] = "extract"
    /\ \/ Extracted(p) /\ Succeeds(p) /\ RemoveDeb(p)
       \/ ~Extracted(p) /\ Fails(p) /\ UNCHANGED <<debug, deb>>
    /\ UNCHANGED <<lock, inode, fd, off, from, pkg, reading, info, id, syms, disk, index, prov>>

\* Extraction ends, or fails with files missing or half written; either way
\* the .deb is removed.
ExtractEnds(p) ==
    /\ pc[p] = "extract"
    /\ \/ Extracted(p) /\ Succeeds(p)
       \/ Fails(p) /\ UNCHANGED debug
    /\ RemoveDeb(p)
    /\ UNCHANGED <<lock, inode, fd, off, from, pkg, reading, info, id, syms, disk, index, prov>>
-----------------------------------------------------------------------------
(***************************************************************************)
(* The rest of runDownload.                                                *)
(***************************************************************************)

\* libc6-dbg, where it is wanted and listed.
FetchDebug(p) ==
    /\ pc[p] = "debug"
    /\ \/ /\ p \in WantDbg
          /\ pkg' = [pkg EXCEPT ![p] = "dbg"]
          /\ Go(p, "fetch")
       \/ Go(p, "load") /\ UNCHANGED pkg
    /\ UNCHANGED <<lock, cached, reading, loaded, disk, index, prov>>

\* The build of s, where it is whole.
BuildOf(s) ==
    IF \E b \in Bodies : IsWhole(s, Chunks[b[2]], b)
    THEN CHOOSE b \in Bodies : IsWhole(s, Chunks[b[2]], b)
    ELSE Torn

\* The BuildIDs that may be found in s: those of builds it has blocks of, or
\* none.
IdsOf(s) ==
    LET ids == {b \in In(s) : b[2] \in WithId}
    IN  IF BuildOf(s) = Torn THEN ids \cup {None}
        ELSE IF ids = {} THEN {None} ELSE ids

\* findMainLibc and elfinfo.Load read whatever libc is there now, its headers
\* and its BuildID, ...
LoadLibc(p) ==
    /\ pc[p] = "load"
    /\ LET s == libs[Target[p]]["libc"]
       IN  \/ /\ In(s) # {}
              /\ info' = [info EXCEPT ![p] = BuildOf(s)]
              /\ \E b \in IdsOf(s) : id' = [id EXCEPT ![p] = b]
              /\ Go(p, "symbols")
           \/ Go(p, "failed") /\ UNCHANGED <<info, id>>
    /\ UNCHANGED <<lock, cached, pkg, reading, syms, debug, disk, index, prov>>

\* ... and elfinfo.Symbols what it holds later, which another process may be
\* writing; it does not fail, and what it finds may be of no build.
LoadSymbols(p) ==
    /\ pc[p] = "symbols"
    /\ LET s == libs[Target[p]]["libc"]
       IN  \E b \in In(s) \cup {Torn} :
              /\ BuildOf(s) = info[p] /\ info[p] # Torn => b = info[p]
              /\ syms' = [syms EXCEPT ![p] = b]
    /\ Go(p, "dlopen")
    /\ UNCHANGED <<lock, cached, pkg, reading, info, id, debug, disk, index, prov>>

\* The Puts of IndexVersion; an empty BuildID gets no entry.
Put(v, i, s) ==
    /\ symtab' = [symtab EXCEPT ![v] = s]
    /\ meta' = [meta EXCEPT ![v] = i]
    /\ buildid' = [b \in Bodies |-> IF b = i THEN v ELSE buildid[b]]

\* Mutant: the index is closed as soon as the version is in it.
IndexVersionCloses(p) ==
    /\ pc[p] = "index"
    /\ Put(Target[p], id[p], syms[p])
    /\ Go(p, "manifest")
    /\ Unlock(p)
    /\ UNCHANGED <<cached, locals, disk, prov>>

\* Mutant: a version that cannot be indexed is only a warning.
IndexVersionUnchecked(p) ==
    /\ pc[p] = "index"
    /\ Put(Target[p], id[p], syms[p]) \/ UNCHANGED index
    /\ Go(p, "manifest")
    /\ UNCHANGED <<lock, cached, locals, disk, prov>>

\* One bbolt transaction writes the symbols, the metadata and the BuildID.
IndexVersion(p) ==
    /\ pc[p] = "index"
    /\ \/ /\ Put(Target[p], id[p], syms[p])
          /\ Go(p, "manifest")
          /\ UNCHANGED lock
       \/ /\ Go(p, "failed")
          /\ Unlock(p)
          /\ UNCHANGED index
    /\ UNCHANGED <<cached, locals, disk, prov>>

\* os.WriteFile truncates PROVENANCE.json, or cannot open it.
OpenManifest(p) ==
    /\ pc[p] = "manifest"
    /\ \/ /\ prov' = [prov EXCEPT ![Target[p]] = Torn]
          /\ Go(p, "write")
          /\ UNCHANGED lock
       \/ /\ Go(p, "failed")
          /\ Unlock(p)
          /\ UNCHANGED prov
    /\ UNCHANGED <<cached, locals, disk, index>>

\* It writes the manifest, or fails; runDownload returns and closes the index.
WriteManifest(p) ==
    /\ pc[p] = "write"
    /\ \/ /\ prov' = [prov EXCEPT ![Target[p]] =
                         [sha |-> from[p]["main"], debug |-> debug[p]]]
          /\ Go(p, IF Role[p] = "patch" THEN "use" ELSE "done")
       \/ Go(p, "failed") /\ UNCHANGED prov
    /\ Unlock(p)
    /\ UNCHANGED <<cached, locals, disk, index>>

\* The process is killed; the kernel releases its lock.
Kill(p) ==
    /\ p \in Killable /\ pc[p] \notin Terminal \cup {"start"}
    /\ Go(p, "killed")
    /\ Unlock(p)
    /\ UNCHANGED <<cached, locals, disk, index, prov>>

\* Every process has ended.
AllEnded == \A p \in Procs : pc[p] \in Terminal

Idle == AllEnded /\ UNCHANGED vars
-----------------------------------------------------------------------------
Step(p) ==
    \/ StartDownload(p) \/ StartIdentify(p) \/ CheckLibs(p) \/ UseLibs(p)
    \/ OpenIndex(p) \/ OpenTimesOut(p) \/ EndIdentify(p)
    \/ NoMirror(p) \/ CreateDeb(p) \/ CopyDeb(p) \/ CopyFails(p) \/ CopyEnds(p)
    \/ ReadDeb(p) \/ OpenFile(p) \/ WriteFile(p) \/ ExtractEnds(p)
    \/ FetchDebug(p) \/ LoadLibc(p) \/ LoadSymbols(p)
    \/ IndexVersion(p) \/ OpenManifest(p) \/ WriteManifest(p)

Next == (\E p \in Procs : Step(p) \/ Kill(p)) \/ Idle

Spec == Init /\ [][Next]_vars

\* Processes are scheduled; nobody is killed out of fairness.
FairSpec == Spec /\ \A p \in Procs : WF_vars(Step(p))
-----------------------------------------------------------------------------
(***************************************************************************)
(* Properties.                                                             *)
(***************************************************************************)
Holding  == {"identify", "index", "manifest", "write"}
PcValues == Terminal \cup Waiting \cup Holding \cup
            {"start", "check", "use", "fetch", "copy", "read", "extract", "debug", "load", "symbols"}

\* Type correctness of the processes and of what they share.
TypeOK ==
    /\ pc \in [Procs -> PcValues]
    /\ lock \in Procs \cup {None}
    /\ pkg \in [Procs -> Pkgs]
    /\ deb \in [Versions -> [Pkgs -> Procs \cup {None}]]
    /\ inode \in [Procs -> [Pkgs -> Blobs]]
    /\ fd \in [Procs -> Procs \cup {None}]
    /\ off \in [Procs -> 0 .. Blocks]
    /\ from \in [Procs -> [Pkgs -> Bodies \cup {None}]]
    /\ data \in [Procs -> [Pkgs -> Bodies \cup {None}]]
    /\ left \in [Procs -> SUBSET (Files \cup {Rest})]
    /\ open \in [Procs -> Files \cup {None}]
    /\ pos \in [Procs -> Nat]
    /\ libs \in [Versions -> [Files -> Blobs \cup {None}]]
    /\ info \in [Procs -> Bodies \cup {None, Torn}]
    /\ id \in [Procs -> Bodies \cup {None}]
    /\ syms \in [Procs -> Bodies \cup {None, Torn}]
    /\ debug \in [Procs -> BOOLEAN]
    /\ symtab \in [Versions -> Bodies \cup {None, Torn}]
    /\ meta \in [Versions -> Bodies \cup {None}]
    /\ buildid \in [Bodies -> Versions \cup {None}]
    /\ prov \in [Versions -> Manifests \cup {None, Torn}]
    /\ writers \in [Versions -> [Pkgs -> SUBSET Procs]]

\* The index's lock is held exactly between a command's OpenIndex and its
\* return: no error path keeps it, and patch, which opens the index twice,
\* never waits for itself.  Hence two downloads never write a manifest at once.
LockDiscipline ==
    \A p \in Procs : lock = p <=> pc[p] \in Holding

\* identify looks the index up by BuildID, may then ask libc.rip, and looks it
\* up by fingerprint (identify.go:45-61), each in a transaction of its own: no
\* download changes the index in between, so that the two agree.
LookupsSeeOneIndex ==
    [][(\E p \in Procs : pc[p] = "identify") => UNCHANGED index]_vars

\* A version with a manifest is indexed, and the BuildID in its metadata, where
\* its libc has one, leads back to that version: a kill between the steps of
\* runDownload never leaves the index behind the directory's manifest.
IndexedBeforeManifest ==
    \A v \in Versions :
        /\ prov[v] # None => symtab[v] # None
        /\ meta[v] # None => buildid[meta[v]] = v

\* Package k's files are whole, and of one build.
WholeOfOne(v, k) ==
    \E b \in Bodies : \A f \in FilesOf(k) : IsWhole(libs[v][f], Chunks[b[2]], b)

\* p has extracted all of package k.
Finished(p, k) == data[p][k] # None /\ (pkg[p] = k => Extracted(p))

\* What excuses files that are not: an extraction, of another process, that
\* goes on or was left halfway, or two that overlapped and were of unlike
\* builds.
Disturbed(v, k, others) ==
    \/ \E q \in writers[v][k] \cap others : ~Finished(q, k)
    \/ \E q, r \in writers[v][k] : data[q][k] # data[r][k]

\* Whatever the others do, a download that reported success leaves its version
\* indexed, with a manifest and with every file, and the files (the debug
\* symbols' too, where it said it had them) whole and of one build, unless
\* another process is extracting them, or was cut short at it, or they were
\* extracted from different builds at once.
SuccessIsComplete ==
    \A p \in Procs : pc[p] = "done" /\ Role[p] = "download" =>
        /\ symtab[Target[p]] # None /\ prov[Target[p]] # None
        /\ \A k \in Pkgs : k = "main" \/ debug[p] =>
              /\ \A f \in FilesOf(k) : libs[Target[p]][f] # None
              /\ WholeOfOne(Target[p], k) \/ Disturbed(Target[p], k, Procs \ {p})

\* patch asks only whether the directory has a libc (patch.go:58).  Even so it
\* uses a loader and a libc that are whole and of one build, whoever put them
\* there and when, unless an extraction into the directory is going on or was
\* left halfway, or two of unlike builds overlapped.
PatchUsesOneBuild ==
    [][\A p \in Procs : pc[p] = "use" /\ pc'[p] = "done" =>
          WholeOfOne(Target[p], "main") \/ Disturbed(Target[p], "main", Procs)]_vars

\* When no two processes work on the same version, a version's manifest gives
\* the SHA-256 of the .deb its files, and its index entry, came from, however
\* the processes interleave and whichever are killed.
ManifestTrue ==
    \A v \in Versions : prov[v] \notin {None, Torn} =>
        LET b == prov[v].sha
        IN  /\ \A f \in FilesOf("main") : IsWhole(libs[v][f], Chunks[b[2]], b)
            /\ symtab[v] = b
            /\ meta[v] = IF b[2] \in WithId THEN b ELSE None

\* A .deb outlives the commands only where one of them, having begun to write
\* it, was told to --keep-deb, was killed, or never read it back because its
\* copy failed: then nobody removes the partial .deb, and the next download of
\* the version starts over it.  libc6-dbg's is left like that by commands that
\* succeed.
DebLeftHasCause ==
    AllEnded => \A v \in Versions, k \in Pkgs : deb[v][k] # None =>
        \E p \in Procs : /\ Target[p] = v /\ from[p][k] # None
                         /\ p \in KeepDeb \/ pc[p] = "killed" \/ data[p][k] = None

\* Every process that is not killed ends: nobody waits for the lock for ever.
AllEnd == \A p \in Procs : <>(pc[p] \in Terminal)

(***************************************************************************)
(* What the processes make of the cache, seen from outside.                *)
(***************************************************************************)
Stage(l) == CASE l = "identify"           -> "looking"
              [] l = "index"              -> "adding"
              [] l = "manifest"           -> "added"
              [] l = "write"              -> "recording"
              [] l = "done"               -> "ok"
              [] l \in {"failed", "killed"} -> "failed"
              [] OTHER                    -> "out"

Stages  == [p \in Procs |-> Stage(pc[p])]
Present == [v \in Versions |-> {f \in FilesOf("main") : libs[v][f] # None}]
Records == [v \in Versions |-> IF prov[v] = None THEN "none"
                               ELSE IF prov[v] = Torn THEN "begun" ELSE "written"]

Shared == INSTANCE Cache WITH
    Files  <- FilesOf("main"),
    Junk   <- Torn,
    stage  <- Stages,
    user   <- lock,
    files  <- Present,
    entry  <- symtab,
    owner  <- buildid,
    record <- Records

\* Whatever they do to each other's .debs and files, and wherever they fail or
\* are killed, the processes implement Cache: they take turns at the index,
\* what is in it has all its files, and success is never reported early.
ImplementsCache == Shared!KSpec
=============================================================================
