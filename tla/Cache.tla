------------------------------- MODULE Cache -------------------------------
(***************************************************************************)
(* What the version cache promises the commands that share it, without     *)
(* .debs, mirrors, timeouts, kills or file descriptors: files are added to *)
(* a version and never go away; one command at a time is at the index; it  *)
(* looks something up there, or adds a version whose files are all there   *)
(* and only then records it in the version's directory; and a command that *)
(* reports success has done all it was asked to.                           *)
(***************************************************************************)
CONSTANTS Procs, Role, Target, Versions, Files,
          Bodies,   \* the builds: <<version, which build>>
          None,
          Junk      \* symbols of no build

VARIABLES
    stage,   \* stage[p]: "out" of the index, "looking", "adding", "added",
             \*   "recording"; or its result, "ok" or "failed"
    user,    \* the command at the index
    files,   \* files[v]: which files of v there are, whole or not
    entry,   \* entry[v]: the build whose symbols the index has for v
    owner,   \* owner[b]: the version it has for b's BuildID
    record   \* record[v]: PROVENANCE.json: "none", "begun", "written"

index == <<entry, owner>>
kvars == <<stage, user, files, index, record>>

KInit ==
    /\ stage = [p \in Procs |-> "out"]
    /\ user = None
    /\ files = [v \in Versions |-> {}]
    /\ entry = [v \in Versions |-> None]
    /\ owner = [b \in Bodies |-> None]
    /\ record = [v \in Versions |-> "none"]

Becomes(p, s) == stage' = [stage EXCEPT ![p] = s]

\* A download puts one of its version's files into the directory.
PutFile(p) ==
    /\ stage[p] = "out" /\ Role[p] # "identify"
    /\ \E f \in Files : files' = [files EXCEPT ![Target[p]] = @ \cup {f}]
    /\ UNCHANGED <<stage, user, index, record>>

BeginLookup(p) ==
    /\ stage[p] = "out" /\ Role[p] # "download" /\ user = None
    /\ Becomes(p, "looking")
    /\ user' = p
    /\ UNCHANGED <<files, index, record>>

\* identify is done when it has looked; patch goes on with what it found.
EndLookup(p) ==
    /\ stage[p] = "looking" /\ user = p
    /\ Becomes(p, IF Role[p] = "identify" THEN "ok" ELSE "out")
    /\ user' = None
    /\ UNCHANGED <<files, index, record>>

\* Nothing is indexed before all of it is on disk.
BeginAdd(p) ==
    /\ stage[p] = "out" /\ Role[p] # "identify" /\ user = None
    /\ files[Target[p]] = Files
    /\ Becomes(p, "adding")
    /\ user' = p
    /\ UNCHANGED <<files, index, record>>

\* At once, symbols of a build of the version, or such as a file torn by
\* others has, and the BuildID where the file has one: its owner is then the
\* version.
Add(p) ==
    /\ stage[p] = "adding" /\ user = p
    /\ LET own == {b \in Bodies : b[1] = Target[p]}
       IN  /\ \E s \in own \cup {Junk} : entry' = [entry EXCEPT ![Target[p]] = s]
           /\ \/ \E b \in own : owner' = [owner EXCEPT ![b] = Target[p]]
              \/ UNCHANGED owner
    /\ Becomes(p, "added")
    /\ UNCHANGED <<user, files, record>>

BeginRecord(p) ==
    /\ stage[p] = "added" /\ user = p
    /\ record' = [record EXCEPT ![Target[p]] = "begun"]
    /\ Becomes(p, "recording")
    /\ UNCHANGED <<user, files, index>>

\* A download succeeds with its manifest; the lock goes with it.
EndRecord(p) ==
    /\ stage[p] = "recording" /\ user = p
    /\ record' = [record EXCEPT ![Target[p]] = "written"]
    /\ Becomes(p, IF Role[p] = "download" THEN "ok" ELSE "out")
    /\ user' = None
    /\ UNCHANGED <<files, index>>

\* patch succeeds with a libc and a loader.
Use(p) ==
    /\ stage[p] = "out" /\ Role[p] = "patch"
    /\ files[Target[p]] = Files
    /\ Becomes(p, "ok")
    /\ UNCHANGED <<user, files, index, record>>

\* A command may fail, or be killed, anywhere.  It is at the index no longer;
\* what it put there and into the directory stays.
Fail(p) ==
    /\ stage[p] \notin {"ok", "failed"}
    /\ Becomes(p, "failed")
    /\ user' = IF user = p THEN None ELSE user
    /\ UNCHANGED <<files, index, record>>

KNext == \E p \in Procs :
    \/ PutFile(p) \/ BeginLookup(p) \/ EndLookup(p)
    \/ BeginAdd(p) \/ Add(p) \/ BeginRecord(p) \/ EndRecord(p)
    \/ Use(p) \/ Fail(p)

KSpec == KInit /\ [][KNext]_kvars

\* No command, however it ends, takes away a file, an index entry or a record
\* that some command put there.
NothingGoes ==
    [][\A v \in Versions :
          /\ files[v] \subseteq files'[v]
          /\ entry[v] # None => entry'[v] # None
          /\ record[v] # "none" => record'[v] # "none"]_kvars
=============================================================================
