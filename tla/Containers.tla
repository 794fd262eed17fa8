----------------------------- MODULE Containers -----------------------------
(***************************************************************************)
(* `pwnlibc build` and `pwnlibc run`: containers started through the       *)
(* docker CLI (internal/buildsrc, internal/cli build.go, run.go,           *)
(* dockerutil.go).                                                         *)
(*                                                                         *)
(* A build is three parties: the command, which reads its child's output   *)
(* line by line; the docker CLI, its child, which a limit of two hours     *)
(* kills; and the container, which the daemon runs and which outlives the  *)
(* CLI.  The CLI's output is a pipe of bounded capacity: once the command  *)
(* stops reading, the container's next line blocks.  The daemon, the CLI   *)
(* and the container are external.                                         *)
(***************************************************************************)
EXTENDS Versions, FiniteSets

CONSTANTS Builds, Runs,  \* the commands
          Version,       \* the version each one is for
          Dir,           \* a build's output directory, a run binary's: <<root, rest>>
          HostRoots,     \* HOST_LIBS_DIR and HOST_WORKDIR_DIR, by root, None if unset
          NoDocker,      \* the builds given --no-docker
          NoPatch,       \* the runs given --no-patch
          LibDir,        \* the directory a patched binary's interpreter is in
          Files,         \* what `make install` writes
          Cap,           \* how many lines the pipe holds
          Lines,         \* bound: the lines a container writes before its last
          Orders,        \* which build may be started after which other: functions
          DefaultImage,  \* ubuntu:22.04
          None

ASSUME CapAssumption   == Cap \in Nat \ {0}
ASSUME LinesAssumption == Lines \in Nat
ASSUME NamesAssumption == None \notin Builds /\ Builds \cap Runs = {}
ASSUME OrderAssumption == Orders \subseteq [Builds -> Builds \cup {None}]

VARIABLES bpc,      \* where the build command is
          limit,    \* its context of two hours: "live" or "expired"
          cli,      \* its docker CLI: "lost" when it died before its container's end
          ctr,      \* its container
          pipe,     \* the lines between the two
          saw,      \* sawOK
          printed,  \* how many lines the container has printed
          odd,      \* ghost: one was over-long, or glued to the sentinel
          wrote,    \* the files it has installed
          out,      \* who wrote each file of each directory last, on the host
          after,    \* the build each one is a retry of
          box       \* the container of each run

boxed == <<ctr, printed, odd, wrote, out>>
bvars == <<bpc, limit, cli, pipe, saw, boxed, after>>
cvars == <<bvars, box>>

\* A line of ordinary length, one over the scanner's 1 MiB, the sentinel, and
\* the sentinel behind output that did not end its line.
LineKinds == {"log", "long", "ok", "glued"}

Returned(p) == bpc[p] \in {"done", "failed"}
Working(p)  == ctr[p] \in {"make", "install"}

\* Nobody stays with p's container until it ends.
CutOff(p) == limit[p] = "expired" \/ cli[p] = "lost"

\* hostPath: the daemon's name for a directory under a root whose name on the
\* host is known.
HostPath(dir) ==
    IF dir[1] \in DOMAIN HostRoots /\ HostRoots[dir[1]] # None
    THEN <<HostRoots[dir[1]], dir[2]>> ELSE None

DirOf(p) == HostPath(Dir[p])
HostDirs == {DirOf(p) : p \in Builds} \ {None}

ContainersTypeOK ==
    /\ bpc \in [Builds -> {"start", "scan", "wait", "done", "failed"}]
    /\ limit \in [Builds -> {"live", "expired"}]
    /\ cli \in [Builds -> {"none", "up", "ok", "bad", "lost"}]
    /\ ctr \in [Builds -> {"none", "make", "install", "ok", "bad"}]
    /\ pipe \in [Builds -> Seq(LineKinds)]
    /\ saw \in [Builds -> BOOLEAN]
    /\ odd \in [Builds -> BOOLEAN]
    /\ printed \in [Builds -> Nat]
    /\ wrote \in [Builds -> SUBSET Files]
    /\ out \in [HostDirs -> [Files -> Builds \cup {None}]]
    /\ after \in [Builds -> Builds \cup {None}]

ContainersInit ==
    /\ bpc = [p \in Builds |-> "start"]
    /\ limit = [p \in Builds |-> "live"]
    /\ cli = [p \in Builds |-> "none"]
    /\ ctr = [p \in Builds |-> "none"]
    /\ pipe = [p \in Builds |-> <<>>]
    /\ saw = [p \in Builds |-> FALSE]
    /\ printed = [p \in Builds |-> 0]
    /\ odd = [p \in Builds |-> FALSE]
    /\ wrote = [p \in Builds |-> {}]
    /\ out = [d \in HostDirs |-> [f \in Files |-> None]]
    /\ after \in Orders
    /\ box = [r \in Runs |-> None]
-----------------------------------------------------------------------------
(***************************************************************************)
(* The build command.                                                      *)
(***************************************************************************)

\* What is refused before docker is asked: --no-docker, a directory the daemon
\* cannot reach, a version no image is known for.
Refused(p) == p \in NoDocker \/ DirOf(p) = None \/ ImageFor(Version[p]) = NoImage

\* newBuildCmd up to the scan: docker may not be reachable, or not start.
StartBuild(p) ==
    /\ bpc[p] = "start"
    /\ after[p] # None => Returned(after[p])
    /\ \/ /\ bpc' = [bpc EXCEPT ![p] = "failed"]
          /\ UNCHANGED cli
       \/ /\ ~Refused(p)
          /\ bpc' = [bpc EXCEPT ![p] = "scan"]
          /\ cli' = [cli EXCEPT ![p] = "up"]
    /\ UNCHANGED <<limit, pipe, saw, boxed, after, box>>

\* Mutant: an over-long line is an error to return at once.
ScanReturns(p) ==
    /\ bpc[p] = "scan" /\ pipe[p] # <<>>
    /\ IF Head(pipe[p]) = "long"
       THEN bpc' = [bpc EXCEPT ![p] = "failed"] /\ UNCHANGED <<pipe, saw>>
       ELSE /\ pipe' = [pipe EXCEPT ![p] = Tail(@)]
            /\ saw' = [saw EXCEPT ![p] = @ \/ Head(pipe[p]) = "ok"]
            /\ UNCHANGED bpc
    /\ UNCHANGED <<limit, cli, boxed, after, box>>

\* One turn of the scan loop.  A line over 1 MiB ends it, like the end of the
\* output: its rest and what comes behind stay in the pipe.
Scan(p) ==
    /\ bpc[p] = "scan" /\ pipe[p] # <<>>
    /\ IF Head(pipe[p]) = "long"
       THEN bpc' = [bpc EXCEPT ![p] = "wait"] /\ UNCHANGED <<pipe, saw>>
       ELSE /\ pipe' = [pipe EXCEPT ![p] = Tail(@)]
            /\ saw' = [saw EXCEPT ![p] = @ \/ Head(pipe[p]) = "ok"]
            /\ UNCHANGED bpc
    /\ UNCHANGED <<limit, cli, boxed, after, box>>

\* Mutant: the loop ends with the child, whatever the pipe still holds.
ScanEOFEarly(p) ==
    /\ bpc[p] = "scan" /\ cli[p] # "up"
    /\ bpc' = [bpc EXCEPT ![p] = "wait"]
    /\ UNCHANGED <<limit, cli, pipe, saw, boxed, after, box>>

\* The loop ends at the end of the output.
ScanEOF(p) ==
    /\ bpc[p] = "scan" /\ cli[p] # "up" /\ pipe[p] = <<>>
    /\ bpc' = [bpc EXCEPT ![p] = "wait"]
    /\ UNCHANGED <<limit, cli, pipe, saw, boxed, after, box>>

\* cmd.Wait, once the child has exited: its exit status, the context's error,
\* then the sentinel.
WaitForCLI(p) ==
    /\ bpc[p] = "wait" /\ cli[p] # "up"
    /\ bpc' = [bpc EXCEPT ![p] = IF cli[p] = "ok" /\ limit[p] = "live" /\ saw[p]
                                 THEN "done" ELSE "failed"]
    /\ UNCHANGED <<limit, cli, pipe, saw, boxed, after, box>>

\* Mutant: exec.Command, which no context bounds.
ExpireUnbound(p) ==
    /\ bpc[p] \in {"scan", "wait"} /\ limit[p] = "live"
    /\ limit' = [limit EXCEPT ![p] = "expired"]
    /\ UNCHANGED <<bpc, cli, pipe, saw, boxed, after, box>>

\* Two hours have passed: CommandContext kills the CLI.  The container goes on.
Expire(p) ==
    /\ bpc[p] \in {"scan", "wait"} /\ limit[p] = "live"
    /\ limit' = [limit EXCEPT ![p] = "expired"]
    /\ cli' = [cli EXCEPT ![p] = IF @ = "up" THEN "bad" ELSE @]
    /\ UNCHANGED <<bpc, pipe, saw, boxed, after, box>>
-----------------------------------------------------------------------------
(***************************************************************************)
(* The docker CLI and the container, which runs buildScript.               *)
(***************************************************************************)

\* A line reaches the pipe if it has room, and nobody once the CLI is gone.
Write(p, line) ==
    /\ cli[p] = "up" => Len(pipe[p]) < Cap
    /\ pipe' = IF cli[p] = "up" THEN [pipe EXCEPT ![p] = Append(@, line)] ELSE pipe

CreateContainer(p) ==
    /\ cli[p] = "up" /\ ctr[p] = "none"
    /\ ctr' = [ctr EXCEPT ![p] = "make"]
    /\ UNCHANGED <<bpc, limit, cli, pipe, saw, printed, odd, wrote, out, after, box>>

Log(p, line) ==
    /\ Working(p) /\ printed[p] < Lines
    /\ Write(p, line)
    /\ printed' = [printed EXCEPT ![p] = @ + 1]
    /\ odd' = [odd EXCEPT ![p] = @ \/ line = "long"]
    /\ UNCHANGED <<bpc, limit, cli, saw, ctr, wrote, out, after, box>>

StartInstall(p) ==
    /\ ctr[p] = "make"
    /\ ctr' = [ctr EXCEPT ![p] = "install"]
    /\ UNCHANGED <<bpc, limit, cli, pipe, saw, printed, odd, wrote, out, after, box>>

\* `make install DESTDIR=/out` writes into the directory mounted there.
InstallFile(p, f) ==
    /\ ctr[p] = "install" /\ f \notin wrote[p]
    /\ wrote' = [wrote EXCEPT ![p] = @ \cup {f}]
    /\ out' = [out EXCEPT ![DirOf(p)][f] = p]
    /\ UNCHANGED <<bpc, limit, cli, pipe, saw, ctr, printed, odd, after, box>>

\* Under `set -euo pipefail` a step that fails is the script's last.
Break(p) ==
    /\ Working(p)
    /\ ctr' = [ctr EXCEPT ![p] = "bad"]
    /\ UNCHANGED <<bpc, limit, cli, pipe, saw, printed, odd, wrote, out, after, box>>

\* Mutant: no pipefail, and `| tee` hides that `make install` failed.
FinishAnyway(p) ==
    /\ ctr[p] = "install"
    /\ \E line \in {"ok", "glued"} :
          /\ Write(p, line)
          /\ odd' = [odd EXCEPT ![p] = @ \/ line = "glued"]
    /\ ctr' = [ctr EXCEPT ![p] = "ok"]
    /\ UNCHANGED <<bpc, limit, cli, saw, printed, wrote, out, after, box>>

\* Everything is installed: the sentinel, behind an unfinished line or not.
Finish(p) ==
    /\ ctr[p] = "install" /\ wrote[p] = Files
    /\ \E line \in {"ok", "glued"} :
          /\ Write(p, line)
          /\ odd' = [odd EXCEPT ![p] = @ \/ line = "glued"]
    /\ ctr' = [ctr EXCEPT ![p] = "ok"]
    /\ UNCHANGED <<bpc, limit, cli, saw, printed, wrote, out, after, box>>

\* The CLI ends with its container, and has no container to show for a failure.
CLIExits(p) ==
    /\ cli[p] = "up" /\ ~Working(p)
    /\ cli' = [cli EXCEPT ![p] = IF ctr[p] = "ok" THEN "ok" ELSE "bad"]
    /\ UNCHANGED <<bpc, limit, pipe, saw, boxed, after, box>>

\* Or it dies, or loses the daemon, and the container goes on.
CLIDies(p) ==
    /\ cli[p] = "up"
    /\ cli' = [cli EXCEPT ![p] = "lost"]
    /\ UNCHANGED <<bpc, limit, pipe, saw, boxed, after, box>>
-----------------------------------------------------------------------------
(***************************************************************************)
(* The run command, behind the download and the patch (modules Store and   *)
(* Patch): a container with the binary's directory at /chal, removed when  *)
(* it ends.                                                                *)
(***************************************************************************)
Launch(r) ==
    /\ box[r] = None /\ HostPath(Dir[r]) # None
    /\ box' = [box EXCEPT ![r] =
                 [image  |-> IF ImageFor(Version[r]) = NoImage THEN DefaultImage
                             ELSE ImageFor(Version[r]),
                  mounts |-> {[host |-> HostPath(Dir[r]), at |-> <<"/chal", "">>]}]]
    /\ UNCHANGED bvars

RunReturns(r) ==
    /\ box[r] # None
    /\ box' = [box EXCEPT ![r] = None]
    /\ UNCHANGED bvars
-----------------------------------------------------------------------------
Command(p) == Scan(p) \/ ScanEOF(p) \/ WaitForCLI(p)

ContainersNext ==
    \/ \E p \in Builds :
          \/ StartBuild(p) \/ Command(p) \/ Expire(p)
          \/ CreateContainer(p) \/ StartInstall(p) \/ Break(p) \/ Finish(p) \/ CLIExits(p) \/ CLIDies(p)
          \/ \E line \in {"log", "long"} : Log(p, line)
          \/ \E f \in Files : InstallFile(p, f)
    \/ \E r \in Runs : Launch(r) \/ RunReturns(r)

ContainersSpec == ContainersInit /\ [][ContainersNext]_cvars

\* The scheduler runs the command and its timer fires; the daemon and the
\* container promise nothing.
CommandsRun == \A p \in Builds : WF_bvars(Command(p)) /\ WF_bvars(Expire(p))
-----------------------------------------------------------------------------
(***************************************************************************)
(* What build promises.                                                    *)
(***************************************************************************)

\* A build that reports success had a container that ended well and installed
\* every file; and a file in its directory is not from the failed build it is
\* a retry of, unless that one was cut off: by its limit, which leaves its
\* container at work (buildsrc.go:130: the context kills the CLI only), or by the
\* death of its CLI, which to cmd.Wait is the container's own failure.
BuildSound ==
    \A p \in Builds : bpc[p] = "done" =>
        /\ ctr[p] = "ok"
        /\ wrote[p] = Files
        /\ \A f \in Files :
              /\ out[DirOf(p)][f] # None
              /\ after[p] # None /\ out[DirOf(p)][f] = after[p] => CutOff(after[p])

\* No container outlives its command but by that command's limit, or because the
\* CLI died before it: whatever goes wrong with the output or in the container,
\* build returns behind its child's exit (buildsrc.go:155), and the child's
\* behind the container's.
LeftRunningHasCause ==
    \A p \in Builds : Returned(p) /\ Working(p) => CutOff(p)

\* A build whose container ended well is reported failed only past its limit, or
\* for a CLI that died, or for a line the scanner could not take (buildsrc.go:144) or the sentinel
\* not at the start of its line (buildsrc.go:150).
FailureHasCause ==
    \A p \in Builds : bpc[p] = "failed" /\ ctr[p] = "ok" => CutOff(p) \/ odd[p]

\* Every build that was started returns, though nobody reads a pipe that is
\* full, or the container hangs: the limit ends its wait (build.go:51).
BuildReturns == \A p \in Builds : bpc[p] # "start" ~> Returned(p)

\* `run` exists "to reproduce a challenge immediately" (run.go:24): the
\* interpreter of the copy it patched is a path its container knows.
RunFindsLoader ==
    \A r \in Runs \ NoPatch : box[r] # None => \E m \in box[r].mounts : m.at = LibDir[r]
=============================================================================
