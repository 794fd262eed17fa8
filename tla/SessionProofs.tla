--------------------------- MODULE SessionProofs ---------------------------
(***************************************************************************)
(* Proofs about Session, for any builds, directories, files, images, pipe  *)
(* capacity, mirrors, commands and networks: what a build that reports     *)
(* success, or failure, or that has returned, says of its container; and   *)
(* what the answers of the reading commands say.                           *)
(***************************************************************************)
EXTENDS Session, MirrorsProofs, FiniteSetTheorems

USE CapAssumption, LinesAssumption, NamesAssumption, OrderAssumption

\* The lines of the pipe that the scanner takes and finds no fault with.
Even(s) == \A k \in 1 .. Len(s) : s[k] \in {"log", "ok"}

\* Where the command, the CLI and the container of one build may stand.
Own(p) ==
    /\ bpc[p] = "start" => cli[p] = "none" /\ limit[p] = "live"
    /\ cli[p] = "none" => bpc[p] \in {"start", "failed"} /\ ctr[p] = "none"
    /\ cli[p] # "none" => ~Refused(p)
    /\ Returned(p) => cli[p] # "up"
    /\ Working(p) /\ cli[p] # "up" => CutOff(p)
    /\ cli[p] = "ok" => ctr[p] = "ok"
    /\ cli[p] = "bad" /\ ~CutOff(p) => ctr[p] \in {"none", "bad"}
    /\ ctr[p] = "none" => wrote[p] = {}
    /\ ctr[p] = "ok" => wrote[p] = Files
    /\ bpc[p] = "done" => cli[p] = "ok"

\* As long as no line was odd, nothing is lost between container and command.
Heard(p) ==
    /\ ~odd[p] => Even(pipe[p])
    /\ ~odd[p] /\ bpc[p] = "wait" => pipe[p] = <<>> /\ cli[p] # "up"
    /\ ctr[p] = "ok" /\ ~odd[p] /\ ~CutOff(p) =>
          saw[p] \/ \E k \in 1 .. Len(pipe[p]) : pipe[p][k] = "ok"

\* A retry's files are its own, unless the build before was cut off.
Succession(p) ==
    /\ \A f \in wrote[p] : out[DirOf(p)][f] # None
    /\ after[p] # None /\ bpc[p] # "start" => Returned(after[p])
    /\ after[p] # None /\ ~CutOff(after[p]) =>
          \A f \in wrote[p] : out[DirOf(p)][f] # after[p]

IInv ==
    /\ ContainersTypeOK
    /\ \A p \in Builds : Own(p) /\ Heard(p) /\ Succession(p)
    /\ FailureHasCause

LEMMA PipeTail ==
    ASSUME NEW s \in Seq(LineKinds), s # <<>>
    PROVE  /\ Tail(s) \in Seq(LineKinds) /\ Head(s) = s[1] /\ Head(s) \in LineKinds
           /\ Len(s) \in Nat \ {0} /\ Len(Tail(s)) = Len(s) - 1
           /\ \A k \in 1 .. Len(s) - 1 : Tail(s)[k] = s[k + 1]
OBVIOUS

LEMMA PipeAppend ==
    ASSUME NEW s \in Seq(LineKinds), NEW e \in LineKinds
    PROVE  /\ Append(s, e) \in Seq(LineKinds)
           /\ Len(s) \in Nat /\ Len(Append(s, e)) = Len(s) + 1
           /\ Append(s, e)[Len(s) + 1] = e
           /\ \A k \in 1 .. Len(s) : Append(s, e)[k] = s[k]
OBVIOUS

LEMMA InitInvariant == ContainersInit => IInv
<1> SUFFICES ASSUME ContainersInit PROVE IInv
  OBVIOUS
<1>1. ContainersTypeOK
  BY DEF ContainersInit, ContainersTypeOK
<1>2. ASSUME NEW p \in Builds PROVE Own(p) /\ Heard(p) /\ Succession(p)
  BY DEF ContainersInit, Own, Heard, Even, Succession, Returned, Working
<1>3. FailureHasCause
  BY DEF ContainersInit, FailureHasCause
<1> QED BY <1>1, <1>2, <1>3 DEF IInv

\* One party's step of build p.
StepOf(p) ==
    \/ StartBuild(p) \/ Command(p) \/ Expire(p)
    \/ CreateContainer(p) \/ StartInstall(p) \/ Break(p) \/ Finish(p) \/ CLIExits(p) \/ CLIDies(p)
    \/ \E line \in {"log", "long"} : Log(p, line)
    \/ \E f \in Files : InstallFile(p, f)

LEMMA TypeStep ==
    ASSUME ContainersTypeOK, NEW p \in Builds, Own(p), StepOf(p)
    PROVE  ContainersTypeOK'
<1> USE DEF ContainersTypeOK, LineKinds
<1>1. CASE StartBuild(p)
  BY <1>1 DEF StartBuild, boxed
<1>2. CASE Scan(p)
  <2>1. CASE Head(pipe[p]) = "long"
    BY <1>2, <2>1 DEF Scan, boxed
  <2>2. CASE Head(pipe[p]) # "long"
    <3>1. pipe' \in [Builds -> Seq(LineKinds)]
      <4>1. pipe[p] \in Seq(LineKinds) /\ pipe[p] # <<>>
        BY <1>2 DEF Scan
      <4>2. Tail(pipe[p]) \in Seq(LineKinds)
        BY <4>1, PipeTail
      <4>3. pipe' = [pipe EXCEPT ![p] = Tail(pipe[p])]
        BY <1>2, <2>2 DEF Scan
      <4> QED BY <4>2, <4>3
    <3>2. saw' \in [Builds -> BOOLEAN]
      BY <1>2, <2>2 DEF Scan
    <3> QED BY <1>2, <2>2, <3>1, <3>2 DEF Scan, boxed
  <2> QED BY <2>1, <2>2
<1>3. CASE ScanEOF(p) \/ WaitForCLI(p) \/ Expire(p) \/ CLIExits(p) \/ CLIDies(p)
  BY <1>3 DEF ScanEOF, WaitForCLI, Expire, CLIExits, CLIDies, boxed
<1>4. CASE CreateContainer(p) \/ StartInstall(p) \/ Break(p)
  BY <1>4 DEF CreateContainer, StartInstall, Break
<1>5. CASE Finish(p)
  BY <1>5 DEF Finish, Write
<1>6. ASSUME NEW line \in {"log", "long"}, Log(p, line) PROVE ContainersTypeOK'
  BY <1>6 DEF Log, Write
<1>7. ASSUME NEW f \in Files, InstallFile(p, f) PROVE ContainersTypeOK'
  <2>1. DirOf(p) \in HostDirs
    BY <1>7 DEF InstallFile, Own, Refused, HostDirs
  <2>2. out' \in [HostDirs -> [Files -> Builds \cup {None}]]
    BY <1>7, <2>1 DEF InstallFile
  <2> QED BY <1>7, <2>2 DEF InstallFile
<1> QED BY <1>1, <1>2, <1>3, <1>4, <1>5, <1>6, <1>7 DEF StepOf, Command

LEMMA OwnStep ==
    ASSUME ContainersTypeOK, NEW p \in Builds, Own(p), StepOf(p)
    PROVE  Own(p)'
<1> USE DEF ContainersTypeOK, Own, Returned, Working, CutOff
<1>0. Refused(p)' = Refused(p)
  BY DEF Refused
<1>1. CASE StartBuild(p)
  BY <1>0, <1>1 DEF StartBuild, boxed
<1>2. CASE Scan(p)
  BY <1>0, <1>2 DEF Scan, boxed
<1>3. CASE ScanEOF(p) \/ WaitForCLI(p)
  BY <1>0, <1>3 DEF ScanEOF, WaitForCLI, boxed
<1>4. CASE Expire(p) \/ CLIExits(p) \/ CLIDies(p)
  BY <1>0, <1>4 DEF Expire, CLIExits, CLIDies, boxed
<1>5. CASE CreateContainer(p) \/ StartInstall(p) \/ Break(p)
  BY <1>0, <1>5 DEF CreateContainer, StartInstall, Break
<1>6. CASE Finish(p)
  BY <1>0, <1>6 DEF Finish
<1>7. ASSUME NEW line \in {"log", "long"}, Log(p, line) PROVE Own(p)'
  BY <1>0, <1>7 DEF Log
<1>8. ASSUME NEW f \in Files, InstallFile(p, f) PROVE Own(p)'
  BY <1>0, <1>8 DEF InstallFile
<1> QED BY <1>1, <1>2, <1>3, <1>4, <1>5, <1>6, <1>7, <1>8 DEF StepOf, Command

\* What a line written does to the pipe, and to what is true of its lines.
WriteOf(p, line) ==
    IF cli[p] = "up"
    THEN /\ Even(pipe[p]) /\ line \in {"log", "ok"} => Even(pipe'[p])
         /\ \/ \E k \in 1 .. Len(pipe[p]) : pipe[p][k] = "ok"
            \/ line = "ok"
            => \E k \in 1 .. Len(pipe'[p]) : pipe'[p][k] = "ok"
    ELSE pipe'[p] = pipe[p]

LEMMA WriteStep ==
    ASSUME ContainersTypeOK, NEW p \in Builds, NEW line \in LineKinds, Write(p, line)
    PROVE  WriteOf(p, line)
<1> DEFINE s == pipe[p]
           t == pipe'[p]
<1>1. s \in Seq(LineKinds)
  BY DEF ContainersTypeOK
<1>2. t = IF cli[p] = "up" THEN Append(s, line) ELSE s
  BY DEF Write, ContainersTypeOK
<1> HIDE DEF s, t
<1>3. CASE cli[p] = "up"
  <2>1. /\ Len(s) \in Nat /\ Len(t) = Len(s) + 1 /\ t[Len(s) + 1] = line
        /\ \A k \in 1 .. Len(s) : t[k] = s[k]
    BY <1>1, <1>2, <1>3, PipeAppend
  <2>2. Even(s) /\ line \in {"log", "ok"} => Even(t)
    BY <2>1 DEF Even
  <2>3. (\E k \in 1 .. Len(s) : s[k] = "ok") \/ line = "ok"
        => \E k \in 1 .. Len(t) : t[k] = "ok"
    BY <2>1
  <2> QED BY <1>3, <2>2, <2>3 DEF WriteOf, s, t
<1>4. CASE cli[p] # "up"
  BY <1>2, <1>4 DEF WriteOf, s, t
<1> QED BY <1>3, <1>4

LEMMA HeardStep ==
    ASSUME ContainersTypeOK, NEW p \in Builds, Own(p), Heard(p), StepOf(p)
    PROVE  Heard(p)'
<1> USE DEF ContainersTypeOK, Heard, LineKinds, CutOff
<1>1. CASE StartBuild(p)
  BY <1>1 DEF StartBuild, boxed, Own
<1>2. CASE Scan(p)
  <2>1. CASE Head(pipe[p]) = "long"
    <3>1. odd[p]
      <4>1. pipe[p] \in Seq(LineKinds) /\ pipe[p] # <<>>
        BY <1>2 DEF Scan
      <4>2. 1 \in 1 .. Len(pipe[p]) /\ pipe[p][1] = "long"
        BY <2>1, <4>1, PipeTail
      <4> QED BY <4>2 DEF Even
    <3> QED BY <1>2, <2>1, <3>1 DEF Scan, boxed
  <2>2. CASE Head(pipe[p]) # "long"
    <3>1. /\ pipe'[p] = Tail(pipe[p]) /\ saw'[p] = (saw[p] \/ Head(pipe[p]) = "ok")
          /\ bpc'[p] = "scan"
      BY <1>2, <2>2 DEF Scan
    <3>2. /\ pipe[p] # <<>> /\ odd'[p] = odd[p] /\ limit'[p] = limit[p]
          /\ ctr'[p] = ctr[p] /\ cli'[p] = cli[p]
      BY <1>2 DEF Scan, boxed
    <3>3. ~odd[p] => Even(Tail(pipe[p]))
      BY <3>2, PipeTail DEF Even
    <3>4. ASSUME NEW k \in 1 .. Len(pipe[p]), pipe[p][k] = "ok"
          PROVE  saw'[p] \/ \E j \in 1 .. Len(Tail(pipe[p])) : Tail(pipe[p])[j] = "ok"
      <4>1. CASE k = 1
        BY <3>1, <3>2, <3>4, <4>1, PipeTail
      <4>2. CASE k # 1
        <5>1. k - 1 \in 1 .. Len(Tail(pipe[p])) /\ Tail(pipe[p])[k - 1] = "ok"
          BY <3>2, <3>4, <4>2, PipeTail
        <5> QED BY <5>1
      <4> QED BY <4>1, <4>2
    <3>5. saw[p] => saw'[p]
      BY <3>1
    <3> QED BY <3>1, <3>2, <3>3, <3>4, <3>5
  <2> QED BY <2>1, <2>2
<1>3. CASE ScanEOF(p) \/ WaitForCLI(p)
  BY <1>3 DEF ScanEOF, WaitForCLI, boxed
<1>4. CASE Expire(p) \/ CLIExits(p) \/ CLIDies(p)
  BY <1>4 DEF Expire, CLIExits, CLIDies, boxed
<1>5. CASE CreateContainer(p) \/ StartInstall(p) \/ Break(p)
  BY <1>5 DEF CreateContainer, StartInstall, Break
<1>6. CASE Finish(p)
  <2> PICK line \in {"ok", "glued"} :
        Write(p, line) /\ odd' = [odd EXCEPT ![p] = @ \/ line = "glued"]
    BY <1>6 DEF Finish
  <2>1. WriteOf(p, line) /\ odd'[p] = (odd[p] \/ line = "glued")
    BY WriteStep
  <2>2. /\ ctr[p] = "install" /\ ctr'[p] = "ok"
        /\ bpc'[p] = bpc[p] /\ cli'[p] = cli[p] /\ limit'[p] = limit[p] /\ saw'[p] = saw[p]
    BY <1>6 DEF Finish
  <2>3. CASE cli[p] = "up"
    <3>1. ~odd'[p] => Even(pipe'[p])
      BY <2>1, <2>3 DEF WriteOf
    <3>2. ~(~odd'[p] /\ bpc'[p] = "wait")
      BY <2>1, <2>2, <2>3
    <3>3. ctr'[p] = "ok" /\ ~odd'[p] /\ ~CutOff(p)' =>
             saw'[p] \/ \E k \in 1 .. Len(pipe'[p]) : pipe'[p][k] = "ok"
      BY <2>1, <2>2, <2>3 DEF WriteOf
    <3> QED BY <3>1, <3>2, <3>3
  <2>4. CASE cli[p] # "up"
    BY <2>1, <2>2, <2>4 DEF WriteOf, Own, Working
  <2> QED BY <2>3, <2>4
<1>7. ASSUME NEW line \in {"log", "long"}, Log(p, line) PROVE Heard(p)'
  <2>1. WriteOf(p, line) /\ odd'[p] = (odd[p] \/ line = "long")
    BY <1>7, WriteStep DEF Log
  <2>2. /\ Working(p) /\ ctr'[p] = ctr[p]
        /\ bpc'[p] = bpc[p] /\ cli'[p] = cli[p] /\ limit'[p] = limit[p] /\ saw'[p] = saw[p]
    BY <1>7 DEF Log
  <2>3. CASE cli[p] = "up"
    <3>1. ~odd'[p] => Even(pipe'[p])
      BY <2>1, <2>3 DEF WriteOf
    <3>2. ~(~odd'[p] /\ bpc'[p] = "wait")
      BY <2>1, <2>2, <2>3
    <3>3. ctr'[p] = "ok" /\ ~odd'[p] /\ ~CutOff(p)' =>
             saw'[p] \/ \E k \in 1 .. Len(pipe'[p]) : pipe'[p][k] = "ok"
      BY <2>1, <2>2, <2>3 DEF WriteOf, Working
    <3> QED BY <3>1, <3>2, <3>3
  <2>4. CASE cli[p] # "up"
    BY <2>1, <2>2, <2>4 DEF WriteOf, Own, Working
  <2> QED BY <2>3, <2>4
<1>8. ASSUME NEW f \in Files, InstallFile(p, f) PROVE Heard(p)'
  BY <1>8 DEF InstallFile
<1> QED BY <1>1, <1>2, <1>3, <1>4, <1>5, <1>6, <1>7, <1>8 DEF StepOf, Command

\* Another build's step leaves this one's own state alone.
LEMMA OthersStep ==
    ASSUME ContainersTypeOK, NEW p \in Builds, NEW q \in Builds, q # p, StepOf(p)
    PROVE  /\ bpc'[q] = bpc[q] /\ limit'[q] = limit[q] /\ cli'[q] = cli[q]
           /\ ctr'[q] = ctr[q] /\ pipe'[q] = pipe[q] /\ saw'[q] = saw[q]
           /\ odd'[q] = odd[q] /\ wrote'[q] = wrote[q]
BY DEF ContainersTypeOK, StepOf, Command, StartBuild, Scan, ScanEOF, WaitForCLI, Expire,
       CreateContainer, StartInstall, Break, Finish, CLIExits, CLIDies, Log, InstallFile, Write, boxed

\* What a step does to the files, the limits and the order of the builds.
LEMMA StepFrame ==
    ASSUME ContainersTypeOK, NEW p \in Builds, Own(p), StepOf(p)
    PROVE  /\ after' = after
           /\ CutOff(p) => CutOff(p)'
           /\ Returned(p) => Returned(p)'
           /\ bpc[p] = "start" => (bpc'[p] = "start" \/ (after[p] # None => Returned(after[p])))
           /\ bpc[p] # "start" => bpc'[p] # "start"
           /\ \/ out' = out /\ wrote' = wrote
              \/ \E f \in Files : InstallFile(p, f)
<1> USE DEF ContainersTypeOK, Returned, CutOff
<1>1. CASE StartBuild(p)
  BY <1>1 DEF StartBuild, Own, boxed
<1>5. CASE Command(p)
  <2>1. limit' = limit /\ cli' = cli /\ after' = after /\ out' = out /\ wrote' = wrote
    BY <1>5 DEF Command, Scan, ScanEOF, WaitForCLI, boxed
  <2>2. bpc[p] \in {"scan", "wait"} /\ bpc'[p] # "start"
    BY <1>5 DEF Command, Scan, ScanEOF, WaitForCLI
  <2> QED BY <2>1, <2>2
<1>2. CASE Expire(p) \/ CreateContainer(p) \/ StartInstall(p) \/ Break(p) \/ Finish(p)
           \/ CLIExits(p) \/ CLIDies(p)
  BY <1>2 DEF Expire, CreateContainer, StartInstall, Break, Finish, CLIExits, CLIDies, boxed
<1>3. ASSUME NEW line \in {"log", "long"}, Log(p, line)
      PROVE  /\ after' = after /\ limit' = limit /\ cli' = cli /\ bpc' = bpc
             /\ out' = out /\ wrote' = wrote
  BY <1>3 DEF Log
<1>4. ASSUME NEW f \in Files, InstallFile(p, f)
      PROVE  after' = after /\ limit' = limit /\ cli' = cli /\ bpc' = bpc
  BY <1>4 DEF InstallFile
<1> QED BY <1>1, <1>2, <1>3, <1>4, <1>5 DEF StepOf

LEMMA SuccessionStep ==
    ASSUME IInv, ContainersTypeOK', NEW p \in Builds, StepOf(p), NEW q \in Builds
    PROVE  Succession(q)'
<1> DEFINE a == after[q]
<1>1. ContainersTypeOK /\ Succession(q) /\ Own(q) /\ Own(p) /\ after' = after /\ DirOf(q)' = DirOf(q)
  BY StepFrame DEF IInv, DirOf, HostPath
<1>2. ASSUME a # None, bpc'[q] # "start" PROVE Returned(a)'
  <2>1. a \in Builds
    BY <1>1, <1>2 DEF ContainersTypeOK
  <2>2. Returned(a)
    BY <1>1, <1>2, StepFrame, OthersStep DEF Succession
  <2> QED BY <1>1, <2>1, <2>2, StepFrame, OthersStep DEF Returned
<1>3. a # None /\ ~CutOff(a)' => ~CutOff(a)
  BY <1>1, StepFrame, OthersStep DEF ContainersTypeOK, CutOff
<1>4. CASE out' = out /\ wrote' = wrote
  BY <1>1, <1>2, <1>3, <1>4 DEF Succession
<1>5. ASSUME NEW f \in Files, InstallFile(p, f) PROVE Succession(q)'
  <2>1. /\ DirOf(p) \in HostDirs /\ Working(p) /\ bpc[p] # "start"
        /\ wrote' = [wrote EXCEPT ![p] = @ \cup {f}]
        /\ out' = [out EXCEPT ![DirOf(p)][f] = p]
        /\ limit' = limit /\ bpc' = bpc
    BY <1>5 DEF InstallFile, IInv, Own, Refused, HostDirs, Working
  <2>2. wrote[q] # {} => DirOf(q) \in HostDirs /\ bpc[q] # "start"
    BY <1>1 DEF Own, Refused, HostDirs
  <2>3. ASSUME NEW g \in wrote'[q] PROVE out'[DirOf(q)][g] # None
    BY <1>1, <2>1, <2>2, <2>3 DEF Succession, ContainersTypeOK
  <2>4. ASSUME a # None, ~CutOff(a)', NEW g \in wrote'[q]
        PROVE  out'[DirOf(q)][g] # a
    <3>1. bpc[q] # "start" /\ a \in Builds /\ ~CutOff(a)
      BY <1>1, <1>3, <2>1, <2>2, <2>4 DEF ContainersTypeOK
    <3>2. Returned(a) /\ ~Working(a)
      BY <1>1, <2>4, <3>1 DEF Succession, IInv, Own
    <3>3. p # a
      BY <2>1, <3>2
    <3> QED BY <1>1, <2>1, <2>2, <2>4, <3>1, <3>3 DEF Succession, ContainersTypeOK
  <2> QED BY <1>1, <1>2, <2>3, <2>4 DEF Succession
<1> QED BY <1>1, <1>4, <1>5, StepFrame

\* The child has exited, and its whole output was heard: the answer is right.
LEMMA FailureStep ==
    ASSUME IInv, ContainersTypeOK', NEW p \in Builds, StepOf(p), Own(p)'
    PROVE  FailureHasCause'
<1> SUFFICES ASSUME NEW q \in Builds, bpc'[q] = "failed", ctr'[q] = "ok",
                    ~CutOff(q)', ~odd'[q]
             PROVE  FALSE
  BY DEF FailureHasCause
<1>1. ContainersTypeOK /\ Own(q) /\ Heard(q)
  BY DEF IInv
<1>2. q = p
  BY <1>1, OthersStep DEF IInv, FailureHasCause, CutOff
<1> USE DEF ContainersTypeOK, CutOff
<1>3. CASE StartBuild(p)
  BY <1>1, <1>2, <1>3 DEF StartBuild, boxed, Own
<1>4. CASE Scan(p) \/ ScanEOF(p)
  BY <1>1, <1>2, <1>4 DEF Scan, ScanEOF
<1>5. CASE WaitForCLI(p)
  BY <1>1, <1>2, <1>5 DEF WaitForCLI, boxed, Own, Heard
<1>6. bpc[p] = "failed" /\ ~CutOff(p) => ~Working(p) /\ cli[p] # "up"
  BY <1>1, <1>2 DEF Own, Returned
<1>7. bpc[p] = "failed" /\ ctr[p] = "ok" => CutOff(p) \/ odd[p]
  BY DEF IInv, FailureHasCause
<1>8. CASE Expire(p) \/ CreateContainer(p) \/ StartInstall(p) \/ Break(p) \/ Finish(p)
           \/ CLIExits(p) \/ CLIDies(p)
  BY <1>2, <1>6, <1>7, <1>8 DEF Expire, CreateContainer, StartInstall, Break, Finish, CLIExits, CLIDies,
     Working, boxed
<1>9. ASSUME NEW line \in {"log", "long"}, Log(p, line) PROVE FALSE
  BY <1>2, <1>6, <1>9 DEF Log
<1>10. ASSUME NEW f \in Files, InstallFile(p, f) PROVE FALSE
  BY <1>2, <1>6, <1>10 DEF InstallFile, Working
<1> QED BY <1>3, <1>4, <1>5, <1>8, <1>9, <1>10 DEF StepOf, Command

LEMMA StepInvariant == IInv /\ [ContainersNext]_cvars => IInv'
<1> SUFFICES ASSUME IInv, [ContainersNext]_cvars PROVE IInv'
  OBVIOUS
<1>1. ASSUME NEW p \in Builds, StepOf(p) PROVE IInv'
  <2>1. ContainersTypeOK /\ Own(p) /\ Heard(p)
    BY DEF IInv
  <2>2. ContainersTypeOK' /\ Own(p)' /\ Heard(p)'
    BY <1>1, <2>1, TypeStep, OwnStep, HeardStep
  <2>3. ASSUME NEW q \in Builds, q # p PROVE Own(q)' /\ Heard(q)'
    BY <1>1, <2>1, <2>3, OthersStep DEF IInv, Own, Heard, Returned, Working, Refused, CutOff
  <2>4. \A q \in Builds : Succession(q)'
    BY <1>1, <2>2, SuccessionStep
  <2>5. FailureHasCause'
    BY <1>1, <2>2, FailureStep
  <2> QED BY <2>2, <2>3, <2>4, <2>5 DEF IInv
<1>2. CASE UNCHANGED bvars
  <2>1. /\ bpc' = bpc /\ limit' = limit /\ cli' = cli /\ pipe' = pipe /\ saw' = saw
        /\ ctr' = ctr /\ printed' = printed /\ odd' = odd /\ wrote' = wrote /\ out' = out
        /\ after' = after
    BY <1>2 DEF bvars, boxed
  <2>2. ContainersTypeOK' /\ FailureHasCause'
    BY <2>1 DEF IInv, ContainersTypeOK, FailureHasCause, CutOff
  <2>3. ASSUME NEW p \in Builds PROVE Own(p)' /\ Heard(p)' /\ Succession(p)'
    BY <2>1 DEF IInv, Own, Heard, Succession, Returned, Working, Refused, DirOf, HostPath, CutOff
  <2> QED BY <2>2, <2>3 DEF IInv
<1> QED
  BY <1>1, <1>2 DEF ContainersNext, StepOf, Command, Launch, RunReturns, cvars

\* Every step of a session is one of its builds and runs, or leaves them alone.
LEMMA ContainersStep == [Next]_vars => [ContainersNext]_cvars
BY DEF Next, vars, Prepare, Run, ProbeNext, Diagnose

LEMMA Invariant == Spec => []IInv
<1>1. Init => IInv
  BY InitInvariant DEF Init
<1>2. IInv /\ [Next]_vars => IInv'
  BY StepInvariant, ContainersStep
<1> QED BY <1>1, <1>2, PTL DEF Spec
-----------------------------------------------------------------------------
(***************************************************************************)
(* Theorems.                                                               *)
(***************************************************************************)

\* The builds and runs of a session are those of Containers: a session implements
\* that specification.
THEOREM SessionImplementsContainers == Spec => ContainersSpec
<1>1. Init => ContainersInit
  BY DEF Init
<1> QED BY <1>1, ContainersStep, PTL DEF Spec, ContainersSpec

\* The commands, pipes, containers and directories keep to their types.
THEOREM TypeCorrect == Spec => []ContainersTypeOK
<1>1. IInv => ContainersTypeOK
  BY DEF IInv
<1> QED BY Invariant, <1>1, PTL

\* A success means a container that ended well and installed everything, and
\* only a build cut off by its limit or its CLI's death can get into its retry's
\* directory.
THEOREM SuccessIsSound == Spec => []BuildSound
<1>1. IInv => BuildSound
  <2> SUFFICES ASSUME IInv, NEW p \in Builds, bpc[p] = "done"
               PROVE  /\ ctr[p] = "ok"
                      /\ wrote[p] = Files
                      /\ \A f \in Files :
                            /\ out[DirOf(p)][f] # None
                            /\ after[p] # None /\ out[DirOf(p)][f] = after[p]
                               => CutOff(after[p])
    BY DEF BuildSound
  <2>1. ctr[p] = "ok" /\ wrote[p] = Files /\ Succession(p)
    BY DEF IInv, Own
  <2> QED BY <2>1 DEF Succession
<1> QED BY Invariant, <1>1, PTL

\* Only the limit or the CLI's death leaves a container at work behind a command
\* that returned.
THEOREM OnlyACutLeaves == Spec => []LeftRunningHasCause
<1>1. IInv => LeftRunningHasCause
  BY DEF IInv, Own, LeftRunningHasCause
<1> QED BY Invariant, <1>1, PTL

\* A build that succeeded is not reported failed, but past its limit, without its
\* CLI or for a line out of the ordinary.
THEOREM FailureIsExplained == Spec => []FailureHasCause
<1>1. IInv => FailureHasCause
  BY DEF IInv
<1> QED BY Invariant, <1>1, PTL
-----------------------------------------------------------------------------
(***************************************************************************)
(* The reading commands.                                                   *)
(***************************************************************************)

\* The step of a session of builds and runs, and the steps of a command.
LEMMA SessionSteps ==
    [Next]_vars => \/ UNCHANGED svars
                   \/ Prepare \/ Run \/ ProbeNext \/ Diagnose
BY DEF Next, vars

\* The command, its configuration and its network are one of the sessions'; the
\* registry, once there is one, is NewRegistry's.
Started ==
    /\ \E s \in Sessions : cmd = s[1] /\ config = s[2] /\ reach = s[3]
    /\ registry = <<>> \/ registry = NewRegistry(Priority(config), Custom(config))
    /\ phase \in {"probe", "run"} => /\ registry = NewRegistry(Priority(config), Custom(config))
                                     /\ cmd # NoCommand

\* A session starts so, and stays so.
LEMMA InitStarted == Init => Started
BY DEF Init, SessionInit, Started

LEMMA StepStarted == ASSUME Started, [Next]_vars PROVE Started'
<1>1. CASE UNCHANGED svars
  BY <1>1 DEF svars, Started
<1>2. CASE Prepare
  BY <1>2 DEF Prepare, Started
<1>3. CASE Run
  BY <1>3 DEF Run, Started
<1>4. CASE ProbeNext
  BY <1>4 DEF ProbeNext, Started
<1>5. CASE Diagnose
  BY <1>5 DEF Diagnose, Started
<1> QED BY <1>1, <1>2, <1>3, <1>4, <1>5, SessionSteps

\* The registry a session's configuration makes is in its user's order.
LEMMA RegistryRight ==
    ASSUME Started
    PROVE  InUsersOrder(NewRegistry(Priority(config), Custom(config)), Priority(config), Custom(config))
<1>1. /\ Priority(config) \in Seq(ToSet(Priority(config)))
      /\ Custom(config) \in Seq(ToSet(Custom(config)))
  BY ConfigsAssumption DEF Started
<1> HIDE DEF Priority, Custom
<1>2. Len(Priority(config)) \in Nat
  BY <1>1
<1> QED BY <1>1, <1>2, RegistryInOrder

\* A command's registry has every mirror of its configuration once, and in the
\* order the user asked for.
THEOREM RegistriesInOrder == Spec => []RegistryOrder
<1>1. Init => Started
  BY InitStarted
<1>2. Started /\ [Next]_vars => Started'
  BY StepStarted
<1>3. Started => RegistryOrder
  BY RegistryRight DEF Started, RegistryOrder
<1> QED BY <1>1, <1>2, <1>3, PTL DEF Spec

-----------------------------------------------------------------------------
(***************************************************************************)
(* doctor.                                                                 *)
(***************************************************************************)
Waits == [k \in 1 .. Len(registry) |-> IF k \in Prompt THEN Takes(k) ELSE 0]
Late  == (1 .. Len(registry)) \ Prompt

\* One mirror at most is late, and the others leave its time.
Room == Cardinality(Late) <= 1 /\ PromptTime <= Budget - PerProbe

AliveUpTo(n) == {k \in Prompt : k <= n /\ reach[registry[k].name].ok}

\* Behind n probes: what the prompt mirrors and the late one took is gone from
\* the budget, no more, and every prompt mirror that answers is counted.
Tally(n) ==
    /\ left \in Int
    /\ left >= Budget - SumUpTo(Waits)[n] - (IF \E k \in Late : k <= n THEN PerProbe ELSE 0)
    /\ alive = Cardinality(AliveUpTo(n))

\* A session's registry is a list of mirrors of its network.
LEMMA RegistryIsList ==
    ASSUME Started
    PROVE  NewRegistry(Priority(config), Custom(config)) \in Seq(ToSet(Builtins) \cup ToSet(Custom(config)))
<1>1. /\ Priority(config) \in Seq(ToSet(Priority(config)))
      /\ Custom(config) \in Seq(ToSet(Custom(config)))
  BY ConfigsAssumption DEF Started
<1> HIDE DEF Priority, Custom
<1>2. Len(Priority(config)) \in Nat
  BY <1>1
<1> QED BY <1>1, <1>2, RegistryInOrder

\* A registry in use is a list, and its mirrors take some time.
LEMMA RegistryTimes ==
    ASSUME Started, registry = NewRegistry(Priority(config), Custom(config))
    PROVE  /\ Len(registry) \in Nat
           /\ \A k \in 1 .. Len(registry) : Takes(k) \in Nat
<1>1. \A m \in ToSet(Builtins) \cup ToSet(Custom(config)) : reach[m.name].takes \in Nat
  BY NetworkAssumption DEF Started
<1> HIDE DEF Priority, Custom
<1>3. registry \in Seq(ToSet(Builtins) \cup ToSet(Custom(config)))
  BY RegistryIsList
<1>4. \A k \in 1 .. Len(registry) : registry[k] \in ToSet(Builtins) \cup ToSet(Custom(config))
  BY <1>3
<1> QED BY <1>1, <1>3, <1>4 DEF Takes

\* What the prompt mirrors take together grows to PromptTime.
LEMMA WaitsFacts ==
    ASSUME Started, registry = NewRegistry(Priority(config), Custom(config))
    PROVE  /\ \A n \in 0 .. Len(registry) : /\ SumUpTo(Waits)[n] \in Nat
                                           /\ SumUpTo(Waits)[n] <= PromptTime
           /\ SumUpTo(Waits)[0] = 0
           /\ \A n \in 0 .. Len(registry) - 1 : SumUpTo(Waits)[n + 1] = SumUpTo(Waits)[n] + Waits[n + 1]
<1>1. Len(registry) \in Nat /\ \A k \in 1 .. Len(registry) : Takes(k) \in Nat
  BY RegistryTimes
<1>2. \A k \in 1 .. Len(registry) : (IF k \in Prompt THEN Takes(k) ELSE 0) \in Nat
  BY <1>1
<1>3. Waits \in Seq(Nat) /\ Len(Waits) = Len(registry)
  BY <1>1, <1>2 DEF Waits
<1>4. PromptTime = SumOf(Waits)
  BY DEF PromptTime, Waits
<1> QED BY <1>1, <1>3, <1>4, SumDef, SumGrows

\* Nobody is late but one.
LEMMA OneLate ==
    ASSUME Len(registry) \in Nat, Room, NEW j \in Late, NEW k \in Late
    PROVE  j = k
<1>1. IsFiniteSet(Late)
  <2>1. IsFiniteSet(1 .. Len(registry)) /\ Late \subseteq 1 .. Len(registry)
    BY FS_Interval DEF Late
  <2> QED BY <2>1, FS_Subset
<1>2. SUFFICES ASSUME j # k PROVE FALSE
  OBVIOUS
<1>3. IsFiniteSet({j}) /\ Cardinality({j}) = 1
  BY FS_Singleton
<1>4. Cardinality({j} \cup {k}) = 2
  <2>1. k \notin {j}
    BY <1>2
  <2>2. Cardinality({j} \cup {k}) = Cardinality({j}) + 1
    BY <1>3, <2>1, FS_AddElement
  <2> QED BY ONLY <1>3, <2>2
<1>5. {j} \cup {k} \subseteq Late
  OBVIOUS
<1>6. Cardinality({j} \cup {k}) <= Cardinality(Late)
  <2> HIDE DEF Late
  <2> QED BY <1>1, <1>5, FS_Subset
<1>7. Cardinality(Late) \in Nat
  BY <1>1, FS_CardinalityType
<1>8. Cardinality(Late) <= 1
  BY DEF Room
<1> QED BY ONLY <1>4, <1>6, <1>7, <1>8

\* One more probe counts one more mirror, or none.
LEMMA AliveStep ==
    ASSUME Len(registry) \in Nat, NEW n \in 0 .. Len(registry) - 1
    PROVE  Cardinality(AliveUpTo(n + 1)) =
             IF n + 1 \in Prompt /\ reach[registry[n + 1].name].ok
             THEN Cardinality(AliveUpTo(n)) + 1 ELSE Cardinality(AliveUpTo(n))
<1> DEFINE P == {k \in Prompt : reach[registry[k].name].ok}
<1>1. P \subseteq 1 .. Len(registry)
  BY DEF Prompt
<1>2. /\ AliveUpTo(n) = {k \in P : k <= n} /\ AliveUpTo(n + 1) = {k \in P : k <= n + 1}
      /\ n + 1 \in P <=> n + 1 \in Prompt /\ reach[registry[n + 1].name].ok
  BY DEF AliveUpTo
<1> HIDE DEF P
<1>3. AliveUpTo(n + 1) = IF n + 1 \in P THEN AliveUpTo(n) \cup {n + 1} ELSE AliveUpTo(n)
  <2>1. n \in Int /\ \A k \in P : k \in Int
    BY <1>1
  <2>2. \A k \in P : k <= n + 1 <=> k <= n \/ k = n + 1
    BY <2>1
  <2> QED BY <1>2, <2>2
<1>4. n + 1 \notin AliveUpTo(n)
  BY <1>2
<1>5. IsFiniteSet(AliveUpTo(n))
  <2>1. IsFiniteSet(1 .. Len(registry))
    BY FS_Interval
  <2>2. AliveUpTo(n) \subseteq 1 .. Len(registry)
    BY <1>1, <1>2
  <2> QED BY <2>1, <2>2, FS_Subset
<1> QED BY <1>2, <1>3, <1>4, <1>5, FS_AddElement

\* A probe keeps the tally.
LEMMA ProbeTallies ==
    ASSUME Started, registry = NewRegistry(Priority(config), Custom(config)), Room,
           NEW n \in 0 .. Len(registry) - 1, Tally(n),
           Probe(registry[n + 1]), UNCHANGED <<registry, reach>>
    PROVE  Tally(n + 1)'
<1> DEFINE k == n + 1
           W(i) == SumUpTo(Waits)[i]
           t == Takes(k)
           allowed == IF PerProbe < left THEN PerProbe ELSE left
           gone == IF \E j \in Late : j <= n THEN PerProbe ELSE 0
           gone1 == IF \E j \in Late : j <= k THEN PerProbe ELSE 0
<1>0. Len(registry) \in Nat /\ k \in 1 .. Len(registry) /\ n \in 0 .. Len(registry)
      /\ k \in 0 .. Len(registry) /\ t \in Nat
  BY RegistryTimes
<1>1. /\ W(n) \in Nat /\ W(k) \in Nat /\ W(k) <= PromptTime
      /\ W(k) = W(n) + (IF k \in Prompt THEN t ELSE 0)
  BY <1>0, WaitsFacts DEF Waits
<1>2. k \in Prompt <=> t <= PerProbe
  BY <1>0 DEF Prompt
<1>3. k \in Late <=> ~(t <= PerProbe)
  BY <1>0, <1>2 DEF Late
<1>4. PromptTime <= Budget - PerProbe
  BY DEF Room
<1>5. left \in Int /\ left >= Budget - W(n) - gone /\ alive = Cardinality(AliveUpTo(n))
  BY DEF Tally
<1>6. /\ left' = left - (IF t <= allowed THEN t ELSE allowed)
      /\ alive' = IF t <= allowed /\ reach[registry[k].name].ok THEN alive + 1 ELSE alive
  BY DEF Probe, Takes
<1>7. /\ SumUpTo(Waits)[k]' = W(k) /\ AliveUpTo(k)' = AliveUpTo(k)
      /\ (IF \E j \in Late : j <= k THEN PerProbe ELSE 0)' = gone1
  BY DEF Waits, AliveUpTo, Late, Prompt, Takes
<1>8. Cardinality(AliveUpTo(k)) =
        IF k \in Prompt /\ reach[registry[k].name].ok THEN alive + 1 ELSE alive
  BY <1>0, <1>5, AliveStep
<1>9. gone \in {0, PerProbe} /\ gone1 \in {0, PerProbe} /\ Budget \in Nat /\ PerProbe \in Nat
  BY TimeAssumption
<1>10. PromptTime \in Nat
  <2>1. W(Len(registry)) \in Nat /\ PromptTime = W(Len(registry))
    <3>1. Len(Waits) = Len(registry)
      BY <1>0 DEF Waits
    <3> QED BY <1>0, <3>1, WaitsFacts DEF PromptTime, SumOf, Waits
  <2> QED BY <2>1
<1>11. /\ k \in Prompt => gone1 = gone
       /\ k \in Late => gone = 0 /\ gone1 = PerProbe
  <2>1. CASE k \in Prompt
    <3>1. k \notin Late
      BY <2>1 DEF Late
    <3>2. \A j \in Late : j <= k <=> j <= n
      BY <1>0, <3>1 DEF Late
    <3> QED BY <2>1, <3>1, <3>2
  <2>2. CASE k \in Late
    <3>1. \A j \in Late : j = k
      BY <1>0, <2>2, OneLate
    <3>2. ~(k <= n) /\ k <= k
      BY <1>0
    <3>3. k \notin Prompt
      BY <2>2 DEF Late
    <3> QED BY <2>2, <3>1, <3>2, <3>3
  <2> QED BY <2>1, <2>2
<1> HIDE DEF gone, gone1, W, t, k
<1>12. /\ left' \in Int /\ left' >= Budget - W(k) - gone1
       /\ t <= allowed <=> k \in Prompt
  <2>1. CASE k \in Prompt
    <3>1. t <= PerProbe /\ W(k) = W(n) + t /\ gone1 = gone
      BY <1>1, <1>2, <1>11, <2>1
    <3>2. t <= left
      BY <1>0, <1>1, <1>4, <1>5, <1>9, <1>10, <3>1
    <3>3. t <= allowed
      BY <3>1, <3>2
    <3> QED BY <1>0, <1>1, <1>5, <1>6, <1>9, <2>1, <3>1, <3>3
  <2>2. CASE k \in Late
    <3>1. ~(t <= PerProbe) /\ k \notin Prompt /\ W(k) = W(n) /\ gone = 0 /\ gone1 = PerProbe
      BY <1>1, <1>2, <1>3, <1>11, <2>2
    <3>2. ~(t <= allowed) /\ allowed \in Int /\ allowed <= PerProbe
      BY <1>0, <1>5, <1>9, <3>1
    <3>3. left' = left - allowed
      BY <1>6, <3>2
    <3> HIDE DEF allowed
    <3> QED BY <1>1, <1>5, <1>9, <3>1, <3>2, <3>3
  <2> QED BY <1>0, <1>2, <1>3, <2>1, <2>2
<1>13. alive' = Cardinality(AliveUpTo(k))
  BY <1>6, <1>8, <1>12
<1> QED BY <1>7, <1>12, <1>13 DEF Tally, k, W, gone1

\* Where a command stands and what it has found out.
Course ==
    /\ phase = "shell" => left = Budget /\ probed = 0 /\ alive = 0 /\ answer = Error
    /\ phase = "run" => cmd.op # "doctor" /\ answer = Error
    /\ phase = "probe" => /\ cmd.op = "doctor" /\ answer = Error
                          /\ probed \in 0 .. Len(registry)
                          /\ Room => Tally(probed)
    /\ cmd # NoCommand /\ answer.st = "ok" =>
          IF cmd.op = "doctor"
          THEN Room => alive = Cardinality({k \in Prompt : reach[registry[k].name].ok})
          ELSE answer = Answer(AnswerTo(cmd))

\* A session takes this course.
LEMMA InitCourse == Init => Course
BY DEF Init, SessionInit, Course, Error

LEMMA StepCourse == ASSUME Started, Course, [Next]_vars PROVE Course'
<1> USE DEF Error, Answer
<1>1. CASE UNCHANGED svars
  <2>1. Room' = Room /\ \A n : Tally(n)' = Tally(n)
    BY <1>1 DEF svars, Room, Tally, Late, Prompt, PromptTime, Takes, Waits, AliveUpTo
  <2>2. {k \in Prompt : reach[registry[k].name].ok}' = {k \in Prompt : reach[registry[k].name].ok}
    BY <1>1 DEF svars, Prompt, Takes
  <2> QED BY <1>1, <2>1, <2>2 DEF svars, Course
<1>2. CASE Prepare
  <2>1. CASE phase' = "exit"
    BY <1>2, <2>1 DEF Prepare, Course
  <2>2. CASE phase' = "run"
    BY <1>2, <2>2 DEF Prepare, Course
  <2>3. CASE phase' = "probe"
    <3>1. /\ cmd' = cmd /\ cmd.op = "doctor" /\ answer' = Error /\ probed' = 0
          /\ left' = Budget /\ alive' = 0
          /\ registry' = NewRegistry(Priority(config), Custom(config))
      BY <1>2, <2>3 DEF Prepare, Course
    <3>3. Len(registry') \in Nat
      <4>1. registry' \in Seq(ToSet(Builtins) \cup ToSet(Custom(config)))
        BY <3>1, RegistryIsList
      <4> QED BY <4>1
    <3>4. Tally(0)'
      <4>1. SumUpTo(Waits)[0]' = 0
        <5>1. Len(Waits') \in Nat
          BY <3>3 DEF Waits
        <5> QED BY <5>1, SumDef
      <4>2. AliveUpTo(0)' = {} /\ ~\E k \in Late' : k <= 0
        BY <3>3 DEF AliveUpTo, Prompt, Late
      <4>3. Cardinality({}) = 0
        BY FS_EmptySet
      <4>4. left' \in Int /\ left' >= Budget - 0 - 0
        BY <3>1, TimeAssumption
      <4> QED BY <3>1, <4>1, <4>2, <4>3, <4>4 DEF Tally
    <3> QED BY <2>3, <3>1, <3>3, <3>4 DEF Course
  <2> QED BY <1>2, <2>1, <2>2, <2>3 DEF Prepare
<1>3. CASE Run
  BY <1>3 DEF Run, Course
<1>4. CASE ProbeNext
  <2>1. /\ phase = "probe" /\ phase' = "probe" /\ probed < Len(registry) /\ probed' = probed + 1
        /\ registry' = registry /\ reach' = reach /\ answer' = answer /\ cmd' = cmd
        /\ Probe(registry[probed + 1])
    BY <1>4 DEF ProbeNext
  <2>2. registry = NewRegistry(Priority(config), Custom(config)) /\ Len(registry) \in Nat
    BY <2>1, RegistryTimes DEF Started
  <2>3. probed \in 0 .. Len(registry) - 1 /\ probed + 1 \in 0 .. Len(registry)
    BY <2>1, <2>2 DEF Course
  <2>4. Room' = Room
    BY <2>1 DEF Room, Late, Prompt, PromptTime, Takes
  <2>5. PICK n \in 0 .. Len(registry) - 1 : n = probed
    BY <2>3
  <2>6. Room => Tally(n)
    <3>1. Tally(probed) => Tally(n)
      BY <2>5 DEF Tally
    <3> QED BY <2>1, <3>1 DEF Course
  <2>7. Room => Tally(n + 1)'
    BY <2>1, <2>2, <2>5, <2>6, ProbeTallies
  <2>8. probed' = n + 1
    BY <2>1, <2>5
  <2>9. Room => Tally(probed)'
    BY <2>7, <2>8 DEF Tally, AliveUpTo
  <2> QED BY <2>1, <2>3, <2>4, <2>9 DEF Course
<1>5. CASE Diagnose
  <2>1. /\ phase = "probe" /\ phase' = "exit" /\ probed = Len(registry) /\ cmd' = cmd
        /\ UNCHANGED <<registry, reach, alive>>
    BY <1>5 DEF Diagnose
  <2>2. AliveUpTo(Len(registry)) = {k \in Prompt : reach[registry[k].name].ok}
    BY DEF AliveUpTo, Prompt
  <2>3. Room' = Room /\ Prompt' = Prompt
    BY <2>1 DEF Room, Late, Prompt, PromptTime, Takes
  <2> QED BY <2>1, <2>2, <2>3 DEF Course, Tally
<1> QED BY <1>1, <1>2, <1>3, <1>4, <1>5, SessionSteps

LEMMA CourseInvariant == Spec => [](Started /\ Course)
<1>1. Init => Started /\ Course
  BY InitStarted, InitCourse
<1>2. Started /\ Course /\ [Next]_vars => (Started /\ Course)'
  BY StepStarted, StepCourse
<1> QED BY <1>1, <1>2, PTL DEF Spec

\* doctor counts every mirror that answers promptly, though they share a budget.
THEOREM DoctorIsRight == Spec => []DoctorCountsTheLive
<1>1. Started /\ Course => DoctorCountsTheLive
  BY DEF Course, DoctorCountsTheLive, Answered, Room, Late
<1> QED BY <1>1, CourseInvariant, PTL

-----------------------------------------------------------------------------
(***************************************************************************)
(* vuln.                                                                   *)
(***************************************************************************)

\* Ordinals order versions as their parts do.
LEMMA OrdinalOrder ==
    ASSUME NEW v, NEW w, v[1] \in Nat, w[1] \in Nat, v[2] \in 0 .. Unit - 1, w[2] \in 0 .. Unit - 1
    PROVE  Ordinal(v) <= Ordinal(w) <=> ~Before(w, v)
<1> DEFINE a == v[1]
           b == v[2]
           c == w[1]
           d == w[2]
<1>1. a \in Nat /\ c \in Nat /\ b \in 0 .. Unit - 1 /\ d \in 0 .. Unit - 1 /\ Unit \in Nat \ {0}
  BY UnitAssumption
<1> HIDE DEF a, b, c, d
<1>2. a * Unit + b <= c * Unit + d <=> ~(c < a \/ (c = a /\ d < b))
  BY <1>1
<1> QED BY <1>2 DEF Ordinal, Before, a, b, c, d

\* Comparing ordinals is comparing versions.
LEMMA AffectedExact ==
    ASSUME NEW v, Proper(v)
    PROVE  AffectedBy(v) = IF Parses(v) THEN Ranges(v) ELSE {}
<1>1. CASE ~Parses(v)
  BY <1>1 DEF AffectedBy
<1>2. CASE Parses(v)
  <2>1. ASSUME NEW e \in Vulns, Parses(e.from), Parses(e.to)
        PROVE  /\ Ordinal(e.from) <= Ordinal(v) <=> ~Before(v, e.from)
               /\ Ordinal(v) < Ordinal(e.to) <=> Before(v, e.to)
    <3>1. /\ e.from[1] \in Nat /\ e.from[2] \in 0 .. Unit - 1
          /\ e.to[1] \in Nat /\ e.to[2] \in 0 .. Unit - 1
          /\ v[1] \in Nat /\ v[2] \in 0 .. Unit - 1
      BY <1>2, <2>1, VersionsAssumption DEF Proper
    <3>2. /\ Ordinal(e.from) <= Ordinal(v) <=> ~Before(v, e.from)
          /\ Ordinal(e.to) <= Ordinal(v) <=> ~Before(v, e.to)
      BY <3>1, OrdinalOrder
    <3>3. Ordinal(v) \in Int /\ Ordinal(e.to) \in Int
      BY <3>1, UnitAssumption DEF Ordinal
    <3> QED BY <3>2, <3>3
  <2> QED BY <1>2, <2>1 DEF AffectedBy, Ranges
<1> QED BY <1>1, <1>2
-----------------------------------------------------------------------------
(***************************************************************************)
(* diff.                                                                   *)
(***************************************************************************)

\* A diff applied to the first file gives the second, and the opposite diff is
\* its mirror image.
LEMMA DiffIsExact ==
    ASSUME NEW a, NEW b
    PROVE  LET d == Diff(a, b)   back == Diff(b, a)
           IN  /\ Applied(d, Symbols(a)) = Symbols(b)
               /\ back.added = d.removed /\ back.removed = d.added
               /\ \A x \in DOMAIN Security(a) :
                     Security(b)[x] = IF x \in DOMAIN d.security
                                      THEN d.security[x][2] ELSE Security(a)[x]
<1> DEFINE A == Symbols(a)
           B == Symbols(b)
           SA == Security(a)
           SB == Security(b)
           added == DOMAIN B \ DOMAIN A
           removed == DOMAIN A \ DOMAIN B
           moved == {n \in DOMAIN A \cap DOMAIN B : A[n] # B[n]}
           differ == {y \in DOMAIN SA : SA[y] # SB[y]}
           d == [added    |-> [n \in added |-> B[n]],
                 removed  |-> [n \in removed |-> A[n]],
                 moved    |-> [n \in moved |-> <<A[n], B[n]>>],
                 security |-> [x \in differ |-> <<SA[x], SB[x]>>]]
<1>1. B = [n \in DOMAIN B |-> B[n]]
  BY DEF Symbols
<1>2. Diff(a, b) = d
  BY DEF Diff
<1>3. /\ Diff(b, a).added = [n \in DOMAIN A \ DOMAIN B |-> A[n]]
      /\ Diff(b, a).removed = [n \in DOMAIN B \ DOMAIN A |-> B[n]]
  BY DEF Diff
<1> HIDE DEF A, B, SA, SB
<1>4. Applied(d, A) = B
  <2> DEFINE r == [n \in (DOMAIN A \ DOMAIN d.removed) \cup DOMAIN d.added |->
                      IF n \in DOMAIN d.added THEN d.added[n]
                      ELSE IF n \in DOMAIN d.moved THEN d.moved[n][2] ELSE A[n]]
  <2>1. (DOMAIN A \ DOMAIN d.removed) \cup DOMAIN d.added = DOMAIN B
    OBVIOUS
  <2>2. ASSUME NEW n \in DOMAIN B
        PROVE  (IF n \in DOMAIN d.added THEN d.added[n]
                ELSE IF n \in DOMAIN d.moved THEN d.moved[n][2] ELSE A[n]) = B[n]
    OBVIOUS
  <2>3. r = [n \in DOMAIN B |-> B[n]]
    <3> HIDE DEF d
    <3> QED BY <2>1, <2>2
  <2> QED BY <1>1, <2>3 DEF Applied
<1>5. d.removed = [n \in DOMAIN A \ DOMAIN B |-> A[n]] /\ d.added = [n \in DOMAIN B \ DOMAIN A |-> B[n]]
  OBVIOUS
<1>6. \A x \in DOMAIN SA : SB[x] = IF x \in DOMAIN d.security THEN d.security[x][2] ELSE SA[x]
  OBVIOUS
<1> HIDE DEF d
<1> QED BY <1>2, <1>3, <1>4, <1>5, <1>6 DEF A, B, SA, SB
-----------------------------------------------------------------------------
(***************************************************************************)
(* search --symbol --tolerance.                                            *)
(***************************************************************************)

\* A number in the lower half of the uint64s is its own int64.
LEMMA SignedSmall ==
    ASSUME NEW x \in Int, 2 * x < Wide, -Wide <= 2 * x
    PROVE  Signed(x) = x
<1> DEFINE h == Wide \div 2
<1>1. h \in Int /\ 2 * h = Wide /\ Wide \in Nat \ {0}
  BY WideAssumption
<1> HIDE DEF h
<1>2. x + h \in 0 .. Wide - 1
  BY <1>1
<1>3. (x + h) % Wide = x + h
  BY <1>1, <1>2
<1> QED BY <1>1, <1>3 DEF Signed, h

\* So a distance between two of them is theirs.
LEMMA DistanceExact ==
    ASSUME NEW want \in Nat, NEW got \in Nat, 2 * want < Wide, 2 * got < Wide, NEW tol \in Nat
    PROVE  Distance(want, got) <= tol <=> want \in got - tol .. got + tol
<1> DEFINE d == want - got
<1>0. Wide \in Nat
  BY WideAssumption
<1>1. Signed(want) = want /\ Signed(got) = got
  BY <1>0, SignedSmall
<1>2. d \in Int /\ Signed(d) = d
  BY <1>0, SignedSmall
<1>3. d < 0 => Signed(-d) = -d
  BY <1>0, SignedSmall
<1> QED BY <1>1, <1>2, <1>3 DEF Distance

\* The filter keeps the matches within the tolerance.
LEMMA FilterExact ==
    ASSUME NEW c \in Commands("symbols"), NEW m \in c.matches,
           \A n \in DOMAIN m \cup DOMAIN c.query :
                /\ n \in DOMAIN m => 2 * m[n] < Wide
                /\ n \in DOMAIN c.query => 2 * c.query[n] < Wide
    PROVE  m \in FilterByTolerance(c.matches, c.query, c.tol) <=>
              \A n \in DOMAIN c.query :
                 n \in DOMAIN m /\ c.query[n] \in m[n] - c.tol .. m[n] + c.tol
<1>1. ASSUME NEW n \in DOMAIN c.query, n \in DOMAIN m
      PROVE  Distance(c.query[n], m[n]) <= c.tol <=> c.query[n] \in m[n] - c.tol .. m[n] + c.tol
  <2>1. c.query[n] \in Nat /\ m[n] \in Nat /\ c.tol \in Nat
    BY <1>1, AddressesAssumption, WideAssumption
  <2>2. 2 * c.query[n] < Wide /\ 2 * m[n] < Wide
    BY <1>1
  <2> QED BY <2>1, <2>2, DistanceExact
<1> QED BY <1>1 DEF FilterByTolerance
-----------------------------------------------------------------------------
(***************************************************************************)
(* search --libc: the patterns.                                            *)
(***************************************************************************)

\* One character of a pattern, c, in front of what matches at v.
InFront(c, name, v) ==
    {j \in 0 .. Len(name) :
        IF c = "*" THEN \E h \in j .. Len(name) : h \in v
        ELSE j < Len(name) /\ c \in {"?", name[j + 1]} /\ j + 1 \in v}

\* GlobFrom, unfolded.
LEMMA GlobDef ==
    ASSUME NEW pat, NEW name, Len(pat) \in Nat
    PROVE  /\ GlobFrom(pat, name)[0] = {Len(name)}
           /\ \A k \in 0 .. Len(pat) - 1 :
                 GlobFrom(pat, name)[k + 1] =
                    InFront(pat[Len(pat) - (k + 1) + 1], name, GlobFrom(pat, name)[k])
<1> DEFINE Step(v, n) == LET c == pat[Len(pat) - n + 1]
                         IN  {j \in 0 .. Len(name) :
                                 IF c = "*" THEN \E h \in j .. Len(name) : h \in v
                                 ELSE j < Len(name) /\ c \in {"?", name[j + 1]} /\ j + 1 \in v}
           Body(f, m) == [n \in 0 .. m |-> IF n = 0 THEN {Len(name)} ELSE Step(f[n - 1], n)]
           Good(m) == \E f : f = Body(f, m)
<1> HIDE DEF Step
<1>0. Len(pat) \in Nat
  OBVIOUS
<1>1. Good(0)
  <2> DEFINE f == [n \in 0 .. 0 |-> {Len(name)}]
  <2>1. f = Body(f, 0)
    OBVIOUS
  <2> QED BY <2>1
<1>2. ASSUME NEW m \in 0 .. Len(pat) - 1, Good(m) PROVE Good(m + 1)
  <2>1. PICK f : f = Body(f, m)
    BY <1>2
  <2> DEFINE g == [n \in 0 .. m + 1 |-> IF n = m + 1 THEN Step(f[m], m + 1) ELSE f[n]]
  <2>2. ASSUME NEW n \in 0 .. m + 1 PROVE g[n] = IF n = 0 THEN {Len(name)} ELSE Step(g[n - 1], n)
    <3>1. CASE n = m + 1
      BY <3>1
    <3>2. CASE n \in 0 .. m
      <4>1. g[n] = f[n] /\ (n # 0 => g[n - 1] = f[n - 1])
        BY <3>2
      <4>2. f[n] = IF n = 0 THEN {Len(name)} ELSE Step(f[n - 1], n)
        BY <2>1, <3>2
      <4> QED BY <4>1, <4>2
    <3> QED BY <3>1, <3>2
  <2>3. g = Body(g, m + 1)
    BY <2>2
  <2> HIDE DEF g, Body
  <2> QED BY <2>3
<1>3. \A m \in 0 .. Len(pat) : Good(m)
  <2> DEFINE Reach == {i \in 0 .. Len(pat) : Good(i)}
  <2> HIDE DEF Good
  <2>1. 0 \in Reach /\ \A i \in 0 .. Len(pat) - 1 : i \in Reach => i + 1 \in Reach
    BY <1>0, <1>1, <1>2
  <2> HIDE DEF Reach
  <2>2. \A i \in 0 .. Len(pat) : i \in Reach
    BY <1>0, <2>1, Induction
  <2> QED BY <2>2 DEF Reach
<1> DEFINE F == GlobFrom(pat, name)
<1>4. F = CHOOSE h : h = Body(h, Len(pat))
  BY DEF GlobFrom, Step
<1> HIDE DEF F
<1>5. F = Body(F, Len(pat))
  <2> HIDE DEF Body
  <2>1. PICK f : f = Body(f, Len(pat))
    BY <1>0, <1>3
  <2> QED BY <1>4, <2>1
<1>6. F[0] = {Len(name)} /\ \A n \in 0 .. Len(pat) - 1 : F[n + 1] = Step(F[n], n + 1)
  <2>1. \A n \in 0 .. Len(pat) : F[n] = IF n = 0 THEN {Len(name)} ELSE Step(F[n - 1], n)
    BY <1>5
  <2> QED BY <2>1
<1>7. \A k \in 0 .. Len(pat) - 1 : F[k + 1] = InFront(pat[Len(pat) - (k + 1) + 1], name, F[k])
  BY <1>6 DEF Step, InFront
<1> QED BY <1>6, <1>7 DEF F

\* What one character of a pattern stands for: the part of the name from x to y.
Piece(c, name, x, y) == IF c = "*" THEN x <= y ELSE y = x + 1 /\ c \in {"?", name[y]}

\* The name's end from j can be cut into what the pattern's last k characters
\* stand for.
Cut(pat, name, k, j) ==
    \E cut \in [Len(pat) - k .. Len(pat) -> 0 .. Len(name)] :
        /\ cut[Len(pat) - k] = j /\ cut[Len(pat)] = Len(name)
        /\ \A i \in Len(pat) - k + 1 .. Len(pat) : Piece(pat[i], name, cut[i - 1], cut[i])

\* A cut is a first piece and a cut of the rest.
LEMMA CutStep ==
    ASSUME NEW pat, NEW name, Len(pat) \in Nat, Len(name) \in Nat,
           NEW k \in 0 .. Len(pat) - 1, NEW j \in 0 .. Len(name)
    PROVE  Cut(pat, name, k + 1, j) <=>
             \E h \in 0 .. Len(name) : Piece(pat[Len(pat) - k], name, j, h) /\ Cut(pat, name, k, h)
<1> DEFINE L == Len(pat)
           N == Len(name)
           first == L - (k + 1)
<1>0. L \in Nat /\ N \in Nat /\ first \in Nat /\ L - k = first + 1 /\ first < L
  OBVIOUS
<1> HIDE DEF first
<1>1. ASSUME Cut(pat, name, k + 1, j)
      PROVE  \E h \in 0 .. N : Piece(pat[L - k], name, j, h) /\ Cut(pat, name, k, h)
  <2>1. PICK cut \in [first .. L -> 0 .. N] :
           /\ cut[first] = j /\ cut[L] = N
           /\ \A i \in first + 1 .. L : Piece(pat[i], name, cut[i - 1], cut[i])
    BY <1>1 DEF Cut, first
  <2> DEFINE rest == [i \in first + 1 .. L |-> cut[i]]
             h == cut[first + 1]
  <2>2. h \in 0 .. N /\ Piece(pat[first + 1], name, j, h)
    <3> DEFINE i == first + 1
    <3>1. i \in first + 1 .. L /\ i \in first .. L /\ i - 1 = first
      BY <1>0
    <3> HIDE DEF i
    <3>2. Piece(pat[i], name, j, cut[i])
      BY <2>1, <3>1
    <3> QED BY <2>1, <3>1, <3>2 DEF i
  <2>3. /\ rest \in [first + 1 .. L -> 0 .. N] /\ rest[first + 1] = h /\ rest[L] = N
        /\ \A i \in first + 1 + 1 .. L : Piece(pat[i], name, rest[i - 1], rest[i])
    <3>1. \A i \in first + 1 .. L : i \in first .. L /\ rest[i] = cut[i]
      BY <1>0
    <3>2. \A i \in first + 1 + 1 .. L : i - 1 \in first + 1 .. L /\ i \in first + 1 .. L
      BY <1>0
    <3>3. rest \in [first + 1 .. L -> 0 .. N] /\ rest[first + 1] = h /\ rest[L] = N
      BY <1>0, <2>1, <3>1
    <3> QED BY <2>1, <3>1, <3>2, <3>3
  <2> HIDE DEF rest, h
  <2>4. Cut(pat, name, k, h)
    BY <1>0, <2>3 DEF Cut
  <2> QED BY <1>0, <2>2, <2>4
<1>2. ASSUME NEW h \in 0 .. N, Piece(pat[L - k], name, j, h), Cut(pat, name, k, h)
      PROVE  Cut(pat, name, k + 1, j)
  <2>1. PICK cut \in [first + 1 .. L -> 0 .. N] :
           /\ cut[first + 1] = h /\ cut[L] = N
           /\ \A i \in first + 1 + 1 .. L : Piece(pat[i], name, cut[i - 1], cut[i])
    BY <1>0, <1>2 DEF Cut
  <2> DEFINE all == [i \in first .. L |-> IF i = first THEN j ELSE cut[i]]
  <2>2. all \in [first .. L -> 0 .. N] /\ all[first] = j /\ all[L] = N
    BY <1>0, <2>1
  <2>3. ASSUME NEW i \in first + 1 .. L PROVE Piece(pat[i], name, all[i - 1], all[i])
    <3>1. CASE i = first + 1
      <4>1. all[i - 1] = j /\ all[i] = h
        BY <1>0, <2>1, <3>1
      <4> QED BY <1>0, <1>2, <3>1, <4>1
    <3>2. CASE i # first + 1
      <4>1. i \in first + 1 + 1 .. L /\ all[i - 1] = cut[i - 1] /\ all[i] = cut[i]
        BY <1>0, <3>2
      <4> QED BY <2>1, <4>1
    <3> QED BY <3>1, <3>2
  <2> HIDE DEF all
  <2> QED BY <2>2, <2>3 DEF Cut, first
<1> QED BY <1>1, <1>2

\* globMatch finds a cut if there is one.
LEMMA GlobExact ==
    ASSUME NEW pat, NEW name, Len(pat) \in Nat, Len(name) \in Nat
    PROVE  GlobMatch(pat, name) <=> Matches(pat, name)
<1> DEFINE L == Len(pat)
           N == Len(name)
           M == GlobFrom(pat, name)
           Good(k) == \A j \in 0 .. N : j \in M[k] <=> Cut(pat, name, k, j)
<1>a. L \in Nat /\ N \in Nat
  OBVIOUS
<1>0. /\ L \in Nat /\ N \in Nat /\ M[0] = {N}
      /\ \A k \in 0 .. L - 1 : M[k + 1] = InFront(pat[L - (k + 1) + 1], name, M[k])
  BY <1>a, GlobDef
<1> HIDE DEF M
<1>1. Good(0)
  <2> SUFFICES ASSUME NEW j \in 0 .. N PROVE j = N <=> Cut(pat, name, 0, j)
    BY <1>0
  <2>1. ASSUME j = N PROVE Cut(pat, name, 0, j)
    <3> DEFINE cut == [i \in L - 0 .. L |-> N]
    <3>1. cut \in [L - 0 .. L -> 0 .. N] /\ cut[L - 0] = j /\ cut[L] = N /\ L - 0 + 1 .. L = {}
      BY <1>0, <2>1
    <3> HIDE DEF cut
    <3> QED BY <3>1 DEF Cut
  <2>2. ASSUME Cut(pat, name, 0, j) PROVE j = N
    BY <1>0, <2>2 DEF Cut
  <2> QED BY <2>1, <2>2
<1>2. ASSUME NEW k \in 0 .. L - 1, Good(k) PROVE Good(k + 1)
  <2> SUFFICES ASSUME NEW j \in 0 .. N PROVE j \in M[k + 1] <=> Cut(pat, name, k + 1, j)
    OBVIOUS
  <2> DEFINE c == pat[L - k]
  <2>0. L - (k + 1) + 1 = L - k
    BY <1>0
  <2>1. j \in M[k + 1] <=> IF c = "*" THEN \E h \in j .. N : h \in M[k]
                           ELSE j < N /\ c \in {"?", name[j + 1]} /\ j + 1 \in M[k]
    BY <1>0, <2>0 DEF InFront
  <2>2. j \in M[k + 1] <=> \E h \in 0 .. N : Piece(c, name, j, h) /\ h \in M[k]
    <3>1. CASE c = "*"
      BY <1>0, <2>1, <3>1 DEF Piece
    <3>2. CASE c # "*"
      BY <1>0, <2>1, <3>2 DEF Piece
    <3> QED BY <3>1, <3>2
  <2>3. \A h \in 0 .. N : h \in M[k] <=> Cut(pat, name, k, h)
    BY <1>2
  <2>4. Cut(pat, name, k + 1, j) <=> \E h \in 0 .. N : Piece(c, name, j, h) /\ Cut(pat, name, k, h)
    BY CutStep
  <2> QED BY <2>2, <2>3, <2>4
<1>3. \A k \in 0 .. L : Good(k)
  <2> DEFINE Reach == {i \in 0 .. Len(pat) : Good(i)}
  <2> HIDE DEF Good
  <2>1. 0 \in Reach /\ \A i \in 0 .. Len(pat) - 1 : i \in Reach => i + 1 \in Reach
    BY <1>0, <1>1, <1>2
  <2> HIDE DEF Reach
  <2>2. \A i \in 0 .. Len(pat) : i \in Reach
    BY <1>0, <2>1, Induction
  <2> QED BY <2>2 DEF Reach
<1>4. 0 \in M[L] <=> Cut(pat, name, L, 0)
  BY <1>0, <1>3
<1>5. Cut(pat, name, L, 0) <=> Matches(pat, name)
  BY <1>0 DEF Cut, Matches, Piece
<1> QED BY <1>4, <1>5 DEF GlobMatch, M

-----------------------------------------------------------------------------
(***************************************************************************)
(* search --libc: the digits an address ends in.                           *)
(***************************************************************************)

\* Dividing by the base gets smaller.
LEMMA Division ==
    ASSUME NEW n \in Nat
    PROVE  /\ n \div Base \in 0 .. n /\ n % Base \in 0 .. Base - 1
           /\ n >= Base => n \div Base \in 1 .. n - 1
           /\ n = Base * (n \div Base) + (n % Base)
<1>1. Base \in Nat /\ Base > 1 /\ n \in Nat
  BY BaseAssumption
<1>2. n \div Base \in Int /\ n % Base \in 0 .. Base - 1 /\ n = Base * (n \div Base) + (n % Base)
  BY <1>1
<1>3. n \div Base \in 0 .. n /\ (n >= Base => n \div Base \in 1 .. n - 1)
  BY <1>1
<1> QED BY <1>2, <1>3

\* Induction on all smaller numbers.
LEMMA StrongInduction ==
    ASSUME NEW N \in Nat, NEW S, \A n \in 0 .. N : (\A i \in 0 .. n - 1 : i \in S) => n \in S
    PROVE  \A n \in 0 .. N : n \in S
<1> DEFINE T == (0 .. N) \ S
<1> SUFFICES ASSUME T # {} PROVE FALSE
  OBVIOUS
<1>1. T \subseteq Nat
  OBVIOUS
<1>2. PICK x \in T : \A y \in T : x <= y
  <2> HIDE DEF T
  <2> QED BY <1>1, LeastNumber
<1>3. \A i \in 0 .. x - 1 : i \in S
  BY <1>2
<1> QED BY <1>3

\* Induction from the end of a list to its start.
LEMMA BackwardInduction ==
    ASSUME NEW N \in Nat, NEW S, \A x \in 0 .. N : (\A y \in x + 1 .. N : y \in S) => x \in S
    PROVE  \A x \in 0 .. N : x \in S
<1> DEFINE T == {m \in 0 .. N : N - m \in S}
<1>1. ASSUME NEW m \in 0 .. N, \A i \in 0 .. m - 1 : i \in T PROVE m \in T
  <2>1. ASSUME NEW y \in N - m + 1 .. N PROVE y \in S
    <3>1. N - y \in 0 .. m - 1 /\ N - (N - y) = y
      OBVIOUS
    <3> QED BY <1>1, <3>1
  <2> QED BY <2>1
<1> HIDE DEF T
<1>2. \A m \in 0 .. N : m \in T
  BY <1>1, StrongInduction
<1>3. ASSUME NEW x \in 0 .. N PROVE x \in S
  <2>1. N - x \in 0 .. N /\ N - (N - x) = x
    OBVIOUS
  <2> QED BY <1>2, <2>1 DEF T
<1> QED BY <1>3

\* The digits of a number, unfolded: the least number for which they are not
\* well defined cannot be.
LEMMA HexDef ==
    ASSUME NEW v \in Nat
    PROVE  \A n \in 0 .. v : HexUpTo(v)[n] = IF n < Base THEN <<n>>
                                             ELSE Append(HexUpTo(v)[n \div Base], n % Base)
<1> DEFINE Step(h, n) == Append(h, n % Base)
           Next1(n) == n \div Base
           Body(f, m) == [n \in 0 .. m |-> IF n < Base THEN <<n>> ELSE Step(f[Next1(n)], n)]
           Good(m) == \E f : f = Body(f, m)
<1>0. /\ v \in Nat /\ Base \in Nat /\ Base > 1
      /\ \A n \in Nat : n >= Base => Next1(n) \in 0 .. n - 1
  <2>1. ASSUME NEW n \in Nat, n >= Base PROVE Next1(n) \in 0 .. n - 1
    BY <2>1, Division
  <2> HIDE DEF Next1
  <2> QED BY <2>1, BaseAssumption
<1> HIDE DEF Step, Next1
<1>1. Good(0)
  <2> DEFINE f == [n \in 0 .. 0 |-> <<n>>]
  <2>1. f = Body(f, 0)
    BY <1>0
  <2> QED BY <2>1
<1>2. ASSUME NEW m \in 0 .. v - 1, Good(m) PROVE Good(m + 1)
  <2>1. PICK f : f = Body(f, m)
    BY <1>2
  <2> DEFINE new == IF m + 1 < Base THEN <<m + 1>> ELSE Step(f[Next1(m + 1)], m + 1)
             g == [n \in 0 .. m + 1 |-> IF n = m + 1 THEN new ELSE f[n]]
  <2>2. ASSUME NEW n \in 0 .. m + 1
        PROVE  g[n] = IF n < Base THEN <<n>> ELSE Step(g[Next1(n)], n)
    <3>1. n >= Base => Next1(n) \in 0 .. m /\ g[Next1(n)] = f[Next1(n)]
      BY <1>0
    <3>2. CASE n = m + 1
      BY <1>0, <3>1, <3>2
    <3>3. CASE n \in 0 .. m
      <4>1. g[n] = f[n]
        BY <3>3
      <4>2. f[n] = IF n < Base THEN <<n>> ELSE Step(f[Next1(n)], n)
        BY <2>1, <3>3
      <4> QED BY <1>0, <3>1, <4>1, <4>2
    <3> QED BY <3>2, <3>3
  <2>3. g = Body(g, m + 1)
    BY <2>2
  <2> HIDE DEF g, Body
  <2> QED BY <2>3
<1>3. \A m \in 0 .. v : Good(m)
  <2> DEFINE Reach == {i \in 0 .. v : Good(i)}
  <2> HIDE DEF Good
  <2>1. 0 \in Reach /\ \A i \in 0 .. v - 1 : i \in Reach => i + 1 \in Reach
    BY <1>0, <1>1, <1>2
  <2> HIDE DEF Reach
  <2>2. \A i \in 0 .. v : i \in Reach
    BY <1>0, <2>1, Induction
  <2> QED BY <2>2 DEF Reach
<1> DEFINE F == HexUpTo(v)
<1>4. F = CHOOSE h : h = Body(h, v)
  BY DEF HexUpTo, Step, Next1
<1> HIDE DEF F
<1>5. F = Body(F, v)
  <2> HIDE DEF Body
  <2>1. PICK f : f = Body(f, v)
    BY <1>0, <1>3
  <2> QED BY <1>4, <2>1
<1> QED BY <1>5 DEF F, Step, Next1

\* Every number has digits.
LEMMA HexIsList ==
    ASSUME NEW v \in Nat
    PROVE  \A n \in 0 .. v : HexUpTo(v)[n] \in Seq(Nat) /\ Len(HexUpTo(v)[n]) >= 1
<1> DEFINE H == HexUpTo(v)
           Good(n) == H[n] \in Seq(Nat) /\ Len(H[n]) >= 1
           Reach == {n \in 0 .. v : Good(n)}
<1>0. \A n \in 0 .. v : H[n] = IF n < Base THEN <<n>> ELSE Append(H[n \div Base], n % Base)
  BY HexDef
<1> HIDE DEF H
<1>1. ASSUME NEW n \in 0 .. v, \A i \in 0 .. n - 1 : Good(i) PROVE Good(n)
  <2>0. n \in Nat /\ Base \in Nat
    BY BaseAssumption
  <2>1. CASE n < Base
    <3>1. H[n] = <<n>>
      BY <1>0, <2>1
    <3>2. <<n>> \in Seq(Nat) /\ Len(<<n>>) = 1
      BY <2>0
    <3> QED BY <3>1, <3>2
  <2>2. CASE n >= Base
    <3>1. n \div Base \in 0 .. n - 1 /\ n % Base \in Nat /\ ~(n < Base)
      BY <2>0, <2>2, Division
    <3> DEFINE s == H[n \div Base]
    <3>2. s \in Seq(Nat) /\ Len(s) >= 1
      BY <1>1, <3>1
    <3>3. H[n] = Append(s, n % Base)
      BY <1>0, <3>1
    <3> HIDE DEF s
    <3>4. Append(s, n % Base) \in Seq(Nat) /\ Len(Append(s, n % Base)) = Len(s) + 1 /\ Len(s) \in Nat
      BY <3>1, <3>2, AppendFacts
    <3> QED BY <3>2, <3>3, <3>4
  <2> QED BY <2>0, <2>1, <2>2
<1> HIDE DEF Good
<1>2. \A n \in 0 .. v : (\A i \in 0 .. n - 1 : i \in Reach) => n \in Reach
  <2>1. ASSUME NEW n \in 0 .. v, \A i \in 0 .. n - 1 : i \in Reach PROVE Good(n)
    <3>1. \A i \in 0 .. n - 1 : Good(i)
      BY <2>1
    <3> QED BY <1>1, <3>1
  <2> QED BY <2>1
<1> HIDE DEF Reach
<1>3. \A n \in 0 .. v : n \in Reach
  BY <1>2, StrongInduction
<1> QED BY <1>3 DEF Reach, Good, H

\* NumberUpTo, unfolded.
LEMMA NumberDef ==
    ASSUME NEW ds, Len(ds) \in Nat
    PROVE  /\ NumberUpTo(ds)[0] = [value |-> 0, bound |-> 1]
           /\ \A k \in 0 .. Len(ds) - 1 :
                 NumberUpTo(ds)[k + 1] = [value |-> NumberUpTo(ds)[k].value * Base + ds[k + 1],
                                          bound |-> NumberUpTo(ds)[k].bound * Base]
<1> DEFINE Step(v, n) == [value |-> v.value * Base + ds[n], bound |-> v.bound * Base]
           Body(f, m) == [n \in 0 .. m |-> IF n = 0 THEN [value |-> 0, bound |-> 1] ELSE Step(f[n - 1], n)]
           Good(m) == \E f : f = Body(f, m)
<1> HIDE DEF Step
<1>0. Len(ds) \in Nat
  OBVIOUS
<1>1. Good(0)
  <2> DEFINE f == [n \in 0 .. 0 |-> [value |-> 0, bound |-> 1]]
  <2>1. f = Body(f, 0)
    OBVIOUS
  <2> QED BY <2>1
<1>2. ASSUME NEW m \in 0 .. Len(ds) - 1, Good(m) PROVE Good(m + 1)
  <2>1. PICK f : f = Body(f, m)
    BY <1>2
  <2> DEFINE g == [n \in 0 .. m + 1 |-> IF n = m + 1 THEN Step(f[m], m + 1) ELSE f[n]]
  <2>2. ASSUME NEW n \in 0 .. m + 1 PROVE g[n] = IF n = 0 THEN [value |-> 0, bound |-> 1] ELSE Step(g[n - 1], n)
    <3>1. CASE n = m + 1
      BY <3>1
    <3>2. CASE n \in 0 .. m
      <4>1. g[n] = f[n] /\ (n # 0 => g[n - 1] = f[n - 1])
        BY <3>2
      <4>2. f[n] = IF n = 0 THEN [value |-> 0, bound |-> 1] ELSE Step(f[n - 1], n)
        BY <2>1, <3>2
      <4> QED BY <4>1, <4>2
    <3> QED BY <3>1, <3>2
  <2>3. g = Body(g, m + 1)
    BY <2>2
  <2> HIDE DEF g, Body
  <2> QED BY <2>3
<1>3. \A m \in 0 .. Len(ds) : Good(m)
  <2> DEFINE Reach == {i \in 0 .. Len(ds) : Good(i)}
  <2> HIDE DEF Good
  <2>1. 0 \in Reach /\ \A i \in 0 .. Len(ds) - 1 : i \in Reach => i + 1 \in Reach
    BY <1>0, <1>1, <1>2
  <2> HIDE DEF Reach
  <2>2. \A i \in 0 .. Len(ds) : i \in Reach
    BY <1>0, <2>1, Induction
  <2> QED BY <2>2 DEF Reach
<1> DEFINE F == NumberUpTo(ds)
<1>4. F = CHOOSE h : h = Body(h, Len(ds))
  BY DEF NumberUpTo, Step
<1> HIDE DEF F
<1>5. F = Body(F, Len(ds))
  <2> HIDE DEF Body
  <2>1. PICK f : f = Body(f, Len(ds))
    BY <1>0, <1>3
  <2> QED BY <1>4, <2>1
<1>6. F[0] = [value |-> 0, bound |-> 1] /\ \A n \in 0 .. Len(ds) - 1 : F[n + 1] = Step(F[n], n + 1)
  <2>1. \A n \in 0 .. Len(ds) : F[n] = IF n = 0 THEN [value |-> 0, bound |-> 1] ELSE Step(F[n - 1], n)
    BY <1>5
  <2> QED BY <2>1
<1> QED BY <1>6 DEF F, Step

\* There is one quotient and one remainder.
LEMMA DivisionIsUnique ==
    ASSUME NEW b \in Nat \ {0}, NEW q \in Int, NEW r \in 0 .. b - 1, NEW n \in Int, n = b * q + r
    PROVE  n \div b = q /\ n % b = r
OBVIOUS

\* The last digit, and what is in front of it.
InTwo(n, b, B, val, d) == (n % (b * B)) = val * B + d <=> ((n \div B) % b) = val /\ (n % B) = d

LEMMA LastDigit ==
    ASSUME NEW B \in Nat, B > 1, NEW n \in Nat, NEW b \in Nat \ {0},
           NEW val \in 0 .. b - 1, NEW d \in 0 .. B - 1
    PROVE  InTwo(n, b, B, val, d)
<1> DEFINE q == n \div B
           r == n % B
           p == q \div b
           s == q % b
           m == b * B
<1>1. q \in Nat /\ r \in 0 .. B - 1 /\ n = B * q + r
  OBVIOUS
<1> HIDE DEF q, r
<1>2. p \in Nat /\ s \in 0 .. b - 1 /\ q = b * p + s
  BY <1>1
<1> HIDE DEF p, s
<1>3. m \in Nat \ {0}
  OBVIOUS
<1>4. n = m * p + (B * s + r)
  <2>1. B * q = B * (b * p) + B * s
    BY <1>1, <1>2
  <2>2. B * (b * p) = (b * B) * p
    BY <1>2
  <2>3. B * q \in Nat /\ B * s \in Nat /\ m * p \in Nat /\ B * (b * p) \in Nat
    BY <1>1, <1>2, <1>3
  <2> QED BY <1>1, <2>1, <2>2, <2>3
<1> HIDE DEF m
<1>5. B * s + r \in 0 .. m - 1
  <2>1. B * s <= B * (b - 1) /\ B * s \in Nat
    BY <1>2
  <2>2. B * (b - 1) = m - B
    BY DEF m
  <2> QED BY <1>1, <1>3, <2>1, <2>2
<1>6. (n % m) = B * s + r
  <2> DEFINE y == B * s + r
  <2>1. y \in 0 .. m - 1 /\ n = m * p + y /\ p \in Int /\ n \in Int
    BY <1>2, <1>4, <1>5
  <2> HIDE DEF y
  <2>2. (n % m) = y
    BY <1>3, <2>1, DivisionIsUnique
  <2> QED BY <2>2 DEF y
<1>7. B * s + r = val * B + d <=> s = val /\ r = d
  <2>1. ASSUME B * s + r = val * B + d PROVE s = val /\ r = d
    <3> DEFINE x == B * s + r
    <3>1. x \in Int /\ x = B * s + r /\ B \in Nat \ {0} /\ s \in Int /\ r \in 0 .. B - 1
      BY <1>1, <1>2
    <3>2. x = B * val + d /\ val \in Int /\ d \in 0 .. B - 1
      BY <2>1
    <3> HIDE DEF x
    <3>3. x \div B = s /\ x % B = r
      BY ONLY <3>1, DivisionIsUnique
    <3>4. x \div B = val /\ x % B = d
      BY ONLY <3>1, <3>2, DivisionIsUnique
    <3> QED BY <3>3, <3>4
  <2>2. ASSUME s = val, r = d PROVE B * s + r = val * B + d
    BY <2>2
  <2> QED BY <2>1, <2>2
<1> QED BY <1>6, <1>7 DEF InTwo, m, q, r, s

\* Whether a number has a digit in front of its last one, and more.
LEMMA DigitsInFront ==
    ASSUME NEW B \in Nat, B > 1, NEW n \in Nat, n >= B, NEW b \in Nat \ {0}, NEW c \in Nat, b = 1 \/ b = c * B
    PROVE  n * B >= b * B <=> (n \div B) * B >= b
<1> DEFINE q == n \div B
           r == n % B
<1>1. q \in Nat /\ r \in 0 .. B - 1 /\ n = B * q + r /\ q >= 1
  OBVIOUS
<1> HIDE DEF q, r
<1>2. n * B >= b * B <=> n >= b
  OBVIOUS
<1>3. CASE b = 1
  <2>1. q * B >= 1
    BY <1>1
  <2> QED BY <1>2, <1>3, <2>1 DEF q
<1>4. CASE b = c * B
  <2>1. ASSUME n >= b PROVE q * B >= b
    <3>1. q >= c
      <4> SUFFICES ASSUME q + 1 <= c PROVE FALSE
        BY <1>1
      <4>1. (q + 1) * B <= c * B
        BY <1>1
      <4>2. (q + 1) * B = B * q + B
        BY <1>1
      <4>3. B * q \in Nat /\ c * B \in Nat
        BY <1>1
      <4> QED BY <1>1, <1>4, <2>1, <4>1, <4>2, <4>3
    <3> QED BY <1>1, <1>4, <3>1
  <2>2. ASSUME q * B >= b PROVE n >= b
    <3>1. q * B = B * q /\ B * q \in Nat
      BY <1>1
    <3> QED BY <1>1, <2>2, <3>1
  <2> QED BY <1>2, <2>1, <2>2 DEF q
<1> QED BY <1>3, <1>4

\* Multiplying keeps an order.
LEMMA TimesMonotone ==
    ASSUME NEW x \in Nat, NEW y \in Nat, NEW z \in Nat
    PROVE  /\ x * z \in Nat /\ y * z \in Nat
           /\ x <= y => x * z <= y * z
           /\ x < y /\ z > 0 => x * z < y * z
OBVIOUS

\* The value of k digits is below the least number that needs more.
LEMMA NumberFacts ==
    ASSUME NEW ds \in Seq(0 .. Base - 1)
    PROVE  \A k \in 0 .. Len(ds) :
              /\ NumberUpTo(ds)[k].bound \in Nat \ {0}
              /\ NumberUpTo(ds)[k].value \in 0 .. NumberUpTo(ds)[k].bound - 1
              /\ k = 0 => NumberUpTo(ds)[k].bound = 1 /\ NumberUpTo(ds)[k].value = 0
              /\ k > 0 => \E c \in Nat \ {0} : NumberUpTo(ds)[k].bound = c * Base
<1> DEFINE F == NumberUpTo(ds)
           V(k) == F[k].value
           W(k) == F[k].bound
           Good(k) == /\ W(k) \in Nat \ {0} /\ V(k) \in 0 .. W(k) - 1
                      /\ k = 0 => W(k) = 1 /\ V(k) = 0
                      /\ k > 0 => \E c \in Nat \ {0} : W(k) = c * Base
<1>0. /\ Len(ds) \in Nat /\ Base \in Nat /\ Base > 1
      /\ W(0) = 1 /\ V(0) = 0
      /\ \A k \in 0 .. Len(ds) - 1 : /\ V(k + 1) = V(k) * Base + ds[k + 1]
                                     /\ W(k + 1) = W(k) * Base
  <2>1. Len(ds) \in Nat
    OBVIOUS
  <2>2. /\ F[0] = [value |-> 0, bound |-> 1]
        /\ \A k \in 0 .. Len(ds) - 1 : F[k + 1] = [value |-> F[k].value * Base + ds[k + 1],
                                                   bound |-> F[k].bound * Base]
    BY <2>1, NumberDef
  <2> HIDE DEF F
  <2>3. W(0) = 1 /\ V(0) = 0
    BY <2>2
  <2>4. ASSUME NEW k \in 0 .. Len(ds) - 1
        PROVE  V(k + 1) = V(k) * Base + ds[k + 1] /\ W(k + 1) = W(k) * Base
    <3>1. F[k + 1] = [value |-> F[k].value * Base + ds[k + 1], bound |-> F[k].bound * Base]
      BY <2>2
    <3> QED BY <3>1
  <2> QED BY <2>1, <2>3, <2>4, BaseAssumption
<1> HIDE DEF V, W, F
<1>1. Good(0)
  BY <1>0
<1>2. ASSUME NEW k \in 0 .. Len(ds) - 1, Good(k) PROVE Good(k + 1)
  <2> DEFINE n == k + 1
             b == W(k)
             d == ds[n]
  <2>1. d \in 0 .. Base - 1
    BY <1>0
  <2>2. b \in Nat \ {0} /\ V(k) \in 0 .. b - 1 /\ W(n) = b * Base /\ V(n) = V(k) * Base + d /\ n > 0
    BY <1>0, <1>2
  <2> HIDE DEF n, b, d
  <2>3. W(n) \in Nat \ {0}
    BY <1>0, <2>2
  <2>4. V(n) \in 0 .. W(n) - 1
    <3>1. V(k) * Base <= (b - 1) * Base /\ V(k) * Base \in Nat
      <4>1. V(k) \in Nat /\ b - 1 \in Nat /\ V(k) <= b - 1 /\ Base \in Nat
        BY <1>0, <2>2
      <4> QED BY <4>1, TimesMonotone
    <3>2. (b - 1) * Base = b * Base - Base /\ b * Base \in Nat
      BY <1>0, <2>2
    <3> QED BY <1>0, <2>1, <2>2, <3>1, <3>2
  <2>5. Good(n)
    BY <2>2, <2>3, <2>4
  <2> QED BY <2>5 DEF n
<1>3. \A k \in 0 .. Len(ds) : Good(k)
  <2> DEFINE Reach == {i \in 0 .. Len(ds) : Good(i)}
  <2> HIDE DEF Good
  <2>1. 0 \in Reach /\ \A i \in 0 .. Len(ds) - 1 : i \in Reach => i + 1 \in Reach
    BY <1>0, <1>1, <1>2
  <2> HIDE DEF Reach
  <2>2. \A i \in 0 .. Len(ds) : i \in Reach
    BY <1>0, <2>1, Induction
  <2> QED BY <2>2 DEF Reach
<1> QED BY <1>3 DEF F, V, W

\* A number's digits end with the first k of ds.
Ends(h, ds, k) == k <= Len(h) /\ \A i \in 1 .. k : h[Len(h) - k + i] = ds[i]

\* Behind one more digit: the last one is it, those in front end as they should.
LEMMA EndsAppend ==
    ASSUME NEW s \in Seq(Nat), NEW e \in Nat, NEW ds, NEW k \in Nat
    PROVE  Ends(Append(s, e), ds, k + 1) <=> Ends(s, ds, k) /\ e = ds[k + 1]
<1> DEFINE h == Append(s, e)
           l == Len(s)
           n == k + 1
<1>1. l \in Nat /\ Len(h) = l + 1 /\ h[l + 1] = e /\ \A i \in 1 .. l : h[i] = s[i]
  BY AppendFacts
<1> HIDE DEF h
<1>2. n \in Nat /\ n = k + 1
  OBVIOUS
<1>3. ASSUME Ends(h, ds, n) PROVE Ends(s, ds, k) /\ e = ds[n]
  <2>1. n <= l + 1 /\ \A i \in 1 .. n : h[l + 1 - n + i] = ds[i]
    BY <1>1, <1>3 DEF Ends
  <2>2. e = ds[n]
    <3>1. n \in 1 .. n /\ l + 1 - n + n = l + 1
      BY <1>1, <1>2
    <3> QED BY <1>1, <2>1, <3>1
  <2>3. ASSUME NEW i \in 1 .. k PROVE s[l - k + i] = ds[i]
    <3>1. i \in 1 .. n /\ l + 1 - n + i = l - k + i /\ l - k + i \in 1 .. l
      BY <1>1, <1>2, <2>1
    <3>2. h[l + 1 - n + i] = ds[i]
      BY <2>1, <3>1
    <3> QED BY <1>1, <3>1, <3>2
  <2> QED BY <1>1, <1>2, <2>1, <2>2, <2>3 DEF Ends
<1>4. ASSUME Ends(s, ds, k), e = ds[n] PROVE Ends(h, ds, n)
  <2>1. k <= l /\ \A i \in 1 .. k : s[l - k + i] = ds[i]
    BY <1>1, <1>4 DEF Ends
  <2>2. ASSUME NEW i \in 1 .. n PROVE h[l + 1 - n + i] = ds[i]
    <3>1. CASE i = n
      <4>1. l + 1 - n + i = l + 1
        BY <1>1, <1>2, <3>1
      <4> QED BY <1>1, <1>4, <3>1, <4>1
    <3>2. CASE i \in 1 .. k
      <4>1. l + 1 - n + i = l - k + i /\ l - k + i \in 1 .. l
        BY <1>1, <1>2, <2>1, <3>2
      <4> QED BY <1>1, <2>1, <3>2, <4>1
    <3> QED BY <1>2, <3>1, <3>2
  <2> QED BY <1>1, <1>2, <2>1, <2>2 DEF Ends
<1> QED BY <1>3, <1>4 DEF h

\* One digit more.
LEMMA EndsOne ==
    ASSUME NEW n \in Nat, NEW ds, NEW k \in Nat
    PROVE  Ends(<<n>>, ds, k + 1) <=> k = 0 /\ n = ds[k + 1]
<1>1. <<n>> = Append(<<>>, n) /\ <<>> \in Seq(Nat) /\ Len(<<>>) = 0
  OBVIOUS
<1> DEFINE s == <<>>
<1>2. Ends(<<n>>, ds, k + 1) <=> Ends(<<>>, ds, k) /\ n = ds[k + 1]
  <2>1. s \in Seq(Nat) /\ <<n>> = Append(s, n)
    BY <1>1
  <2> HIDE DEF s
  <2>2. Ends(Append(s, n), ds, k + 1) <=> Ends(s, ds, k) /\ n = ds[k + 1]
    BY <2>1, EndsAppend
  <2> QED BY <2>1, <2>2 DEF s
<1>3. Ends(<<>>, ds, k) <=> k = 0
  BY <1>1 DEF Ends
<1> QED BY <1>2, <1>3

\* The digits of n end with ds when n does, as a number.
LEMMA EndsExact ==
    ASSUME NEW v \in Nat, NEW ds \in Seq(0 .. Base - 1)
    PROVE  \A k \in 0 .. Len(ds) : \A n \in 1 .. v :
              Ends(HexUpTo(v)[n], ds, k) <=>
                 /\ (n % NumberUpTo(ds)[k].bound) = NumberUpTo(ds)[k].value
                 /\ n * Base >= NumberUpTo(ds)[k].bound
<1> DEFINE H == HexUpTo(v)
           F == NumberUpTo(ds)
           V(k) == F[k].value
           W(k) == F[k].bound
           Good(k) == \A n \in 1 .. v : Ends(H[n], ds, k) <=> (n % W(k)) = V(k) /\ n * Base >= W(k)
<1>0. Len(ds) \in Nat /\ Base \in Nat /\ Base > 1
  BY BaseAssumption
<1>a. \A n \in 0 .. v : /\ H[n] = IF n < Base THEN <<n>> ELSE Append(H[n \div Base], n % Base)
                        /\ H[n] \in Seq(Nat) /\ Len(H[n]) >= 1
  BY HexDef, HexIsList
<1>b. \A k \in 0 .. Len(ds) :
              /\ W(k) \in Nat \ {0} /\ V(k) \in 0 .. W(k) - 1
              /\ k = 0 => W(k) = 1 /\ V(k) = 0
              /\ k > 0 => \E c \in Nat \ {0} : W(k) = c * Base
  BY NumberFacts
<1>c. \A k \in 0 .. Len(ds) - 1 : V(k + 1) = V(k) * Base + ds[k + 1] /\ W(k + 1) = W(k) * Base
  <2>1. \A k \in 0 .. Len(ds) - 1 : F[k + 1] = [value |-> F[k].value * Base + ds[k + 1],
                                               bound |-> F[k].bound * Base]
    BY <1>0, NumberDef
  <2> HIDE DEF F
  <2>2. ASSUME NEW k \in 0 .. Len(ds) - 1
        PROVE  V(k + 1) = V(k) * Base + ds[k + 1] /\ W(k + 1) = W(k) * Base
    <3>1. F[k + 1] = [value |-> F[k].value * Base + ds[k + 1], bound |-> F[k].bound * Base]
      BY <2>1
    <3> QED BY <3>1
  <2> QED BY <2>2
<1> HIDE DEF H, F, V, W
<1>1. Good(0)
  <2> SUFFICES ASSUME NEW n \in 1 .. v PROVE Ends(H[n], ds, 0) <=> (n % W(0)) = V(0) /\ n * Base >= W(0)
    OBVIOUS
  <2>1. W(0) = 1 /\ V(0) = 0
    BY <1>0, <1>b
  <2>2. n \in Nat /\ n \in 0 .. v /\ (n % 1) = 0 /\ n * Base >= 1
    BY <1>0
  <2>3. Ends(H[n], ds, 0)
    BY <1>a, <2>2 DEF Ends
  <2> QED BY <2>1, <2>2, <2>3
<1>2. ASSUME NEW k \in 0 .. Len(ds) - 1, Good(k) PROVE Good(k + 1)
  <2> DEFINE m == k + 1
  <2>0. /\ m = k + 1 /\ k \in Nat /\ k \in 0 .. Len(ds) /\ ds[m] \in 0 .. Base - 1
        /\ V(m) = V(k) * Base + ds[m] /\ W(m) = W(k) * Base
    BY <1>0, <1>c
  <2>1. W(k) \in Nat \ {0} /\ V(k) \in 0 .. W(k) - 1
    BY <1>b, <2>0
  <2>2. k = 0 => W(k) = 1 /\ V(k) = 0
    BY <1>b, <2>0
  <2>3. k > 0 => \E c \in Nat \ {0} : W(k) = c * Base
    BY <1>b, <2>0
  <2>4. ASSUME NEW n \in 1 .. v
        PROVE  Ends(H[n], ds, k + 1) <=> (n % W(m)) = V(m) /\ n * Base >= W(m)
    <3>0. n \in Nat /\ n \in 0 .. v /\ n >= 1
      OBVIOUS
    <3> DEFINE q == n \div Base
               r == n % Base
    <3>1. (n % (W(k) * Base)) = V(k) * Base + ds[m] <=> (q % W(k)) = V(k) /\ r = ds[m]
      <4> DEFINE b == W(k)
                 val == V(k)
                 d == ds[m]
      <4>1. /\ b \in Nat \ {0} /\ val \in 0 .. b - 1 /\ d \in 0 .. Base - 1
            /\ Base \in Nat /\ Base > 1 /\ n \in Nat
        BY <1>0, <2>0, <2>1, <3>0
      <4> HIDE DEF b, val, d
      <4>2. InTwo(n, b, Base, val, d)
        BY ONLY <4>1, LastDigit
      <4> QED BY <4>2 DEF InTwo, b, val, d
    <3>2. CASE n < Base
      <4>1. H[n] = <<n>>
        BY <1>a, <3>0, <3>2
      <4>2. Ends(H[n], ds, k + 1) <=> k = 0 /\ n = ds[k + 1]
        BY <2>0, <3>0, <4>1, EndsOne
      <4>3. q = 0 /\ r = n
        BY <1>0, <3>0, <3>2
      <4> HIDE DEF q, r
      <4>4. CASE k = 0
        <5>1. (q % W(k)) = V(k)
          BY <2>2, <4>3, <4>4
        <5>2. n * Base >= W(k) * Base
          BY <1>0, <2>2, <3>0, <4>4
        <5> QED BY <2>0, <3>1, <4>2, <4>3, <4>4, <5>1, <5>2
      <4>5. CASE k # 0
        <5>1. PICK c \in Nat \ {0} : W(k) = c * Base
          BY <2>0, <2>3, <4>5
        <5>2. W(k) >= Base
          BY <1>0, <5>1
        <5>3. n * Base < W(k) * Base
          <6>1. n \in Nat /\ W(k) \in Nat /\ Base \in Nat /\ n < W(k) /\ Base > 0
            BY <1>0, <2>1, <3>0, <3>2, <5>2
          <6> QED BY <6>1, TimesMonotone
        <5>4. n * Base \in Nat /\ W(k) * Base \in Nat
          BY <1>0, <2>1, <3>0
        <5> QED BY <2>0, <4>2, <4>5, <5>3, <5>4
      <4> QED BY <4>4, <4>5
    <3>3. CASE n >= Base
      <4>1. q \in 1 .. n - 1 /\ r \in Nat /\ q \in 1 .. v /\ q \in 0 .. v
        <5>1. q \in 1 .. n - 1 /\ r \in 0 .. Base - 1
          BY <3>0, <3>3, Division
        <5> HIDE DEF q, r
        <5> QED BY <1>0, <3>0, <5>1
      <4>2. H[n] = Append(H[q], r)
        <5>1. ~(n < Base)
          BY <1>0, <3>0, <3>3
        <5> QED BY <1>a, <3>0, <5>1
      <4> HIDE DEF q, r
      <4>3. H[q] \in Seq(Nat)
        BY <1>a, <4>1
      <4>4. Ends(H[n], ds, k + 1) <=> Ends(H[q], ds, k) /\ r = ds[k + 1]
        BY <2>0, <4>1, <4>2, <4>3, EndsAppend
      <4>5. Ends(H[q], ds, k) <=> (q % W(k)) = V(k) /\ q * Base >= W(k)
        BY <1>2, <4>1
      <4>6. n * Base >= W(k) * Base <=> q * Base >= W(k)
        <5>1. \E c \in Nat : W(k) = 1 \/ W(k) = c * Base
          BY <2>0, <2>2, <2>3
        <5> QED BY <1>0, <2>1, <3>0, <3>3, <5>1, DigitsInFront DEF q
      <4> QED BY <2>0, <3>1, <4>4, <4>5, <4>6
    <3> QED BY <1>0, <3>0, <3>2, <3>3
  <2> QED BY <2>4
<1>3. \A k \in 0 .. Len(ds) : Good(k)
  <2> DEFINE Reach == {i \in 0 .. Len(ds) : Good(i)}
  <2> HIDE DEF Good
  <2>1. 0 \in Reach /\ \A i \in 0 .. Len(ds) - 1 : i \in Reach => i + 1 \in Reach
    BY <1>0, <1>1, <1>2
  <2> HIDE DEF Reach
  <2>2. \A i \in 0 .. Len(ds) : i \in Reach
    BY <1>0, <2>1, Induction
  <2> QED BY <2>2 DEF Reach
<1> QED BY <1>3 DEF F, H, V, W

\* A set of numbers has a least one.
LEMMA MinFacts ==
    ASSUME NEW T, T \subseteq Nat, T # {}
    PROVE  Min(T) \in T /\ \A y \in T : Min(T) <= y
<1>1. \E x \in T : \A y \in T : x <= y
  BY LeastNumber
<1> QED BY <1>1 DEF Min

\* A bounded set of numbers has a greatest one.
LEMMA MaxFacts ==
    ASSUME NEW N \in Nat, NEW T, T \subseteq 0 .. N, T # {}
    PROVE  Max(T) \in T
<1> DEFINE U == {y \in 0 .. N : N - y \in T}
<1>1. U \subseteq Nat
  OBVIOUS
<1>2. U # {}
  <2>1. PICK x \in T : TRUE
    OBVIOUS
  <2>2. x \in 0 .. N
    OBVIOUS
  <2>3. N - x \in 0 .. N /\ N - (N - x) = x
    BY <2>2
  <2> QED BY <2>3
<1>3. Min(U) \in U /\ \A y \in U : Min(U) <= y
  <2> HIDE DEF U
  <2> QED BY <1>1, <1>2, MinFacts
<1> DEFINE m == Min(U)
<1>4. m \in 0 .. N /\ N - m \in T /\ \A y \in U : m <= y
  BY <1>3
<1> HIDE DEF m
<1>5. ASSUME NEW y \in T PROVE N - m >= y
  <2>1. y \in 0 .. N /\ N - y \in 0 .. N /\ N - (N - y) = y
    OBVIOUS
  <2>2. N - y \in U
    BY <2>1
  <2> HIDE DEF U
  <2> QED BY <1>4, <2>1, <2>2
<1>6. \E x \in T : \A y \in T : x >= y
  BY <1>4, <1>5
<1> QED BY <1>6 DEF Max

\* A symbol that is not passed over has an address.
LEMMA KeptFacts ==
    ASSUME NEW tab, tab \in Seq(ToSet(tab)),
           \A s \in ToSet(tab) : Len(s.name) \in Nat /\ s.value \in Nat
    PROVE  /\ Len(Kept(tab)) \in Nat
           /\ \A k \in 1 .. Len(Kept(tab)) : /\ Len(Kept(tab)[k].name) \in Nat
                                             /\ Kept(tab)[k].value \in Nat \ {0}
           /\ ToSet(Kept(tab)) = {Kept(tab)[k] : k \in 1 .. Len(Kept(tab))}
<1> DEFINE T == {s \in ToSet(tab) : s.name # <<>> /\ s.value # 0}
           d == Kept(tab)
<1>1. d \in Seq(ToSet(tab)) /\ ToSet(d) = ToSet(tab) \cap T
  BY ThoseMembers DEF Kept
<1> HIDE DEF d
<1>2. Len(d) \in Nat /\ ToSet(d) = {d[k] : k \in 1 .. Len(d)}
  BY <1>1 DEF ToSet
<1>3. \A k \in 1 .. Len(d) : d[k] \in T
  BY <1>1, <1>2
<1> QED BY <1>2, <1>3 DEF d

\* Every symbol has a name and an address that is not 0.
LEMMA SymbolsFacts ==
    ASSUME NEW f, Tables(f)
    PROVE  \A n \in DOMAIN Symbols(f) : Len(n) \in Nat /\ Symbols(f)[n] \in Nat \ {0}
<1> DEFINE d == Kept(f.dynsym)
           s == Kept(f.symtab)
<1>1. Symbols(f) = [n \in NamesIn(d) \cup NamesIn(s) |->
                       IF n \in NamesIn(d) THEN d[Max(At(d, n))].value ELSE s[Min(At(s, n))].value]
  BY DEF Symbols
<1>2. ASSUME NEW tab \in {f.dynsym, f.symtab}, NEW n \in NamesIn(Kept(tab))
      PROVE  /\ Len(n) \in Nat
             /\ Kept(tab)[Max(At(Kept(tab), n))].value \in Nat \ {0}
             /\ Kept(tab)[Min(At(Kept(tab), n))].value \in Nat \ {0}
  <2> DEFINE k == Kept(tab)
  <2>1. /\ Len(k) \in Nat
        /\ \A i \in 1 .. Len(k) : Len(k[i].name) \in Nat /\ k[i].value \in Nat \ {0}
        /\ ToSet(k) = {k[i] : i \in 1 .. Len(k)}
    <3>1. tab \in Seq(ToSet(tab)) /\ \A x \in ToSet(tab) : Len(x.name) \in Nat /\ x.value \in Nat
      BY DEF Tables
    <3> QED BY <3>1, KeptFacts
  <2> HIDE DEF k
  <2>2. PICK i \in 1 .. Len(k) : k[i].name = n
    BY <2>1 DEF NamesIn, k
  <2>3. i \in At(k, n) /\ At(k, n) \subseteq 1 .. Len(k)
    BY <2>2 DEF At
  <2>4. At(k, n) # {} /\ At(k, n) \subseteq Nat /\ At(k, n) \subseteq 0 .. Len(k)
    BY <2>1, <2>3
  <2>5. Max(At(k, n)) \in 1 .. Len(k) /\ Min(At(k, n)) \in 1 .. Len(k)
    BY <2>1, <2>3, <2>4, MinFacts, MaxFacts
  <2> QED BY <2>1, <2>2, <2>5 DEF k
<1>3. ASSUME NEW n \in DOMAIN Symbols(f) PROVE Len(n) \in Nat /\ Symbols(f)[n] \in Nat \ {0}
  <2>1. CASE n \in NamesIn(d)
    <3>1. Symbols(f)[n] = d[Max(At(d, n))].value
      BY <1>1, <2>1
    <3> QED BY <1>2, <2>1, <3>1
  <2>2. CASE n \notin NamesIn(d)
    <3>1. n \in NamesIn(s) /\ Symbols(f)[n] = s[Min(At(s, n))].value
      BY <1>1, <1>3, <2>2
    <3> QED BY <1>2, <3>1
  <2> QED BY <2>1, <2>2
<1> QED BY <1>3

\* What a search by address finds is what ends in the digits.
LEMMA DigitsExact ==
    ASSUME NEW a \in Nat \ {0}, NEW ds \in Seq(0 .. Base - 1)
    PROVE  LET h == Hex(a)
               n == Len(ds)
           IN  (Len(h) >= n /\ SubSeq(h, Len(h) - n + 1, Len(h)) = ds) <=>
                  /\ (a % NumberUpTo(ds)[n].bound) = NumberUpTo(ds)[n].value
                  /\ a * Base >= NumberUpTo(ds)[n].bound
<1> DEFINE h == Hex(a)
           n == Len(ds)
           l == Len(h)
           x == SubSeq(h, l - n + 1, l)
<1>1. n \in Nat /\ a \in 1 .. a /\ a \in 0 .. a /\ n \in 0 .. n
  OBVIOUS
<1>2. Ends(h, ds, n) <=> /\ (a % NumberUpTo(ds)[n].bound) = NumberUpTo(ds)[n].value
                         /\ a * Base >= NumberUpTo(ds)[n].bound
  BY <1>1, EndsExact DEF Hex
<1>3. h \in Seq(Nat) /\ l \in Nat
  <2>1. \A i \in 0 .. a : HexUpTo(a)[i] \in Seq(Nat)
    BY HexIsList
  <2>2. h \in Seq(Nat)
    BY <1>1, <2>1 DEF Hex
  <2> HIDE DEF h
  <2> QED BY <2>2
<1> HIDE DEF h
<1>4. ASSUME l >= n PROVE x = ds <=> \A i \in 1 .. n : h[l - n + i] = ds[i]
  <2>1. x \in Seq(Nat) /\ Len(x) = n /\ \A i \in 1 .. n : x[i] = h[l - n + i]
    <3>1. l - n + 1 \in 1 .. l + 1
      BY <1>1, <1>3, <1>4
    <3>2. \A j \in l - n + 1 .. l : h[j] \in Nat
      BY <1>1, <1>3, <1>4
    <3>3. x \in Seq(Nat) /\ Len(x) = l - (l - n + 1) + 1
      BY <1>1, <1>3, <3>1, <3>2
    <3>4. \A i \in 1 .. n : x[i] = h[(l - n + 1) + i - 1] /\ (l - n + 1) + i - 1 = l - n + i
      BY <1>1, <1>3, <1>4, <3>1
    <3> QED BY <1>1, <1>3, <3>3, <3>4
  <2> HIDE DEF x
  <2>2. ds \in Seq(Nat)
    BY BaseAssumption
  <2>3. x = ds <=> \A i \in 1 .. n : x[i] = ds[i]
    <3>1. x = [i \in 1 .. n |-> x[i]] /\ ds = [i \in 1 .. n |-> ds[i]]
      BY <1>1, <2>1, <2>2
    <3> QED BY <3>1
  <2> QED BY <2>1, <2>3
<1>5. l >= n /\ x = ds <=> Ends(h, ds, n)
  <2> HIDE DEF x
  <2> QED BY <1>1, <1>3, <1>4 DEF Ends
<1> QED BY <1>2, <1>5 DEF h

-----------------------------------------------------------------------------
(***************************************************************************)
(* search --libc: where a string is.                                       *)
(***************************************************************************)

\* Two lists without repetitions and without a common element.
LEMMA ConcatInjective ==
    ASSUME NEW S, NEW s \in Seq(S), NEW t \in Seq(S), IsInjective(s), IsInjective(t),
           ToSet(s) \cap ToSet(t) = {}
    PROVE  IsInjective(s \o t)
<1> DEFINE r == s \o t
           n == Len(s)
<1>1. /\ n \in Nat /\ Len(t) \in Nat /\ Len(r) = n + Len(t) /\ DOMAIN r = 1 .. Len(r)
      /\ \A k \in 1 .. n : r[k] = s[k] /\ s[k] \in ToSet(s)
      /\ \A k \in 1 .. Len(t) : r[n + k] = t[k] /\ t[k] \in ToSet(t)
  BY ConcatFacts DEF ToSet
<1> HIDE DEF r
<1>2. ASSUME NEW k \in 1 .. Len(r), k > n
      PROVE  k - n \in 1 .. Len(t) /\ r[k] = t[k - n] /\ r[k] \in ToSet(t)
  <2>1. k - n \in 1 .. Len(t) /\ n + (k - n) = k
    BY <1>1, <1>2
  <2> QED BY <1>1, <2>1
<1>3. ASSUME NEW a \in 1 .. Len(r), NEW b \in 1 .. Len(r), r[a] = r[b] PROVE a = b
  <2>1. CASE a <= n /\ b <= n
    <3>1. a \in 1 .. n /\ b \in 1 .. n /\ s[a] = s[b]
      BY <1>1, <1>3, <2>1
    <3> QED BY <3>1 DEF IsInjective
  <2>2. CASE a > n /\ b > n
    <3>1. a - n \in 1 .. Len(t) /\ b - n \in 1 .. Len(t) /\ t[a - n] = t[b - n]
      BY <1>2, <1>3, <2>2
    <3>2. a - n = b - n
      BY <3>1 DEF IsInjective
    <3> QED BY <1>1, <3>2
  <2>3. CASE a <= n /\ b > n
    <3>1. r[a] \in ToSet(s) /\ r[b] \in ToSet(t)
      BY <1>1, <1>2, <2>3
    <3> QED BY <1>3, <3>1
  <2>4. CASE a > n /\ b <= n
    <3>1. r[b] \in ToSet(s) /\ r[a] \in ToSet(t)
      BY <1>1, <1>2, <2>4
    <3> QED BY <1>3, <3>1
  <2> QED BY <1>1, <2>1, <2>2, <2>3, <2>4
<1> QED BY <1>1, <1>3 DEF IsInjective, r

\* Where a needle is, word by word.
LEMMA OccursAt ==
    ASSUME NEW S, NEW h \in Seq(S), NEW T, NEW nb \in Seq(T), NEW i \in Nat
    PROVE  Occurs(h, nb, i) <=> i + Len(nb) <= Len(h) /\ \A k \in 1 .. Len(nb) : h[i + k] = nb[k]
<1> DEFINE l == Len(nb)
           x == SubSeq(h, i + 1, i + l)
<1>1. l \in Nat /\ Len(h) \in Nat
  OBVIOUS
<1>2. ASSUME i + l <= Len(h) PROVE x = nb <=> \A k \in 1 .. l : h[i + k] = nb[k]
  <2>1. i + 1 \in 1 .. Len(h) + 1 /\ \A j \in i + 1 .. i + l : j \in 1 .. Len(h) /\ h[j] \in S
    BY <1>1, <1>2
  <2>2. x \in Seq(S) /\ Len(x) = (i + l) - (i + 1) + 1
    BY <1>1, <2>1
  <2>3. \A k \in 1 .. l : x[k] = h[(i + 1) + k - 1] /\ (i + 1) + k - 1 = i + k
    BY <1>1, <2>1
  <2> HIDE DEF x
  <2>4. x = [k \in 1 .. l |-> x[k]] /\ nb = [k \in 1 .. l |-> nb[k]]
    BY <1>1, <2>2
  <2>5. x = nb <=> \A k \in 1 .. l : x[k] = nb[k]
    BY <2>4
  <2> QED BY <2>3, <2>5
<1> QED BY <1>2 DEF Occurs

\* Behind start: where it is in the rest is where it is in the whole.
LEMMA OccursBehind ==
    ASSUME NEW S, NEW h \in Seq(S), NEW T, NEW nb \in Seq(T), NEW start \in 0 .. Len(h)
    PROVE  LET rest == SubSeq(h, start + 1, Len(h)) IN
           /\ rest \in Seq(S) /\ Len(rest) = Len(h) - start
           /\ \A i \in 0 .. Len(rest) : Occurs(rest, nb, i) <=> Occurs(h, nb, start + i)
<1> DEFINE rest == SubSeq(h, start + 1, Len(h))
           N == Len(h)
           l == Len(nb)
<1>1. N \in Nat /\ l \in Nat
  OBVIOUS
<1>2. rest \in Seq(S) /\ Len(rest) = N - start /\ \A k \in 1 .. N - start : rest[k] = h[start + k]
  <2>1. start + 1 \in 1 .. N + 1 /\ \A j \in start + 1 .. N : h[j] \in S
    BY <1>1
  <2>2. rest \in Seq(S) /\ Len(rest) = N - (start + 1) + 1
    BY <1>1, <2>1
  <2>3. ASSUME NEW k \in 1 .. N - start
        PROVE  rest[k] = h[(start + 1) + k - 1] /\ (start + 1) + k - 1 = start + k
    <3>1. k \in 1 .. N - (start + 1) + 1 /\ (start + 1) + k - 1 = start + k
      BY <1>1
    <3>2. \A j \in 1 .. N - (start + 1) + 1 : rest[j] = h[(start + 1) + j - 1]
      BY <1>1, <2>1
    <3> HIDE DEF rest
    <3> QED BY <3>1, <3>2
  <2> QED BY <1>1, <2>2, <2>3
<1> HIDE DEF rest
<1>3. ASSUME NEW i \in 0 .. Len(rest)
      PROVE  Occurs(rest, nb, i) <=> Occurs(h, nb, start + i)
  <2>1. i \in Nat /\ start + i \in Nat
    BY <1>1, <1>2
  <2>2. Occurs(rest, nb, i) <=> i + l <= N - start /\ \A k \in 1 .. l : rest[i + k] = nb[k]
    <3>1. rest \in Seq(S) /\ nb \in Seq(T) /\ i \in Nat
      BY <1>2, <2>1
    <3>2. Occurs(rest, nb, i) <=> i + Len(nb) <= Len(rest) /\ \A k \in 1 .. Len(nb) : rest[i + k] = nb[k]
      BY ONLY <3>1, OccursAt, SMT
    <3>3. Len(nb) = l /\ Len(rest) = N - start
      BY <1>2
    <3>4. i + l <= Len(rest) <=> i + l <= N - start
      BY <3>3
    <3> QED BY <3>2, <3>3, <3>4
  <2>3. Occurs(h, nb, start + i) <=> start + i + l <= N /\ \A k \in 1 .. l : h[start + i + k] = nb[k]
    BY <2>1, OccursAt
  <2>4. i + l <= N - start <=> start + i + l <= N
    BY <1>1, <2>1
  <2>5. ASSUME i + l <= N - start, NEW k \in 1 .. l PROVE rest[i + k] = h[start + i + k]
    <3>1. i + k \in 1 .. N - start /\ start + (i + k) = start + i + k
      BY <1>1, <2>1, <2>5
    <3>2. rest[i + k] = h[start + (i + k)]
      BY <1>2, <3>1
    <3> QED BY <3>1, <3>2
  <2> QED BY <2>2, <2>3, <2>4, <2>5
<1> QED BY <1>2, <1>3 DEF rest

\* The next place of a needle from start on, as an offset, or -1.
From(h, nb, start) == IndexBytes(SubSeq(h, start + 1, Len(h)), nb)

\* The first occurrence from a place on.
LEMMA FromFacts ==
    ASSUME NEW S, NEW h \in Seq(S), NEW T, NEW nb \in Seq(T), nb # <<>>, NEW start \in 0 .. Len(h)
    PROVE  /\ From(h, nb, start) \in Int
           /\ From(h, nb, start) < 0 => \A j \in start .. Len(h) : ~Occurs(h, nb, j)
           /\ From(h, nb, start) >= 0 => /\ start + From(h, nb, start) \in start .. Len(h) - 1
                                         /\ Occurs(h, nb, start + From(h, nb, start))
                                         /\ \A j \in start .. start + From(h, nb, start) - 1 : ~Occurs(h, nb, j)
<1> DEFINE rest == SubSeq(h, start + 1, Len(h))
           N == Len(h)
           i == From(h, nb, start)
           at == {j \in 0 .. Len(rest) : nb # <<>> /\ Occurs(rest, nb, j)}
<1>1. N \in Nat /\ start \in Nat /\ Len(nb) \in Nat /\ Len(nb) >= 1
  OBVIOUS
<1>2. /\ Len(rest) = N - start
      /\ \A j \in 0 .. Len(rest) : Occurs(rest, nb, j) <=> Occurs(h, nb, start + j)
  BY OccursBehind
<1>3. i = IF at = {} THEN -1 ELSE Min(at)
  BY DEF From, IndexBytes
<1> HIDE DEF rest, i
<1>4. ASSUME NEW j \in start .. N PROVE Occurs(h, nb, j) <=> j - start \in at
  <2>1. j - start \in 0 .. Len(rest) /\ start + (j - start) = j
    BY <1>1, <1>2
  <2> QED BY <1>2, <2>1
<1>5. CASE at = {}
  <2>1. i = -1 /\ \A j \in start .. N : ~Occurs(h, nb, j)
    BY <1>3, <1>4, <1>5
  <2> QED BY <2>1 DEF i
<1>6. CASE at # {}
  <2>1. i \in at /\ \A j \in at : i <= j
    <3>1. at \subseteq Nat
      BY <1>1, <1>2
    <3> HIDE DEF at
    <3> QED BY <1>3, <1>6, <3>1, MinFacts
  <2>2. i \in 0 .. N - start /\ Occurs(h, nb, start + i)
    BY <1>2, <2>1
  <2>3. start + i + Len(nb) <= N
    BY <2>2 DEF Occurs
  <2>4. start + i \in start .. N - 1
    BY <1>1, <2>2, <2>3
  <2>5. ASSUME NEW j \in start .. start + i - 1 PROVE ~Occurs(h, nb, j)
    <3>1. j \in start .. N /\ j - start < i /\ j - start \in Nat
      BY <1>1, <2>2, <2>4
    <3>2. j - start \notin at
      <4> HIDE DEF at
      <4> QED BY <2>1, <2>2, <3>1
    <3> QED BY <1>4, <3>1, <3>2
  <2> QED BY <2>2, <2>4, <2>5 DEF i
<1> QED BY <1>5, <1>6

\* OccurrencesFrom, unfolded.
LEMMA OccurrencesDef ==
    ASSUME NEW sec, NEW S, sec.bytes \in Seq(S), NEW T, NEW nb \in Seq(T), nb # <<>>
    PROVE  \A x \in 0 .. Len(sec.bytes) :
              OccurrencesFrom(sec, nb)[x] =
                 IF From(sec.bytes, nb, x) < 0 THEN <<>>
                 ELSE <<sec.addr + x + From(sec.bytes, nb, x)>>
                         \o OccurrencesFrom(sec, nb)[x + From(sec.bytes, nb, x) + 1]
<1> DEFINE N == Len(sec.bytes)
           I(x) == From(sec.bytes, nb, x)
           One(x, i) == <<sec.addr + x + i>>
           Body(f, lo) == [x \in lo .. N |-> IF I(x) < 0 THEN <<>> ELSE One(x, I(x)) \o f[x + I(x) + 1]]
           Good(m) == \E f : f = Body(f, N - m)
<1>0. /\ N \in Nat
      /\ \A x \in 0 .. N : I(x) \in Int /\ (I(x) >= 0 => x + I(x) + 1 \in x + 1 .. N)
  <2>1. ASSUME NEW x \in 0 .. N PROVE I(x) \in Int /\ (I(x) >= 0 => x + I(x) + 1 \in x + 1 .. N)
    <3>1. I(x) \in Int /\ (I(x) >= 0 => x + I(x) \in x .. N - 1)
      BY <2>1, FromFacts
    <3> HIDE DEF I
    <3> QED BY <3>1
  <2> HIDE DEF I
  <2> QED BY <2>1
<1> HIDE DEF I, One
<1>1. Good(0)
  <2> DEFINE f == [x \in N - 0 .. N |-> <<>>]
  <2>1. f = Body(f, N - 0)
    <3>1. \A x \in N - 0 .. N : I(x) < 0
      BY <1>0
    <3> QED BY <3>1
  <2> QED BY <2>1
<1>2. ASSUME NEW m \in 0 .. N - 1, Good(m) PROVE Good(m + 1)
  <2> DEFINE lo == N - m
             y == N - (m + 1)
  <2>0. lo \in 1 .. N /\ y \in 0 .. N /\ y + 1 = lo
    BY <1>0
  <2>1. PICK f : f = Body(f, lo)
    BY <1>2
  <2> HIDE DEF lo, y
  <2> DEFINE new == IF I(y) < 0 THEN <<>> ELSE One(y, I(y)) \o f[y + I(y) + 1]
             g == [x \in y .. N |-> IF x = y THEN new ELSE f[x]]
  <2>2. ASSUME NEW x \in y .. N
        PROVE  g[x] = IF I(x) < 0 THEN <<>> ELSE One(x, I(x)) \o g[x + I(x) + 1]
    <3>1. I(x) \in Int /\ (I(x) >= 0 => x + I(x) + 1 \in lo .. N /\ g[x + I(x) + 1] = f[x + I(x) + 1])
      <4>1. x \in 0 .. N /\ I(x) \in Int
        BY <1>0, <2>0
      <4>2. ASSUME I(x) >= 0 PROVE x + I(x) + 1 \in lo .. N
        BY <1>0, <2>0, <4>1, <4>2
      <4>3. \A z \in lo .. N : g[z] = f[z]
        BY <1>0, <2>0
      <4> HIDE DEF g
      <4> QED BY <4>1, <4>2, <4>3
    <3>2. CASE x = y
      BY <2>0, <3>1, <3>2
    <3>3. CASE x \in lo .. N
      <4>1. g[x] = f[x]
        BY <2>0, <3>3
      <4>2. f[x] = IF I(x) < 0 THEN <<>> ELSE One(x, I(x)) \o f[x + I(x) + 1]
        BY <2>1, <3>3
      <4> QED BY <1>0, <3>1, <4>1, <4>2
    <3> QED BY <2>0, <3>2, <3>3
  <2>3. g = Body(g, y)
    BY <2>2
  <2> HIDE DEF g, Body
  <2> QED BY <2>3 DEF y
<1>3. \A m \in 0 .. N : Good(m)
  <2> DEFINE Reach == {i \in 0 .. N : Good(i)}
  <2> HIDE DEF Good
  <2>1. 0 \in Reach /\ \A i \in 0 .. N - 1 : i \in Reach => i + 1 \in Reach
    BY <1>0, <1>1, <1>2
  <2> HIDE DEF Reach
  <2>2. \A i \in 0 .. N : i \in Reach
    BY <1>0, <2>1, Induction
  <2> QED BY <2>2 DEF Reach
<1> DEFINE F == OccurrencesFrom(sec, nb)
<1>4. F = CHOOSE h : h = Body(h, 0)
  BY DEF OccurrencesFrom, One, I, From
<1> HIDE DEF F
<1>5. F = Body(F, 0)
  <2> HIDE DEF Body
  <2>1. Good(N) /\ N - N = 0
    <3> HIDE DEF Good
    <3> QED BY <1>0, <1>3
  <2>2. PICK f : f = Body(f, 0)
    BY <2>1
  <2> QED BY <1>4, <2>2
<1>6. \A x \in 0 .. N : F[x] = IF I(x) < 0 THEN <<>> ELSE One(x, I(x)) \o F[x + I(x) + 1]
  BY <1>5
<1> QED BY <1>6 DEF F, I, One

\* The addresses of a needle's places in a section, from x on.
Places(sec, nb, x) ==
    {sec.addr + i : i \in {j \in x .. Len(sec.bytes) : Occurs(sec.bytes, nb, j)}}

\* From any place on, a section's occurrences are found once each.
LEMMA OccurrencesFacts ==
    ASSUME NEW sec, sec.addr \in Nat, NEW S, sec.bytes \in Seq(S), NEW T, NEW nb \in Seq(T), nb # <<>>
    PROVE  \A x \in 0 .. Len(sec.bytes) :
              /\ OccurrencesFrom(sec, nb)[x] \in Seq(Nat)
              /\ ToSet(OccurrencesFrom(sec, nb)[x]) = Places(sec, nb, x)
              /\ IsInjective(OccurrencesFrom(sec, nb)[x])
<1> DEFINE N == Len(sec.bytes)
           F == OccurrencesFrom(sec, nb)
           I(x) == From(sec.bytes, nb, x)
           O(j) == Occurs(sec.bytes, nb, j)
           P(x) == Places(sec, nb, x)
           a == sec.addr
           Good(x) == F[x] \in Seq(Nat) /\ ToSet(F[x]) = P(x) /\ IsInjective(F[x])
           Reach == {x \in 0 .. N : Good(x)}
<1>0. /\ N \in Nat /\ a \in Nat
      /\ \A x \in 0 .. N : F[x] = IF I(x) < 0 THEN <<>> ELSE <<a + x + I(x)>> \o F[x + I(x) + 1]
      /\ \A x : P(x) = {a + i : i \in {j \in x .. N : O(j)}}
  BY OccurrencesDef DEF Places
<1>a. \A x \in 0 .. N : /\ I(x) \in Int
                        /\ I(x) < 0 => \A j \in x .. N : ~O(j)
                        /\ I(x) >= 0 => /\ x + I(x) \in x .. N - 1 /\ O(x + I(x))
                                        /\ \A j \in x .. x + I(x) - 1 : ~O(j)
  BY FromFacts
<1> HIDE DEF F, I, O, P, a
<1>1. ASSUME NEW x \in 0 .. N, \A y \in x + 1 .. N : Good(y) PROVE Good(x)
  <2>1. CASE I(x) < 0
    <3>1. F[x] = <<>>
      BY <1>0, <2>1
    <3>2. P(x) = {}
      <4>1. \A j \in x .. N : ~O(j)
        BY <1>a, <2>1
      <4> QED BY <1>0, <4>1
    <3>3. ToSet(F[x]) = {} /\ IsInjective(F[x]) /\ F[x] \in Seq(Nat)
      BY <3>1 DEF ToSet, IsInjective
    <3> QED BY <3>2, <3>3
  <2>2. CASE I(x) >= 0
    <3> DEFINE z == x + I(x)
               y == z + 1
               e == a + z
               r == F[y]
    <3>1. z \in x .. N - 1 /\ O(z) /\ \A j \in x .. z - 1 : ~O(j)
      BY <1>a, <2>2
    <3>2. I(x) \in Int /\ ~(I(x) < 0)
      BY <1>a, <2>2
    <3>3. F[x] = <<a + x + I(x)>> \o F[x + I(x) + 1]
      BY <1>0, <3>2
    <3>4. a + x + I(x) = e /\ x + I(x) + 1 = y /\ e \in Nat /\ y \in x + 1 .. N
      <4>1. a \in Nat /\ N \in Nat /\ I(x) \in Int /\ x \in Nat
        BY <1>0, <3>2
      <4>2. x + I(x) \in x .. N - 1
        BY <3>1
      <4> QED BY ONLY <4>1, <4>2
    <3>5. F[x] = <<e>> \o r
      BY <3>3, <3>4
    <3>6. r \in Seq(Nat) /\ ToSet(r) = P(y) /\ IsInjective(r)
      BY <1>1, <3>4
    <3> HIDE DEF z, r
    <3>7. P(x) = {e} \cup P(y)
      <4>1. \A j \in x .. N : O(j) <=> j = z \/ (j \in y .. N /\ O(j))
        BY <1>0, <3>1, <3>4
      <4>2. z \in x .. N /\ y .. N \subseteq x .. N
        BY <1>0, <3>1, <3>4
      <4>3. {j \in x .. N : O(j)} = {z} \cup {j \in y .. N : O(j)}
        BY <4>1, <4>2
      <4> QED BY <1>0, <4>3
    <3>8. e \notin P(y)
      BY <1>0, <3>1
    <3> HIDE DEF e, y
    <3>9. /\ <<e>> \in Seq(Nat) /\ ToSet(<<e>>) = {e} /\ IsInjective(<<e>>)
      <4>1. DOMAIN <<e>> = {1} /\ <<e>>[1] = e /\ <<e>> \in Seq(Nat)
        BY <3>4
      <4> QED BY <4>1 DEF ToSet, IsInjective
    <3> DEFINE one == <<e>>
    <3>10. one \in Seq(Nat) /\ ToSet(one) = {e} /\ IsInjective(one) /\ F[x] = one \o r
      BY <3>5, <3>9
    <3> HIDE DEF one
    <3>11. F[x] \in Seq(Nat) /\ ToSet(F[x]) = {e} \cup P(y)
      BY <3>6, <3>10, ConcatFacts
    <3>12. IsInjective(F[x])
      BY <3>6, <3>8, <3>10, ConcatInjective
    <3> QED BY <3>7, <3>11, <3>12
  <2>3. I(x) \in Int
    BY <1>a
  <2> QED BY <2>1, <2>2, <2>3
<1> HIDE DEF Good
<1>2. \A x \in 0 .. N : (\A y \in x + 1 .. N : y \in Reach) => x \in Reach
  BY <1>1
<1> HIDE DEF Reach
<1>3. \A x \in 0 .. N : x \in Reach
  BY <1>0, <1>2, BackwardInduction
<1>4. \A x \in 0 .. N : Good(x)
  BY <1>3 DEF Reach
<1> QED BY <1>4 DEF Good, F, P

\* StringsUpTo, unfolded.
LEMMA StringsDef ==
    ASSUME NEW file, NEW nb, Len(file.data) \in Nat
    PROVE  /\ StringsUpTo(file, nb)[0] = <<>>
           /\ \A k \in 0 .. Len(file.data) - 1 :
                 StringsUpTo(file, nb)[k + 1] =
                    StringsUpTo(file, nb)[k] \o OccurrencesFrom(file.data[k + 1], nb)[0]
<1> DEFINE Step(v, n) == v \o OccurrencesFrom(file.data[n], nb)[0]
           Body(f, m) == [n \in 0 .. m |-> IF n = 0 THEN <<>> ELSE Step(f[n - 1], n)]
           Good(m) == \E f : f = Body(f, m)
<1> HIDE DEF Step
<1>0. Len(file.data) \in Nat
  OBVIOUS
<1>1. Good(0)
  <2> DEFINE f == [n \in 0 .. 0 |-> <<>>]
  <2>1. f = Body(f, 0)
    OBVIOUS
  <2> QED BY <2>1
<1>2. ASSUME NEW m \in 0 .. Len(file.data) - 1, Good(m) PROVE Good(m + 1)
  <2>1. PICK f : f = Body(f, m)
    BY <1>2
  <2> DEFINE g == [n \in 0 .. m + 1 |-> IF n = m + 1 THEN Step(f[m], m + 1) ELSE f[n]]
  <2>2. ASSUME NEW n \in 0 .. m + 1 PROVE g[n] = IF n = 0 THEN <<>> ELSE Step(g[n - 1], n)
    <3>1. CASE n = m + 1
      BY <3>1
    <3>2. CASE n \in 0 .. m
      <4>1. g[n] = f[n] /\ (n # 0 => g[n - 1] = f[n - 1])
        BY <3>2
      <4>2. f[n] = IF n = 0 THEN <<>> ELSE Step(f[n - 1], n)
        BY <2>1, <3>2
      <4> QED BY <4>1, <4>2
    <3> QED BY <3>1, <3>2
  <2>3. g = Body(g, m + 1)
    BY <2>2
  <2> HIDE DEF g, Body
  <2> QED BY <2>3
<1>3. \A m \in 0 .. Len(file.data) : Good(m)
  <2> DEFINE Reach == {i \in 0 .. Len(file.data) : Good(i)}
  <2> HIDE DEF Good
  <2>1. 0 \in Reach /\ \A i \in 0 .. Len(file.data) - 1 : i \in Reach => i + 1 \in Reach
    BY <1>0, <1>1, <1>2
  <2> HIDE DEF Reach
  <2>2. \A i \in 0 .. Len(file.data) : i \in Reach
    BY <1>0, <2>1, Induction
  <2> QED BY <2>2 DEF Reach
<1> DEFINE F == StringsUpTo(file, nb)
<1>4. F = CHOOSE h : h = Body(h, Len(file.data))
  BY DEF StringsUpTo, Step
<1> HIDE DEF F
<1>5. F = Body(F, Len(file.data))
  <2> HIDE DEF Body
  <2>1. PICK f : f = Body(f, Len(file.data))
    BY <1>0, <1>3
  <2> QED BY <1>4, <2>1
<1>6. F[0] = <<>> /\ \A n \in 0 .. Len(file.data) - 1 : F[n + 1] = Step(F[n], n + 1)
  <2>1. \A n \in 0 .. Len(file.data) : F[n] = IF n = 0 THEN <<>> ELSE Step(F[n - 1], n)
    BY <1>5
  <2> QED BY <2>1
<1> QED BY <1>6 DEF F, Step

\* The strings of the first k sections: each of their places once.
LEMMA StringsFacts ==
    ASSUME NEW f, Tables(f), NEW T, NEW nb \in Seq(T), nb # <<>>
    PROVE  /\ ToSet(StringsInDataSections(f, nb)) = AddressesOf(f, nb)
           /\ IsInjective(StringsInDataSections(f, nb))
           /\ StringsInDataSections(f, nb) \in Seq(Nat)
<1> DEFINE D == f.data
           F == StringsUpTo(f, nb)
           P(k) == Places(D[k], nb, 0)
           C(k) == OccurrencesFrom(D[k], nb)[0]
           Good(k) == /\ F[k] \in Seq(Nat) /\ IsInjective(F[k])
                      /\ ToSet(F[k]) = UNION {P(i) : i \in 1 .. k}
<1>0. Len(D) \in Nat /\ ToSet(D) = {D[k] : k \in 1 .. Len(D)}
  <2>1. D \in Seq(ToSet(D))
    BY DEF Tables
  <2> QED BY <2>1 DEF ToSet
<1>a. F[0] = <<>> /\ \A k \in 0 .. Len(D) - 1 : F[k + 1] = F[k] \o C(k + 1)
  BY <1>0, StringsDef
<1>b. \A k \in 1 .. Len(D) : D[k].addr \in Nat /\ D[k].bytes \in Seq(ToSet(D[k].bytes))
  BY <1>0 DEF Tables
<1>c. \A k \in 1 .. Len(D) : C(k) \in Seq(Nat) /\ ToSet(C(k)) = P(k) /\ IsInjective(C(k))
  <2>1. ASSUME NEW k \in 1 .. Len(D)
        PROVE  C(k) \in Seq(Nat) /\ ToSet(C(k)) = P(k) /\ IsInjective(C(k))
    <3> DEFINE sec == D[k]
    <3>1. sec.addr \in Nat /\ sec.bytes \in Seq(ToSet(sec.bytes)) /\ 0 \in 0 .. Len(sec.bytes)
      BY <1>b
    <3> HIDE DEF sec
    <3>2. /\ OccurrencesFrom(sec, nb)[0] \in Seq(Nat)
          /\ ToSet(OccurrencesFrom(sec, nb)[0]) = Places(sec, nb, 0)
          /\ IsInjective(OccurrencesFrom(sec, nb)[0])
      BY <3>1, OccurrencesFacts
    <3> QED BY <3>2 DEF sec
  <2> QED BY <2>1
<1>d. \A j \in 1 .. Len(D) : \A k \in 1 .. j - 1 : P(j) \cap P(k) = {}
  <2> SUFFICES ASSUME NEW j \in 1 .. Len(D), NEW k \in 1 .. j - 1 PROVE P(j) \cap P(k) = {}
    OBVIOUS
  <2>1. \A s \in {j, k} : \A x \in P(s) : x >= D[s].addr /\ x < D[s].addr + Len(D[s].bytes) /\ x \in Nat
    <3> SUFFICES ASSUME NEW s \in {j, k}, NEW x \in P(s)
                 PROVE  x >= D[s].addr /\ x < D[s].addr + Len(D[s].bytes) /\ x \in Nat
      OBVIOUS
    <3>1. s \in 1 .. Len(D)
      BY <1>0
    <3> DEFINE a == D[s].addr
               b == D[s].bytes
    <3>2. a \in Nat /\ Len(b) \in Nat
      BY <1>b, <3>1
    <3>3. PICK i \in 0 .. Len(b) : Occurs(b, nb, i) /\ x = a + i
      BY DEF Places
    <3>4. Len(nb) \in Nat /\ Len(nb) >= 1
      OBVIOUS
    <3>5. i + Len(nb) <= Len(b)
      BY <3>3 DEF Occurs
    <3> HIDE DEF a, b
    <3>6. x >= a /\ x < a + Len(b) /\ x \in Nat
      BY <3>2, <3>3, <3>4, <3>5
    <3> QED BY <3>6 DEF a, b
  <2>2. \/ D[j].addr + Len(D[j].bytes) <= D[k].addr
        \/ D[k].addr + Len(D[k].bytes) <= D[j].addr
    BY DEF Tables
  <2>3. /\ D[j].addr \in Nat /\ D[k].addr \in Nat
        /\ Len(D[j].bytes) \in Nat /\ Len(D[k].bytes) \in Nat
    <3>1. j \in 1 .. Len(D) /\ k \in 1 .. Len(D)
      BY <1>0
    <3> QED BY <1>b, <3>1
  <2> HIDE DEF P, D
  <2> QED BY <2>1, <2>2, <2>3
<1>e. AddressesOf(f, nb) = UNION {P(i) : i \in 1 .. Len(D)}
  BY <1>0 DEF AddressesOf, Places
<1> HIDE DEF F, C, P, D
<1>1. Good(0)
  <2>1. ToSet(<<>>) = {} /\ IsInjective(<<>>) /\ <<>> \in Seq(Nat)
    BY DEF ToSet, IsInjective
  <2> QED BY <1>a, <2>1
<1>2. ASSUME NEW k \in 0 .. Len(D) - 1, Good(k) PROVE Good(k + 1)
  <2>1. k + 1 \in 1 .. Len(D) /\ 1 .. k + 1 = (1 .. k) \cup {k + 1} /\ \A i \in 1 .. k : i \in 1 .. (k + 1) - 1
    BY <1>0
  <2>2. F[k + 1] = F[k] \o C(k + 1) /\ F[k] \in Seq(Nat) /\ C(k + 1) \in Seq(Nat)
    BY <1>a, <1>c, <1>2, <2>1
  <2>3. ToSet(F[k]) \cap ToSet(C(k + 1)) = {}
    <3>1. \A i \in 1 .. k : P(k + 1) \cap P(i) = {}
      BY <1>d, <2>1
    <3> QED BY <1>2, <1>c, <2>1, <3>1
  <2>4. F[k + 1] \in Seq(Nat) /\ ToSet(F[k + 1]) = ToSet(F[k]) \cup P(k + 1)
    BY <1>c, <2>1, <2>2, ConcatFacts
  <2>5. IsInjective(F[k + 1])
    BY <1>2, <1>c, <2>1, <2>2, <2>3, ConcatInjective
  <2>6. ToSet(F[k + 1]) = UNION {P(i) : i \in 1 .. k + 1}
    BY <1>2, <2>1, <2>4
  <2> QED BY <2>4, <2>5, <2>6
<1>3. \A k \in 0 .. Len(D) : Good(k)
  <2> DEFINE Reach == {i \in 0 .. Len(D) : Good(i)}
  <2> HIDE DEF Good
  <2>1. 0 \in Reach /\ \A i \in 0 .. Len(D) - 1 : i \in Reach => i + 1 \in Reach
    BY <1>0, <1>1, <1>2
  <2> HIDE DEF Reach
  <2>2. \A i \in 0 .. Len(D) : i \in Reach
    BY <1>0, <2>1, Induction
  <2> QED BY <2>2 DEF Reach
<1>4. Good(Len(D))
  <2> HIDE DEF Good
  <2> QED BY <1>0, <1>3
<1> QED BY <1>4, <1>e DEF StringsInDataSections, F, D

\* Addresses are offsets where the sections are loaded at theirs; where they are
\* loaded further up, the least of the addresses is above the least offset.
LEMMA PlacesExact ==
    ASSUME NEW f, Tables(f), NEW T, NEW nb \in Seq(T), NEW places \in Seq(Nat),
           ToSet(places) = AddressesOf(f, nb), IsInjective(places)
    PROVE  StringsExact(f, nb, places)
<1> DEFINE Hits(sec) == {j \in 0 .. Len(sec.bytes) : nb # <<>> /\ Occurs(sec.bytes, nb, j)}
           A == AddressesOf(f, nb)
           O == OffsetsOf(f, nb)
           D == ToSet(f.data)
<1>1. \A sec \in D : sec.addr \in Nat /\ sec.offset \in Nat /\ Len(sec.bytes) \in Nat
  BY DEF Tables
<1>2. \A x : x \in A <=> \E sec \in D : \E j \in Hits(sec) : x = sec.addr + j
  BY DEF AddressesOf
<1>3. \A x : x \in O <=> \E sec \in D : \E j \in Hits(sec) : x = sec.offset + j
  BY DEF OffsetsOf
<1>4. \A sec \in D : \A j \in Hits(sec) : j \in Nat
  BY <1>1
<1> HIDE DEF Hits, A, O, D
<1>5. ASSUME \A sec \in D : sec.addr = sec.offset PROVE A = O
  BY <1>2, <1>3, <1>5
<1>6. ASSUME A # {}, \A sec \in D : sec.addr > sec.offset PROVE A # O
  <2> SUFFICES ASSUME A = O PROVE FALSE
    OBVIOUS
  <2>1. A \subseteq Nat
    BY <1>1, <1>2, <1>4
  <2>2. Min(A) \in A /\ \A y \in A : Min(A) <= y
    BY <1>6, <2>1, MinFacts
  <2>3. PICK sec \in D : \E j \in Hits(sec) : Min(A) = sec.addr + j
    BY <1>2, <2>2
  <2>m. PICK j \in Hits(sec) : Min(A) = sec.addr + j
    BY <2>3
  <2>4. sec.offset + j \in O
    BY <1>3
  <2>5. sec.offset + j < Min(A)
    <3>1. sec.addr \in Nat /\ sec.offset \in Nat /\ j \in Nat /\ sec.addr > sec.offset
      BY <1>1, <1>4, <1>6
    <3> QED BY <3>1, <2>m
  <2>6. sec.offset + j \in A /\ Min(A) <= sec.offset + j
    BY <2>2, <2>4
  <2>7. sec.offset + j \in Nat /\ Min(A) \in Nat
    BY <2>1, <2>2, <2>6
  <2> QED BY <2>5, <2>6, <2>7
<1>7. ASSUME places # <<>> PROVE A # {}
  <2>1. 1 \in DOMAIN places
    BY <1>7
  <2>2. places[1] \in ToSet(places)
    BY <2>1 DEF ToSet
  <2> QED BY <2>2 DEF A
<1>8. ToSet(places) = A
  BY DEF A
<1>9. /\ (\A sec \in D : sec.addr = sec.offset) => ToSet(places) = O
      /\ places # <<>> /\ (\A sec \in D : sec.addr > sec.offset) => ToSet(places) # O
  BY <1>5, <1>6, <1>7, <1>8
<1> QED BY <1>9 DEF StringsExact, O, D

-----------------------------------------------------------------------------
(***************************************************************************)
(* The answers.                                                            *)
(***************************************************************************)

\* What searchLocal finds, by patterns, by digits or by a string.
LEMMA LocalIsExact ==
    ASSUME NEW c \in Commands("local")
    PROVE  LET S == Symbols(c.file)
               r == SearchLocal(c.file, c)
           IN  IF c.patterns # {}
               THEN r = {s \in DOMAIN S : \E p \in c.patterns : Matches(p, s)}
               ELSE IF c.digits # <<>>
               THEN LET end == NumberUpTo(c.digits)[Len(c.digits)]
                    IN  r = {s \in DOMAIN S : (S[s] % end.bound) = end.value /\ S[s] * Base >= end.bound}
               ELSE c.str # <<>> => StringsExact(c.file, c.str, r)
<1> DEFINE S == Symbols(c.file)
           r == SearchLocal(c.file, c)
           n == Len(c.digits)
           end == NumberUpTo(c.digits)[n]
           EndsSo(a) == LET h == Hex(a) IN Len(h) >= n /\ SubSeq(h, Len(h) - n + 1, Len(h)) = c.digits
<1>1. /\ Tables(c.file)
      /\ \A p \in c.patterns : Len(p) \in Nat
      /\ c.digits \in Seq(0 .. Base - 1)
      /\ c.str \in Seq(ToSet(c.str))
  BY LocalsAssumption
<1>2. \A s \in DOMAIN S : Len(s) \in Nat /\ S[s] \in Nat \ {0}
  BY <1>1, SymbolsFacts
<1>3. r = IF c.patterns # {} THEN {s \in DOMAIN S : \E p \in c.patterns : GlobMatch(p, s)}
          ELSE IF c.digits # <<>> THEN {s \in DOMAIN S : EndsSo(S[s])}
          ELSE IF c.str # <<>> THEN StringsInDataSections(c.file, c.str)
          ELSE DOMAIN S
  BY DEF SearchLocal
<1> HIDE DEF S, r
<1>4. CASE c.patterns # {}
  <2>1. \A s \in DOMAIN S : \A p \in c.patterns : GlobMatch(p, s) <=> Matches(p, s)
    BY <1>1, <1>2, GlobExact
  <2>2. r = {s \in DOMAIN S : \E p \in c.patterns : Matches(p, s)}
    BY <1>3, <1>4, <2>1
  <2> QED BY <1>4, <2>2 DEF S, r
<1>5. CASE c.patterns = {} /\ c.digits # <<>>
  <2>1. ASSUME NEW a \in Nat \ {0}
        PROVE  EndsSo(a) <=> (a % end.bound) = end.value /\ a * Base >= end.bound
    <3> DEFINE ds == c.digits
    <3>1. ds \in Seq(0 .. Base - 1)
      BY <1>1
    <3> HIDE DEF ds
    <3>2. LET h == Hex(a)
              l == Len(ds)
          IN  (Len(h) >= l /\ SubSeq(h, Len(h) - l + 1, Len(h)) = ds) <=>
                  /\ (a % NumberUpTo(ds)[l].bound) = NumberUpTo(ds)[l].value
                  /\ a * Base >= NumberUpTo(ds)[l].bound
      BY <3>1, DigitsExact
    <3> QED BY ONLY <3>2 DEF ds
  <2> HIDE DEF EndsSo
  <2>2. r = {s \in DOMAIN S : EndsSo(S[s])}
    BY <1>3, <1>5
  <2> DEFINE Right(a) == (a % end.bound) = end.value /\ a * Base >= end.bound
  <2>3. \A s \in DOMAIN S : EndsSo(S[s]) <=> Right(S[s])
    BY <1>2, <2>1
  <2>4. r = {s \in DOMAIN S : Right(S[s])}
    <3> HIDE DEF Right
    <3> QED BY <2>2, <2>3
  <2> QED BY <1>5, <2>4 DEF S, r
<1>6. CASE c.patterns = {} /\ c.digits = <<>>
  <2>1. ASSUME c.str # <<>> PROVE StringsExact(c.file, c.str, r)
    <3>1. r = StringsInDataSections(c.file, c.str)
      BY <1>3, <1>6, <2>1
    <3> DEFINE f == c.file
               nb == c.str
    <3>2. Tables(f) /\ nb \in Seq(ToSet(nb)) /\ nb # <<>>
      BY <1>1, <2>1
    <3> HIDE DEF f, nb
    <3>3. /\ ToSet(StringsInDataSections(f, nb)) = AddressesOf(f, nb)
          /\ IsInjective(StringsInDataSections(f, nb))
          /\ StringsInDataSections(f, nb) \in Seq(Nat)
      BY <3>2, StringsFacts
    <3>4. StringsExact(f, nb, StringsInDataSections(f, nb))
      BY <3>2, <3>3, PlacesExact
    <3> QED BY <3>1, <3>4 DEF f, nb
  <2> QED BY <1>6, <2>1 DEF S, r
<1> QED BY <1>4, <1>5, <1>6

\* Every answer is what its question asks for.
THEOREM AnswersAreExact == Spec => []AnswersExact
<1>1. ASSUME Started, Course PROVE AnswersExact
  <2>1. ASSUME NEW op, op # "doctor", Answered(op)
        PROVE  cmd \in Commands(op) /\ cmd.op = op /\ answer.is = AnswerTo(cmd)
    BY <1>1, <2>1 DEF Answered, Started, Course, Commands, Answer
  <2>2. ASSUME Answered("vuln") PROVE VulnExact
    <3>1. cmd \in Commands("vuln") /\ cmd.op = "vuln" /\ answer.is = AnswerTo(cmd)
      BY <2>1, <2>2
    <3>2. answer.is = AffectedBy(cmd.version) /\ Proper(cmd.version)
      BY <3>1, VersionsAssumption DEF AnswerTo
    <3> QED BY <3>2, AffectedExact DEF VulnExact
  <2>3. ASSUME Answered("diff") PROVE DiffExact
    <3>1. cmd.op = "diff" /\ answer.is = AnswerTo(cmd)
      BY <2>1, <2>3
    <3>2. answer.is = Diff(cmd.a, cmd.b)
      BY <3>1 DEF AnswerTo
    <3> QED BY <3>2, DiffIsExact DEF DiffExact
  <2>4. ASSUME Answered("local") PROVE LocalExact
    <3>1. cmd \in Commands("local") /\ cmd.op = "local" /\ answer.is = AnswerTo(cmd)
      BY <2>1, <2>4
    <3>2. answer.is = SearchLocal(cmd.file, cmd)
      BY <3>1 DEF AnswerTo
    <3> QED BY <3>1, <3>2, LocalIsExact DEF LocalExact
  <2>5. ASSUME Answered("symbols") PROVE SymbolsExact
    <3>1. cmd \in Commands("symbols") /\ cmd.op = "symbols" /\ answer.is = AnswerTo(cmd)
      BY <2>1, <2>5
    <3>2. cmd.tol > 0 => answer.is = FilterByTolerance(cmd.matches, cmd.query, cmd.tol)
      BY <3>1 DEF AnswerTo
    <3> QED BY <3>1, <3>2, FilterExact DEF SymbolsExact
  <2> QED BY <2>2, <2>3, <2>4, <2>5 DEF AnswersExact
<1> QED BY <1>1, CourseInvariant, PTL

-----------------------------------------------------------------------------
(***************************************************************************)
(* The BuildID.                                                            *)
(***************************************************************************)

\* Rounding up to words; only the last three uint32s come out too small.
LEMMA WordsFacts ==
    ASSUME NEW n \in 0 .. Top - 1
    PROVE  /\ Words(n) \in Nat
           /\ Wraps(n) => Top - 3 <= n
           /\ n <= Top - 4 => ~Wraps(n)
           /\ n >= 3 /\ n <= Top - 4 => Words(n) >= 1
           /\ n <= Top - 4 => \A l \in Nat : 4 * l \in n .. n + 3 => l = Words(n)
<1> DEFINE x == (n + 3) % Top
           y == x \div 4
<1>1. Top \in Nat /\ Top > 4 /\ n \in Nat
  BY WordAssumption
<1>2. x \in Nat /\ (n <= Top - 4 => x = n + 3)
  BY <1>1
<1> HIDE DEF x
<1>3. y \in Nat /\ x - 3 <= 4 * y /\ 4 * y <= x
  BY <1>2
<1> HIDE DEF y
<1>4. Align4(n) = 4 * y /\ Words(n) = y
  <2>1. Align4(n) = 4 * y
    BY DEF Align4, x, y
  <2>2. (4 * y) \div 4 = y
    BY <1>3
  <2> QED BY <2>1, <2>2 DEF Words
<1>5. Wraps(n) <=> n > 4 * y
  BY <1>4 DEF Wraps
<1>6. ASSUME n <= Top - 4, NEW l \in Nat, 4 * l \in n .. n + 3 PROVE l = y
  BY <1>1, <1>2, <1>3, <1>6
<1> QED BY <1>1, <1>2, <1>3, <1>4, <1>5, <1>6

\* The words behind a header and its owner, and behind its descriptor.
DescAt(d, i) == i + 3 + Words(d[i])
NextAt(d, i) == DescAt(d, i) + Words(d[i + 1])

\* A turn of the loop from word i: what it comes to, v being what comes next.
Turn(d, i, v) ==
    IF i + 2 > Len(d) \/ DescAt(d, i) > Len(d) + 1 THEN NotFound
    ELSE IF Wraps(d[i]) \/ (NextAt(d, i) <= Len(d) + 1 /\ Wraps(d[i + 1])) THEN OutOfRange
    ELSE IF NextAt(d, i) > Len(d) + 1 THEN NotFound
    ELSE IF OwnerIsGNU(d, i) /\ d[i + 2] = 3
    THEN [st |-> "found", id |-> <<d[i + 1]>> \o SubSeq(d, DescAt(d, i), NextAt(d, i) - 1)]
    ELSE v

\* ParseFrom, unfolded: every word's turn refers to one further on.
LEMMA ParseDef ==
    ASSUME NEW d \in Seq(0 .. Top - 1)
    PROVE  \A i \in 1 .. Len(d) + 1 : ParseFrom(d)[i] = Turn(d, i, ParseFrom(d)[NextAt(d, i)])
<1> DEFINE L == Len(d)
           N == L + 1
           Nx(i) == NextAt(d, i)
           On(i) == i + 2 <= L /\ Nx(i) <= N
           Step(i, v) == Turn(d, i, v)
           Body(f, lo) == [i \in lo .. N |-> Step(i, f[Nx(i)])]
           Good(m) == \E f : f = Body(f, N - m)
<1>0. L \in Nat /\ N \in Nat /\ \A i \in 1 .. L : d[i] \in 0 .. Top - 1
  <2> DEFINE W == 0 .. Top - 1
  <2>1. d \in Seq(W)
    OBVIOUS
  <2> HIDE DEF W
  <2>2. L \in Nat /\ \A i \in 1 .. L : d[i] \in W
    BY <2>1
  <2> QED BY <2>2 DEF W
<1>c. \A i \in 1 .. N : i + 2 <= L => Nx(i) \in Int /\ Nx(i) > i
  <2>1. ASSUME NEW i \in 1 .. N, i + 2 <= L PROVE Nx(i) \in Int /\ Nx(i) > i
    <3>1. i \in 1 .. L /\ i + 1 \in 1 .. L
      BY <1>0, <2>1
    <3>2. Words(d[i]) \in Nat /\ Words(d[i + 1]) \in Nat
      BY <1>0, <3>1, WordsFacts
    <3> QED BY <1>0, <2>1, <3>2 DEF NextAt, DescAt
  <2> QED BY <2>1
<1>a. \A i \in 1 .. N : On(i) => Nx(i) \in i + 1 .. N
  <2> HIDE DEF Nx
  <2> QED BY <1>0, <1>c
<1>b. \A i \in 1 .. N : ~On(i) => \A v, w : Step(i, v) = Step(i, w)
  <2>1. ASSUME NEW i \in 1 .. N, ~On(i) PROVE \A v, w : Step(i, v) = Step(i, w)
    <3>1. CASE i + 2 > L
      BY <3>1 DEF Turn
    <3>2. CASE i + 2 <= L
      <4>1. Nx(i) > N /\ ~(Nx(i) <= N)
        BY <1>0, <1>c, <2>1, <3>2
      <4> QED BY <4>1 DEF Turn
    <3> QED BY <1>0, <3>1, <3>2
  <2> QED BY <2>1
<1> HIDE DEF Step, Nx, On, L
<1>1. Good(0)
  <2> DEFINE f == [i \in N - 0 .. N |-> Step(i, 0)]
  <2>1. f = Body(f, N - 0)
    <3>1. \A i \in N - 0 .. N : i \in 1 .. N /\ ~On(i)
      BY <1>0, <1>a DEF On
    <3> QED BY <1>b, <3>1
  <2> QED BY <2>1
<1>2. ASSUME NEW m \in 0 .. L - 1, Good(m) PROVE Good(m + 1)
  <2> DEFINE lo == N - m
             y == N - (m + 1)
  <2>0. lo \in 2 .. N /\ y \in 1 .. N /\ y + 1 = lo
    BY <1>0
  <2>1. PICK f : f = Body(f, lo)
    BY <1>2
  <2> HIDE DEF lo, y, N
  <2> DEFINE g == [i \in y .. N |-> IF i = y THEN Step(y, f[Nx(y)]) ELSE f[i]]
  <2>2. ASSUME NEW i \in y .. N PROVE g[i] = Step(i, g[Nx(i)])
    <3>0. i \in 1 .. N /\ (i # y => i \in lo .. N)
      BY <1>0, <2>0
    <3>1. On(i) => Nx(i) \in lo .. N /\ g[Nx(i)] = f[Nx(i)]
      BY <1>0, <1>a, <2>0, <3>0
    <3>2. g[i] = Step(i, f[Nx(i)])
      <4>1. CASE i = y
        BY <4>1
      <4>2. CASE i # y
        <5>1. i \in lo .. N /\ g[i] = f[i]
          BY <3>0, <4>2
        <5> QED BY <2>1, <5>1
      <4> QED BY <4>1, <4>2
    <3>3. Step(i, f[Nx(i)]) = Step(i, g[Nx(i)])
      <4>1. CASE On(i)
        BY <3>1, <4>1
      <4>2. CASE ~On(i)
        BY <1>b, <3>0, <4>2
      <4> QED BY <4>1, <4>2
    <3> QED BY <3>2, <3>3
  <2>3. g = Body(g, y)
    BY <2>2
  <2> HIDE DEF g, Body
  <2> QED BY <2>3 DEF y
<1>3. \A m \in 0 .. L : Good(m)
  <2> DEFINE Reach == {i \in 0 .. L : Good(i)}
  <2> HIDE DEF Good
  <2>1. 0 \in Reach /\ \A i \in 0 .. L - 1 : i \in Reach => i + 1 \in Reach
    BY <1>0, <1>1, <1>2
  <2> HIDE DEF Reach
  <2>2. \A i \in 0 .. L : i \in Reach
    BY <1>0, <2>1, Induction
  <2> QED BY <2>2 DEF Reach
<1> DEFINE F == ParseFrom(d)
<1>4. F = CHOOSE h : h = Body(h, 1)
  BY DEF ParseFrom, Step, Turn, NextAt, DescAt, Nx, L
<1> HIDE DEF F
<1>5. F = Body(F, 1)
  <2> HIDE DEF Body
  <2>1. Good(L) /\ N - L = 1
    <3> HIDE DEF Good
    <3> QED BY <1>0, <1>3
  <2>2. PICK f : f = Body(f, 1)
    BY <2>1
  <2> QED BY <1>4, <2>2
<1> HIDE DEF N
<1>6. \A i \in 1 .. N : F[i] = Step(i, F[Nx(i)])
  BY <1>5
<1> QED BY <1>6 DEF F, Step, Nx, N, L

\* A list of words.
LEMMA WordList ==
    ASSUME NEW d \in Seq(0 .. Top - 1)
    PROVE  /\ Len(d) \in Nat
           /\ \A i \in 1 .. Len(d) : /\ d[i] \in ToSet(d) /\ d[i] \in 0 .. Top - 1
                                     /\ Words(d[i]) \in Nat
<1> DEFINE W == 0 .. Top - 1
<1>1. d \in Seq(W)
  OBVIOUS
<1>2. \A n \in W : Words(n) \in Nat
  BY WordsFacts
<1> HIDE DEF W
<1>3. Len(d) \in Nat /\ \A i \in 1 .. Len(d) : d[i] \in W /\ d[i] \in ToSet(d)
  BY <1>1 DEF ToSet
<1> QED BY <1>2, <1>3 DEF W

\* A panic has a size that align4 wraps around.
LEMMA PanicCause ==
    ASSUME NEW d \in Seq(0 .. Top - 1), ParseBuildIDNote(d).st = "panic"
    PROVE  \E n \in ToSet(d) : Top - 3 <= n /\ n < Top
<1> DEFINE N == Len(d) + 1
           F == ParseFrom(d)
           Good(i) == i >= 1 /\ F[i].st = "panic" => \E n \in ToSet(d) : Top - 3 <= n /\ n < Top
           Reach == {i \in 0 .. N : Good(i)}
<1>0. /\ Len(d) \in Nat /\ N \in Nat
      /\ \A i \in 1 .. Len(d) : d[i] \in ToSet(d) /\ d[i] \in 0 .. Top - 1 /\ Words(d[i]) \in Nat
      /\ \A i \in 1 .. N : F[i] = Turn(d, i, F[NextAt(d, i)])
  BY WordList, ParseDef
<1> HIDE DEF F
<1>1. ASSUME NEW i \in 0 .. N, \A j \in i + 1 .. N : Good(j) PROVE Good(i)
  <2> SUFFICES ASSUME i \in 1 .. N, F[i].st = "panic"
               PROVE  \E n \in ToSet(d) : Top - 3 <= n /\ n < Top
    BY <1>0
  <2>1. F[i] = Turn(d, i, F[NextAt(d, i)])
    BY <1>0
  <2>2. i + 2 <= Len(d)
    <3> SUFFICES ASSUME i + 2 > Len(d) PROVE FALSE
      BY <1>0
    <3> QED BY <2>1 DEF Turn, NotFound
  <2>3. i \in 1 .. Len(d) /\ i + 1 \in 1 .. Len(d)
    BY <1>0, <2>2
  <2>4. NextAt(d, i) \in Nat /\ NextAt(d, i) > i
    <3>1. Words(d[i]) \in Nat /\ Words(d[i + 1]) \in Nat /\ i \in Nat
      BY <1>0, <2>3
    <3> QED BY <3>1 DEF NextAt, DescAt
  <2>5. CASE Wraps(d[i]) \/ Wraps(d[i + 1])
    <3>1. \A n \in {d[i], d[i + 1]} : n \in ToSet(d) /\ n \in 0 .. Top - 1 /\ (Wraps(n) => Top - 3 <= n)
      BY <1>0, <2>3, WordsFacts
    <3>2. \A n \in 0 .. Top - 1 : n < Top
      BY WordAssumption
    <3> QED BY <2>5, <3>1, <3>2
  <2>6. CASE ~Wraps(d[i]) /\ ~Wraps(d[i + 1])
    <3>1. NextAt(d, i) <= N /\ F[i] = F[NextAt(d, i)]
      BY <1>0, <2>1, <2>4, <2>6 DEF Turn, NotFound
    <3>2. NextAt(d, i) \in i + 1 .. N /\ NextAt(d, i) >= 1
      BY <1>0, <2>4, <3>1
    <3> QED BY <1>1, <3>1, <3>2
  <2> QED BY <2>5, <2>6
<1> HIDE DEF Good
<1>2. \A i \in 0 .. N : (\A j \in i + 1 .. N : j \in Reach) => i \in Reach
  BY <1>1
<1> HIDE DEF Reach, N
<1>3. \A i \in 0 .. N : i \in Reach
  BY <1>0, <1>2, BackwardInduction
<1>4. 1 \in 0 .. N
  BY <1>0 DEF N
<1> QED BY <1>3, <1>4 DEF Reach, Good, ParseBuildIDNote, F

\* EncodedUpTo, unfolded.
LEMMA EncodedDef ==
    ASSUME NEW w, Len(w) \in Nat
    PROVE  /\ EncodedUpTo(w)[0] = <<>>
           /\ \A k \in 0 .. Len(w) - 1 : EncodedUpTo(w)[k + 1] = EncodedUpTo(w)[k] \o Encode(w[k + 1])
<1> DEFINE Step(v, n) == v \o Encode(w[n])
           Body(f, m) == [n \in 0 .. m |-> IF n = 0 THEN <<>> ELSE Step(f[n - 1], n)]
           Good(m) == \E f : f = Body(f, m)
<1> HIDE DEF Step
<1>0. Len(w) \in Nat
  OBVIOUS
<1>1. Good(0)
  <2> DEFINE f == [n \in 0 .. 0 |-> <<>>]
  <2>1. f = Body(f, 0)
    OBVIOUS
  <2> QED BY <2>1
<1>2. ASSUME NEW m \in 0 .. Len(w) - 1, Good(m) PROVE Good(m + 1)
  <2>1. PICK f : f = Body(f, m)
    BY <1>2
  <2> DEFINE g == [n \in 0 .. m + 1 |-> IF n = m + 1 THEN Step(f[m], m + 1) ELSE f[n]]
  <2>2. ASSUME NEW n \in 0 .. m + 1 PROVE g[n] = IF n = 0 THEN <<>> ELSE Step(g[n - 1], n)
    <3>1. CASE n = m + 1
      BY <3>1
    <3>2. CASE n \in 0 .. m
      <4>1. g[n] = f[n] /\ (n # 0 => g[n - 1] = f[n - 1])
        BY <3>2
      <4>2. f[n] = IF n = 0 THEN <<>> ELSE Step(f[n - 1], n)
        BY <2>1, <3>2
      <4> QED BY <4>1, <4>2
    <3> QED BY <3>1, <3>2
  <2>3. g = Body(g, m + 1)
    BY <2>2
  <2> HIDE DEF g, Body
  <2> QED BY <2>3
<1>3. \A m \in 0 .. Len(w) : Good(m)
  <2> DEFINE Reach == {i \in 0 .. Len(w) : Good(i)}
  <2> HIDE DEF Good
  <2>1. 0 \in Reach /\ \A i \in 0 .. Len(w) - 1 : i \in Reach => i + 1 \in Reach
    BY <1>0, <1>1, <1>2
  <2> HIDE DEF Reach
  <2>2. \A i \in 0 .. Len(w) : i \in Reach
    BY <1>0, <2>1, Induction
  <2> QED BY <2>2 DEF Reach
<1> DEFINE F == EncodedUpTo(w)
<1>4. F = CHOOSE h : h = Body(h, Len(w))
  BY DEF EncodedUpTo, Step
<1> HIDE DEF F
<1>5. F = Body(F, Len(w))
  <2> HIDE DEF Body
  <2>1. PICK f : f = Body(f, Len(w))
    BY <1>0, <1>3
  <2> QED BY <1>4, <2>1
<1>6. F[0] = <<>> /\ \A n \in 0 .. Len(w) - 1 : F[n + 1] = Step(F[n], n + 1)
  <2>1. \A n \in 0 .. Len(w) : F[n] = IF n = 0 THEN <<>> ELSE Step(F[n - 1], n)
    BY <1>5
  <2> QED BY <2>1
<1> QED BY <1>6 DEF F, Step

\* Three lists in a row.
LEMMA ConcatThree ==
    ASSUME NEW S, NEW a \in Seq(S), NEW b \in Seq(S), NEW c \in Seq(S)
    PROVE  /\ (a \o b) \o c \in Seq(S)
           /\ Len(a) \in Nat /\ Len(b) \in Nat /\ Len(c) \in Nat
           /\ Len((a \o b) \o c) = Len(a) + Len(b) + Len(c)
           /\ \A k \in 1 .. Len(a) : ((a \o b) \o c)[k] = a[k]
           /\ \A k \in 1 .. Len(b) : ((a \o b) \o c)[Len(a) + k] = b[k]
           /\ \A k \in 1 .. Len(c) : ((a \o b) \o c)[Len(a) + Len(b) + k] = c[k]
<1> DEFINE f == a \o b
           r == f \o c
<1>1. /\ f \in Seq(S) /\ Len(a) \in Nat /\ Len(b) \in Nat /\ Len(f) = Len(a) + Len(b)
      /\ \A k \in 1 .. Len(a) : f[k] = a[k]
      /\ \A k \in 1 .. Len(b) : f[Len(a) + k] = b[k]
  BY ConcatFacts
<1> HIDE DEF f
<1>2. /\ r \in Seq(S) /\ Len(c) \in Nat /\ Len(r) = Len(f) + Len(c)
      /\ \A k \in 1 .. Len(f) : r[k] = f[k]
      /\ \A k \in 1 .. Len(c) : r[Len(f) + k] = c[k]
  <2>1. f \in Seq(S)
    BY <1>1
  <2> QED BY ONLY <2>1, c \in Seq(S), ConcatFacts DEF r
<1> HIDE DEF r
<1>3. \A k \in 1 .. Len(a) : k \in 1 .. Len(f)
  BY <1>1
<1>4. \A k \in 1 .. Len(b) : Len(a) + k \in 1 .. Len(f)
  BY <1>1
<1>5. \A k \in 1 .. Len(b) : r[Len(a) + k] = b[k]
  BY <1>1, <1>2, <1>4
<1> QED BY <1>1, <1>2, <1>3, <1>5 DEF f, r

\* The words of one note.  They may be any words: what a note needs more is in
\* Written.
LaidOut(note) ==
    /\ Len(note.owner) \in Nat /\ Len(note.desc) \in Nat
    /\ Len(Encode(note)) = 3 + Len(note.owner) + Len(note.desc)
    /\ Encode(note)[1] = note.osize /\ Encode(note)[2] = note.dsize /\ Encode(note)[3] = note.type
    /\ \A k \in 1 .. Len(note.owner) : Encode(note)[3 + k] = note.owner[k]
    /\ \A k \in 1 .. Len(note.desc) : Encode(note)[3 + Len(note.owner) + k] = note.desc[k]

LEMMA EncodeFacts ==
    ASSUME NEW S, NEW note, {note.osize, note.dsize, note.type} \subseteq S,
           note.owner \in Seq(S), note.desc \in Seq(S)
    PROVE  Encode(note) \in Seq(S) /\ LaidOut(note)
<1> DEFINE head == <<note.osize, note.dsize, note.type>>
           all == (head \o note.owner) \o note.desc
<1>1. /\ head \in Seq(S) /\ Len(head) = 3
      /\ head[1] = note.osize /\ head[2] = note.dsize /\ head[3] = note.type
  OBVIOUS
<1> HIDE DEF head
<1>2. /\ all \in Seq(S) /\ Len(note.owner) \in Nat /\ Len(note.desc) \in Nat
      /\ Len(all) = Len(head) + Len(note.owner) + Len(note.desc)
      /\ \A k \in 1 .. Len(head) : all[k] = head[k]
      /\ \A k \in 1 .. Len(note.owner) : all[Len(head) + k] = note.owner[k]
      /\ \A k \in 1 .. Len(note.desc) : all[Len(head) + Len(note.owner) + k] = note.desc[k]
  <2> DEFINE own == note.owner
             des == note.desc
  <2>1. head \in Seq(S) /\ own \in Seq(S) /\ des \in Seq(S)
    BY <1>1
  <2> HIDE DEF own, des
  <2>2. /\ (head \o own) \o des \in Seq(S) /\ Len(own) \in Nat /\ Len(des) \in Nat
        /\ Len((head \o own) \o des) = Len(head) + Len(own) + Len(des)
        /\ \A k \in 1 .. Len(head) : ((head \o own) \o des)[k] = head[k]
        /\ \A k \in 1 .. Len(own) : ((head \o own) \o des)[Len(head) + k] = own[k]
        /\ \A k \in 1 .. Len(des) : ((head \o own) \o des)[Len(head) + Len(own) + k] = des[k]
    BY ONLY <2>1, ConcatThree
  <2> QED BY <2>2 DEF own, des
<1>3. Encode(note) = all
  BY DEF Encode, head
<1> HIDE DEF all
<1>4. all[1] = note.osize /\ all[2] = note.dsize /\ all[3] = note.type
  <2>1. all[1] = head[1] /\ all[2] = head[2] /\ all[3] = head[3]
    <3>1. \A k \in 1 .. 3 : all[k] = head[k]
      BY <1>1, <1>2
    <3> QED BY <3>1
  <2> QED BY <1>1, <2>1
<1> QED BY <1>1, <1>2, <1>3, <1>4 DEF LaidOut

\* Where the first k notes end.
EndOf(w, k) == Len(EncodedUpTo(w)[k])

\* The first k notes are a beginning of them all.
LEMMA Beginnings ==
    ASSUME NEW w, AllWritten(w)
    PROVE  /\ Len(w) \in Nat
           /\ \A m \in 0 .. Len(w) :
                 /\ EncodedUpTo(w)[m] \in Seq(0 .. Top - 1) /\ EndOf(w, m) \in Nat
                 /\ \A k \in 0 .. m : /\ EndOf(w, k) <= EndOf(w, m)
                                      /\ \A j \in 1 .. EndOf(w, k) : EncodedUpTo(w)[m][j] = EncodedUpTo(w)[k][j]
<1> DEFINE n == Len(w)
           W == 0 .. Top - 1
           U(k) == EncodedUpTo(w)[k]
           L(k) == EndOf(w, k)
           e(k) == Encode(w[k])
           Good(m) == /\ U(m) \in Seq(W) /\ L(m) \in Nat
                      /\ \A k \in 0 .. m : L(k) \in 0 .. L(m) /\ \A j \in 1 .. L(k) : U(m)[j] = U(k)[j]
<1>0. /\ n \in Nat /\ U(0) = <<>>
      /\ \A k \in 0 .. n - 1 : U(k + 1) = U(k) \o e(k + 1)
      /\ \A k : L(k) = Len(U(k))
  <2>1. n \in Nat
    BY DEF AllWritten
  <2>2. /\ U(0) = <<>>
        /\ \A k \in 0 .. n - 1 : U(k + 1) = U(k) \o e(k + 1)
    BY <2>1, EncodedDef
  <2> QED BY <2>1, <2>2 DEF EndOf
<1>a. \A k \in 1 .. n : e(k) \in Seq(W)
  <2> SUFFICES ASSUME NEW k \in 1 .. n PROVE e(k) \in Seq(W)
    OBVIOUS
  <2> DEFINE note == w[k]
  <2>1. note \in ToSet(w)
    BY DEF AllWritten, ToSet
  <2>2. Written(note)
    BY <2>1 DEF AllWritten
  <2>3. {note.osize, note.dsize, note.type} \subseteq W /\ note.owner \in Seq(W) /\ note.desc \in Seq(W)
    <3>1. 0 .. Top - 4 \subseteq W
      BY WordAssumption
    <3> QED BY <2>2, <3>1 DEF Written, Padded
  <2> HIDE DEF note, W
  <2>4. Encode(note) \in Seq(W)
    BY <2>3, EncodeFacts
  <2> QED BY <2>4 DEF note
<1> HIDE DEF U, L, e, W, n
<1>1. Good(0)
  <2>1. U(0) \in Seq(W) /\ Len(U(0)) = 0
    <3>1. U(0) = <<>>
      BY <1>0
    <3>2. <<>> \in Seq(W) /\ Len(<<>>) = 0
      OBVIOUS
    <3> QED BY ONLY <3>1, <3>2
  <2>2. L(0) = 0
    BY <1>0, <2>1
  <2> QED BY <2>1, <2>2
<1>2. ASSUME NEW m \in 0 .. n - 1, Good(m) PROVE Good(m + 1)
  <2>1. m + 1 \in 1 .. n /\ U(m + 1) = U(m) \o e(m + 1) /\ e(m + 1) \in Seq(W) /\ U(m) \in Seq(W)
    BY <1>0, <1>a, <1>2
  <2> DEFINE s == U(m)
             t == e(m + 1)
             r == s \o t
  <2>2. s \in Seq(W) /\ t \in Seq(W) /\ U(m + 1) = r /\ L(m) = Len(s) /\ L(m + 1) = Len(r)
    BY <1>0, <2>1
  <2> HIDE DEF s, t
  <2>3. r \in Seq(W) /\ Len(s) \in Nat /\ Len(t) \in Nat /\ Len(r) = Len(s) + Len(t)
        /\ \A k \in 1 .. Len(s) : r[k] = s[k]
    BY ONLY <2>2, ConcatFacts
  <2> HIDE DEF r
  <2>4. L(m) <= L(m + 1) /\ L(m + 1) \in Nat /\ \A j \in 1 .. L(m) : U(m + 1)[j] = U(m)[j]
    BY <2>2, <2>3 DEF s
  <2>5. ASSUME NEW k \in 0 .. m + 1
        PROVE  L(k) \in 0 .. L(m + 1) /\ \A j \in 1 .. L(k) : U(m + 1)[j] = U(k)[j]
    <3>1. CASE k = m + 1
      BY <2>4, <3>1
    <3>2. CASE k # m + 1
      <4>1. k \in 0 .. m
        BY <3>2
      <4>2. L(k) \in 0 .. L(m) /\ \A j \in 1 .. L(k) : U(m)[j] = U(k)[j]
        BY <1>2, <4>1
      <4> QED BY <1>2, <2>4, <4>2
    <3> QED BY <3>1, <3>2
  <2> QED BY <2>2, <2>3, <2>4, <2>5
<1>3. \A m \in 0 .. n : Good(m)
  <2> DEFINE Reach == {i \in 0 .. n : Good(i)}
  <2> HIDE DEF Good
  <2>1. 0 \in Reach /\ \A i \in 0 .. n - 1 : i \in Reach => i + 1 \in Reach
    BY <1>0, <1>1, <1>2
  <2> HIDE DEF Reach
  <2>2. \A i \in 0 .. n : i \in Reach
    BY <1>0, <2>1, Induction
  <2> QED BY <2>2 DEF Reach
<1>4. \A m \in 0 .. n : /\ U(m) \in Seq(W) /\ L(m) \in Nat
                         /\ \A k \in 0 .. m : L(k) <= L(m) /\ \A j \in 1 .. L(k) : U(m)[j] = U(k)[j]
  <2> SUFFICES ASSUME NEW m \in 0 .. n
               PROVE  /\ U(m) \in Seq(W) /\ L(m) \in Nat
                      /\ \A k \in 0 .. m : L(k) <= L(m) /\ \A j \in 1 .. L(k) : U(m)[j] = U(k)[j]
    OBVIOUS
  <2>1. Good(m)
    <3> HIDE DEF Good
    <3> QED BY <1>3
  <2>2. \A k \in 0 .. m : L(k) <= L(m)
    BY <2>1
  <2> QED BY <2>1, <2>2
<1> QED BY ONLY <1>0, <1>4 DEF n, W, U, L

\* A note is laid out from word p + 1 on.
PlacedAt(E, p, note) ==
    LET o == Len(note.owner) IN
    /\ p \in Nat /\ o \in Nat /\ Len(note.desc) \in Nat
    /\ E[p + 1] = note.osize /\ E[p + 2] = note.dsize /\ E[p + 3] = note.type
    /\ \A j \in 1 .. o : E[p + 3 + j] = note.owner[j]
    /\ \A j \in 1 .. Len(note.desc) : E[p + 3 + o + j] = note.desc[j]

\* The k-th note in the list of all.
LEMMA NoteAt ==
    ASSUME NEW w, AllWritten(w), NEW k \in 0 .. Len(w) - 1
    PROVE  /\ Written(w[k + 1])
           /\ PlacedAt(Encoded(w), EndOf(w, k), w[k + 1])
           /\ EndOf(w, k + 1) = EndOf(w, k) + 3 + Len(w[k + 1].owner) + Len(w[k + 1].desc)
           /\ EndOf(w, k + 1) <= EndOf(w, Len(w))
<1> DEFINE n == Len(w)
           W == 0 .. Top - 1
           E == Encoded(w)
           note == w[k + 1]
           own == note.owner
           des == note.desc
           p == EndOf(w, k)
           q == EndOf(w, k + 1)
           s == EncodedUpTo(w)[k]
           t == Encode(note)
           r == s \o t
<1>1. n \in Nat /\ k \in 0 .. n /\ k + 1 \in 0 .. n /\ n \in 0 .. n /\ note \in ToSet(w)
  BY DEF AllWritten, ToSet
<1>2. Written(note)
  BY <1>1 DEF AllWritten
<1>3. /\ t \in Seq(W) /\ Len(own) \in Nat /\ Len(des) \in Nat
      /\ Len(t) = 3 + Len(own) + Len(des)
      /\ t[1] = note.osize /\ t[2] = note.dsize /\ t[3] = note.type
      /\ \A j \in 1 .. Len(own) : t[3 + j] = own[j]
      /\ \A j \in 1 .. Len(des) : t[3 + Len(own) + j] = des[j]
  <2> DEFINE x == note
  <2>1. {x.osize, x.dsize, x.type} \subseteq W /\ x.owner \in Seq(W) /\ x.desc \in Seq(W)
    <3>1. 0 .. Top - 4 \subseteq W
      BY WordAssumption
    <3> QED BY <1>2, <3>1 DEF Written, Padded
  <2> HIDE DEF x, W
  <2>2. Encode(x) \in Seq(W) /\ LaidOut(x)
    BY ONLY <2>1, EncodeFacts
  <2> QED BY ONLY <2>2 DEF x, LaidOut
<1>4. s \in Seq(W) /\ EncodedUpTo(w)[k + 1] = r /\ p = Len(s)
  BY <1>1, Beginnings, EncodedDef DEF EndOf
<1>5. /\ q \in 0 .. EndOf(w, n) /\ \A j \in 1 .. q : E[j] = EncodedUpTo(w)[k + 1][j]
  <2>1. \A m \in 0 .. n : \A i \in 0 .. m :
           /\ EndOf(w, m) \in Nat /\ EndOf(w, i) \in Nat /\ EndOf(w, i) <= EndOf(w, m)
           /\ \A j \in 1 .. EndOf(w, i) : EncodedUpTo(w)[m][j] = EncodedUpTo(w)[i][j]
    BY Beginnings
  <2>2. k + 1 \in 0 .. n /\ n \in 0 .. n
    BY <1>1
  <2>3. E = EncodedUpTo(w)[n]
    BY DEF Encoded
  <2> HIDE DEF n, E
  <2> QED BY <2>1, <2>2, <2>3
<1>6. q = Len(r)
  BY <1>4 DEF EndOf
<1> HIDE DEF t, s, W
<1>7. /\ Len(s) \in Nat /\ Len(t) \in Nat /\ Len(r) = Len(s) + Len(t)
      /\ \A j \in 1 .. Len(t) : r[Len(s) + j] = t[j]
  <2>1. s \in Seq(W) /\ t \in Seq(W)
    BY <1>3, <1>4
  <2> QED BY ONLY <2>1, ConcatFacts
<1> HIDE DEF r, p, q, own, des, E, note
<1>a. Len(own) \in Nat /\ Len(des) \in Nat /\ Len(t) = 3 + Len(own) + Len(des)
  BY <1>3
<1>8. /\ p \in Nat /\ q = p + 3 + Len(own) + Len(des)
      /\ \A j \in 1 .. Len(t) : E[p + j] = t[j]
  <2>1. \A j \in 1 .. Len(t) : p + j \in 1 .. q
    BY <1>4, <1>6, <1>7
  <2> QED BY <1>3, <1>4, <1>5, <1>6, <1>7, <2>1
<1>9. E[p + 1] = note.osize /\ E[p + 2] = note.dsize /\ E[p + 3] = note.type
  <2>1. 1 \in 1 .. Len(t) /\ 2 \in 1 .. Len(t) /\ 3 \in 1 .. Len(t)
    BY <1>3
  <2> QED BY <1>3, <1>8, <2>1
<1>10. \A j \in 1 .. Len(own) : E[p + 3 + j] = own[j]
  <2> SUFFICES ASSUME NEW j \in 1 .. Len(own) PROVE E[p + 3 + j] = own[j]
    OBVIOUS
  <2>1. 3 + j \in 1 .. Len(t) /\ p + (3 + j) = p + 3 + j
    BY ONLY <1>a, <1>8, j \in 1 .. Len(own)
  <2>2. E[p + (3 + j)] = t[3 + j] /\ t[3 + j] = own[j]
    BY <1>3, <1>8, <2>1
  <2> QED BY <2>1, <2>2
<1>11. \A j \in 1 .. Len(des) : E[p + 3 + Len(own) + j] = des[j]
  <2> SUFFICES ASSUME NEW j \in 1 .. Len(des) PROVE E[p + 3 + Len(own) + j] = des[j]
    OBVIOUS
  <2>1. 3 + Len(own) + j \in 1 .. Len(t) /\ p + (3 + Len(own) + j) = p + 3 + Len(own) + j
    BY ONLY <1>a, <1>8, j \in 1 .. Len(des)
  <2>2. E[p + (3 + Len(own) + j)] = t[3 + Len(own) + j] /\ t[3 + Len(own) + j] = des[j]
    BY <1>3, <1>8, <2>1
  <2> QED BY <2>1, <2>2
<1>12. q <= EndOf(w, n)
  BY <1>5
<1>13. PlacedAt(E, p, note)
  BY ONLY <1>a, <1>8, <1>9, <1>10, <1>11 DEF PlacedAt, own, des
<1> QED BY <1>2, <1>8, <1>12, <1>13 DEF note, p, q, own, des, E, n

\* Where a note behind p words ends.
NoteEnd(p, note) == p + 3 + Len(note.owner) + Len(note.desc)

\* A turn of the loop at a note, in a list that may be cut.
LEMMA TurnAt ==
    ASSUME NEW d \in Seq(0 .. Top - 1), NEW E, \A j \in 1 .. Len(d) : d[j] = E[j],
           NEW p \in Nat, p <= Len(d), NEW note, Written(note), PlacedAt(E, p, note),
           NEW v
    PROVE  /\ NoteEnd(p, note) > Len(d) => Turn(d, p + 1, v) = NotFound
           /\ NoteEnd(p, note) <= Len(d) =>
                 /\ NextAt(d, p + 1) = NoteEnd(p, note) + 1
                 /\ Turn(d, p + 1, v) = IF HoldsID(note)
                                        THEN [st |-> "found", id |-> <<note.dsize>> \o note.desc] ELSE v
<1> DEFINE q == NoteEnd(p, note)
           K == Len(d)
           i == p + 1
           own == note.owner
           des == note.desc
           o == Len(own)
           c == Len(des)
           os == note.osize
           ds == note.dsize
           ty == note.type
<1>1. K \in Nat /\ p \in Nat /\ p <= K /\ o \in Nat /\ c \in Nat /\ q = p + 3 + o + c /\ q \in Nat
  <2>1. Len(d) \in Nat
    BY WordList
  <2> QED BY <2>1 DEF PlacedAt, NoteEnd
<1>2. o = Words(os) /\ c = Words(ds) /\ os \in Nat /\ ~Wraps(os) /\ ~Wraps(ds) /\ (os >= 3 => o >= 1)
  <2>1. /\ 4 * o \in os .. os + 3 /\ 4 * c \in ds .. ds + 3
        /\ os \in 0 .. Top - 4 /\ ds \in 0 .. Top - 4
    BY DEF Written, Padded
  <2>2. \A n \in 0 .. Top - 4 : /\ n \in Nat /\ ~Wraps(n) /\ (n >= 3 => Words(n) >= 1)
                               /\ \A l \in Nat : 4 * l \in n .. n + 3 => l = Words(n)
    <3>1. ASSUME NEW n \in 0 .. Top - 4 PROVE n \in 0 .. Top - 1 /\ n <= Top - 4 /\ n \in Nat
      BY WordAssumption
    <3> QED BY <3>1, WordsFacts
  <2> HIDE DEF os, ds, o, c
  <2> QED BY <1>1, <2>1, <2>2
<1>3. /\ E[p + 1] = os /\ E[p + 2] = ds /\ E[p + 3] = ty
      /\ \A j \in 1 .. o : E[p + 3 + j] = own[j]
      /\ \A j \in 1 .. c : E[p + 3 + o + j] = des[j]
  BY DEF PlacedAt
<1>4. HoldsID(note) <=> ty = 3 /\ os >= 3 /\ own[1] = GNU /\ \A k \in 2 .. o : own[k] = 0
  BY DEF HoldsID
<1>5. des = [k \in 1 .. c |-> des[k]]
  BY DEF Written, Padded
<1> DEFINE H == HoldsID(note)
           found == [st |-> "found", id |-> <<ds>> \o des]
<1> HIDE DEF q, own, des, os, ds, ty, o, c, K, H
<1>6. ASSUME p + 3 <= K PROVE d[i] = os /\ d[i + 1] = ds /\ d[i + 2] = ty
  <2>1. i \in 1 .. K /\ i + 1 \in 1 .. K /\ i + 2 \in 1 .. K /\ i + 1 = p + 2 /\ i + 2 = p + 3
    BY <1>1, <1>6
  <2>2. \A j \in 1 .. K : d[j] = E[j]
    BY DEF K
  <2> QED BY <1>3, <2>1, <2>2
<1>7. ASSUME p + 3 <= K PROVE DescAt(d, i) = p + 4 + o /\ NextAt(d, i) = q + 1
  <2>1. DescAt(d, i) = i + 3 + o /\ NextAt(d, i) = DescAt(d, i) + c
    BY <1>2, <1>6, <1>7 DEF DescAt, NextAt
  <2> QED BY <1>1, <2>1
<1>8. ASSUME q > K PROVE Turn(d, i, v) = NotFound
  <2>1. CASE p + 3 > K
    <3>1. i + 2 > Len(d)
      BY <1>1, <2>1 DEF K
    <3> QED BY <3>1 DEF Turn
  <2>2. CASE p + 3 <= K
    <3>1. ~(q + 1 <= K + 1) /\ q + 1 > K + 1
      BY <1>1, <1>8
    <3>2. d[i] = os /\ NextAt(d, i) = q + 1
      BY <1>6, <1>7, <2>2
    <3>3. ~(NextAt(d, i) <= K + 1) /\ NextAt(d, i) > K + 1 /\ ~Wraps(d[i])
      BY <1>2, <3>1, <3>2
    <3> QED BY <3>3 DEF Turn, K
  <2> QED BY <1>1, <2>1, <2>2
<1>9. ASSUME q <= K
       PROVE NextAt(d, i) = q + 1 /\ Turn(d, i, v) = IF H THEN found ELSE v
  <2>1. p + 3 <= K
    BY <1>1, <1>9
  <2>2. d[i] = os /\ d[i + 1] = ds /\ d[i + 2] = ty /\ DescAt(d, i) = p + 4 + o /\ NextAt(d, i) = q + 1
    BY <1>6, <1>7, <2>1
  <2>3. \A j \in 1 .. o : d[p + 3 + j] = own[j]
    <3> SUFFICES ASSUME NEW j \in 1 .. o PROVE d[p + 3 + j] = own[j]
      OBVIOUS
    <3>1. p + 3 + j \in 1 .. K
      BY <1>1, <1>9
    <3>2. \A l \in 1 .. K : d[l] = E[l]
      BY DEF K
    <3> QED BY <1>3, <3>1, <3>2
  <2>4. \A j \in 1 .. c : d[p + 3 + o + j] = des[j]
    <3> SUFFICES ASSUME NEW j \in 1 .. c PROVE d[p + 3 + o + j] = des[j]
      OBVIOUS
    <3>1. p + 3 + o + j \in 1 .. K
      BY <1>1, <1>9
    <3>2. \A l \in 1 .. K : d[l] = E[l]
      BY DEF K
    <3> QED BY <1>3, <3>1, <3>2
  <2>5. OwnerIsGNU(d, i) <=> os >= 3 /\ own[1] = GNU /\ \A k \in 2 .. o : own[k] = 0
    <3>1. OwnerIsGNU(d, i) <=> os >= 3 /\ d[i + 3] = GNU /\ \A k \in i + 4 .. i + 2 + o : d[k] = 0
      BY <1>2, <2>2 DEF OwnerIsGNU
    <3>2. os >= 3 => d[i + 3] = own[1]
      <4>1. i + 3 = p + 3 + 1
        BY <1>1
      <4>2. os >= 3 => 1 \in 1 .. o
        BY <1>1, <1>2
      <4> QED BY <2>3, <4>1, <4>2
    <3>3. (\A k \in i + 4 .. i + 2 + o : d[k] = 0) <=> \A k \in 2 .. o : own[k] = 0
      <4>1. ASSUME NEW k \in i + 4 .. i + 2 + o
            PROVE  k - (p + 3) \in 2 .. o /\ k - (p + 3) \in 1 .. o /\ p + 3 + (k - (p + 3)) = k
        BY <1>1
      <4>2. ASSUME NEW k \in 2 .. o
            PROVE  k \in 1 .. o /\ p + 3 + k \in i + 4 .. i + 2 + o
        BY <1>1
      <4>3. \A k \in i + 4 .. i + 2 + o : d[k] = own[k - (p + 3)]
        BY <2>3, <4>1
      <4>4. \A k \in 2 .. o : d[p + 3 + k] = own[k]
        BY <2>3, <4>2
      <4> QED BY <4>1, <4>2, <4>3, <4>4
    <3> QED BY <3>1, <3>2, <3>3
  <2>6. SubSeq(d, p + 4 + o, q) = des
    <3> DEFINE a == p + 4 + o
               x == SubSeq(d, a, q)
    <3>1. a \in 1 .. K + 1 /\ q \in Nat /\ q <= K /\ a \in Nat
      BY <1>1, <1>9
    <3>2. d \in Seq(0 .. Top - 1) /\ \A j \in a .. q : d[j] \in 0 .. Top - 1
      <4>1. \A j \in a .. q : j \in 1 .. K
        BY <1>1, <3>1
      <4> QED BY <4>1, WordList DEF K
    <3>3. x = [k \in 1 .. c |-> d[a + k - 1]]
      <4>1. q - a + 1 = c
        BY <1>1, <3>1
      <4>2. x = [k \in 1 .. q - a + 1 |-> d[a + k - 1]]
        BY <3>1, <3>2
      <4> QED BY <4>1, <4>2
    <3>4. \A k \in 1 .. c : d[a + k - 1] = des[k]
      <4>1. \A k \in 1 .. c : a + k - 1 = p + 3 + o + k
        BY <1>1
      <4> QED BY <2>4, <4>1
    <3> HIDE DEF a, x
    <3>5. x = [k \in 1 .. c |-> des[k]]
      BY <3>3, <3>4
    <3> QED BY <1>5, <3>5 DEF x, a
  <2>7. ~(i + 2 > Len(d)) /\ ~(DescAt(d, i) > Len(d) + 1) /\ ~(NextAt(d, i) > Len(d) + 1)
    BY <1>1, <1>9, <2>1, <2>2 DEF K
  <2>8. Turn(d, i, v) =
          IF OwnerIsGNU(d, i) /\ d[i + 2] = 3
          THEN [st |-> "found", id |-> <<d[i + 1]>> \o SubSeq(d, DescAt(d, i), NextAt(d, i) - 1)]
          ELSE v
    BY <1>2, <2>2, <2>7 DEF Turn
  <2>9. NextAt(d, i) - 1 = q
    BY <1>1, <2>2
  <2>10. OwnerIsGNU(d, i) /\ d[i + 2] = 3 <=> H
    BY <1>4, <2>2, <2>5 DEF H
  <2>11. [st |-> "found", id |-> <<d[i + 1]>> \o SubSeq(d, DescAt(d, i), NextAt(d, i) - 1)] = found
    BY <2>2, <2>6, <2>9
  <2> HIDE DEF found
  <2> QED BY <2>2, <2>8, <2>10, <2>11
<1> QED BY <1>8, <1>9 DEF q, K, own, des, o, c, ds, H

\* In a whole list of notes the first GNU one of type 3 is found; in a cut one it
\* is, or nothing is.
LEMMA ParseExact ==
    ASSUME NEW w, AllWritten(w), NEW d \in Seq(0 .. Top - 1), Len(d) <= EndOf(w, Len(w)),
           \A j \in 1 .. Len(d) : d[j] = Encoded(w)[j]
    PROVE  /\ ParseBuildIDNote(d) \in {FirstID(w), NotFound}
           /\ Len(d) = EndOf(w, Len(w)) => ParseBuildIDNote(d) = FirstID(w)
<1> DEFINE n == Len(w)
           K == Len(d)
           F == ParseFrom(d)
           X(k) == EndOf(w, k)
           H(k) == HoldsID(w[k])
           r == FirstID(w)
           Good(k) == X(k) <= K /\ (\A j \in 1 .. k : ~H(j)) =>
                         /\ F[X(k) + 1] \in {r, NotFound}
                         /\ K = X(n) => F[X(k) + 1] = r
           Reach == {k \in 0 .. n : Good(k)}
<1>0. /\ n \in Nat /\ K \in Nat /\ K <= X(n) /\ X(0) = 0
      /\ \A k \in 0 .. n : X(k) \in Nat
      /\ \A k \in 0 .. n - 1 : X(k + 1) <= X(n)
  <2>1. n \in Nat /\ \A k \in 0 .. n : X(k) \in Nat
    BY Beginnings
  <2>2. X(0) = 0
    <3>1. EncodedUpTo(w)[0] = <<>>
      BY <2>1, EncodedDef
    <3> QED BY <3>1 DEF EndOf
  <2>3. \A k \in 0 .. n - 1 : X(k + 1) <= X(n)
    BY NoteAt
  <2>4. K \in Nat
    BY WordList
  <2> QED BY <2>1, <2>2, <2>3, <2>4
<1>a. \A i \in 1 .. K + 1 : F[i] = Turn(d, i, F[NextAt(d, i)])
  BY ParseDef
<1>b. r = LET has == {k \in 1 .. n : H(k)}
              it  == w[Min(has)]
          IN  IF has = {} THEN NotFound ELSE [st |-> "found", id |-> <<it.dsize>> \o it.desc]
  BY DEF FirstID
<1> HIDE DEF F, r, H
<1>1. ASSUME NEW k \in 0 .. n, \A j \in k + 1 .. n : Good(j) PROVE Good(k)
  <2> SUFFICES ASSUME X(k) <= K, \A j \in 1 .. k : ~H(j)
               PROVE  F[X(k) + 1] \in {r, NotFound} /\ (K = X(n) => F[X(k) + 1] = r)
    OBVIOUS
  <2> DEFINE p == X(k)
             v == F[NextAt(d, p + 1)]
  <2>0. p \in Nat /\ p <= K /\ p + 1 \in 1 .. K + 1
    BY <1>0
  <2>1. F[p + 1] = Turn(d, p + 1, v)
    BY <1>a, <2>0
  <2>2. CASE k = n
    <3>1. r = NotFound
      BY <1>b, <2>2
    <3>2. p + 1 + 2 > Len(d)
      BY <1>0, <2>0, <2>2
    <3>3. Turn(d, p + 1, v) = NotFound
      BY <3>2 DEF Turn
    <3> QED BY <2>1, <3>1, <3>3
  <2>3. CASE k # n
    <3> DEFINE note == w[k + 1]
               q == X(k + 1)
               E == Encoded(w)
    <3>1. k \in 0 .. n - 1 /\ k + 1 \in k + 1 .. n /\ k + 1 \in 1 .. n
      BY <1>0, <2>3
    <3>2. Written(note) /\ PlacedAt(E, p, note) /\ q = NoteEnd(p, note) /\ q \in Nat
      BY <1>0, <3>1, NoteAt DEF NoteEnd
    <3>3. q <= X(n)
      BY <1>0, <3>1
    <3> HIDE DEF note, q, E, p, v, X, K
    <3> DEFINE found == [st |-> "found", id |-> <<note.dsize>> \o note.desc]
    <3>4. /\ q > K => Turn(d, p + 1, v) = NotFound
          /\ q <= K => /\ NextAt(d, p + 1) = q + 1
                       /\ Turn(d, p + 1, v) = IF HoldsID(note) THEN found ELSE v
      <4>1. \A j \in 1 .. Len(d) : d[j] = E[j]
        BY DEF E
      <4>2. p <= Len(d)
        BY <2>0 DEF K
      <4>3. /\ NoteEnd(p, note) > Len(d) => Turn(d, p + 1, v) = NotFound
            /\ NoteEnd(p, note) <= Len(d) =>
                 /\ NextAt(d, p + 1) = NoteEnd(p, note) + 1
                 /\ Turn(d, p + 1, v) = IF HoldsID(note)
                                        THEN [st |-> "found", id |-> <<note.dsize>> \o note.desc] ELSE v
        BY ONLY d \in Seq(0 .. Top - 1), <2>0, <3>2, <4>1, <4>2, TurnAt
      <4> QED BY ONLY <3>2, <4>3 DEF K, found
    <3>5. HoldsID(note) => r = found
      <4> SUFFICES ASSUME HoldsID(note) PROVE r = found
        OBVIOUS
      <4> DEFINE has == {j \in 1 .. n : H(j)}
      <4>1. k + 1 \in has
        BY <3>1 DEF H, note
      <4>2. has \subseteq Nat /\ \A j \in has : j >= k + 1
        <5>1. ASSUME NEW j \in has PROVE j \in Nat /\ j >= k + 1
          <6>1. j \in 1 .. n /\ H(j) /\ j \notin 1 .. k
            OBVIOUS
          <6> QED BY <6>1, <1>0
        <5> QED BY <5>1
      <4>3. Min(has) = k + 1
        <5>1. Min(has) \in has /\ \A y \in has : Min(has) <= y
          BY <4>1, <4>2, MinFacts
        <5> DEFINE m == Min(has)
        <5>2. m >= k + 1 /\ m <= k + 1 /\ m \in Nat
          BY <4>1, <4>2, <5>1
        <5> HIDE DEF m
        <5>3. m = k + 1
          BY <5>2
        <5> QED BY <5>3 DEF m
      <4> QED BY <1>b, <4>1, <4>3 DEF note
    <3>6. CASE q > K
      <4>1. K # X(n)
        BY <1>0, <2>0, <3>2, <3>3, <3>6
      <4> QED BY <2>1, <3>4, <3>6, <4>1 DEF p
    <3>7. CASE q <= K /\ HoldsID(note)
      <4> HIDE DEF found
      <4> QED BY <2>1, <3>4, <3>5, <3>7 DEF p
    <3>8. CASE q <= K /\ ~HoldsID(note)
      <4>1. F[p + 1] = F[q + 1]
        BY <2>1, <3>4, <3>8 DEF v
      <4>2. \A j \in 1 .. k + 1 : ~H(j)
        <5>1. \A j \in 1 .. k + 1 : j \in 1 .. k \/ j = k + 1
          OBVIOUS
        <5>2. ~H(k + 1)
          BY <3>8 DEF H, note
        <5> QED BY <5>1, <5>2
      <4>3. Good(k + 1)
        BY <1>1, <3>1
      <4>4. F[q + 1] \in {r, NotFound} /\ (K = X(n) => F[q + 1] = r)
        BY <3>8, <4>2, <4>3 DEF q
      <4> QED BY <4>1, <4>4 DEF p
    <3> QED BY <1>0, <3>2, <3>6, <3>7, <3>8
  <2> QED BY <2>2, <2>3
<1> HIDE DEF Good
<1>2. \A k \in 0 .. n : (\A j \in k + 1 .. n : j \in Reach) => k \in Reach
  BY <1>1
<1> HIDE DEF Reach
<1>3. \A k \in 0 .. n : k \in Reach
  BY <1>0, <1>2, BackwardInduction
<1>4. Good(0)
  BY <1>0, <1>3 DEF Reach
<1>5. X(0) <= K /\ X(0) + 1 = 1 /\ \A j \in 1 .. 0 : ~H(j)
  BY <1>0
<1> QED BY <1>4, <1>5 DEF Good, ParseBuildIDNote, F, r, n

\* A list that is the first k words of a file's notes.
LEMMA CutExact ==
    ASSUME NEW w, AllWritten(w), NEW k \in 0 .. Len(Encoded(w))
    PROVE  LET d == SubSeq(Encoded(w), 1, k) IN
           /\ ParseBuildIDNote(d) \in {FirstID(w), NotFound}
           /\ k = Len(Encoded(w)) => d = Encoded(w) /\ ParseBuildIDNote(d) = FirstID(w)
<1> DEFINE W == 0 .. Top - 1
           E == Encoded(w)
           d == SubSeq(E, 1, k)
<1>1. E \in Seq(W) /\ Len(E) = EndOf(w, Len(w)) /\ Len(E) \in Nat
  <2>1. Len(w) \in Nat /\ Len(w) \in 0 .. Len(w)
    BY Beginnings
  <2>2. EncodedUpTo(w)[Len(w)] \in Seq(W) /\ EndOf(w, Len(w)) \in Nat
    <3> HIDE DEF W
    <3> QED BY <2>1, Beginnings DEF W
  <2> QED BY <2>2 DEF Encoded, EndOf
<1> HIDE DEF E, W
<1>2. d \in Seq(W) /\ Len(d) = k /\ (\A j \in 1 .. k : d[j] = E[j]) /\ (k = Len(E) => d = E)
  <2>1. \A j \in 1 .. k : j \in 1 .. Len(E) /\ E[j] \in W
    BY <1>1 DEF E
  <2>2. k \in Nat /\ k <= Len(E)
    BY <1>1 DEF E
  <2>3. d \in Seq(W) /\ Len(d) = k /\ d = [j \in 1 .. k |-> E[j]]
    BY <1>1, <2>1, <2>2
  <2>4. E = [j \in 1 .. Len(E) |-> E[j]]
    BY <1>1
  <2> HIDE DEF d
  <2> QED BY <2>3, <2>4
<1> HIDE DEF d
<1>3. /\ ParseBuildIDNote(d) \in {FirstID(w), NotFound}
      /\ Len(d) = EndOf(w, Len(w)) => ParseBuildIDNote(d) = FirstID(w)
  <2>1. /\ d \in Seq(0 .. Top - 1) /\ Len(d) <= EndOf(w, Len(w))
        /\ \A j \in 1 .. Len(d) : d[j] = Encoded(w)[j]
    BY <1>1, <1>2 DEF W, E
  <2> QED BY ONLY AllWritten(w), <2>1, ParseExact
<1> QED BY <1>1, <1>2, <1>3 DEF d, E

\* The lists of notes of a file.
NoteLists(f) == f.notes \o f.segs

\* The BuildID is what one of the lists has, if any has one.
LEMMA BuildIDFacts ==
    ASSUME NEW f, Notes(f)
    PROVE  /\ Len(NoteLists(f)) \in Nat
           /\ \A k \in 1 .. Len(NoteLists(f)) : /\ NoteLists(f)[k] \in Seq(0 .. Top - 1)
                                                /\ NoteLists(f)[k] \in ToSet(NoteLists(f))
           /\ \/ BuildIDOf(f) = NotFound
              \/ \E k \in 1 .. Len(NoteLists(f)) : BuildIDOf(f) = ParseBuildIDNote(NoteLists(f)[k])
<1> DEFINE all == NoteLists(f)
           N == Len(all)
           V(k) == ParseBuildIDNote(all[k])
           has == {k \in 1 .. N : V(k).st # "none"}
<1>1. N \in Nat /\ \A k \in 1 .. N : all[k] \in Seq(0 .. Top - 1) /\ all[k] \in ToSet(all)
  <2> DEFINE S == Seq(0 .. Top - 1)
  <2>1. all \in Seq(S)
    BY DEF Notes, NoteLists
  <2> HIDE DEF S, all
  <2> QED BY <2>1 DEF ToSet, S
<1>2. BuildIDOf(f) = IF has = {} THEN NotFound ELSE V(Min(has))
  BY DEF BuildIDOf, NoteLists
<1> HIDE DEF all, V
<1>3. has # {} => Min(has) \in has
  <2>1. has \subseteq Nat
    BY <1>1
  <2> QED BY <2>1, MinFacts
<1>4. has # {} => Min(has) \in 1 .. N /\ BuildIDOf(f) = V(Min(has))
  BY <1>2, <1>3
<1> HIDE DEF N, has
<1>5. BuildIDOf(f) = NotFound \/ \E k \in 1 .. N : BuildIDOf(f) = V(k)
  BY <1>2, <1>4
<1> QED BY <1>1, <1>5 DEF all, N, V

\* What the k-th list has, in a whole file and in a cut one.
LEMMA ListExact ==
    ASSUME NEW f, Notes(f), f.state \in {"whole", "cut"}
    PROVE  /\ DOMAIN IDs(f) = 1 .. Len(NoteLists(f))
           /\ \A k \in 1 .. Len(NoteLists(f)) :
                 LET v == ParseBuildIDNote(NoteLists(f)[k]) IN
                 /\ v \in {IDs(f)[k], NotFound} /\ (f.state = "whole" => v = IDs(f)[k])
                 /\ IDs(f)[k] \in ToSet(IDs(f))
                 /\ IDs(f)[k] = NotFound \/ IDs(f)[k].st = "found"
<1> DEFINE all == NoteLists(f)
           w(k) == f.written[k]
<1>1. Len(f.written) = Len(all) /\ DOMAIN IDs(f) = 1 .. Len(all)
  BY DEF Notes, NoteLists, IDs
<1>2. ASSUME NEW k \in 1 .. Len(all)
      PROVE  /\ AllWritten(w(k)) /\ IDs(f)[k] = FirstID(w(k))
             /\ \E j \in 0 .. Len(Encoded(w(k))) :
                   all[k] = SubSeq(Encoded(w(k)), 1, j) /\ (f.state = "whole" => j = Len(Encoded(w(k))))
  BY <1>1 DEF Notes, NoteLists, IDs
<1>3. DOMAIN IDs(f) = 1 .. Len(IDs(f))
  <2>1. Len(all) \in Nat
    BY BuildIDFacts
  <2> HIDE DEF all
  <2>2. IDs(f) = [k \in 1 .. Len(all) |-> FirstID(w(k))]
    BY <1>1 DEF IDs
  <2> QED BY <2>1, <2>2
<1>4. ASSUME NEW k \in 1 .. Len(all)
      PROVE  LET v == ParseBuildIDNote(all[k]) IN
             /\ v \in {IDs(f)[k], NotFound} /\ (f.state = "whole" => v = IDs(f)[k])
             /\ IDs(f)[k] \in ToSet(IDs(f))
             /\ IDs(f)[k] = NotFound \/ IDs(f)[k].st = "found"
  <2> DEFINE x == w(k)
  <2>1. PICK j \in 0 .. Len(Encoded(x)) :
             all[k] = SubSeq(Encoded(x), 1, j) /\ (f.state = "whole" => j = Len(Encoded(x)))
    BY <1>2
  <2>2. AllWritten(x) /\ IDs(f)[k] = FirstID(x)
    BY <1>2
  <2> HIDE DEF x, all
  <2>3. /\ ParseBuildIDNote(SubSeq(Encoded(x), 1, j)) \in {FirstID(x), NotFound}
        /\ j = Len(Encoded(x)) => ParseBuildIDNote(SubSeq(Encoded(x), 1, j)) = FirstID(x)
    BY <2>2, CutExact
  <2>4. FirstID(x) = NotFound \/ FirstID(x).st = "found"
    BY DEF FirstID
  <2>5. IDs(f)[k] \in ToSet(IDs(f))
    BY <1>1, <1>3 DEF ToSet
  <2> QED BY <2>1, <2>2, <2>3, <2>4, <2>5
<1> QED BY <1>1, <1>4

\* The id of a whole file, of a cut one, and the cause of a panic.
LEMMA BuildIDExact ==
    ASSUME NEW f, Notes(f)
    PROVE  /\ f.state = "whole" => BuildIDOf(f) = IDOf(f)
           /\ f.state = "cut" => BuildIDOf(f) \in ToSet(IDs(f)) \cup {NotFound}
           /\ BuildIDOf(f).st = "panic" => \E d \in ToSet(f.notes \o f.segs) :
                                              \E n \in ToSet(d) : Top - 3 <= n /\ n < Top
<1> DEFINE all == NoteLists(f)
           N == Len(all)
           V(k) == ParseBuildIDNote(all[k])
           W(k) == IDs(f)[k]
<1>1. /\ N \in Nat
      /\ \A k \in 1 .. N : all[k] \in Seq(0 .. Top - 1) /\ all[k] \in ToSet(all)
      /\ BuildIDOf(f) = NotFound \/ \E k \in 1 .. N : BuildIDOf(f) = V(k)
  BY BuildIDFacts
<1>2. ASSUME f.state \in {"whole", "cut"}
      PROVE  /\ DOMAIN IDs(f) = 1 .. N
             /\ \A k \in 1 .. N : /\ V(k) \in {W(k), NotFound} /\ (f.state = "whole" => V(k) = W(k))
                                  /\ W(k) \in ToSet(IDs(f))
                                  /\ W(k) = NotFound \/ W(k).st = "found"
  BY <1>2, ListExact
<1>3. BuildIDOf(f) = LET has == {k \in 1 .. N : V(k).st # "none"}
                     IN  IF has = {} THEN NotFound ELSE V(Min(has))
  BY DEF BuildIDOf, NoteLists
<1>4. IDOf(f) = LET has == {k \in DOMAIN IDs(f) : W(k) # NotFound}
                IN  IF has = {} THEN NotFound ELSE W(Min(has))
  BY DEF IDOf
<1> HIDE DEF N, V, W
<1>5. ASSUME f.state = "whole" PROVE BuildIDOf(f) = IDOf(f)
  <2>1. DOMAIN IDs(f) = 1 .. N /\ \A k \in 1 .. N : V(k) = W(k) /\ (W(k) = NotFound \/ W(k).st = "found")
    BY <1>2, <1>5
  <2>2. NotFound.st = "none"
    BY DEF NotFound
  <2>3. \A k \in 1 .. N : V(k).st # "none" <=> W(k) # NotFound
    BY <2>1, <2>2
  <2> DEFINE has == {k \in 1 .. N : V(k).st # "none"}
             its == {k \in 1 .. N : W(k) # NotFound}
  <2>4. has = its /\ has \subseteq Nat
    BY <1>1, <2>3
  <2>5. BuildIDOf(f) = IF has = {} THEN NotFound ELSE V(Min(has))
    BY <1>3
  <2>6. IDOf(f) = IF its = {} THEN NotFound ELSE W(Min(its))
    BY <1>4, <2>1
  <2>7. has # {} => Min(has) \in 1 .. N
    <3>1. has # {} => Min(has) \in has
      <4> HIDE DEF has
      <4> QED BY <2>4, MinFacts
    <3> QED BY <3>1
  <2> HIDE DEF has, its
  <2> QED BY <2>1, <2>4, <2>5, <2>6, <2>7
<1>6. ASSUME f.state = "cut" PROVE BuildIDOf(f) \in ToSet(IDs(f)) \cup {NotFound}
  BY <1>1, <1>2, <1>6
<1>7. ASSUME BuildIDOf(f).st = "panic"
      PROVE  \E d \in ToSet(all) : \E n \in ToSet(d) : Top - 3 <= n /\ n < Top
  <2>1. BuildIDOf(f) # NotFound
    BY <1>7 DEF NotFound
  <2>2. PICK k \in 1 .. N : BuildIDOf(f) = V(k)
    BY <1>1, <2>1
  <2> DEFINE d == all[k]
  <2>3. d \in ToSet(all) /\ d \in Seq(0 .. Top - 1) /\ ParseBuildIDNote(d).st = "panic"
    BY <1>1, <1>7, <2>2 DEF V
  <2> HIDE DEF d
  <2>4. \E n \in ToSet(d) : Top - 3 <= n /\ n < Top
    BY ONLY <2>3, PanicCause
  <2> QED BY <2>3, <2>4
<1> QED BY <1>5, <1>6, <1>7 DEF NoteLists

\* Only a command whose file's notes panic crashes.
Crashes == phase = "crash" => cmd # NoCommand /\ Panics(cmd)

\* The BuildID of a whole file is the first GNU note's of its first list that
\* has one; a cut file's is one of its lists' or none; and only a size that align4
\* wraps around ends a command in a panic.
THEOREM BuildIDsAreRight == Spec => []BuildIDRight
<1>1. Init => Started /\ Crashes
  BY InitStarted DEF Init, SessionInit, Crashes
<1>2. Started /\ Crashes /\ [Next]_vars => (Started /\ Crashes)'
  <2> SUFFICES ASSUME Started, Crashes, [Next]_vars PROVE Crashes'
    BY StepStarted
  <2>1. CASE UNCHANGED svars
    BY <2>1 DEF svars, Crashes
  <2>2. CASE Prepare
    BY <2>2 DEF Prepare, Crashes
  <2>3. CASE Run
    BY <2>3 DEF Run, Crashes, Started
  <2>4. CASE ProbeNext
    BY <2>4 DEF ProbeNext, Crashes
  <2>5. CASE Diagnose
    BY <2>5 DEF Diagnose, Crashes
  <2> QED BY <2>1, <2>2, <2>3, <2>4, <2>5, SessionSteps
<1>3. Started /\ Crashes => BuildIDRight
  <2> SUFFICES ASSUME Started, Crashes PROVE BuildIDRight
    OBVIOUS
  <2>1. cmd # NoCommand => cmd \in Commands(cmd.op)
    BY DEF Started, Commands
  <2>2. ASSUME NEW f \in FilesRead PROVE Notes(f)
    BY <2>1, FilesAssumption DEF FilesRead
  <2>3. phase = "crash" => \E f \in FilesRead : BuildIDOf(f).st = "panic"
    BY DEF Crashes, Panics, FilesRead
  <2> QED BY <2>2, <2>3, BuildIDExact DEF BuildIDRight
<1> QED BY <1>1, <1>2, <1>3, PTL DEF Spec
=============================================================================
