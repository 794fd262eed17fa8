--------------------------- MODULE CatalogProofs ---------------------------
(***************************************************************************)
(* Proofs about Catalog, for any configuration, mirrors, packages and      *)
(* processes: the circuit breaker of a download's registry is never open   *)
(* when its candidates are built, and how packages.json becomes unreadable.*)
(***************************************************************************)
EXTENDS Catalog, MirrorsProofs

USE ProcsAssumption

\* Until a download's first failure, which ends it or is its last step, no
\* mirror of its registry has been charged with one.
Uncharged ==
    /\ DOMAIN health = Procs /\ DOMAIN rpc = Readers
    /\ \A r \in Readers : rpc[r] \in {"start", "main", "dbg"} =>
          health[r] = [n \in Names |-> 0]

\* A new process has a new registry.
LEMMA InitUncharged == Init => Uncharged
BY DEF Init, Uncharged, Procs

\* Another process's registry is not this one's.
LEMMA OthersUncharged ==
    ASSUME Uncharged, NEW u \in Updaters, UNCHANGED rpc,
           NEW h, health' = [health EXCEPT ![u] = h]
    PROVE  Uncharged'
BY DEF Uncharged, Procs

\* A race that r goes on after has cleared its winner and charged nobody.
LEMMA RaceUncharged ==
    ASSUME Uncharged, NEW r \in Readers, rpc[r] \in {"main", "dbg"}, NEW f,
           NEW ifOk, NEW ifNot, ifNot \notin {"start", "main", "dbg"},
           Race(r, f, ifOk, ifNot)
    PROVE  Uncharged'
<1> DEFINE cs == Candidates(r, f)
<1>1. CASE RecordFailures(r, cs) /\ rpc' = [rpc EXCEPT ![r] = ifNot]
  BY <1>1 DEF Uncharged, RecordFailures, Procs
<1>2. ASSUME NEW m \in ToSet(cs), RecordSuccess(r, m.name), rpc' = [rpc EXCEPT ![r] = ifOk]
      PROVE  Uncharged'
  <2>1. health[r] = [n \in Names |-> 0] /\ r \in Procs
    BY DEF Uncharged, Procs
  <2>2. health' = [health EXCEPT ![r] = [health[r] EXCEPT ![m.name] = 0]]
    BY <1>2 DEF RecordSuccess
  <2>3. [health[r] EXCEPT ![m.name] = 0] = [n \in Names |-> 0]
    BY <2>1
  <2> QED
    BY <1>2, <2>1, <2>2, <2>3 DEF Uncharged, Procs
<1> QED
  BY <1>1, <1>2 DEF Race

\* No step charges a download that goes on.
LEMMA StepUncharged ==
    Uncharged /\ [Next]_vars => Uncharged'
<1> SUFFICES ASSUME Uncharged, [Next]_vars PROVE Uncharged'
  OBVIOUS
<1>1. ASSUME NEW u \in Updaters, Update(u) \/ Expire(u) \/ Kill(u) PROVE Uncharged'
  <2>1. CASE GetListing(u)
    <3>1. health' = [health EXCEPT ![u] = [health[u] EXCEPT ![Mirror(u).name] = 0]]
      BY <2>1 DEF GetListing, RecordSuccess
    <3> QED
      BY <2>1, <3>1, OthersUncharged DEF GetListing, reading
  <2>2. CASE MissListing(u)
    BY <2>2, OthersUncharged DEF MissListing, RecordFailures, reading
  <2>3. CASE OpenList(u) \/ WriteList(u) \/ Expire(u) \/ Kill(u)
    BY <2>3 DEF OpenList, WriteList, Expire, Kill, reading, Uncharged
  <2> QED
    BY <1>1, <2>1, <2>2, <2>3 DEF Update
<1>2. ASSUME NEW r \in Readers, Read(r) PROVE Uncharged'
  <2>1. CASE Load(r)
    BY <2>1 DEF Load, Uncharged
  <2>2. CASE DownloadMain(r)
    BY <2>2, RaceUncharged DEF DownloadMain
  <2>3. CASE DownloadDebug(r)
    BY <2>3, RaceUncharged DEF DownloadDebug
  <2> QED
    BY <1>2, <2>1, <2>2, <2>3 DEF Read
<1>3. ASSUME NEW f \in Files, Retire(f) PROVE Uncharged'
  BY <1>3 DEF Retire, reading, Uncharged
<1>4. CASE Rest \/ UNCHANGED vars
  BY <1>4 DEF Rest, vars, reading, Uncharged
<1> QED
  BY <1>1, <1>2, <1>3, <1>4 DEF Next

\* The health that Ranked consults when a download builds its candidates is
\* always that of a new registry: no mirror is ever sent to the back.
THEOREM NoCircuitOpen == Spec => []BreakerNeverOpens
<1>1. Uncharged => BreakerNeverOpens
  BY DEF Uncharged, BreakerNeverOpens, IsOpen, circuitOpenThreshold
<1> QED
  BY <1>1, InitUncharged, StepUncharged, PTL DEF Spec
-----------------------------------------------------------------------------
(***************************************************************************)
(* How packages.json becomes unreadable.                                   *)
(***************************************************************************)

\* Two updates that succeeded, and did not get the same list.
Differ == \E u, w \in Updaters : /\ upc[u] = "done" /\ upc[w] = "done"
                                 /\ Merge(lists[u]) # Merge(lists[w])

\* A list's JSON is told from what is no list's.
ListsApart == /\ \A u, l : [by |-> u, pkgs |-> l] \notin {None, Empty, Torn}
              /\ None # Torn /\ None # Empty /\ Empty # Torn

\* A list on disk is its writer's, who has ended; the file is empty while a
\* writer is at it, or after one stopped; and no JSON only after one stopped, or
\* after two wrote over each other.
Caused ==
    /\ upc \in [Updaters -> {"ask", "save", "done", "failed", "killed"}]
    /\ DOMAIN lists = Updaters
    /\ IsList(disk) => /\ disk.by \in Updaters /\ upc[disk.by] = "done"
                       /\ disk.pkgs = Merge(lists[disk.by])
    /\ disk = Empty => \E u \in Updaters : upc[u] \in {"save", "failed", "killed"}
    /\ disk = Torn => Differ \/ \E u \in Updaters : upc[u] \in {"failed", "killed"}

LEMMA InitCaused == ASSUME ListsApart, Init PROVE Caused
BY DEF ListsApart, Init, Caused, IsList

\* A step that neither ends a save nor begins one.
LEMMA CausedFrame ==
    ASSUME Caused, UNCHANGED disk,
           upc' \in [Updaters -> {"ask", "save", "done", "failed", "killed"}],
           DOMAIN lists' = Updaters,
           \A u \in Updaters : \/ upc'[u] = upc[u] /\ (upc[u] = "done" => lists'[u] = lists[u])
                               \/ upc[u] # "done" /\ upc'[u] \in {"failed", "killed"}
    PROVE  Caused'
<1>1. \A u \in Updaters : upc[u] = "done" => upc'[u] = "done" /\ lists'[u] = lists[u]
  OBVIOUS
<1>2. Differ => Differ'
  BY <1>1 DEF Differ
<1> QED
  BY <1>1, <1>2 DEF Caused, IsList

\* The list is written.
LEMMA WriteCaused ==
    ASSUME ListsApart, Caused, NEW u \in Updaters, WriteList(u)
    PROVE  Caused'
<1> DEFINE saved == [by |-> u, pkgs |-> Merge(lists[u])]
<1>1. upc[u] = "save" /\ lists' = lists
  BY DEF WriteList, updating
<1>2. CASE upc' = [upc EXCEPT ![u] = "done"] /\ disk' = saved
  <2>1. saved.by = u /\ saved.pkgs = Merge(lists[u])
    OBVIOUS
  <2> HIDE DEF saved
  <2>2. saved \notin {None, Empty, Torn}
    BY DEF ListsApart, saved
  <2> QED
    BY <1>1, <1>2, <2>1, <2>2 DEF Caused, IsList
<1>3. CASE /\ upc' = [upc EXCEPT ![u] = "done"] /\ disk' = Torn
           /\ disk = Torn \/ (IsList(disk) /\ disk.pkgs # saved.pkgs)
  <2>1. Differ' \/ \E w \in Updaters : upc'[w] \in {"failed", "killed"}
    <3>1. CASE disk = Torn
      BY <1>1, <1>3, <3>1 DEF Caused, Differ
    <3>2. CASE IsList(disk) /\ disk.pkgs # saved.pkgs
      <4>1. disk.by \in Updaters /\ upc[disk.by] = "done" /\ disk.pkgs = Merge(lists[disk.by])
        BY <3>2 DEF Caused
      <4>2. upc'[u] = "done" /\ upc'[disk.by] = "done"
        BY <1>1, <1>3, <4>1 DEF Caused
      <4>3. Merge(lists[disk.by]) # Merge(lists[u])
        BY <3>2, <4>1
      <4> QED
        BY <1>1, <4>1, <4>2, <4>3 DEF Differ
    <3> QED
      BY <1>3, <3>1, <3>2
  <2> QED
    BY <1>1, <1>3, <2>1 DEF Caused, IsList, ListsApart
<1>4. CASE upc' = [upc EXCEPT ![u] = "failed"] /\ disk' = Torn
  BY <1>1, <1>4 DEF Caused, IsList, ListsApart
<1> QED
  BY <1>2, <1>3, <1>4 DEF WriteList

LEMMA StepCaused == ASSUME ListsApart, Caused, [Next]_vars PROVE Caused'
<1>1. ASSUME NEW u \in Updaters, Update(u) \/ Expire(u) \/ Kill(u) PROVE Caused'
  <2>1. CASE GetListing(u) \/ MissListing(u) \/ Expire(u)
    <3>1. UNCHANGED <<upc, disk>> /\ upc[u] = "ask" /\ DOMAIN lists' = Updaters
          /\ \A w \in Updaters : w # u => lists'[w] = lists[w]
      BY <2>1 DEF GetListing, MissListing, Expire, Asking, Caused
    <3> QED
      BY <3>1, CausedFrame DEF Caused
  <2>2. CASE OpenList(u)
    <3>1. upc[u] = "ask" /\ lists' = lists
      BY <2>2 DEF OpenList
    <3>2. CASE upc' = [upc EXCEPT ![u] = "save"] /\ disk' = Empty
      BY <3>1, <3>2 DEF Caused, IsList, ListsApart
    <3>3. CASE upc' = [upc EXCEPT ![u] = "failed"] /\ UNCHANGED disk
      BY <3>1, <3>3, CausedFrame DEF Caused
    <3> QED
      BY <2>2, <3>2, <3>3 DEF OpenList
  <2>3. CASE WriteList(u)
    BY <2>3, WriteCaused
  <2>4. CASE Kill(u)
    BY <2>4, CausedFrame DEF Kill, Caused
  <2> QED
    BY <1>1, <2>1, <2>2, <2>3, <2>4 DEF Update
<1>2. CASE UNCHANGED <<upc, lists, disk>>
  BY <1>2, CausedFrame DEF Caused
<1>3. ASSUME NEW r \in Readers, Read(r) PROVE UNCHANGED <<upc, lists, disk>>
  BY <1>3 DEF Read, Load, DownloadMain, DownloadDebug, updating
<1>4. ASSUME NEW f \in Files, Retire(f) PROVE UNCHANGED <<upc, lists, disk>>
  BY <1>4 DEF Retire, updating
<1> QED
  BY <1>1, <1>2, <1>3, <1>4 DEF Next, Rest, vars, updating

\* packages.json is unreadable only while a writer is at it, after one failed or
\* was killed, or after two that succeeded had different lists to write.
THEOREM UnreadableCaused == ASSUME ListsApart PROVE Spec => []UnreadableHasCause
<1>1. Init => Caused
  BY InitCaused
<1>2. Caused /\ [Next]_vars => Caused'
  BY StepCaused
<1>3. Caused => UnreadableHasCause
  BY DEF Caused, Differ, UnreadableHasCause
<1> QED
  BY <1>1, <1>2, <1>3, PTL DEF Spec
-----------------------------------------------------------------------------
(***************************************************************************)
(* What the merged list says.                                              *)
(***************************************************************************)

LEMMA MergedDef ==
    ASSUME NEW ls, Len(ls) \in Nat
    PROVE  /\ MergedUpTo(ls)[0] = <<>>
           /\ \A n \in 0 .. Len(ls) - 1 : MergedUpTo(ls)[n + 1] = AddListing(MergedUpTo(ls)[n], ls[n + 1])
<1> DEFINE Step(v, n) == AddListing(v, ls[n])
           Body(f, m) == [n \in 0 .. m |-> IF n = 0 THEN <<>> ELSE Step(f[n - 1], n)]
           Good(m) == \E f : f = Body(f, m)
<1> HIDE DEF Step
<1>0. Len(ls) \in Nat
  OBVIOUS
<1>1. Good(0)
  <2> DEFINE f == [n \in 0 .. 0 |-> <<>>]
  <2>1. f = Body(f, 0)
    OBVIOUS
  <2> QED BY <2>1
<1>2. ASSUME NEW m \in 0 .. Len(ls) - 1, Good(m) PROVE Good(m + 1)
  <2>1. PICK f : f = Body(f, m)
    BY <1>2
  <2> DEFINE g == [n \in 0 .. m + 1 |-> IF n = m + 1 THEN Step(f[m], m + 1) ELSE f[n]]
  <2>2. ASSUME NEW n \in 0 .. m + 1 PROVE g[n] = IF n = 0 THEN <<>> ELSE Step(g[n - 1], n)
    <3>1. CASE n = m + 1
      BY <3>1
    <3>2. CASE n \in 0 .. m
      <4>1. g[n] = f[n] /\ (n # 0 => g[n - 1] = f[n - 1])
        BY <3>2
      <4>2. f[n] = IF n = 0 THEN <<>> ELSE Step(f[n - 1], n)
        BY <2>1, <3>2
      <4> QED BY <4>1, <4>2
    <3> QED BY <3>1, <3>2
  <2>3. g = Body(g, m + 1)
    BY <2>2
  <2> HIDE DEF g, Body
  <2> QED BY <2>3
<1>3. \A m \in 0 .. Len(ls) : Good(m)
  <2> DEFINE Reach == {i \in 0 .. Len(ls) : Good(i)}
  <2> HIDE DEF Good
  <2>1. 0 \in Reach /\ \A i \in 0 .. Len(ls) - 1 : i \in Reach => i + 1 \in Reach
    BY <1>0, <1>1, <1>2
  <2> HIDE DEF Reach
  <2>2. \A i \in 0 .. Len(ls) : i \in Reach
    BY <1>0, <2>1, Induction
  <2> QED BY <2>2 DEF Reach
<1> DEFINE F == MergedUpTo(ls)
<1>4. F = CHOOSE h : h = Body(h, Len(ls))
  BY DEF MergedUpTo, Step
<1> HIDE DEF F
<1>5. F = Body(F, Len(ls))
  <2> HIDE DEF Body
  <2>1. PICK f : f = Body(f, Len(ls))
    BY <1>0, <1>3
  <2> QED BY <1>4, <2>1
<1>6. F[0] = <<>> /\ \A n \in 0 .. Len(ls) - 1 : F[n + 1] = Step(F[n], n + 1)
  <2>1. \A n \in 0 .. Len(ls) : F[n] = IF n = 0 THEN <<>> ELSE Step(F[n - 1], n)
    BY <1>5
  <2> QED BY <2>1
<1> QED BY <1>6 DEF F, Step

\* The mirrors of every file are a list of names.
NamesOf(pkgs, S) == \A f \in DOMAIN pkgs : pkgs[f].mirrors \in Seq(S)

\* The loop's body takes a list that says what got listed to one that says
\* what got and the next mirror did.
LEMMA AddListingSays ==
    ASSUME NEW pkgs, NEW got, NEW S, NEW l, l.mirror.name \in S,
           Says(pkgs, got), NamesOf(pkgs, S)
    PROVE  Says(AddListing(pkgs, l), got \cup {l}) /\ NamesOf(AddListing(pkgs, l), S)
<1> DEFINE new == AddListing(pkgs, l)
           all == got \cup {l}
           From(f, G) == {g.mirror : g \in {h \in G : f \in h.files}}
           name == l.mirror.name
<1>1. DOMAIN pkgs = UNION {g.files : g \in got}
  BY DEF Says
<1>2. DOMAIN new = DOMAIN pkgs \cup l.files
  BY DEF AddListing
<1>3. DOMAIN new = UNION {g.files : g \in all}
  BY <1>1, <1>2
<1>4. ASSUME NEW f \in DOMAIN new
      PROVE  /\ new[f].mirrors \in Seq(S)
             /\ ToSet(new[f].mirrors) = {m.name : m \in From(f, all)}
             /\ IsInjective(new[f].mirrors)
             /\ new[f].legacy <=> \A m \in From(f, all) : m.fallback
  <2>1. CASE f \notin DOMAIN pkgs
    <3>1. new[f] = [mirrors |-> <<name>>, legacy |-> l.mirror.fallback]
      BY <1>2, <1>4, <2>1 DEF AddListing
    <3>2. From(f, all) = {l.mirror}
      <4>1. \A g \in got : f \notin g.files
        BY <1>1, <2>1
      <4>2. f \in l.files
        BY <1>2, <1>4, <2>1
      <4> QED BY <4>1, <4>2
    <3>3. ToSet(<<name>>) = {name} /\ <<name>> \in Seq(S) /\ IsInjective(<<name>>)
      BY DEF ToSet, IsInjective
    <3> QED BY <3>1, <3>2, <3>3
  <2>2. CASE f \in DOMAIN pkgs /\ f \notin l.files
    <3>1. new[f].mirrors = pkgs[f].mirrors /\ (new[f].legacy <=> pkgs[f].legacy)
      BY <1>2, <1>4, <2>2 DEF AddListing
    <3>2. From(f, all) = From(f, got)
      BY <2>2
    <3>3. /\ pkgs[f].mirrors \in Seq(S)
          /\ ToSet(pkgs[f].mirrors) = {m.name : m \in From(f, got)}
          /\ IsInjective(pkgs[f].mirrors)
          /\ pkgs[f].legacy <=> \A m \in From(f, got) : m.fallback
      BY <2>2 DEF Says, NamesOf
    <3> HIDE DEF new, From
    <3> QED BY <3>1, <3>2, <3>3
  <2>3. CASE f \in DOMAIN pkgs /\ f \in l.files
    <3> DEFINE ms == pkgs[f].mirrors
    <3>1. From(f, all) = From(f, got) \cup {l.mirror}
      BY <2>3
    <3>2. ms \in Seq(S) /\ ToSet(ms) = {m.name : m \in From(f, got)} /\ IsInjective(ms)
      BY <2>3 DEF Says, NamesOf
    <3>3. new[f].legacy <=> pkgs[f].legacy /\ l.mirror.fallback
      BY <1>2, <1>4, <2>3 DEF AddListing
    <3>4. pkgs[f].legacy <=> \A m \in From(f, got) : m.fallback
      BY <2>3 DEF Says
    <3>5. {m.name : m \in From(f, all)} = ToSet(ms) \cup {name}
      BY <3>1, <3>2
    <3>6. new[f].mirrors = IF Contains(ms, name) THEN ms ELSE Append(ms, name)
      BY <1>2, <1>4, <2>3 DEF AddListing
    <3>7. Contains(ms, name) <=> name \in ToSet(ms)
      <4> HIDE DEF ms
      <4> QED BY <3>2 DEF Contains, ToSet
    <3>8. /\ new[f].mirrors \in Seq(S)
          /\ ToSet(new[f].mirrors) = ToSet(ms) \cup {name}
          /\ IsInjective(new[f].mirrors)
      <4> HIDE DEF ms, name, new
      <4>0. name \in S
        BY DEF name
      <4>1. CASE name \in ToSet(ms)
        BY <3>2, <3>6, <3>7, <4>1
      <4>2. CASE name \notin ToSet(ms)
        <5> DEFINE t == Append(ms, name)
        <5>1. /\ t \in Seq(S) /\ Len(ms) \in Nat /\ Len(t) = Len(ms) + 1 /\ t[Len(ms) + 1] = name
              /\ \A k \in 1 .. Len(ms) : t[k] = ms[k]
              /\ ToSet(t) = ToSet(ms) \cup {name}
          BY <3>2, <4>0, AppendFacts
        <5> HIDE DEF t
        <5>2. ASSUME NEW a \in 1 .. Len(t), NEW b \in 1 .. Len(t), t[a] = t[b] PROVE a = b
          <6>1. \A k \in 1 .. Len(ms) : t[k] \in ToSet(ms) /\ t[k] # name
            BY <3>2, <4>2, <5>1 DEF ToSet
          <6>2. CASE a \in 1 .. Len(ms) /\ b \in 1 .. Len(ms)
            BY <3>2, <5>1, <5>2, <6>2 DEF IsInjective
          <6> QED BY <5>1, <5>2, <6>1, <6>2
        <5>3. DOMAIN t = 1 .. Len(t)
          BY <5>1
        <5>4. IsInjective(t)
          BY <5>2, <5>3 DEF IsInjective
        <5> QED BY <3>6, <3>7, <4>2, <5>1, <5>4 DEF t
      <4> QED BY <4>1, <4>2
    <3>9. new[f].legacy <=> \A m \in From(f, all) : m.fallback
      BY <3>1, <3>3, <3>4
    <3> QED BY <3>5, <3>8, <3>9
  <2> QED BY <2>1, <2>2, <2>3
<1> HIDE DEF new
<1>5. Says(new, all) /\ NamesOf(new, S)
  BY <1>3, <1>4 DEF Says, NamesOf
<1> QED BY <1>5 DEF new

\* Whatever the mirrors answered, the merged list says it (packages.go, Merge).
THEOREM MergeSays ==
    ASSUME NEW L, NEW ls \in Seq(L)
    PROVE  Says(Merge(ls), ToSet(ls))
<1> DEFINE S == {l.mirror.name : l \in L}
           F == MergedUpTo(ls)
           Got(n) == {ls[k] : k \in 1 .. n}
           Good(n) == Says(F[n], Got(n)) /\ NamesOf(F[n], S)
<1>0. /\ Len(ls) \in Nat /\ F[0] = <<>>
      /\ \A n \in 0 .. Len(ls) - 1 : F[n + 1] = AddListing(F[n], ls[n + 1])
  BY MergedDef
<1> HIDE DEF F
<1>1. Good(0)
  <2>1. Got(0) = {} /\ DOMAIN F[0] = {}
    BY <1>0
  <2> QED BY <2>1 DEF Says, NamesOf
<1>2. ASSUME NEW n \in 0 .. Len(ls) - 1, Good(n) PROVE Good(n + 1)
  <2> DEFINE l == ls[n + 1]
  <2>1. l \in L /\ l.mirror.name \in S
    BY <1>0
  <2>2. Got(n + 1) = Got(n) \cup {l}
    BY <1>0
  <2> HIDE DEF S, Got, l
  <2>3. Says(AddListing(F[n], l), Got(n) \cup {l}) /\ NamesOf(AddListing(F[n], l), S)
    BY <1>2, <2>1, AddListingSays
  <2>4. F[n + 1] = AddListing(F[n], l)
    BY <1>0 DEF l
  <2> QED BY <2>2, <2>3, <2>4
<1>3. \A n \in 0 .. Len(ls) : Good(n)
  <2> DEFINE Reach == {i \in 0 .. Len(ls) : Good(i)}
  <2> HIDE DEF Good
  <2>1. 0 \in Reach /\ \A i \in 0 .. Len(ls) - 1 : i \in Reach => i + 1 \in Reach
    BY <1>0, <1>1, <1>2
  <2> HIDE DEF Reach
  <2>2. \A i \in 0 .. Len(ls) : i \in Reach
    BY <1>0, <2>1, Induction
  <2> QED BY <2>2 DEF Reach
<1>4. Good(Len(ls))
  <2> HIDE DEF Good
  <2> QED BY <1>0, <1>3
<1>5. Got(Len(ls)) = ToSet(ls)
  BY DEF ToSet
<1> QED BY <1>4, <1>5 DEF F, Merge

\* A list on disk or loaded from it is the merge of what its writer received,
\* and the writer is done: it receives nothing more.
Kept ==
    /\ DOMAIN upc = Updaters /\ DOMAIN lists = Updaters /\ DOMAIN view = Readers
    /\ \A u \in Updaters : lists[u] \in Seq(ToSet(lists[u]))
    /\ \A l \in {view[r] : r \in Readers} \cup {disk} :
          IsList(l) => /\ l.by \in Updaters /\ upc[l.by] = "done"
                       /\ l.pkgs = Merge(lists[l.by])

LEMMA InitKept == ASSUME ListsApart, Init PROVE Kept
<1>1. <<>> \in Seq(ToSet(<<>>))
  OBVIOUS
<1> QED BY <1>1 DEF ListsApart, Init, Kept, IsList

\* A step that leaves the lists of who is done, and brings no new list.
LEMMA KeptFrame ==
    ASSUME Kept, DOMAIN upc' = Updaters, DOMAIN lists' = Updaters, DOMAIN view' = Readers,
           \A u \in Updaters : lists'[u] \in Seq(ToSet(lists'[u])),
           \A u \in Updaters : upc[u] = "done" => upc'[u] = "done" /\ lists'[u] = lists[u],
           \A l \in {view'[r] : r \in Readers} \cup {disk'} :
              IsList(l) => l \in {view[r] : r \in Readers} \cup {disk}
    PROVE  Kept'
BY DEF Kept, IsList

LEMMA GetKept == ASSUME Kept, NEW u \in Updaters, GetListing(u) PROVE Kept'
<1> DEFINE l == [mirror |-> Mirror(u), files |-> hosts[Mirror(u).url]]
           S == ToSet(lists[u]) \cup {l}
<1>1. lists' = [lists EXCEPT ![u] = Append(lists[u], l)] /\ upc[u] = "ask"
      /\ upc' = upc /\ view' = view /\ disk' = disk
  BY DEF GetListing, Asking, reading
<1> HIDE DEF l
<1>2. lists[u] \in Seq(S)
  <2>1. lists[u] \in Seq(ToSet(lists[u]))
    BY DEF Kept
  <2> QED BY <2>1
<1>3. l \in S
  OBVIOUS
<1>4. Append(lists[u], l) \in Seq(S) /\ ToSet(Append(lists[u], l)) = S
  <2>1. Append(lists[u], l) \in Seq(S) /\ ToSet(Append(lists[u], l)) = ToSet(lists[u]) \cup {l}
    <3> HIDE DEF S
    <3> QED BY <1>2, <1>3, AppendFacts
  <2> QED BY <2>1
<1> HIDE DEF S
<1>5. lists'[u] = Append(lists[u], l) /\ \A w \in Updaters : w # u => lists'[w] = lists[w]
  BY <1>1 DEF Kept
<1>6. \A w \in Updaters : lists'[w] \in Seq(ToSet(lists'[w]))
  BY <1>4, <1>5 DEF Kept
<1>7. DOMAIN lists' = Updaters
  BY <1>1 DEF Kept
<1> QED BY <1>1, <1>5, <1>6, <1>7, KeptFrame DEF Kept

LEMMA WriteKept == ASSUME ListsApart, Kept, NEW u \in Updaters, WriteList(u) PROVE Kept'
<1> DEFINE saved == [by |-> u, pkgs |-> Merge(lists[u])]
<1>1. /\ upc[u] = "save" /\ lists' = lists /\ view' = view
      /\ upc' = [upc EXCEPT ![u] = "done"] \/ upc' = [upc EXCEPT ![u] = "failed"]
      /\ \/ upc' = [upc EXCEPT ![u] = "done"] /\ disk' = saved
         \/ disk' = Torn
  BY DEF WriteList, updating, reading
<1>2. saved.by = u /\ saved.pkgs = Merge(lists[u])
  OBVIOUS
<1> HIDE DEF saved
<1>3. \A w \in Updaters : upc[w] = "done" => upc'[w] = "done"
  BY <1>1 DEF Kept
<1>4. CASE upc' = [upc EXCEPT ![u] = "done"] /\ disk' = saved
  <2>1. upc'[u] = "done"
    BY <1>4 DEF Kept
  <2> QED BY <1>1, <1>2, <1>3, <1>4, <2>1 DEF Kept, IsList
<1>5. CASE disk' = Torn
  BY <1>1, <1>3, <1>5, KeptFrame DEF Kept, IsList
<1> QED BY <1>1, <1>4, <1>5

LEMMA StepKept == ASSUME ListsApart, Kept, [Next]_vars PROVE Kept'
<1>1. ASSUME NEW u \in Updaters, Update(u) \/ Expire(u) \/ Kill(u) PROVE Kept'
  <2>1. CASE GetListing(u)
    BY <2>1, GetKept
  <2>2. CASE WriteList(u)
    BY <2>2, WriteKept
  <2>3. CASE MissListing(u) \/ Expire(u)
    BY <2>3, KeptFrame DEF MissListing, Expire, reading, Kept
  <2>4. CASE OpenList(u) \/ Kill(u)
    <3>1. /\ lists' = lists /\ view' = view
          /\ disk' = disk \/ disk' = Empty
          /\ upc[u] \in {"ask", "save"} /\ \E x : upc' = [upc EXCEPT ![u] = x]
      BY <2>4 DEF OpenList, Kill, reading
    <3> QED BY <3>1, KeptFrame DEF Kept, IsList
  <2> QED BY <1>1, <2>1, <2>2, <2>3, <2>4 DEF Update
<1>2. ASSUME NEW r \in Readers, Read(r) PROVE Kept'
  <2>1. CASE Load(r)
    <3>1. /\ upc' = upc /\ lists' = lists /\ disk' = disk
          /\ view' = view \/ view' = [view EXCEPT ![r] = disk]
      BY <2>1 DEF Load, updating
    <3> QED BY <3>1, KeptFrame DEF Kept
  <2>2. CASE DownloadMain(r) \/ DownloadDebug(r)
    BY <2>2, KeptFrame DEF DownloadMain, DownloadDebug, updating, Kept
  <2> QED BY <1>2, <2>1, <2>2 DEF Read
<1>3. ASSUME NEW f \in Files, Retire(f) PROVE Kept'
  BY <1>3, KeptFrame DEF Retire, updating, reading, Kept
<1>4. CASE Rest \/ UNCHANGED vars
  BY <1>4, KeptFrame DEF Rest, vars, updating, reading, Kept
<1> QED BY <1>1, <1>2, <1>3, <1>4 DEF Next

\* packages.json, and every copy a command loaded, says exactly what the mirrors
\* that answered its update listed.
THEOREM ListsFaithful == ASSUME ListsApart PROVE Spec => []MergeFaithful
<1>1. Init => Kept
  BY InitKept
<1>2. Kept /\ [Next]_vars => Kept'
  BY StepKept
<1>3. Kept => MergeFaithful
  BY MergeSays DEF Kept, MergeFaithful
<1> QED BY <1>1, <1>2, <1>3, PTL DEF Spec
=============================================================================
