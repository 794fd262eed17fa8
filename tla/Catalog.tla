------------------------------ MODULE Catalog ------------------------------
(***************************************************************************)
(* The registry's health (internal/mirrors), the cached package list       *)
(* (internal/packages) and the commands that use them: processes running   *)
(* `mirror update` ask every mirror for its pool listing, merge what they  *)
(* got and save it over packages.json; processes running search or         *)
(* download load that file and build the candidates of a download from it. *)
(*                                                                         *)
(* A package file is known by its name, which gives its package, version   *)
(* and architecture; a listing is the set of files a mirror hosts.         *)
(***************************************************************************)
EXTENDS Mirrors

CONSTANTS Files,       \* the package files
          Debug,       \* Debug[f]: the libc6-dbg file that goes with f
          Hosted,      \* Hosted[url]: the files a mirror hosts at first
          Updaters,    \* processes running mirror update
          Readers,     \* processes running search or download
          Wanted,      \* Wanted[r]: the file reader r wants
          Only,        \* Only[r]: the mirror name --mirror gives, or None
          Killable,    \* the updaters that may be killed
          None,
          Empty,       \* packages.json opened for writing, nothing written yet
          Torn         \* packages.json that is not one list's JSON

ASSUME ProcsAssumption == Updaters \cap Readers = {}

VARIABLES
    priority, custom,  \* the configuration every process loads
    registry,          \* the registry NewRegistry makes of it
    hosts,             \* hosts[url]: the files the mirror hosts now
    upc,               \* upc[u]: where updater u stands
    asked,             \* asked[u]: the mirrors u has asked
    deadline,          \* deadline[u]: u's sixty seconds, "live" or "expired"
    lists,             \* lists[u]: the listings u received, in order
    disk,              \* packages.json: a saved list, None, Empty or Torn
    rpc,               \* rpc[r]: where reader r stands
    view,              \* view[r]: the list r loaded
    cands,             \* cands[r]: the candidates r last built
    health             \* health[p][name]: p's failures of a mirror name

config   == <<priority, custom, registry>>
updating == <<upc, asked, deadline, lists>>
reading  == <<rpc, view, cands>>
vars     == <<config, hosts, updating, disk, reading, health>>

Procs == Updaters \cup Readers
-----------------------------------------------------------------------------
(***************************************************************************)
(* The registry's health.                                                  *)
(***************************************************************************)

\* The circuit breaker: a mirror that failed three times in a row ranks last.
circuitOpenThreshold == 3
IsOpen(p, name) == health[p][name] >= circuitOpenThreshold

Ranked(p) == SelectSeq(registry, LAMBDA m : ~IsOpen(p, m.name)) \o
             SelectSeq(registry, LAMBDA m : IsOpen(p, m.name))

\* RecordFailure for each mirror of ms.
RecordFailures(p, ms) ==
    health' = [health EXCEPT ![p] = [n \in Names |->
                  @[n] + Len(SelectSeq(ms, LAMBDA m : m.name = n))]]

RecordSuccess(p, name) == health' = [health EXCEPT ![p][name] = 0]
-----------------------------------------------------------------------------
(***************************************************************************)
(* The package list.                                                       *)
(***************************************************************************)

\* Mutant: a file is legacy as soon as one fallback mirror lists it.
AddListingAny(pkgs, l) ==
    [f \in DOMAIN pkgs \cup l.files |->
        IF f \notin DOMAIN pkgs THEN [mirrors |-> <<l.mirror.name>>, legacy |-> l.mirror.fallback]
        ELSE [mirrors |-> IF f \notin l.files \/ Contains(pkgs[f].mirrors, l.mirror.name)
                          THEN pkgs[f].mirrors
                          ELSE Append(pkgs[f].mirrors, l.mirror.name),
              legacy  |-> pkgs[f].legacy \/ (f \in l.files /\ l.mirror.fallback)]]

\* Merge's loop body, for a mirror's whole listing: a new file enters with
\* this mirror; a known one gains it, and stays legacy only if it is a fallback.
AddListing(pkgs, l) ==
    [f \in DOMAIN pkgs \cup l.files |->
        IF f \notin DOMAIN pkgs THEN [mirrors |-> <<l.mirror.name>>, legacy |-> l.mirror.fallback]
        ELSE [mirrors |-> IF f \notin l.files \/ Contains(pkgs[f].mirrors, l.mirror.name)
                          THEN pkgs[f].mirrors
                          ELSE Append(pkgs[f].mirrors, l.mirror.name),
              legacy  |-> pkgs[f].legacy /\ (f \in l.files => l.mirror.fallback)]]

\* The list after the first i listings.
MergedUpTo(ls) ==
    LET M[i \in 0 .. Len(ls)] == IF i = 0 THEN <<>> ELSE AddListing(M[i - 1], ls[i]) IN M

Merge(ls) == MergedUpTo(ls)[Len(ls)]

IsList(d) == d \notin {None, Empty, Torn}

\* buildCandidates: the ranked mirrors whose name the list has for the file.
Candidates(r, f) ==
    SelectSeq(Ranked(r), LAMBDA m : /\ Only[r] \in {None, m.name}
                                    /\ Contains(view[r].pkgs[f].mirrors, m.name))
-----------------------------------------------------------------------------
Init ==
    /\ priority \in Priorities /\ custom \in Customs
    /\ registry = NewRegistry(priority, custom)
    /\ hosts = Hosted
    /\ upc = [u \in Updaters |-> "ask"]
    /\ asked = [u \in Updaters |-> 0]
    /\ deadline = [u \in Updaters |-> "live"]
    /\ lists = [u \in Updaters |-> <<>>]
    /\ disk = None
    /\ rpc = [r \in Readers |-> "start"]
    /\ view = [r \in Readers |-> None]
    /\ cands = [r \in Readers |-> <<>>]
    /\ health = [p \in Procs |-> [n \in Names |-> 0]]

\* A release ends: a file leaves the active archive for the fallback mirrors.
Retire(f) ==
    /\ hosts' = [url \in DOMAIN hosts |->
                    IF \E m \in ToSet(registry) : m.url = url /\ m.fallback
                    THEN hosts[url] \cup {f} ELSE hosts[url] \ {f}]
    /\ hosts' # hosts
    /\ UNCHANGED <<config, updating, disk, reading, health>>
-----------------------------------------------------------------------------
(***************************************************************************)
(* mirror update.                                                          *)
(***************************************************************************)
Asking(u) == upc[u] = "ask" /\ asked[u] < Len(registry)
Mirror(u) == registry[asked[u] + 1]

Expire(u) ==
    /\ Asking(u) /\ deadline[u] = "live"
    /\ deadline' = [deadline EXCEPT ![u] = "expired"]
    /\ UNCHANGED <<config, hosts, upc, asked, lists, disk, reading, health>>

\* GetWithRetry and ReadAll succeed within the deadline.
GetListing(u) ==
    /\ Asking(u) /\ deadline[u] = "live"
    /\ asked' = [asked EXCEPT ![u] = @ + 1]
    /\ lists' = [lists EXCEPT ![u] =
                    Append(@, [mirror |-> Mirror(u), files |-> hosts[Mirror(u).url]])]
    /\ RecordSuccess(u, Mirror(u).name)
    /\ UNCHANGED <<config, hosts, upc, deadline, disk, reading>>

\* They fail, as they do for every mirror left once the deadline is past.
MissListing(u) ==
    /\ Asking(u)
    /\ asked' = [asked EXCEPT ![u] = @ + 1]
    /\ RecordFailures(u, <<Mirror(u)>>)
    /\ UNCHANGED <<config, hosts, upc, deadline, lists, disk, reading>>

\* Mutant: the list stays in a buffer nobody flushes.
OpenListOnly(u) ==
    /\ upc[u] = "ask" /\ asked[u] = Len(registry)
    /\ upc' = [upc EXCEPT ![u] = "done"] /\ disk' = Empty
    /\ UNCHANGED <<config, hosts, asked, deadline, lists, reading, health>>

\* Save: os.WriteFile truncates the file, or cannot open it ...
OpenList(u) ==
    /\ upc[u] = "ask" /\ asked[u] = Len(registry)
    /\ \/ upc' = [upc EXCEPT ![u] = "save"] /\ disk' = Empty
       \/ upc' = [upc EXCEPT ![u] = "failed"] /\ UNCHANGED disk
    /\ UNCHANGED <<config, hosts, asked, deadline, lists, reading, health>>

\* ... and writes the list from the start of the file, or fails in the middle.
\* When another process has written there meanwhile, what it wrote may be
\* longer, and its end stays behind the list.
WriteList(u) ==
    /\ upc[u] = "save"
    /\ LET saved == [by |-> u, pkgs |-> Merge(lists[u])]
       IN  \/ upc' = [upc EXCEPT ![u] = "done"] /\ disk' = saved
           \/ /\ upc' = [upc EXCEPT ![u] = "done"] /\ disk' = Torn
              /\ disk = Torn \/ (IsList(disk) /\ disk.pkgs # saved.pkgs)
           \/ upc' = [upc EXCEPT ![u] = "failed"] /\ disk' = Torn
    /\ UNCHANGED <<config, hosts, asked, deadline, lists, reading, health>>

Kill(u) ==
    /\ u \in Killable /\ upc[u] \in {"ask", "save"}
    /\ upc' = [upc EXCEPT ![u] = "killed"]
    /\ UNCHANGED <<config, hosts, asked, deadline, lists, disk, reading, health>>
-----------------------------------------------------------------------------
(***************************************************************************)
(* search and download.                                                    *)
(***************************************************************************)

\* LoadList; search ends here, download looks its file up.
Load(r) ==
    /\ rpc[r] = "start"
    /\ \/ /\ IsList(disk)
          /\ view' = [view EXCEPT ![r] = disk]
          /\ \/ rpc' = [rpc EXCEPT ![r] = "done"]
             \/ /\ rpc' = [rpc EXCEPT ![r] = IF Wanted[r] \in DOMAIN disk.pkgs
                                              THEN "main" ELSE "failed"]
       \/ /\ ~IsList(disk)
          /\ rpc' = [rpc EXCEPT ![r] = "failed"]
          /\ UNCHANGED view
    /\ UNCHANGED <<config, hosts, updating, disk, cands, health>>

\* downloadAndExtractDeb of f builds the candidates and races them.  When all
\* fail each is charged; a winner is cleared, and the losers are not charged.
Race(r, f, ifOk, ifNot) ==
    LET cs == Candidates(r, f)
    IN  /\ cands' = [cands EXCEPT ![r] = cs]
        /\ \/ /\ RecordFailures(r, cs)
              /\ rpc' = [rpc EXCEPT ![r] = ifNot]
           \/ \E m \in ToSet(cs) :
                /\ RecordSuccess(r, m.name)
                /\ rpc' = [rpc EXCEPT ![r] = ifOk]

\* Mutant: the download of libc6 is tried again and again.
DownloadMainAgain(r) ==
    /\ rpc[r] = "main"
    /\ Race(r, Wanted[r], IF Debug[Wanted[r]] \in DOMAIN view[r].pkgs THEN "dbg" ELSE "done",
            "main")
    /\ UNCHANGED <<config, hosts, updating, disk, view>>

\* A download of libc6 that fails is the end of the command.
DownloadMain(r) ==
    /\ rpc[r] = "main"
    /\ Race(r, Wanted[r], IF Debug[Wanted[r]] \in DOMAIN view[r].pkgs THEN "dbg" ELSE "done",
            "failed")
    /\ UNCHANGED <<config, hosts, updating, disk, view>>

\* One of libc6-dbg is not.
DownloadDebug(r) ==
    /\ rpc[r] = "dbg"
    /\ Race(r, Debug[Wanted[r]], "done", "done")
    /\ UNCHANGED <<config, hosts, updating, disk, view>>
-----------------------------------------------------------------------------
Update(u) == GetListing(u) \/ MissListing(u) \/ OpenList(u) \/ WriteList(u)
Read(r)   == Load(r) \/ DownloadMain(r) \/ DownloadDebug(r)

Ended == /\ \A u \in Updaters : upc[u] \in {"done", "failed", "killed"}
         /\ \A r \in Readers : rpc[r] \in {"done", "failed"}

Rest == Ended /\ UNCHANGED vars

Next ==
    \/ \E f \in Files : Retire(f)
    \/ \E u \in Updaters : Update(u) \/ Expire(u) \/ Kill(u)
    \/ \E r \in Readers : Read(r)
    \/ Rest

Spec == Init /\ [][Next]_vars
-----------------------------------------------------------------------------
(***************************************************************************)
(* Properties.                                                             *)
(***************************************************************************)

\* The list says of every file exactly which of the mirrors of got listed it,
\* and that it is legacy exactly when only fallback ones did.
Says(pkgs, got) ==
    /\ DOMAIN pkgs = UNION {g.files : g \in got}
    /\ \A f \in DOMAIN pkgs :
          LET from == {g.mirror : g \in {h \in got : f \in h.files}}
          IN  /\ ToSet(pkgs[f].mirrors) = {m.name : m \in from}
              /\ IsInjective(pkgs[f].mirrors)
              /\ pkgs[f].legacy <=> \A m \in from : m.fallback

\* A saved list, and one a command works with, says what the mirrors that
\* answered its update listed, all of it and nothing else.
MergeFaithful ==
    \A l \in {view[r] : r \in Readers} \cup {disk} :
        IsList(l) => Says(l.pkgs, ToSet(lists[l.by]))

\* packages.json that cannot be read takes a writer that is at it, failed or was
\* killed at it, or two that saved different lists; an update that succeeded
\* alone left it whole.
UnreadableHasCause ==
    disk \in {Empty, Torn} =>
        \/ \E u \in Updaters : upc[u] \in {"save", "failed", "killed"}
        \/ \E u, w \in Updaters : /\ upc[u] = "done" /\ upc[w] = "done"
                                  /\ Merge(lists[u]) # Merge(lists[w])

\* No download ever finds a circuit open: a command ends before any mirror can
\* have failed three times in it, so candidates are in the registry's order.
BreakerNeverOpens ==
    \A r \in Readers : rpc[r] \in {"main", "dbg"} => \A n \in Names : ~IsOpen(r, n)
=============================================================================
