------------------------------ MODULE Identify ------------------------------
(***************************************************************************)
(* The local index (internal/index) as downloads fill it, and what         *)
(* identify, patch without --version and search --buildid make of it       *)
(* (internal/identify, internal/cli): an exact BuildID in the index, then  *)
(* libc.rip, then a comparison of anchor symbol offsets with every indexed *)
(* version.  A query holds the index from its first lookup to its answer   *)
(* (module Store), so queries and downloads come one after the other.      *)
(*                                                                         *)
(* A build is one libc file: its BuildID, if it was not stripped, and the  *)
(* offsets of the anchor symbols it exports.                               *)
(***************************************************************************)
EXTENDS Integers, FiniteSets

CONSTANTS Builds,       \* the libc files there are
          IDs,          \* the BuildIDs
          BuildID,      \* BuildID[b]: b's BuildID, or NoID
          Offsets,      \* Offsets[b]: b's anchors with their offsets, a function
          Versions,     \* the version_archs
          Packages,     \* Packages[v]: the builds a download of v may extract
          Commands,     \* "identify", "patch", "search": the queries made
          Lookups,      \* how many queries and downloads there are
          NoID, None

ASSUME BuildsAssumption ==
    /\ BuildID \in [Builds -> IDs \cup {NoID}] /\ NoID \notin IDs
    /\ IsFiniteSet(Builds) /\ \A b \in Builds : IsFiniteSet(DOMAIN Offsets[b])
    /\ Packages \in [Versions -> SUBSET Builds]
    /\ None \notin Builds \cup Versions /\ Lookups \in Nat
\* A BuildID is of one version's build: it is a hash of what was linked.
ASSUME PackagesAssumption ==
    \A v, w \in Versions : \A b \in Packages[v], c \in Packages[w] :
        BuildID[b] = BuildID[c] /\ BuildID[b] # NoID => v = w /\ b = c

VARIABLES
    symtab,   \* symtab[v]: the build whose symbols the index holds for v
    buildid,  \* buildid[id]: the version the index holds for a BuildID
    stage,    \* where the query stands
    query,    \* the query: its command, file, and whether --offline
    answer,   \* its answer
    left      \* the queries and downloads yet to come

index == <<symtab, buildid>>
vars  == <<index, stage, query, answer, left>>

Indexed == {v \in Versions : symtab[v] # None}

NoAnswer == [method |-> "none", version |-> None, confidence |-> "none"]

Init ==
    /\ symtab = [v \in Versions |-> None]
    /\ buildid = [id \in IDs |-> None]
    /\ stage = "idle"
    /\ query = None
    /\ answer = NoAnswer
    /\ left = Lookups
-----------------------------------------------------------------------------
(***************************************************************************)
(* Fingerprints.                                                           *)
(***************************************************************************)
Compared(b, v) == DOMAIN Offsets[b] \cap DOMAIN Offsets[symtab[v]]
Matched(b, v)  == {a \in Compared(b, v) : Offsets[b][a] = Offsets[symtab[v]][a]}

\* IdentifyByFingerprint scores every indexed version with an anchor in common.
Scored(b) == {v \in Indexed : Compared(b, v) # {}}

\* Mutant: a version is ranked by how many anchors could be compared.
OutranksByCompared(b, v, w) == Cardinality(Compared(b, v)) > Cardinality(Compared(b, w))

\* Its order: more anchors matched, then more compared.
Outranks(b, v, w) ==
    \/ Cardinality(Matched(b, v)) > Cardinality(Matched(b, w))
    \/ /\ Cardinality(Matched(b, v)) = Cardinality(Matched(b, w))
       /\ Cardinality(Compared(b, v)) > Cardinality(Compared(b, w))

\* sort.Slice may put any of several equals first.
Top(b) == {v \in Scored(b) : \A w \in Scored(b) : ~Outranks(b, w, v)}

Confidence(b, v) ==
    IF Matched(b, v) = Compared(b, v) /\ Cardinality(Compared(b, v)) >= 6
    THEN "high" ELSE "low"

Fingerprints(b) ==
    IF Scored(b) = {} THEN {NoAnswer}
    ELSE {[method |-> "fingerprint", version |-> v, confidence |-> Confidence(b, v)] :
             v \in Top(b)}
-----------------------------------------------------------------------------
(***************************************************************************)
(* Steps.                                                                  *)
(***************************************************************************)

\* Mutant: the BuildID of the first version indexed with it stays.
IndexVersionFirst(v, b) ==
    /\ stage = "idle" /\ left > 0 /\ left' = left - 1
    /\ symtab' = [symtab EXCEPT ![v] = b]
    /\ buildid' = IF BuildID[b] = NoID \/ Indexed # {} THEN buildid
                  ELSE [buildid EXCEPT ![BuildID[b]] = v]
    /\ UNCHANGED <<stage, query, answer>>

\* Mutant: the symbols are not written when they cannot be encoded.
IndexVersionSplit(v, b) ==
    /\ stage = "idle" /\ left > 0 /\ left' = left - 1
    /\ symtab' \in {symtab, [symtab EXCEPT ![v] = b]}
    /\ buildid' = IF BuildID[b] = NoID THEN buildid
                  ELSE [buildid EXCEPT ![BuildID[b]] = v]
    /\ UNCHANGED <<stage, query, answer>>

\* A download of v extracted b: one transaction, which does not forget the
\* BuildID of a build v had before.
IndexVersion(v, b) ==
    /\ stage = "idle" /\ left > 0 /\ left' = left - 1
    /\ symtab' = [symtab EXCEPT ![v] = b]
    /\ buildid' = IF BuildID[b] = NoID THEN buildid
                  ELSE [buildid EXCEPT ![BuildID[b]] = v]
    /\ UNCHANGED <<stage, query, answer>>

\* A command loads a file (search is given its BuildID) and opens the index.
Ask(c, b, offline) ==
    /\ stage = "idle" /\ left > 0 /\ left' = left - 1
    /\ c \in {"patch", "search"} => ~offline
    /\ c = "search" => BuildID[b] # NoID
    /\ query' = [cmd |-> c, file |-> b, offline |-> offline]
    /\ answer' = NoAnswer
    /\ stage' = "local"
    /\ UNCHANGED index

\* The index's BuildID.
LookupBuildID ==
    /\ stage = "local"
    /\ LET id == BuildID[query.file]
       IN  IF id # NoID /\ buildid[id] # None
           THEN /\ answer' = [method |-> "buildid_local", version |-> buildid[id],
                              confidence |-> "exact"]
                /\ stage' = "answered"
           ELSE /\ UNCHANGED answer
                /\ stage' = IF id = NoID \/ query.offline THEN "fingerprint" ELSE "online"
    /\ UNCHANGED <<index, query, left>>

\* libc.rip answers with a libc that has the BuildID.  The answer names
\* libc.rip's own identifier, and no version.
OnlineAnswers ==
    /\ stage = "online"
    /\ answer' = [method |-> "buildid_online", version |-> None, confidence |-> "exact"]
    /\ stage' = IF query.cmd = "search" THEN "listed" ELSE "answered"
    /\ UNCHANGED <<index, query, left>>

\* Mutant: an unreachable libc.rip is the end of every command.
OnlineFailsAll ==
    /\ stage = "online" /\ stage' = "answered"
    /\ UNCHANGED <<index, query, answer, left>>

\* It does not answer in time, answers with an error, or with nothing that has
\* the BuildID: identify goes on, search fails or lists nothing.
OnlineFails ==
    /\ stage = "online"
    /\ \/ query.cmd = "search" /\ stage' \in {"failed", "listed"}
       \/ query.cmd # "search" /\ stage' = "fingerprint"
    /\ UNCHANGED <<index, query, answer, left>>

Fingerprint ==
    /\ stage = "fingerprint"
    /\ answer' \in Fingerprints(query.file)
    /\ stage' = "answered"
    /\ UNCHANGED <<index, query, left>>

\* identify prints the answer; patch goes on with its version, and fails when
\* there is none.
Use ==
    /\ stage = "answered"
    /\ stage' = IF query.cmd = "patch" /\ answer.version = None THEN "failed" ELSE "used"
    /\ UNCHANGED <<index, query, answer, left>>

Close ==
    /\ stage \in {"used", "listed", "failed"}
    /\ stage' = "idle" /\ query' = None /\ answer' = NoAnswer
    /\ UNCHANGED <<index, left>>

Query == LookupBuildID \/ OnlineAnswers \/ OnlineFails \/ Fingerprint \/ Use \/ Close

Rest == stage = "idle" /\ left = 0 /\ UNCHANGED vars

Next ==
    \/ \E v \in Versions : \E b \in Packages[v] : IndexVersion(v, b)
    \/ \E c \in Commands, b \in Builds, offline \in BOOLEAN : Ask(c, b, offline)
    \/ Query
    \/ Rest

Spec == Init /\ [][Next]_vars
-----------------------------------------------------------------------------
(***************************************************************************)
(* Properties.                                                             *)
(***************************************************************************)
\* A file that is in the index, by its BuildID or stripped of it, is recognised
\* whatever libc.rip does: the answer is a version that has every anchor of the
\* file at the file's offset.
IndexedFileRecognised ==
    stage = "answered" /\ DOMAIN Offsets[query.file] # {} /\ (\E v \in Versions : symtab[v] = query.file) =>
        /\ answer.version \in Indexed
        /\ Matched(query.file, answer.version) = DOMAIN Offsets[query.file]

\* A fingerprint answer is the best there is, and a "high" one does not depend
\* on how sort.Slice ordered equals: every version it could have put first
\* agrees with the file on all the anchors compared, six at least.
FingerprintIsBest ==
    stage = "answered" /\ answer.method = "fingerprint" =>
        \A v \in Indexed :
            /\ Cardinality(Matched(query.file, v)) <= Cardinality(Matched(query.file, answer.version))
            /\ answer.confidence = "high" /\ v \in Top(query.file) =>
                  /\ Matched(query.file, v) = Compared(query.file, v)
                  /\ Cardinality(Matched(query.file, v)) >= 6

\* When a version's package has one build, whichever mirror serves it, an exact
\* answer from the index is exact: the version's symbols are those of the file's
\* own build.
ExactIsExact ==
    stage = "answered" /\ answer.method = "buildid_local" /\ Cardinality(Packages[answer.version]) = 1 =>
        symtab[answer.version] # None /\ BuildID[symtab[answer.version]] = BuildID[query.file]

\* libc.rip can only add to what --offline finds: without its answer the result
\* is the offline one, and nothing is found only when no indexed version shares
\* an anchor with the file.
OfflineAgrees ==
    stage = "answered" /\ answer.method # "buildid_online" =>
        IF \E v \in Versions : BuildID[query.file] # NoID /\ buildid[BuildID[query.file]] = v
        THEN answer.method = "buildid_local"
        ELSE answer \in Fingerprints(query.file)
=============================================================================
