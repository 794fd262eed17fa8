--------------------------- MODULE IdentifyProofs ---------------------------
(***************************************************************************)
(* Proofs about Identify, for any builds, anchors, versions and number of  *)
(* queries: the index's BuildIDs lead to the versions they were indexed    *)
(* for, and a file that is in the index is recognised.                     *)
(***************************************************************************)
EXTENDS Identify, FiniteSetTheorems, TLAPS

USE BuildsAssumption, PackagesAssumption

-----------------------------------------------------------------------------
(***************************************************************************)
(* The inductive invariant.                                                *)
(***************************************************************************)

\* A version's symbols are of one of its builds, and its BuildID leads back to
\* it; a BuildID leads to an indexed version that has a build with it.
Leads ==
    /\ symtab \in [Versions -> Builds \cup {None}]
    /\ buildid \in [IDs -> Versions \cup {None}]
    /\ \A v \in Indexed : /\ symtab[v] \in Packages[v]
                          /\ BuildID[symtab[v]] # NoID => buildid[BuildID[symtab[v]]] = v
    /\ \A id \in IDs : buildid[id] # None =>
          /\ buildid[id] \in Indexed
          /\ \E b \in Packages[buildid[id]] : BuildID[b] = id

\* A query reaches libc.rip only when the index does not have its BuildID, and
\* goes by fingerprint only then or when the file is stripped; its answer is
\* one of the pipeline's.
Missed(b) == BuildID[b] = NoID \/ buildid[BuildID[b]] = None

Pipeline ==
    /\ stage # "idle" => query.file \in Builds
    /\ stage = "online" => BuildID[query.file] # NoID /\ Missed(query.file)
    /\ stage = "fingerprint" => Missed(query.file)
    /\ stage = "answered" =>
         \/ /\ answer.method = "buildid_local" /\ ~Missed(query.file)
            /\ answer.version = buildid[BuildID[query.file]]
         \/ /\ answer.method = "buildid_online" /\ BuildID[query.file] # NoID
            /\ Missed(query.file)
         \/ Missed(query.file) /\ answer \in Fingerprints(query.file)

IInv == Leads /\ Pipeline

\* The empty index and no query.
LEMMA InvInit == Init => IInv
BY DEF Init, IInv, Leads, Pipeline, Indexed

\* A download keeps the BuildIDs leading to their versions: no other version
\* has a build with this one's BuildID.
LEMMA IndexKeepsLeads ==
    ASSUME Leads, NEW v \in Versions, NEW b \in Packages[v], IndexVersion(v, b)
    PROVE  Leads'
<1>1. b \in Builds /\ b # None
  OBVIOUS
<1>2. symtab' = [symtab EXCEPT ![v] = b] /\ symtab' \in [Versions -> Builds \cup {None}]
  BY <1>1 DEF IndexVersion, Leads
<1>3. buildid' \in [IDs -> Versions \cup {None}]
  BY <1>1 DEF IndexVersion, Leads
<1>4. ASSUME NEW w \in Versions, symtab'[w] # None
      PROVE  /\ symtab'[w] \in Packages[w]
             /\ BuildID[symtab'[w]] # NoID => buildid'[BuildID[symtab'[w]]] = w
  <2>1. CASE w = v
    BY <1>1, <1>2, <2>1 DEF IndexVersion, Leads
  <2>2. CASE w # v
    <3>1. /\ symtab'[w] = symtab[w] /\ symtab[w] \in Packages[w]
          /\ BuildID[symtab[w]] # NoID => buildid[BuildID[symtab[w]]] = w
      BY <1>2, <1>4, <2>2 DEF Leads, Indexed
    <3>2. BuildID[symtab[w]] # NoID => BuildID[symtab[w]] # BuildID[b]
      BY <2>2, <3>1
    <3> QED
      BY <1>1, <3>1, <3>2 DEF IndexVersion, Leads
  <2> QED
    BY <2>1, <2>2
<1>5. ASSUME NEW id \in IDs, buildid'[id] # None
      PROVE  /\ symtab'[buildid'[id]] # None
             /\ \E c \in Packages[buildid'[id]] : BuildID[c] = id
  <2>1. CASE BuildID[b] = id
    BY <1>1, <1>2, <2>1 DEF IndexVersion, Leads
  <2>2. CASE BuildID[b] # id
    <3>1. buildid'[id] = buildid[id]
      BY <2>2 DEF IndexVersion, Leads
    <3> QED
      BY <1>1, <1>2, <1>5, <3>1 DEF Leads, Indexed
  <2> QED
    BY <2>1, <2>2
<1> QED
  BY <1>2, <1>3, <1>4, <1>5 DEF Leads, Indexed

\* Every step keeps the invariant: the index changes only between queries.
LEMMA InvStep == IInv /\ [Next]_vars => IInv'
<1> SUFFICES ASSUME IInv, [Next]_vars PROVE IInv'
  OBVIOUS
<1> USE DEF IInv
<1>1. ASSUME NEW v \in Versions, NEW b \in Packages[v], IndexVersion(v, b) PROVE IInv'
  <2>1. Leads'
    BY <1>1, IndexKeepsLeads
  <2> QED
    BY <1>1, <2>1 DEF IndexVersion, Pipeline
<1>2. ASSUME NEW c \in Commands, NEW b \in Builds, NEW o \in BOOLEAN, Ask(c, b, o) PROVE IInv'
  BY <1>2 DEF Ask, Leads, Pipeline, Indexed, index
<1> index' = index => (Leads' /\ \A b : Missed(b)' <=> Missed(b)) /\ \A b : Fingerprints(b)' = Fingerprints(b)
  BY DEF index, Leads, Missed, Indexed, Fingerprints, Top, Outranks, Confidence, Scored, Matched, Compared
<1>3. CASE LookupBuildID
  BY <1>3 DEF LookupBuildID, Pipeline, Missed, index
<1>4. CASE OnlineAnswers
  BY <1>4 DEF OnlineAnswers, Pipeline
<1>5. CASE OnlineFails
  BY <1>5 DEF OnlineFails, Pipeline
<1>6. CASE Fingerprint
  BY <1>6 DEF Fingerprint, Pipeline
<1>7. CASE Use
  BY <1>7 DEF Use, Pipeline
<1>8. CASE Close
  BY <1>8 DEF Close, Pipeline
<1>9. CASE Rest \/ UNCHANGED vars
  BY <1>9 DEF Rest, vars, index, Pipeline
<1> QED
  BY <1>1, <1>2, <1>3, <1>4, <1>5, <1>6, <1>7, <1>8, <1>9 DEF Next, Query

\* The index's BuildIDs and the pipeline's stages agree in every reachable
\* state.
LEMMA Invariance == Spec => []IInv
BY InvInit, InvStep, PTL DEF Spec

-----------------------------------------------------------------------------
(***************************************************************************)
(* A file in the index.                                                    *)
(***************************************************************************)

\* The anchors that match are anchors of the file, and finitely many.
LEMMA MatchedFinite ==
    ASSUME NEW b \in Builds, NEW v
    PROVE  /\ Matched(b, v) \subseteq DOMAIN Offsets[b]
           /\ IsFiniteSet(Matched(b, v)) /\ Cardinality(Matched(b, v)) \in Nat
           /\ Cardinality(Matched(b, v)) <= Cardinality(DOMAIN Offsets[b])
           /\ Cardinality(Matched(b, v)) = Cardinality(DOMAIN Offsets[b]) =>
                 Matched(b, v) = DOMAIN Offsets[b]
<1>1. Matched(b, v) \in SUBSET DOMAIN Offsets[b]
  BY DEF Matched, Compared
<1>2. IsFiniteSet(DOMAIN Offsets[b])
  OBVIOUS
<1> QED
  BY <1>1, <1>2, FS_Subset, FS_CardinalityType

\* A version that holds the file's own symbols matches on all its anchors, so
\* nothing that is ranked first matches on fewer.
LEMMA OwnVersionWins ==
    ASSUME Leads, NEW b \in Builds, DOMAIN Offsets[b] # {},
           NEW v \in Versions, symtab[v] = b
    PROVE  /\ Scored(b) # {}
           /\ \A t \in Top(b) : t \in Indexed /\ Matched(b, t) = DOMAIN Offsets[b]
<1>1. v \in Indexed
  BY DEF Indexed
<1>2. Matched(b, v) = DOMAIN Offsets[b] /\ v \in Scored(b)
  BY <1>1 DEF Matched, Compared, Scored
<1>3. ASSUME NEW t \in Top(b) PROVE t \in Indexed /\ Matched(b, t) = DOMAIN Offsets[b]
  <2>1. t \in Indexed /\ ~Outranks(b, v, t)
    BY <1>2, <1>3 DEF Top, Scored
  <2>2. Cardinality(Matched(b, v)) <= Cardinality(Matched(b, t))
    BY <2>1, MatchedFinite DEF Outranks
  <2> QED
    BY <1>2, <2>1, <2>2, MatchedFinite
<1> QED
  BY <1>2, <1>3

\* When an indexed file is not found by its BuildID, it has none: the index has
\* the BuildIDs of the builds it holds.
LEMMA RecognisedWhenAnswered ==
    IInv => IndexedFileRecognised
<1> SUFFICES ASSUME IInv, stage = "answered", DOMAIN Offsets[query.file] # {},
                    NEW v \in Versions, symtab[v] = query.file
             PROVE  /\ answer.version \in Indexed
                    /\ Matched(query.file, answer.version) = DOMAIN Offsets[query.file]
  BY DEF IndexedFileRecognised
<1> DEFINE b == query.file
<1>1. b \in Builds /\ v \in Indexed /\ Leads /\ Pipeline
  BY DEF IInv, Pipeline, Indexed
<1>2. BuildID[b] # NoID => buildid[BuildID[b]] = v /\ v # None
  BY <1>1 DEF Leads
<1>3. CASE answer.method = "buildid_local"
  <2>1. ~Missed(b) /\ answer.version = buildid[BuildID[b]]
    <3>1. \A c \in Builds : \A f \in Fingerprints(c) : f.method # "buildid_local"
      BY DEF Fingerprints, NoAnswer
    <3> QED
      BY <1>1, <1>3, <3>1 DEF Pipeline
  <2>2. answer.version = v
    BY <1>2, <2>1 DEF Missed
  <2> QED
    BY <1>1, <2>2 DEF Matched, Compared
<1>4. CASE Missed(b) /\ answer \in Fingerprints(b)
  <2>1. Scored(b) # {} /\ \A t \in Top(b) : t \in Indexed /\ Matched(b, t) = DOMAIN Offsets[b]
    BY <1>1, OwnVersionWins
  <2>2. answer.version \in Top(b)
    BY <1>4, <2>1 DEF Fingerprints
  <2> QED
    BY <2>1, <2>2
<1> QED
  BY <1>1, <1>2, <1>3, <1>4 DEF Pipeline, Missed

\* IndexedFileRecognised for any index: whatever libc.rip does, a file whose
\* symbols a download indexed is recognised as a version that has its anchors.
THEOREM IndexedRecognised == Spec => []IndexedFileRecognised
BY Invariance, RecognisedWhenAnswered, PTL

\* OfflineAgrees for any index: without an answer of libc.rip a query ends with
\* what --offline finds.
THEOREM OfflineResult == Spec => []OfflineAgrees
<1>1. IInv => OfflineAgrees
  <2> SUFFICES ASSUME IInv, stage = "answered", answer.method # "buildid_online"
               PROVE  IF \E v \in Versions : BuildID[query.file] # NoID /\ buildid[BuildID[query.file]] = v
                      THEN answer.method = "buildid_local"
                      ELSE answer \in Fingerprints(query.file)
    BY DEF OfflineAgrees
  <2>1. Pipeline /\ query.file \in Builds /\ buildid \in [IDs -> Versions \cup {None}]
    BY DEF IInv, Pipeline, Leads
  <2>2. (\E v \in Versions : BuildID[query.file] # NoID /\ buildid[BuildID[query.file]] = v)
          <=> ~Missed(query.file)
    BY <2>1 DEF Missed
  <2> QED
    BY <2>1, <2>2 DEF Pipeline
<1> QED
  BY <1>1, Invariance, PTL

\* ExactIsExact for any index: when the package of a version has one build, an
\* exact answer from the index names the version of the file's own build.
THEOREM ExactAnswers == Spec => []ExactIsExact
<1>1. IInv => ExactIsExact
  <2> SUFFICES ASSUME IInv, stage = "answered", answer.method = "buildid_local",
                      Cardinality(Packages[answer.version]) = 1
               PROVE  /\ symtab[answer.version] # None
                      /\ BuildID[symtab[answer.version]] = BuildID[query.file]
    BY DEF ExactIsExact
  <2> DEFINE id == BuildID[query.file]
             v  == answer.version
  <2>1. query.file \in Builds /\ Leads
    BY DEF IInv, Pipeline
  <2>2. ~Missed(query.file) /\ v = buildid[id]
    <3>1. \A c \in Builds : \A f \in Fingerprints(c) : f.method # "buildid_local"
      BY DEF Fingerprints, NoAnswer
    <3> QED
      BY <2>1, <3>1 DEF IInv, Pipeline
  <2>3. id \in IDs /\ v \in Versions
    BY <2>1, <2>2 DEF Missed, Leads
  <2>4. PICK c \in Packages[v] : BuildID[c] = id
    BY <2>1, <2>2, <2>3 DEF Leads, Missed
  <2>5. v \in Indexed /\ symtab[v] \in Packages[v]
    BY <2>1, <2>2, <2>3 DEF Leads, Missed
  <2>6. PICK p : Packages[v] = {p}
    BY <2>3, FS_Singleton, FS_Subset
  <2> QED
    BY <2>4, <2>5, <2>6 DEF Indexed
<1> QED
  BY <1>1, Invariance, PTL

\* What can be compared, and what matches of it, is finite.
LEMMA ComparedFinite ==
    ASSUME NEW b \in Builds, NEW v
    PROVE  /\ Matched(b, v) \subseteq Compared(b, v)
           /\ IsFiniteSet(Matched(b, v)) /\ Cardinality(Matched(b, v)) \in Nat
           /\ IsFiniteSet(Compared(b, v)) /\ Cardinality(Compared(b, v)) \in Nat
           /\ Cardinality(Matched(b, v)) = Cardinality(Compared(b, v)) =>
                 Matched(b, v) = Compared(b, v)
<1>1. Matched(b, v) \in SUBSET Compared(b, v) /\ Compared(b, v) \in SUBSET DOMAIN Offsets[b]
  BY DEF Matched, Compared
<1>2. IsFiniteSet(DOMAIN Offsets[b])
  OBVIOUS
<1>3. IsFiniteSet(Compared(b, v))
  BY <1>1, <1>2, FS_Subset
<1> QED
  BY <1>1, <1>3, FS_Subset, FS_CardinalityType

\* FingerprintIsBest for any index: nothing indexed matches a file on more
\* anchors than its fingerprint answer, and whatever could have been put first
\* instead of a "high" one matches on all that were compared, too.
THEOREM BestFingerprint == Spec => []FingerprintIsBest
<1>1. IInv => FingerprintIsBest
  <2> DEFINE b == query.file
             a == answer.version
  <2> SUFFICES ASSUME IInv, stage = "answered", answer.method = "fingerprint", NEW v \in Indexed
               PROVE  /\ Cardinality(Matched(b, v)) <= Cardinality(Matched(b, a))
                      /\ answer.confidence = "high" /\ v \in Top(b) =>
                            /\ Matched(b, v) = Compared(b, v)
                            /\ Cardinality(Matched(b, v)) >= 6
    BY DEF FingerprintIsBest
  <2>1. b \in Builds /\ answer \in Fingerprints(b)
    BY DEF IInv, Pipeline
  <2>2. Scored(b) # {} /\ a \in Top(b) /\ answer.confidence = Confidence(b, a)
    BY <2>1 DEF Fingerprints, NoAnswer
  <2>3. Cardinality(Matched(b, v)) <= Cardinality(Matched(b, a))
    <3>1. CASE v \in Scored(b)
      BY <2>1, <2>2, <3>1, ComparedFinite DEF Top, Outranks
    <3>2. CASE v \notin Scored(b)
      <4>1. Matched(b, v) = {}
        BY <3>2 DEF Scored, Matched
      <4> QED
        BY <2>1, <4>1, ComparedFinite, FS_EmptySet
    <3> QED
      BY <3>1, <3>2
  <2>4. ASSUME answer.confidence = "high", v \in Top(b)
        PROVE  Matched(b, v) = Compared(b, v) /\ Cardinality(Matched(b, v)) >= 6
    <3>1. Matched(b, a) = Compared(b, a) /\ Cardinality(Compared(b, a)) >= 6
      BY <2>2, <2>4 DEF Confidence
    <3>2. /\ Cardinality(Matched(b, v)) = Cardinality(Matched(b, a))
          /\ Cardinality(Compared(b, v)) = Cardinality(Compared(b, a))
      BY <2>1, <2>2, <2>4, ComparedFinite DEF Top, Outranks
    <3> QED
      BY <2>1, <3>1, <3>2, ComparedFinite
  <2> QED
    BY <2>3, <2>4
<1> QED
  BY <1>1, Invariance, PTL
=============================================================================
