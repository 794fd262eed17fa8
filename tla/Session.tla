------------------------------ MODULE Session ------------------------------
(***************************************************************************)
(* A session of pwnlibc: builds and runs side by side (module Containers), *)
(* or one command that only reads: vuln, diff, search --libc, search       *)
(* --symbol, doctor (internal/cli, internal/diffcmd), from its             *)
(* configuration (internal/config, cli/app.go) to its answer.              *)
(***************************************************************************)
EXTENDS Containers, Elf, Mirrors

CONSTANTS Sessions,         \* what a session may be: <<a reading command, its
                            \* config.yaml [st, pri, cust], how each mirror
                            \* answers a probe [takes, ok], in half seconds>>
          NoCommand,        \* the session is one of builds and runs
          Keep,             \* a key that config.yaml leaves out
          DefaultPriority,  \* Default() has one, and no custom mirror
          Budget,           \* doctor's 8 s for all mirrors
          PerProbe,         \* and 5 s for each
          Wide              \* a uint64 wraps at Wide, 2^64

\* Load: a key of the file replaces its default.
Priority(c) == IF c.st = "read" /\ c.pri # Keep THEN c.pri ELSE DefaultPriority
Custom(c)   == IF c.st = "read" /\ c.cust # Keep THEN c.cust ELSE <<>>

Commands(op) == {c \in {s[1] : s \in Sessions} \ {NoCommand} : c.op = op}

ASSUME TimeAssumption == Budget \in Nat /\ PerProbe \in Nat
ASSUME WideAssumption == Wide \in Nat \ {0} /\ Wide % 2 = 0

\* The keys of a configuration are lists.
ASSUME ConfigsAssumption ==
    \A s \in Sessions : /\ Priority(s[2]) \in Seq(ToSet(Priority(s[2])))
                        /\ Custom(s[2]) \in Seq(ToSet(Custom(s[2])))

\* Every mirror of the configuration answers, or fails to, at some time.
ASSUME NetworkAssumption ==
    \A s \in Sessions : \A m \in ToSet(Builtins) \cup ToSet(Custom(s[2])) :
        s[3][m.name].takes \in Nat

\* The versions asked for and those of vulns.json are numbers, and a minor
\* number is below Unit.
Proper(v) == Parses(v) => v[1] \in Nat /\ v[2] \in 0 .. Unit - 1
ASSUME VersionsAssumption ==
    /\ \A e \in Vulns : Proper(e.from) /\ Proper(e.to)
    /\ \A c \in Commands("vuln") : Proper(c.version)

\* Addresses are uint64s, a tolerance is not negative.
ASSUME AddressesAssumption ==
    \A c \in Commands("symbols") :
        /\ c.tol \in Nat
        /\ \A m \in c.matches \cup {c.query} : \A n \in DOMAIN m : m[n] \in 0 .. Wide - 1

\* The symbols of a file have names and addresses, its sections do not overlap.
Tables(f) ==
    /\ \A tab \in {f.dynsym, f.symtab} :
          /\ tab \in Seq(ToSet(tab))
          /\ \A s \in ToSet(tab) : Len(s.name) \in Nat /\ s.value \in Nat
    /\ f.data \in Seq(ToSet(f.data))
    /\ \A sec \in ToSet(f.data) :
          sec.addr \in Nat /\ sec.offset \in Nat /\ sec.bytes \in Seq(ToSet(sec.bytes))
    /\ \A j \in 1 .. Len(f.data) : \A k \in 1 .. j - 1 :
          \/ f.data[j].addr + Len(f.data[j].bytes) <= f.data[k].addr
          \/ f.data[k].addr + Len(f.data[k].bytes) <= f.data[j].addr

ASSUME LocalsAssumption ==
    \A c \in Commands("local") :
        /\ Tables(c.file)
        /\ \A p \in c.patterns : Len(p) \in Nat
        /\ c.digits \in Seq(0 .. Base - 1)
        /\ c.str \in Seq(ToSet(c.str))

\* Lists of notes are words, and each a uint32; in a whole file every list is
\* what the notes it was written from come to, in a cut one a beginning of it.
Padded(words, size) == words \in Seq(0 .. Top - 1) /\ 4 * Len(words) \in size .. size + 3

Written(note) ==
    /\ {note.osize, note.dsize} \subseteq 0 .. Top - 4 /\ note.type \in 0 .. Top - 1
    /\ Padded(note.owner, note.osize) /\ Padded(note.desc, note.dsize)

AllWritten(w) == w \in Seq(ToSet(w)) /\ \A note \in ToSet(w) : Written(note)

Notes(f) ==
    LET all == f.notes \o f.segs IN
    /\ all \in Seq(Seq(0 .. Top - 1))
    /\ f.state \in {"whole", "cut"} =>
          /\ Len(f.written) = Len(all)
          /\ \A k \in 1 .. Len(all) :
                LET e == Encoded(f.written[k]) IN
                /\ AllWritten(f.written[k])
                /\ \E j \in 0 .. Len(e) : all[k] = SubSeq(e, 1, j) /\ (f.state = "whole" => j = Len(e))

ASSUME FilesAssumption ==
    /\ \A c \in Commands("local") : Notes(c.file)
    /\ \A c \in Commands("diff") : Notes(c.a) /\ Notes(c.b)

VARIABLES cmd, config, reach,  \* the command, its configuration, its network
          phase,     \* "shell", "run", "probe", "exit", "crash"
          registry,  \* App.Registry
          answer,    \* what the command prints
          left,      \* doctor: what remains of the budget
          probed,    \* how many mirrors it has probed
          alive      \* and how many answered

svars == <<cmd, config, reach, phase, registry, answer, left, probed, alive>>
vars  == <<cvars, svars>>
-----------------------------------------------------------------------------
(***************************************************************************)
(* The answers.                                                            *)
(***************************************************************************)
Error     == [st |-> "error"]
Answer(x) == [st |-> "ok", is |-> x]

\* Diff: two symbol tables and two sets of flags, each change a function from
\* what changed to its values on both sides.
Diff(a, b) ==
    LET A  == Symbols(a)   B  == Symbols(b)
        SA == Security(a)  SB == Security(b)
        added   == DOMAIN B \ DOMAIN A
        removed == DOMAIN A \ DOMAIN B
        moved   == {n \in DOMAIN A \cap DOMAIN B : A[n] # B[n]}
    IN  [added    |-> [n \in added |-> B[n]],
         removed  |-> [n \in removed |-> A[n]],
         moved    |-> [n \in moved |-> <<A[n], B[n]>>],
         security |-> [x \in {y \in DOMAIN SA : SA[y] # SB[y]} |-> <<SA[x], SB[x]>>]]

\* searchLocal: the symbols that match one of the patterns; those whose address
\* ends in the digits; or where the string is.
SearchLocal(f, c) ==
    LET S == Symbols(f)
        n == Len(c.digits)
    IN  IF c.patterns # {} THEN {s \in DOMAIN S : \E p \in c.patterns : GlobMatch(p, s)}
        ELSE IF c.digits # <<>>
        THEN {s \in DOMAIN S : LET h == Hex(S[s]) IN
                Len(h) >= n /\ SubSeq(h, Len(h) - n + 1, Len(h)) = c.digits}
        ELSE IF c.str # <<>> THEN StringsInDataSections(f, c.str)
        ELSE DOMAIN S

\* int64(x) of a uint64, and of a difference; a distance between addresses.
Signed(x) == ((x + Wide \div 2) % Wide) - Wide \div 2

Distance(want, got) ==
    LET d == Signed(Signed(want) - Signed(got)) IN IF d < 0 THEN Signed(-d) ELSE d

\* filterByTolerance: the matches that have every symbol asked for, no further
\* than tol from its address.
FilterByTolerance(matches, query, tol) ==
    {m \in matches : \A n \in DOMAIN query :
        n \in DOMAIN m /\ Distance(query[n], m[n]) <= tol}

\* A file's BuildID is read before anything else of it.
Panics(c) == CASE c.op = "diff"  -> "panic" \in {BuildIDOf(c.a).st, BuildIDOf(c.b).st}
               [] c.op = "local" -> BuildIDOf(c.file).st = "panic"
               [] OTHER          -> FALSE

AnswerTo(c) ==
    CASE c.op = "vuln"    -> AffectedBy(c.version)
      [] c.op = "diff"    -> Diff(c.a, c.b)
      [] c.op = "local"   -> SearchLocal(c.file, c)
      [] c.op = "symbols" -> IF c.tol > 0 THEN FilterByTolerance(c.matches, c.query, c.tol)
                             ELSE c.matches
-----------------------------------------------------------------------------
SessionInit ==
    /\ \E s \in Sessions : cmd = s[1] /\ config = s[2] /\ reach = s[3]
    /\ phase = "shell"
    /\ registry = <<>>
    /\ answer = Error
    /\ left = Budget
    /\ probed = 0
    /\ alive = 0

\* PersistentPreRunE: the file may not parse, a directory may not be makeable.
Prepare ==
    /\ phase = "shell" /\ cmd # NoCommand
    /\ \/ /\ phase' = "exit"
          /\ UNCHANGED registry
       \/ /\ config.st # "bad"
          /\ registry' = NewRegistry(Priority(config), Custom(config))
          /\ phase' = IF cmd.op = "doctor" THEN "probe" ELSE "run"
    /\ UNCHANGED <<cmd, config, reach, answer, left, probed, alive, cvars>>

\* The body of vuln, diff and the searches.  An ELF file may not be one, and
\* libc.rip may not answer.
Run ==
    /\ phase = "run"
    /\ \/ Panics(cmd) /\ phase' = "crash" /\ UNCHANGED answer
       \/ ~Panics(cmd) /\ phase' = "exit" /\ answer' = Answer(AnswerTo(cmd))
       \/ cmd.op # "vuln" /\ phase' = "exit" /\ UNCHANGED answer
    /\ UNCHANGED <<cmd, config, reach, registry, left, probed, alive, cvars>>

\* Mutant: a probe has the whole budget.
ProbeUnbounded(m) ==
    LET allowed == left IN
    /\ left' = left - (IF reach[m.name].takes <= allowed THEN reach[m.name].takes ELSE allowed)
    /\ alive' = IF reach[m.name].takes <= allowed /\ reach[m.name].ok THEN alive + 1 ELSE alive

\* Probe: within five seconds and within what is left of the eight.
Probe(m) ==
    LET allowed == IF PerProbe < left THEN PerProbe ELSE left IN
    /\ left' = left - (IF reach[m.name].takes <= allowed THEN reach[m.name].takes ELSE allowed)
    /\ alive' = IF reach[m.name].takes <= allowed /\ reach[m.name].ok THEN alive + 1 ELSE alive

\* runDoctorChecks, behind its checks of docker, the directories and the disk:
\* every mirror in the registry's order.
ProbeNext ==
    /\ phase = "probe" /\ probed < Len(registry)
    /\ probed' = probed + 1
    /\ Probe(registry[probed + 1])
    /\ UNCHANGED <<cmd, config, reach, phase, registry, answer, cvars>>

\* Then the index; doctor fails unless every check is good.
Diagnose ==
    /\ phase = "probe" /\ probed = Len(registry)
    /\ phase' = "exit"
    /\ \E others \in BOOLEAN : answer' = Answer([mirrors |-> alive > 0, others |-> others])
    /\ UNCHANGED <<cmd, config, reach, registry, left, probed, alive, cvars>>

Init == ContainersInit /\ SessionInit

Next ==
    \/ cmd = NoCommand /\ ContainersNext /\ UNCHANGED svars
    \/ Prepare \/ Run \/ ProbeNext \/ Diagnose

Spec     == Init /\ [][Next]_vars
FairSpec == Spec /\ CommandsRun
-----------------------------------------------------------------------------
(***************************************************************************)
(* What the answers should be.                                             *)
(***************************************************************************)
Answered(op) == cmd # NoCommand /\ cmd.op = op /\ answer.st = "ok"

\* A command's registry has every mirror of its configuration once, the
\* fallback ones last, the built-ins in the user's order (mirrors.go:69).
RegistryOrder ==
    registry # <<>> => InUsersOrder(registry, Priority(config), Custom(config))

Takes(k)   == reach[registry[k].name].takes
Prompt     == {k \in 1 .. Len(registry) : Takes(k) <= PerProbe}
PromptTime == SumOf([k \in 1 .. Len(registry) |-> IF k \in Prompt THEN Takes(k) ELSE 0])

\* The budget the probes share does not hide a mirror that answers, as long as
\* one at most keeps doctor waiting and the others leave what its five seconds
\* leave (doctor.go:71-78).
DoctorCountsTheLive ==
    /\ Answered("doctor")
    /\ Cardinality((1 .. Len(registry)) \ Prompt) <= 1
    /\ PromptTime <= Budget - PerProbe
    => alive = Cardinality({k \in Prompt : reach[registry[k].name].ok})

Ranges(v) == {e \in Vulns : Parses(e.from) /\ Parses(e.to) /\ ~Before(v, e.from) /\ Before(v, e.to)}

\* The changes of a diff, made to the first table, give the second.
Applied(d, A) ==
    [n \in (DOMAIN A \ DOMAIN d.removed) \cup DOMAIN d.added |->
        IF n \in DOMAIN d.added THEN d.added[n]
        ELSE IF n \in DOMAIN d.moved THEN d.moved[n][2] ELSE A[n]]

VulnExact == answer.is = IF Parses(cmd.version) THEN Ranges(cmd.version) ELSE {}

DiffExact ==
    LET back == Diff(cmd.b, cmd.a)
    IN  /\ Applied(answer.is, Symbols(cmd.a)) = Symbols(cmd.b)
        /\ back.added = answer.is.removed /\ back.removed = answer.is.added
        /\ \A x \in DOMAIN Security(cmd.a) :
              Security(cmd.b)[x] = IF x \in DOMAIN answer.is.security
                                   THEN answer.is.security[x][2] ELSE Security(cmd.a)[x]

\* The places of the string, each once, as addresses in memory.  These are the
\* file offsets that elfinfo.go:280-282 and the field offsets_hex speak of where
\* the sections are loaded at their offsets, and are not where they are loaded
\* further up, as a libc's .data is.
StringsExact(f, str, places) ==
    /\ ToSet(places) = AddressesOf(f, str) /\ IsInjective(places)
    /\ (\A sec \in ToSet(f.data) : sec.addr = sec.offset) => ToSet(places) = OffsetsOf(f, str)
    /\ places # <<>> /\ (\A sec \in ToSet(f.data) : sec.addr > sec.offset)
          => ToSet(places) # OffsetsOf(f, str)

LocalExact ==
    LET S == Symbols(cmd.file)
    IN  IF cmd.patterns # {}
        THEN answer.is = {s \in DOMAIN S : \E p \in cmd.patterns : Matches(p, s)}
        ELSE IF cmd.digits # <<>>
        THEN LET end == NumberUpTo(cmd.digits)[Len(cmd.digits)]
             IN  answer.is = {s \in DOMAIN S : (S[s] % end.bound) = end.value /\ S[s] * Base >= end.bound}
        ELSE cmd.str # <<>> => StringsExact(cmd.file, cmd.str, answer.is)

SymbolsExact ==
    cmd.tol > 0 =>
        \A m \in cmd.matches :
            (\A n \in DOMAIN m \cup DOMAIN cmd.query :
                /\ n \in DOMAIN m => 2 * m[n] < Wide
                /\ n \in DOMAIN cmd.query => 2 * cmd.query[n] < Wide)
            => (m \in answer.is <=>
                   \A n \in DOMAIN cmd.query :
                      n \in DOMAIN m /\ cmd.query[n] \in m[n] - cmd.tol .. m[n] + cmd.tol)

\* Every answer is what its question asks for: vuln's the ranges that hold the
\* version, major number before minor (vulndb.go:55); diff's a recipe from the
\* first file to the second, and the mirror image of the opposite diff; a local
\* search's the names that match, the addresses that end so, the addresses (not
\* the file offsets: StringsExact) of a string; a search by addresses the matches
\* within the tolerance, for addresses in the lower half of the address space
\* (search.go:219).
AnswersExact ==
    /\ Answered("vuln") => VulnExact
    /\ Answered("diff") => DiffExact
    /\ Answered("local") => LocalExact
    /\ Answered("symbols") => SymbolsExact

FilesRead == IF cmd = NoCommand THEN {}
             ELSE CASE cmd.op = "diff"  -> {cmd.a, cmd.b}
                    [] cmd.op = "local" -> {cmd.file}
                    [] OTHER            -> {}

\* The ids of a file's lists; the file's is the first of them.
IDs(f) == [k \in 1 .. Len(f.written) |-> FirstID(f.written[k])]

IDOf(f) == LET has == {k \in DOMAIN IDs(f) : IDs(f)[k] # NotFound}
           IN  IF has = {} THEN NotFound ELSE IDs(f)[Min(has)]

\* The BuildID of a file whose notes are whole is that of the first GNU note of
\* type 3, in the first section or segment that has one; of a file that ends in
\* its notes it is one of theirs or none; and only a size that align4 wraps
\* around (elfinfo.go:141) ends the command in a panic.
BuildIDRight ==
    /\ phase \in {"exit", "crash"} => \A f \in FilesRead :
          /\ f.state = "whole" => BuildIDOf(f) = IDOf(f)
          /\ f.state = "cut" => BuildIDOf(f) \in ToSet(IDs(f)) \cup {NotFound}
    /\ phase = "crash" => \E f \in FilesRead : \E d \in ToSet(f.notes \o f.segs) :
                              \E n \in ToSet(d) : Top - 3 <= n /\ n < Top
=============================================================================
