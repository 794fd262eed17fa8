-------------------------------- MODULE Elf --------------------------------
(***************************************************************************)
(* What is read from an ELF file (internal/elfinfo), as definitions        *)
(* without state.  debug/elf has parsed the tables; a file is a record of  *)
(*                                                                         *)
(*   notes, segs     the .note.gnu.build-id sections and the PT_NOTE       *)
(*                   segments, in order, each a sequence of 4-byte words   *)
(*   dynsym, symtab  the symbol tables: [name, value], a name being the    *)
(*                   sequence of its characters                            *)
(*   progs           the program headers: [type, exec]                     *)
(*   now, dyn, rpath, runpath                                              *)
(*   data            .rodata, .data, .data.rel.ro: [addr, offset, bytes],  *)
(*                   where a section is in memory and where in the file    *)
(***************************************************************************)
EXTENDS Lists

CONSTANTS Top,   \* a uint32 wraps at Top, 2^32 in the code
          GNU,   \* the word "GNU\0"
          Base,  \* offsets are printed in this base, 16
          StackChkFail

ASSUME WordAssumption == Top \in Nat /\ (Top % 4) = 0 /\ Top > 4
ASSUME BaseAssumption == Base \in Nat /\ Base > 1
-----------------------------------------------------------------------------
(***************************************************************************)
(* The BuildID.                                                            *)
(***************************************************************************)

\* Mutant: a size is not rounded up.
Align4Down(n) == 4 * (n \div 4)

\* align4, in uint32: the sizes next to Top come out as 0.
Align4(n) == 4 * (((n + 3) % Top) \div 4)

Words(n) == Align4(n) \div 4

NotFound   == [st |-> "none", id |-> <<>>]
OutOfRange == [st |-> "panic", id |-> <<>>]

\* The owner, with the zero bytes at its end cut off, is "GNU".
OwnerIsGNU(d, i) ==
    /\ d[i] >= 3 /\ d[i + 3] = GNU
    /\ \A k \in i + 4 .. i + 2 + Words(d[i]) : d[k] = 0

\* A size next to Top: the slice expression it is used in panics.
Wraps(n) == n > Align4(n)

\* parseBuildIDNote: each note is a header of three words (the owner's and the
\* descriptor's size, the type), the owner and the descriptor, both padded.
\* An id is its size in bytes and its words.  P[i] is what is found from word i.
ParseFrom(d) ==
    LET End == Len(d) + 1
        P[i \in 1 .. End] ==
          LET desc == i + 3 + Words(d[i])
              next == desc + Words(d[i + 1])
          IN  IF i + 2 > Len(d) \/ desc > End THEN NotFound
              ELSE IF Wraps(d[i]) \/ (next <= End /\ Wraps(d[i + 1])) THEN OutOfRange
              ELSE IF next > End THEN NotFound
              ELSE IF OwnerIsGNU(d, i) /\ d[i + 2] = 3
              THEN [st |-> "found", id |-> <<d[i + 1]>> \o SubSeq(d, desc, next - 1)]
              ELSE P[next]
    IN  P

ParseBuildIDNote(d) == ParseFrom(d)[1]

\* buildID: the first section with one, then the first segment.
BuildIDOf(f) ==
    LET all == f.notes \o f.segs
        has == {k \in 1 .. Len(all) : ParseBuildIDNote(all[k]).st # "none"}
    IN  IF has = {} THEN NotFound ELSE ParseBuildIDNote(all[Min(has)])
-----------------------------------------------------------------------------
(***************************************************************************)
(* Symbols and hardening flags.                                            *)
(***************************************************************************)
Kept(tab)    == Those(tab, {s \in ToSet(tab) : s.name # <<>> /\ s.value # 0})
NamesIn(tab) == {s.name : s \in ToSet(tab)}
At(tab, n)   == {k \in 1 .. Len(tab) : tab[k].name = n}

\* Symbols: a name's last entry in the dynamic table, or else its first in the
\* regular one.
Symbols(f) ==
    LET d == Kept(f.dynsym)
        s == Kept(f.symtab)
    IN  [n \in NamesIn(d) \cup NamesIn(s) |->
            IF n \in NamesIn(d) THEN d[Max(At(d, n))].value ELSE s[Min(At(s, n))].value]

Security(f) ==
    LET stacks == SelectSeq(f.progs, LAMBDA p : p.type = "stack")
    IN  [relro    |-> IF \A p \in ToSet(f.progs) : p.type # "relro" THEN "none"
                      ELSE IF f.now THEN "full" ELSE "partial",
         nx       |-> stacks # <<>> /\ ~Last(stacks).exec,
         canary   |-> StackChkFail \in NamesIn(f.dynsym),
         pie      |-> f.dyn,
         rpath    |-> f.rpath,
         runpath  |-> f.runpath,
         stripped |-> f.symtab = <<>>]
-----------------------------------------------------------------------------
(***************************************************************************)
(* Searching.                                                              *)
(***************************************************************************)

\* globMatch: where in the name what is left of the pattern, its last k
\* characters, matches what is left of the name.
GlobFrom(p, n) ==
    LET M[k \in 0 .. Len(p)] ==
          IF k = 0 THEN {Len(n)}
          ELSE LET c == p[Len(p) - k + 1]
               IN  {j \in 0 .. Len(n) :
                       IF c = "*" THEN \E h \in j .. Len(n) : h \in M[k - 1]
                       ELSE j < Len(n) /\ c \in {"?", n[j + 1]} /\ j + 1 \in M[k - 1]}
    IN  M

GlobMatch(p, n) == 0 \in GlobFrom(p, n)[Len(p)]

\* The digits of "%x".
HexUpTo(v) == LET H[n \in 0 .. v] == IF n < Base THEN <<n>>
                                     ELSE Append(H[n \div Base], n % Base)
              IN  H

Hex(v) == HexUpTo(v)[v]

\* indexBytes: the first occurrence, or -1; an empty needle occurs nowhere.
Occurs(h, nb, i) == i + Len(nb) <= Len(h) /\ SubSeq(h, i + 1, i + Len(nb)) = nb
IndexBytes(h, nb) ==
    LET at == {i \in 0 .. Len(h) : nb # <<>> /\ Occurs(h, nb, i)}
    IN  IF at = {} THEN -1 ELSE Min(at)

\* A section's occurrences, as addresses (the comment above
\* StringsInDataSections says file offsets); the next one is looked for one byte
\* further.
OccurrencesFrom(sec, nb) ==
    LET S[start \in 0 .. Len(sec.bytes)] ==
          LET i == IndexBytes(SubSeq(sec.bytes, start + 1, Len(sec.bytes)), nb)
          IN  IF i < 0 THEN <<>> ELSE <<sec.addr + start + i>> \o S[start + i + 1]
    IN  S

\* Those of the first k sections.
StringsUpTo(f, nb) ==
    LET S[k \in 0 .. Len(f.data)] ==
          IF k = 0 THEN <<>> ELSE S[k - 1] \o OccurrencesFrom(f.data[k], nb)[0]
    IN  S

StringsInDataSections(f, nb) == StringsUpTo(f, nb)[Len(f.data)]
-----------------------------------------------------------------------------
(***************************************************************************)
(* The references.                                                         *)
(***************************************************************************)

\* A note as its writer lays it out: [osize, owner, type, dsize, desc], owner
\* and desc padded to words; and the id the first "GNU" one of type 3 holds.
Encode(note) == <<note.osize, note.dsize, note.type>> \o note.owner \o note.desc

EncodedUpTo(written) ==
    LET E[k \in 0 .. Len(written)] == IF k = 0 THEN <<>> ELSE E[k - 1] \o Encode(written[k])
    IN  E

Encoded(written) == EncodedUpTo(written)[Len(written)]

HoldsID(note) == /\ note.type = 3 /\ note.osize >= 3 /\ note.owner[1] = GNU
                 /\ \A k \in 2 .. Len(note.owner) : note.owner[k] = 0

FirstID(written) ==
    LET has == {k \in 1 .. Len(written) : HoldsID(written[k])}
        it  == written[Min(has)]
    IN  IF has = {} THEN NotFound ELSE [st |-> "found", id |-> <<it.dsize>> \o it.desc]

\* A name matches a pattern if it can be cut so that each piece is what its
\* character of the pattern stands for.
Matches(p, n) ==
    \E cut \in [0 .. Len(p) -> 0 .. Len(n)] :
        /\ cut[0] = 0 /\ cut[Len(p)] = Len(n)
        /\ \A i \in 1 .. Len(p) :
              IF p[i] = "*" THEN cut[i - 1] <= cut[i]
              ELSE cut[i] = cut[i - 1] + 1 /\ p[i] \in {"?", n[cut[i]]}

\* The number that digits stand for, and the least one that needs more of them.
NumberUpTo(ds) ==
    LET N[k \in 0 .. Len(ds)] ==
          IF k = 0 THEN [value |-> 0, bound |-> 1]
          ELSE [value |-> N[k - 1].value * Base + ds[k], bound |-> N[k - 1].bound * Base]
    IN  N

\* Where a string occurs, in any section: in memory, and in the file.
AddressesOf(f, nb) ==
    UNION {{sec.addr + i : i \in {j \in 0 .. Len(sec.bytes) : nb # <<>> /\ Occurs(sec.bytes, nb, j)}}
             : sec \in ToSet(f.data)}

OffsetsOf(f, nb) ==
    UNION {{sec.offset + i : i \in {j \in 0 .. Len(sec.bytes) : nb # <<>> /\ Occurs(sec.bytes, nb, j)}}
             : sec \in ToSet(f.data)}
=============================================================================
