------------------------------ MODULE Versions ------------------------------
(***************************************************************************)
(* Versions of glibc: their order (internal/glibcver), the CVE ranges      *)
(* (internal/vulndb) and the image a version is built or run in            *)
(* (internal/buildsrc).                                                    *)
(*                                                                         *)
(* A version is the sequence of the dotted components before its first     *)
(* "-": numbers, and NaN for what strconv.Atoi refuses.                    *)
(***************************************************************************)
EXTENDS Integers, Sequences

CONSTANTS Vulns,       \* vulns.json: a set of [id, from, to]
          ImageTable,  \* a set of [floor, image], floor a version
          Unit,        \* what a step of the major number counts for, 10000
          NaN,
          NoImage

ASSUME UnitAssumption == Unit \in Nat \ {0}

\* What Ordinal can parse: at least a major and a minor number.
Parses(v) == Len(v) >= 2 /\ v[1] # NaN /\ v[2] # NaN

\* Mutant: the components as one decimal number, so that 2.5 is after 2.19.
OrdinalDecimal(v) == v[1] * Unit + v[2] * (IF v[2] < 10 THEN 10 ELSE 1)

Ordinal(v) == v[1] * Unit + v[2]

\* AffectedBy: the ranges [from, to) that hold the version.
AffectedBy(v) ==
    {e \in Vulns : /\ Parses(v) /\ Parses(e.from) /\ Parses(e.to)
                   /\ Ordinal(e.from) <= Ordinal(v) /\ Ordinal(v) < Ordinal(e.to)}

\* ImageFor: the last row, by floor, that the version reaches.
ImageFor(v) ==
    LET fits == {r \in ImageTable : Parses(r.floor) /\ Ordinal(r.floor) <= Ordinal(v)}
    IN  IF ~Parses(v) \/ fits = {} THEN NoImage
        ELSE (CHOOSE r \in fits : \A q \in fits : Ordinal(q.floor) <= Ordinal(r.floor)).image
-----------------------------------------------------------------------------
(***************************************************************************)
(* The reference: versions compare by their major number, then by their    *)
(* minor one.                                                              *)
(***************************************************************************)
Before(v, w) == v[1] < w[1] \/ (v[1] = w[1] /\ v[2] < w[2])
=============================================================================
