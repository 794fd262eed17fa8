----------------------------- MODULE MCSession -----------------------------
(***************************************************************************)
(* Instances of Session for TLC.                                           *)
(***************************************************************************)
EXTENDS Session, TLC

CONSTANTS b1, b2, b3, r1, r2

(***************************************************************************)
(* Builds and runs.  b1 and b2 build the same version into the same        *)
(* directory, at once or b2 after b1; b3, after both, and r2 name          *)
(* directories the daemon cannot reach; r2 is --no-patch.                  *)
(***************************************************************************)
Images    == {[floor |-> <<2, 19>>, image |-> "14.04"], [floor |-> <<2, 31>>, image |-> "20.04"],
              [floor |-> <<2, 39>>, image |-> "24.04"]}
Roots     == [d \in {"/data/libs", "/data/workdir"} |-> IF d = "/data/libs" THEN "libs" ELSE None]
AllRoots  == [d \in {"/data/libs", "/data/workdir"} |-> d]
For231    == [p \in Builds \cup Runs |-> <<2, 31>>]
Where     == [p \in Builds \cup Runs |-> IF p \in {b3, r2} THEN <<"/data/workdir", "b">>
                                         ELSE <<"/data/libs", "b">>]
InWorkdir == [p \in Builds \cup Runs |-> <<"/data/workdir", "b">>]
LibOf     == [r \in Runs |-> <<"/data/libs", "2.31_amd64">>]
AtOnce    == [p \in Builds |-> IF p = b3 THEN b2 ELSE None]
Retry     == [p \in Builds |-> IF p = b3 THEN b2 ELSE IF p = b2 THEN b1 ELSE None]
Starts    == {AtOnce, Retry}

(***************************************************************************)
(* Configurations and mirrors.                                             *)
(***************************************************************************)
B(n)  == [name |-> n, url |-> n, fallback |-> FALSE]
FB(n) == [name |-> n, url |-> n, fallback |-> TRUE]

\* mirrors.go's builtins, and custom mirrors: one of each kind, and one that
\* takes a built-in's name.
FourBuiltins == <<B("tuna"), B("ustc"), B("ubuntu-archive"), FB("old-releases")>>
InOrder      == <<"tuna", "ustc", "ubuntu-archive", "old-releases">>
Lab          == B("lab")
Attic        == FB("attic")
Twin         == [name |-> "tuna", url |-> "twin", fallback |-> FALSE]

ManyConfigs ==
    [st : {"absent", "bad"}, pri : {Keep}, cust : {Keep}] \cup
    [st : {"read"},
     pri : {Keep, <<>>, <<"ubuntu-archive", "nowhere", "ubuntu-archive", "tuna">>,
            <<"old-releases", "ustc", "tuna">>},
     cust : {Keep, <<Attic, Lab>>, <<Twin>>, <<Twin, Twin>>}]
Plain == [st |-> "absent", pri |-> Keep, cust |-> Keep]

\* A mirror answers at once, late, with an error, or not at all.
AnyReach == [{"tuna", "ustc", "ubuntu-archive", "old-releases", "lab", "attic"} ->
                {[takes |-> 1, ok |-> TRUE], [takes |-> 7, ok |-> TRUE],
                 [takes |-> 1, ok |-> FALSE], [takes |-> 99, ok |-> FALSE]}]
Quick    == [n \in {"tuna", "ustc", "ubuntu-archive", "old-releases", "lab", "attic"} |->
                [takes |-> 1, ok |-> TRUE]]

(***************************************************************************)
(* Files.                                                                  *)
(***************************************************************************)
Upto(S, n) == UNION {[1 .. k -> S] : k \in 0 .. n}

File(notes, segs, written, state, dynsym, symtab, flag, data) ==
    [notes |-> notes, segs |-> segs, written |-> written, state |-> state,
     dynsym |-> dynsym, symtab |-> symtab, data |-> data,
     progs |-> IF flag THEN <<[type |-> "relro", exec |-> FALSE], [type |-> "stack", exec |-> FALSE]>>
               ELSE <<[type |-> "stack", exec |-> TRUE]>>,
     now |-> flag, dyn |-> flag, rpath |-> IF flag THEN "lib" ELSE "", runpath |-> ""]

Note(owner, osize, type, desc) ==
    [osize |-> osize, owner |-> owner, type |-> type, dsize |-> 4 * Len(desc), desc |-> desc]
SomeNotes == {Note(<<GNU>>, 4, 3, <<1, 2>>), Note(<<GNU>>, 3, 3, <<5>>), Note(<<GNU, 0>>, 5, 3, <<6>>),
              Note(<<GNU, 1>>, 8, 3, <<8>>), Note(<<GNU>>, 4, 1, <<9, 9>>), Note(<<>>, 0, 3, <<3>>)}

\* Files with every list of at most two notes, whole or cut at every word, in a
\* section or in a segment only; with two lists of at most one; and with every
\* section of four words.
Is(whole) == IF whole THEN "whole" ELSE "cut"
OneList(w) ==
    LET e == Encoded(w) IN
    UNION {{File(<<SubSeq(e, 1, k)>>, <<>>, <<w>>, Is(k = Len(e)), <<>>, <<>>, TRUE, <<>>),
            File(<<>>, <<SubSeq(e, 1, k)>>, <<w>>, Is(k = Len(e)), <<>>, <<>>, TRUE, <<>>)}
           : k \in 0 .. Len(e)}
TwoLists(v, w) ==
    LET d == Encoded(v)   e == Encoded(w) IN
    {File(<<SubSeq(d, 1, j)>>, <<SubSeq(e, 1, k)>>, <<v, w>>, Is(j = Len(d) /\ k = Len(e)), <<>>, <<>>, TRUE, <<>>)
        : j \in 0 .. Len(d), k \in 0 .. Len(e)}
NoteFiles == UNION {OneList(w) : w \in Upto(SomeNotes, 2)} \cup
             UNION {TwoLists(v, w) : v \in Upto(SomeNotes, 1), w \in Upto(SomeNotes, 1)}
AnyNotes == {File(<<n>>, <<>>, <<>>, "corrupt", <<>>, <<>>, TRUE, <<>>) : n \in [1 .. 4 -> {0, 3, 4, 62, GNU}]}

Sym(n, v) == [name |-> n, value |-> v]
Longer(ns) == FoldLeft(LAMBDA acc, n : acc \o <<Append(n, "a"), Append(n, "b")>>, <<>>, ns)
NamesUpTo3 == LET one == Longer(<<<<>>>>) IN one \o Longer(one) \o Longer(Longer(one))
Fail  == <<"s">>
Named == File(<<>>, <<>>, <<>>, "whole", [k \in 1 .. Len(NamesUpTo3) |-> Sym(NamesUpTo3[k], 3 * k)],
              <<Sym(Fail, 0), Sym(<<"a">>, 9), Sym(<<"c">>, 7), Sym(<<"c">>, 6)>>, TRUE,
              <<[addr |-> 0, offset |-> 0, bytes |-> <<1, 1, 1, 0>>],
                [addr |-> 8, offset |-> 4, bytes |-> <<0, 1, 0, 1, 0>>]>>)

\* Files whose sections are all at their offsets, or all further up.
Loaded(up) == File(<<>>, <<>>, <<>>, "whole", <<>>, <<>>, TRUE,
                   <<[addr |-> 2 + up, offset |-> 2, bytes |-> <<1, 1, 1, 0>>],
                     [addr |-> 7 + up, offset |-> 7, bytes |-> <<0, 1, 0, 1, 0>>]>>)
SomeTables == {<<>>, <<Sym(<<"a">>, 1)>>, <<Sym(<<"a">>, 2), Sym(<<"b">>, 1)>>,
           <<Sym(<<"b">>, 1), Sym(Fail, 3), Sym(<<"b">>, 2)>>}
DiffFiles == {File(<<>>, <<>>, <<>>, "whole", t, u, f, <<>>) : t \in SomeTables, u \in SomeTables, f \in BOOLEAN}

(***************************************************************************)
(* Commands.                                                               *)
(***************************************************************************)
Local(f, ps, ds, s) == [op |-> "local", file |-> f, patterns |-> ps, digits |-> ds, str |-> s]
Locals == {Local(Named, {p}, <<>>, <<>>) : p \in Upto({"a", "*", "?"}, 3)} \cup
          {Local(Named, {<<"a">>, <<"c", "*">>}, <<>>, <<>>), Local(Named, {}, <<>>, <<>>)} \cup
          {Local(Named, {}, d, <<>>) : d \in Upto(0 .. Base - 1, 2)} \cup
          {Local(f, {}, <<>>, s) : f \in {Named, Loaded(0), Loaded(1)}, s \in Upto({0, 1}, 3)} \cup
          {Local(f, {}, <<>>, <<>>) : f \in NoteFiles \cup AnyNotes}
Diffs   == [op : {"diff"}, a : DiffFiles, b : DiffFiles]
Vuln    == [op : {"vuln"}, version : {<<>>, <<2>>, <<2, NaN>>} \cup ({2, 3} \X {0, 5, 19, 20, 31, 99})]
Ids     == {[id |-> "c1", from |-> <<2, 5>>, to |-> <<2, 20>>], [id |-> "c2", from |-> <<2, 19>>, to |-> <<3, 5>>],
            [id |-> "c3", from |-> <<2, 0>>, to |-> <<2, NaN>>]}
Matched == {[n \in {"x"} |-> v] : v \in 0 .. Wide - 1} \cup
           {("x" :> 3) @@ ("y" :> v) : v \in {0, 4}} \cup {("y" :> 3)}
Lookups == [op : {"symbols"}, query : {("x" :> v) : v \in {0, 3, 7, Wide \div 2, Wide - 1}} \cup
                                      {("x" :> 3) @@ ("y" :> 2)},
            matches : {Matched}, tol : 0 .. 2]

Doctor == [op |-> "doctor"]

Everything ==
    {<<NoCommand, Plain, Quick>>} \cup
    {<<c, Plain, Quick>> : c \in Locals \cup Diffs \cup Vuln \cup Lookups} \cup
    {<<Doctor, c, Quick>> : c \in ManyConfigs} \cup
    {<<Doctor, [st |-> "read", pri |-> InOrder, cust |-> <<Lab, Attic>>], r>> : r \in AnyReach}
OnlyContainers == {<<NoCommand, Plain, Quick>>}
=============================================================================
