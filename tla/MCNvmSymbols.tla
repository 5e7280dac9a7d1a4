-------------------------- MODULE MCNvmSymbols ------------------------------
(***************************************************************************)
(* Map files and source trees for NvmSymbols.  Two symbol names, one a    *)
(* prefix of the other, so that `git grep` of the shorter also hits the   *)
(* declaration of the longer.                                             *)
(***************************************************************************)
EXTENDS NvmSymbols

nvmA == <<"n", "A">>
nvmAB == <<"n", "A", "B">>

\* Map file lines (the regexes of lines 13 and 20, or neither).
Hdata(a, t, n) == [kind |-> "hdata", addr |-> a, dtype |-> t, name |-> n]
Number(n, v) == [kind |-> "number", addr |-> v, dtype |-> Unknown, name |-> n]
OtherLine == [kind |-> "other", addr |-> 0, dtype |-> Unknown, name |-> <<>>]

\* Source lines: a `far` declaration (regex of line 33) or another line.
Decl(t, n, arr) == [decl |-> TRUE, text |-> n, dtype |-> t, arr |-> arr]
Use(n) == [decl |-> FALSE, text |-> n, dtype |-> Unknown, arr |-> ""]

\* 65552 = 0x10010 has the same 16-bit offset as 16 = 0x0010.
MCMapFiles ==
    { << Hdata(a1, t1, nvmA) >> \o nums \o << Hdata(a2, Unknown, nvmAB) >> :
        a1 \in {16, 65552}, t1 \in {Unknown, "T1"}, a2 \in {16, 32},
        nums \in { <<>>, << Number(AppVersion, 1) >>,
                   << Number(AppVersion, 65537), Number(ZwVersion, 2) >>,
                   << Number(ZwVersion, 2), OtherLine >> } }

MCSources ==
    { <<>>,
      << Decl("T1", nvmA, "") >>,
      << Decl("T2", nvmAB, "[4]"), Decl("T1", nvmA, "") >>,
      << Use(nvmA), Decl("T3", nvmA, "[2]"), Decl("T2", nvmAB, "") >> }
=============================================================================
