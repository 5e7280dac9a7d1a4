----------------------------- MODULE NvmSymbols -----------------------------
(***************************************************************************)
(* src/systools/zw_nvm_converter/controllerlib_6.xx/maps/                 *)
(* extract_structures.py and extract_structures2.py: read a linker map    *)
(* file, keep the public HDATA symbols by 16-bit offset, refine unknown   *)
(* types from `git grep` over the firmware sources, and print the symbol  *)
(* table sorted by offset.  script = 1 is extract_structures.py (an       *)
(* nvm_desc_t table headed by the version numbers), script = 2 is         *)
(* extract_structures2.py (plain C declarations); it is chosen at the     *)
(* start, from Scripts.                                                    *)
(*                                                                         *)
(* A map line is a record whose kind says which of the two regexes of     *)
(* lines 13 and 20 it matches.  A source line is the text `git grep`       *)
(* prints: `text` is the identifier it contains (names are sequences of   *)
(* characters, so grep's substring match is modelled), and `decl` says    *)
(* whether the regex of line 33 matches it, with the captured type and     *)
(* array suffix.                                                           *)
(***************************************************************************)
EXTENDS Integers, Sequences, SequencesExt, FiniteSets, TLC

CONSTANTS
    Scripts,    \* subset of {1 (extract_structures.py), 2 (extract_structures2.py)}
    MapFiles,   \* the map files the script may be given
    Sources     \* the source trees `git grep` may search

ASSUME Scripts \subseteq {1, 2}

VARIABLES
    script,     \* which of the two scripts runs (read-only)
    mapFile,    \* the map file (read-only)
    source,     \* the source tree (read-only)
    li,         \* the next map line the loop of line 10 reads
    symbols,    \* offset -> [name, dtype, arr], the dict of line 8
    numbers,    \* name -> value, the dict of line 9
    refined,    \* keys the loop of line 27 has handled
    out,        \* what the script printed, one record per line
    status      \* "running", "done", or "crashed" (KeyError)

vars == <<script, mapFile, source, li, symbols, numbers, refined, out, status>>

Unknown == "---"
AppVersion == "_APP_VERSION_"
ZwVersion == "_ZW_VERSION_"

\* Lines 16 and 23: int(text, 16) & 0xffff.
Mask16(a) == a % 65536

\* Lines 29-31: git grep NAME prints every line whose text contains NAME.
Grep(name) == SelectSeq(source, LAMBDA l : name \in SubSeqs(l.text))

\* Mutant: the guard of line 38 is dropped, so every later declaration
\* with another type overwrites the symbol.
RefinedLastWins(sym, l) ==
    IF l.decl /\ l.dtype # sym.dtype
    THEN [sym EXCEPT !.dtype = l.dtype, !.arr = IF l.arr = "" THEN "[1]" ELSE l.arr]
    ELSE sym

\* Lines 33-41: one grep line.  A declaration fills in the type (and the
\* array suffix, "[1]" when it has none) of a symbol whose type is unknown.
Refined(sym, l) ==
    IF l.decl /\ l.dtype # sym.dtype /\ sym.dtype = Unknown
    THEN [sym EXCEPT !.dtype = l.dtype, !.arr = IF l.arr = "" THEN "[1]" ELSE l.arr]
    ELSE sym

Init ==
    /\ script \in Scripts
    /\ mapFile \in MapFiles
    /\ source \in Sources
    /\ li = 1
    /\ symbols = <<>>
    /\ numbers = <<>>
    /\ refined = {}
    /\ out = <<>>
    /\ status = "running"

\* Mutant: the offset is not masked to 16 bits.
ReadLineNoMask ==
    LET l == mapFile[li] IN
    /\ status = "running"
    /\ li <= Len(mapFile)
    /\ symbols' = IF l.kind = "hdata"
                  THEN (l.addr :> [name |-> l.name, dtype |-> l.dtype, arr |-> "[1]"]) @@ symbols
                  ELSE symbols
    /\ numbers' = IF l.kind = "number" /\ script = 1
                  THEN (l.name :> Mask16(l.addr)) @@ numbers
                  ELSE numbers
    /\ li' = li + 1
    /\ UNCHANGED <<script, mapFile, source, refined, out, status>>

\* Lines 10-24: one map line.  An HDATA line replaces whatever symbol had
\* the same 16-bit offset; a NUMBER line (extract_structures.py only)
\* records a value.
ReadLine ==
    LET l == mapFile[li] IN
    /\ status = "running"
    /\ li <= Len(mapFile)
    /\ symbols' = IF l.kind = "hdata"
                  THEN (Mask16(l.addr) :> [name |-> l.name, dtype |-> l.dtype, arr |-> "[1]"])
                         @@ symbols
                  ELSE symbols
    /\ numbers' = IF l.kind = "number" /\ script = 1
                  THEN (l.name :> Mask16(l.addr)) @@ numbers
                  ELSE numbers
    /\ li' = li + 1
    /\ UNCHANGED <<script, mapFile, source, refined, out, status>>

\* Lines 27-44: one key of the dict, in the dict's (unspecified) order.
\* When grep finds nothing it exits with status 1 and line 44 prints the
\* CalledProcessError to stdout, into the generated file.
RefineSymbol(s) ==
    LET hits == Grep(symbols[s].name) IN
    /\ status = "running"
    /\ li > Len(mapFile)
    /\ s \in DOMAIN symbols \ refined
    /\ symbols' = [symbols EXCEPT ![s] = FoldLeft(Refined, @, hits)]
    /\ out' = IF hits = <<>> THEN Append(out, [kind |-> "error", name |-> symbols[s].name])
              ELSE out
    /\ refined' = refined \cup {s}
    /\ UNCHANGED <<script, mapFile, source, li, numbers, status>>

\* The loops of lines 53-55 (file 1) and 39-43 (file 2): sorted(keys).
Table(kind) ==
    LET keys == SetToSortSeq(DOMAIN symbols, <) IN
    [i \in DOMAIN keys |-> [kind |-> kind, off |-> keys[i]] @@ symbols[keys[i]]]

Printing == status = "running" /\ li > Len(mapFile) /\ refined = DOMAIN symbols

\* extract_structures.py lines 47-56: the include, both versions, the table.
PrintTable ==
    /\ script = 1
    /\ Printing
    /\ {AppVersion, ZwVersion} \subseteq DOMAIN numbers
    /\ out' = out \o << [kind |-> "include"], [kind |-> "app", value |-> numbers[AppVersion]],
                        [kind |-> "zw", value |-> numbers[ZwVersion]], [kind |-> "open"] >>
                  \o Table("entry") \o << [kind |-> "close"] >>
    /\ status' = "done"
    /\ UNCHANGED <<script, mapFile, source, li, symbols, numbers, refined>>

\* Lines 47-49: KeyError on a missing _APP_VERSION_ after the include.
PrintTableNoApp ==
    /\ script = 1
    /\ Printing
    /\ AppVersion \notin DOMAIN numbers
    /\ out' = Append(out, [kind |-> "include"])
    /\ status' = "crashed"
    /\ UNCHANGED <<script, mapFile, source, li, symbols, numbers, refined>>

\* Lines 47-50: KeyError on a missing _ZW_VERSION_ after the app version.
PrintTableNoZw ==
    /\ script = 1
    /\ Printing
    /\ AppVersion \in DOMAIN numbers
    /\ ZwVersion \notin DOMAIN numbers
    /\ out' = out \o << [kind |-> "include"], [kind |-> "app", value |-> numbers[AppVersion]] >>
    /\ status' = "crashed"
    /\ UNCHANGED <<script, mapFile, source, li, symbols, numbers, refined>>

\* extract_structures2.py lines 39-43: one declaration per symbol.
PrintDeclarations ==
    /\ script = 2
    /\ Printing
    /\ out' = out \o Table("decl")
    /\ status' = "done"
    /\ UNCHANGED <<script, mapFile, source, li, symbols, numbers, refined>>

Next ==
    \/ ReadLine
    \/ \E s \in DOMAIN symbols : RefineSymbol(s)
    \/ PrintTable
    \/ PrintTableNoApp
    \/ PrintTableNoZw
    \/ PrintDeclarations

Spec == Init /\ [][Next]_vars

-----------------------------------------------------------------------------
(* Properties.                                                             *)

Statuses == {"running", "done", "crashed"}
Row(r) == [off |-> r.off, name |-> r.name, dtype |-> r.dtype, arr |-> r.arr]

TypeOK ==
    /\ li \in 1..(Len(mapFile) + 1)
    /\ DOMAIN symbols \subseteq 0..65535
    /\ refined \subseteq DOMAIN symbols
    /\ \A r \in Range(out) : r.kind \in {"error", "include", "app", "zw", "open", "entry",
                                         "close", "decl"}
    /\ status \in Statuses

\* The last HDATA line of the map at 16-bit offset o.
LastAt(o) == SelectLastInSeq(mapFile, LAMBDA l : l.kind = "hdata" /\ Mask16(l.addr) = o)

\* A map symbol as the sources resolve it: a known type is kept, an
\* unknown one takes the first declaration grep reports for its name.
ResolvedSymbol(m) ==
    LET hits == Grep(m.name)
        k == SelectInSeq(hits, LAMBDA l : l.decl /\ l.dtype # Unknown)
    IN IF m.dtype = Unknown /\ k > 0
       THEN [name |-> m.name, dtype |-> hits[k].dtype,
             arr |-> IF hits[k].arr = "" THEN "[1]" ELSE hits[k].arr]
       ELSE [name |-> m.name, dtype |-> m.dtype, arr |-> "[1]"]

ExpectedTable ==
    LET offs == SetToSortSeq({Mask16(mapFile[i].addr) :
                                i \in {j \in DOMAIN mapFile : mapFile[j].kind = "hdata"}}, <)
    IN [i \in DOMAIN offs |-> [off |-> offs[i]] @@ ResolvedSymbol(mapFile[LastAt(offs[i])])]

\* When either script finishes, its table (lines 53-55, or lines 39-43 of
\* extract_structures2.py) has one row per 16-bit offset of the map's
\* HDATA lines, ascending, naming the last symbol at that offset, with
\* the map's type if known and otherwise the first declaration grep
\* finds: whatever order the dict hands the keys to the refinement loop
\* and whatever later declarations grep prints.
TableMatchesMap ==
    status = "done" =>
        LET rows == SelectSeq(out, LAMBDA r : r.kind \in {"entry", "decl"})
        IN [i \in DOMAIN rows |-> Row(rows[i])] = ExpectedTable
=============================================================================
