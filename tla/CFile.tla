-------------------------------- MODULE CFile --------------------------------
(***************************************************************************)
(* The C file the descriptor compiler writes, independent of the XML and  *)
(* of emit_* order: the file only grows; every declaration appended takes *)
(* the address only of identifiers already declared, forward or in full,  *)
(* or of itself (spec 4.6); no identifier is defined twice; and the file  *)
(* ends either complete, with every forward declaration defined, or       *)
(* aborted, keeping what was written plus at most an error line.  (Spec 7 *)
(* asks for no output on a fatal error; Abort states what the script      *)
(* does instead, which the fatal_partial_output run reports.)             *)
(*                                                                         *)
(* A declaration is a record with fields what ("fwd", "def" or "text")    *)
(* and id; RefsOf(d) is the set of identifiers whose address it takes.   *)
(***************************************************************************)
EXTENDS Integers, Sequences, SequencesExt

CONSTANT RefsOf(_)

VARIABLES file, ending

Declared(f) == {f[i].id : i \in {j \in DOMAIN f : f[j].what \in {"fwd", "def"}}}
Defined(f) == {f[i].id : i \in {j \in DOMAIN f : f[j].what = "def"}}

\* d may follow the declarations f in a C translation unit.
CanAppend(f, d) ==
    /\ d.what \in {"fwd", "def"}
    /\ RefsOf(d) \subseteq Declared(f) \cup {d.id}
    /\ d.what = "def" => d.id \notin Defined(f)

\* file' is file followed by declarations each valid where it stands.
Grows ==
    /\ IsPrefix(file, file')
    /\ \A i \in (Len(file) + 1)..Len(file') : CanAppend(SubSeq(file', 1, i - 1), file'[i])

\* Before any declaration the file may hold lines that declare nothing
\* (the #include lines).
Init == ending = "open" /\ \A i \in DOMAIN file : file[i].what = "text"

Write == ending = "open" /\ Grows /\ Len(file') > Len(file) /\ ending' = "open"

\* The last declarations and the end of the file, every forward
\* declaration now defined.
Complete ==
    /\ ending = "open"
    /\ Grows
    /\ Declared(file') \subseteq Defined(file')
    /\ ending' = "complete"

\* A fatal error: the file keeps what was written, plus the error text.
Abort ==
    /\ ending = "open"
    /\ \/ file' = file
       \/ /\ Len(file') = Len(file) + 1
          /\ IsPrefix(file, file')
          /\ file'[Len(file')].what = "text"
    /\ ending' = "aborted"

Spec == Init /\ [][Write \/ Complete \/ Abort]_<<file, ending>>
=============================================================================
