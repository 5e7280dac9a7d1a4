------------------------- MODULE DescriptorCompiler -------------------------
(***************************************************************************)
(* The descriptor compiler of libzwaveip/xml/generate_c_decoder.py.        *)
(*                                                                         *)
(* The script walks the command-class XML document and prints one C       *)
(* declaration per descriptor to stdout.  The document is a constant of   *)
(* a behaviour (chosen in Init from the set Docs); the state is the       *)
(* position of the top-level loop (pc over the call schedule sched), the  *)
(* text printed so far (out, one record per C declaration) and whether    *)
(* the process is still running, has finished or has died.                *)
(*                                                                         *)
(* A document is a function from 1..N (document order) to node records;   *)
(* parent = 0 is the document root.  Attribute texts that the code        *)
(* compares as strings (key, optionaloffs) are kept as sequences of ASCII *)
(* codes of their hex digits, without the common "0x" prefix; integer     *)
(* attributes the code only parses (masks, offsets, lengths) are kept as  *)
(* their values.  Names, help texts and comments are left out, except     *)
(* the "[OBSOLETED]" comment, kept as the flag obsolete.                  *)
(***************************************************************************)
EXTENDS Integers, Sequences, SequencesExt, FiniteSets, TLC

CONSTANTS
    Docs,       \* the input documents a run enumerates
    NoAttr      \* an absent attribute (Python None / hasAttribute false)

VARIABLES doc, sched, pc, out, status

vars == <<doc, sched, pc, out, status>>

Nodes == DOMAIN doc

\* The nodes in document order.
DocOrder == [m \in Nodes |-> m]

-----------------------------------------------------------------------------
(* Conversions and DOM queries.                                            *)

\* int(text, 16) of a text of hex digits (ASCII codes).
HexDigit(c) == IF c <= 57 THEN c - 48 ELSE IF c <= 70 THEN c - 55 ELSE c - 87
HexValue(text) == FoldLeft(LAMBDA acc, c : 16 * acc + HexDigit(c), 0, text)

\* Python's str < : lexicographic order of code points.
RECURSIVE TextLess(_, _)
TextLess(s, t) ==
    IF s = <<>> THEN t # <<>>
    ELSE IF t = <<>> THEN FALSE
    ELSE IF Head(s) # Head(t) THEN Head(s) < Head(t)
    ELSE TextLess(Tail(s), Tail(t))

Key(n) == HexValue(doc[n].keyText)

RECURSIVE IsBelow(_, _)
IsBelow(m, n) ==
    \/ doc[m].parent = n
    \/ doc[m].parent # 0 /\ IsBelow(doc[m].parent, n)

\* n.getElementsByTagName(t): the descendants of n tagged t, document order.
ElementsByTag(n, t) ==
    SelectSeq(DocOrder, LAMBDA m : doc[m].tag = t /\ IsBelow(m, n))

\* The element children of n tagged with one of ts, document order.
ChildrenByTag(n, ts) ==
    SelectSeq(DocOrder, LAMBDA m : doc[m].tag \in ts /\ doc[m].parent = n)

-----------------------------------------------------------------------------
(* Identifiers.  dom2unique_name is injective on the live DOM nodes (it    *)
(* embeds the node's address), so a node stands for its name.              *)

Id(n)     == <<n, "struct">>     \* dom2unique_name(n)
EnumId(n) == <<n, "enum">>       \* dom2unique_name(n) + "_enum"
Null      == <<0, "null">>       \* the literal 0
CCIndexId  == <<0, "zw_cmd_classes">>
DevIndexId == <<0, "zw_dev_classes">>

\* deserialize_domlist(n, ts)
DomList(n, ts) == [i \in DOMAIN ChildrenByTag(n, ts) |-> Id(ChildrenByTag(n, ts)[i])]

\* One printed C declaration.  what: "fwd" (static struct zw_parameter x;),
\* "def" (a definition) or "text" (a line that is no declaration).
NoDecl == [what |-> "def", sym |-> "param", id |-> Null, key |-> 0,
           length |-> 0, lenLoc |-> Null, lenMask |-> 0, mask |-> 0,
           display |-> "DECIMAL", optOffs |-> Null, optMask |-> 0,
           enums |-> Null, subparams |-> <<>>, entries |-> <<>>]
Decl(r) == r @@ NoDecl

\* The identifiers a declaration takes the address of.
Refs(d) == ({d.lenLoc, d.optOffs, d.enums} \cup Range(d.subparams)) \ {Null}

-----------------------------------------------------------------------------
(* The call schedule of the top-level loops (lines 304-342).               *)

Call(op, n) == [op |-> op, node |-> n]
Calls(op, s) == [i \in DOMAIN s |-> Call(op, s[i])]

\* Mutant: only the variant groups directly under the command are emitted.
CmdCallsTopGroups(cmd) ==
    Calls("param", ElementsByTag(cmd, "param"))
    \o Calls("variant_group", ChildrenByTag(cmd, {"variant_group"}))
    \o <<Call("cmd", cmd)>>

CmdCalls(cmd) ==
    Calls("param", ElementsByTag(cmd, "param"))
    \o Calls("variant_group", ElementsByTag(cmd, "variant_group"))
    \o <<Call("cmd", cmd)>>

\* Mutant: the [OBSOLETED] test of line 305 is dropped.
CmdClassCallsAll(cc) ==
    FlattenSeq([i \in DOMAIN ElementsByTag(cc, "cmd") |->
                   CmdCalls(ElementsByTag(cc, "cmd")[i])])
    \o <<Call("cmd_class", cc)>>

CmdClassCalls(cc) ==
    IF doc[cc].obsolete THEN <<>>
    ELSE FlattenSeq([i \in DOMAIN ElementsByTag(cc, "cmd") |->
                        CmdCalls(ElementsByTag(cc, "cmd")[i])])
         \o <<Call("cmd_class", cc)>>

Sched ==
    FlattenSeq([i \in DOMAIN ElementsByTag(0, "cmd_class") |->
                   CmdClassCalls(ElementsByTag(0, "cmd_class")[i])])
    \o Calls("spec_dev", ElementsByTag(0, "spec_dev"))
    \o Calls("gen_dev", ElementsByTag(0, "gen_dev"))
    \o <<Call("cc_index", 0), Call("dev_index", 0)>>

\* Mutant: the list is left in document order.
SortedByDocOrder(s) == s

\* Python's stable sorted(..., key=getAttribute("key")): by key text,
\* ties in document order.
SortedByKeyText(s) ==
    SortSeq(s, LAMBDA a, b : \/ TextLess(doc[a].keyText, doc[b].keyText)
                             \/ doc[a].keyText = doc[b].keyText /\ a < b)
-----------------------------------------------------------------------------
(* emit_bitparm (lines 260-296): a bit-field, bit-flag or field-enum      *)
(* sub-parameter, preceded by the value table of a field-enum.  A         *)
(* field-enum without fieldmask prints nothing.  The value table numbers  *)
(* its entries with n, which the loop never increments (n + 1).           *)

BitParm(c) ==
    CASE doc[c].tag = "fieldenum" /\ doc[c].mask = NoAttr -> <<>>
      [] doc[c].tag = "fieldenum" ->
           << Decl([sym |-> "enum", id |-> EnumId(c),
                    entries |-> [i \in DOMAIN ElementsByTag(c, "fieldenum") |->
                                   [label |-> ElementsByTag(c, "fieldenum")[i],
                                    value |-> 0]]]),
              Decl([id |-> Id(c), mask |-> doc[c].mask, display |-> "ENUM",
                    enums |-> EnumId(c)]) >>
      [] OTHER ->
           << Decl([id |-> Id(c), mask |-> doc[c].mask, display |-> "HEX"]) >>

BitParms(s) == FlattenSeq([i \in DOMAIN s |-> BitParm(s[i])])

-----------------------------------------------------------------------------
(* emit_param (lines 116-257), one operator per attribute it computes.    *)

Kinds == {"BYTE", "WORD", "DWORD", "BIT_24", "ARRAY", "BITMASK",
          "STRUCT_BYTE", "ENUM", "ENUM_ARRAY", "MULTI_ARRAY", "CONST",
          "VARIANT", "MARKER"}

\* Lines 120-125: the params below the parent whose key TEXT equals the
\* optionaloffs text; offs[0] raises IndexError when there is none.
OptOffsMatches(n) ==
    SelectSeq(ElementsByTag(doc[n].parent, "param"),
              LAMBDA m : doc[m].keyText = doc[n].optOffs)

\* Mutant: optionaloffs looked up among all params of the document.
OptOffsRefDocWide(n) ==
    IF doc[n].optOffs = NoAttr THEN Null
    ELSE Id(Head(SelectSeq(ElementsByTag(0, "param"),
                           LAMBDA m : doc[m].keyText = doc[n].optOffs)))

OptOffsRef(n) ==
    IF doc[n].optOffs = NoAttr THEN Null ELSE Id(Head(OptOffsMatches(n)))

\* The paramoffs of arraylen (ARRAY), bitmask (BITMASK) or variant
\* (VARIANT), and the mask taken with it.
LenLocAttr(n) ==
    IF doc[n].ptype \in {"ARRAY", "BITMASK", "VARIANT"} THEN doc[n].loc ELSE NoAttr

LenLocMask(n) ==
    CASE doc[n].ptype = "ARRAY" /\ doc[n].loc # NoAttr -> doc[n].lenMask
      [] doc[n].ptype \in {"BITMASK", "VARIANT"}       -> doc[n].lenMask
      [] OTHER                                         -> 0

\* Lines 226-231: "if length_location and length_location != 255" scans
\* every param below the parent, and keeps a unique match only.
LenLocRef(n) ==
    LET loc == LenLocAttr(n)
        offs == {m \in Nodes : doc[m].tag = "param" /\ IsBelow(m, doc[n].parent)
                              /\ Key(m) = loc}
    IN  IF loc \in {NoAttr, 0, 255} \/ Cardinality(offs) # 1 THEN Null
        ELSE Id(CHOOSE m \in offs : TRUE)

ParamLength(n) ==
    CASE doc[n].ptype \in {"BYTE", "STRUCT_BYTE", "ENUM", "MULTI_ARRAY",
                           "CONST", "MARKER"}           -> 1
      [] doc[n].ptype = "WORD"                          -> 2
      [] doc[n].ptype = "BIT_24"                        -> 3
      [] doc[n].ptype = "DWORD"                         -> 4
      [] doc[n].ptype \in {"ENUM_ARRAY", "VARIANT"}     -> 255
      [] doc[n].len = NoAttr                            -> 0
      [] OTHER                                          -> doc[n].len

ParamDisplay(n) ==
    CASE doc[n].ptype = "BYTE" /\ ElementsByTag(n, "bitflag") # <<>> -> "ENUM"
      [] doc[n].ptype \in {"ARRAY", "VARIANT"} /\ doc[n].ascii       -> "ASCII"
      [] doc[n].ptype = "VARIANT" /\ doc[n].hex                      -> "HEX"
      [] doc[n].ptype \in {"BITMASK", "STRUCT_BYTE"}                 -> "STRUCT"
      [] doc[n].ptype \in {"ENUM", "ENUM_ARRAY"}                     -> "ENUM"
      [] doc[n].ptype = "CONST"                           -> "ENUM_EXCLUSIVE"
      [] OTHER                                                       -> "DECIMAL"

\* The entries of the enum table: (flagname, flagmask) of bitflags,
\* (name, key) of enums, (flagname, flagmask) of consts.
EnumEntries(n) ==
    LET Entries(t, Val(_)) ==
            [i \in DOMAIN ElementsByTag(n, t) |->
                [label |-> ElementsByTag(n, t)[i],
                 value |-> Val(ElementsByTag(n, t)[i])]]
    IN  CASE doc[n].ptype = "BYTE"                  -> Entries("bitflag", LAMBDA m : doc[m].mask)
          [] doc[n].ptype \in {"ENUM", "ENUM_ARRAY"} -> Entries("enum", Key)
          [] doc[n].ptype = "CONST"                 -> Entries("const", LAMBDA m : doc[m].mask)
          [] OTHER                                  -> <<>>

\* The bit sub-parameters printed while the type is dispatched.
ParamBitParms(n) ==
    CASE doc[n].ptype = "BITMASK" -> BitParms(ElementsByTag(n, "bitflag"))
      [] doc[n].ptype = "STRUCT_BYTE" ->
           BitParms(ElementsByTag(n, "bitfield")) \o BitParms(ElementsByTag(n, "bitflag"))
           \o BitParms(ElementsByTag(n, "fieldenum"))
      [] OTHER -> <<>>

ParamSubparams(n) ==
    CASE doc[n].ptype = "BITMASK"     -> DomList(n, {"bitflag"})
      [] doc[n].ptype = "STRUCT_BYTE" -> DomList(n, {"bitfield"}) \o DomList(n, {"bitflag"})
                                         \o DomList(n, {"fieldenum"})
      [] OTHER                        -> <<>>

\* Lines 244-257: the optionalmask slot is filled with length_location_mask.
ParamDecl(n) ==
    Decl([id |-> Id(n), length |-> ParamLength(n), lenLoc |-> LenLocRef(n),
          lenMask |-> LenLocMask(n), mask |-> 255, display |-> ParamDisplay(n),
          optOffs |-> OptOffsRef(n), optMask |-> LenLocMask(n),
          enums |-> IF EnumEntries(n) = <<>> THEN Null ELSE EnumId(n),
          subparams |-> ParamSubparams(n)])

ParamOutput(n) ==
    ParamBitParms(n)
    \o (IF EnumEntries(n) = <<>> THEN <<>>
        ELSE << Decl([sym |-> "enum", id |-> EnumId(n), entries |-> EnumEntries(n)]) >>)
    \o << ParamDecl(n) >>

-----------------------------------------------------------------------------
(* emit_variant_group (lines 79-113): forward declarations of the nested  *)
(* variant groups, then the group.  paramOffs is parsed as hex and, unlike *)
(* emit_param, 0 is looked up and the first of several matches is kept.   *)

VGLenLocRef(v) ==
    LET offs == SelectSeq(ElementsByTag(doc[v].parent, "param"),
                          LAMBDA m : Key(m) = doc[v].loc)
    IN  IF doc[v].loc = 255 \/ offs = <<>> THEN Null ELSE Id(Head(offs))

VariantGroupOutput(v) ==
    [i \in DOMAIN ChildrenByTag(v, {"variant_group"}) |->
        Decl([what |-> "fwd", id |-> Id(ChildrenByTag(v, {"variant_group"})[i])])]
    \o << Decl([id |-> Id(v), length |-> 255, lenLoc |-> VGLenLocRef(v),
                lenMask |-> doc[v].lenMask, mask |-> 255, display |-> "STRUCT",
                subparams |-> DomList(v, {"param", "variant_group"})]) >>

-----------------------------------------------------------------------------
(* The process.                                                            *)

\* The loops of lines 304-342 iterate over lists getElementsByTagName
\* builds from the read-only document; sched is the calls they make, in
\* order, fixed with the document.
\* Lines 299-302: the #include lines are printed before any emit_* call.
Header == << Decl([what |-> "text", sym |-> "text"]) >>

Init ==
    /\ doc \in Docs
    /\ sched = Sched
    /\ pc = 1
    /\ out = Header
    /\ status = "running"

Current == sched[pc]

Running(op) == status = "running" /\ Current.op = op

\* One emit_* call, emitting decls, then on to the next call of the loops.
Emit(decls) ==
    /\ out' = out \o decls
    /\ pc' = pc + 1
    /\ UNCHANGED <<doc, sched, status>>

\* Lines 165-169: int(a.getAttribute("paramoffs")) of a bitmask element
\* without paramoffs is int(""), a ValueError.
MissingParamOffs(n) == doc[n].ptype = "BITMASK" /\ doc[n].loc = NoAttr

\* Line 153: getElementsByTagName('arrayattrib')[0] of an ARRAY without
\* an arrayattrib child, an IndexError.
MissingArrayAttrib(n) == doc[n].ptype = "ARRAY" /\ ~doc[n].arrayAttrib

\* emit_param when it returns.
EmitParam ==
    LET n == Current.node IN
    /\ Running("param")
    /\ doc[n].optOffs = NoAttr \/ OptOffsMatches(n) # <<>>
    /\ doc[n].ptype \in Kinds
    /\ ~MissingParamOffs(n) /\ ~MissingArrayAttrib(n)
    /\ Emit(ParamOutput(n))

\* Lines 153 and 169: the error ends the process before this call prints
\* anything (the bitflags of lines 172-173 come after line 169); earlier
\* calls' output stays on stdout.
EmitParamMissingAttribute ==
    LET n == Current.node IN
    /\ Running("param")
    /\ doc[n].optOffs = NoAttr \/ OptOffsMatches(n) # <<>>
    /\ MissingParamOffs(n) \/ MissingArrayAttrib(n)
    /\ status' = "crashed"
    /\ UNCHANGED <<doc, sched, pc, out>>

\* Line 123: offs[0] of an empty list; the IndexError ends the process
\* before this call prints anything.
EmitParamNoOptionalMatch ==
    LET n == Current.node IN
    /\ Running("param")
    /\ doc[n].optOffs # NoAttr /\ OptOffsMatches(n) = <<>>
    /\ status' = "crashed"
    /\ UNCHANGED <<doc, sched, pc, out>>

\* Lines 222-224: "Unknown type" is printed to stdout, then sys.exit(-1).
EmitParamUnknownType ==
    LET n == Current.node IN
    /\ Running("param")
    /\ doc[n].optOffs = NoAttr \/ OptOffsMatches(n) # <<>>
    /\ doc[n].ptype \notin Kinds
    /\ out' = Append(out, Decl([what |-> "text"]))
    /\ status' = "crashed"
    /\ UNCHANGED <<doc, sched, pc>>

EmitVariantGroup ==
    /\ Running("variant_group")
    /\ Emit(VariantGroupOutput(Current.node))

\* emit_cmd (lines 68-76): cmd_mask defaults to 0xFF.
EmitCmd ==
    LET n == Current.node IN
    /\ Running("cmd")
    /\ Emit(<< Decl([sym |-> "cmd", id |-> Id(n), key |-> Key(n),
                     mask |-> IF doc[n].mask = NoAttr THEN 255 ELSE doc[n].mask,
                     subparams |-> DomList(n, {"param", "variant_group"})]) >>)

\* emit_cmd_class (lines 57-65).
EmitCmdClass ==
    LET n == Current.node IN
    /\ Running("cmd_class")
    /\ Emit(<< Decl([sym |-> "cmd_class", id |-> Id(n), key |-> Key(n),
                     subparams |-> DomList(n, {"cmd"})]) >>)

\* emit_spec_dev_class (lines 48-54).
EmitSpecDev ==
    LET n == Current.node IN
    /\ Running("spec_dev")
    /\ Emit(<< Decl([sym |-> "spec_dev", id |-> Id(n), key |-> Key(n)]) >>)

\* emit_gen_dev_class (lines 38-45).
EmitGenDev ==
    LET n == Current.node IN
    /\ Running("gen_dev")
    /\ Emit(<< Decl([sym |-> "gen_dev", id |-> Id(n), key |-> Key(n),
                     subparams |-> DomList(n, {"spec_dev"})]) >>)

\* Lines 326-333: every cmd_class sorted by key text, obsoleted ones skipped.
EmitCmdClassIndex ==
    LET live == SelectSeq(SortedByKeyText(ElementsByTag(0, "cmd_class")),
                          LAMBDA c : ~doc[c].obsolete)
    IN  /\ Running("cc_index")
        /\ Emit(<< Decl([sym |-> "index", id |-> CCIndexId,
                         subparams |-> [i \in DOMAIN live |-> Id(live[i])]]) >>)

\* Lines 336-342: every gen_dev sorted by key text; the script ends.
EmitDevClassIndex ==
    LET gens == SortedByKeyText(ElementsByTag(0, "gen_dev")) IN
    /\ Running("dev_index")
    /\ out' = Append(out, Decl([sym |-> "index", id |-> DevIndexId,
                                subparams |-> [i \in DOMAIN gens |-> Id(gens[i])]]))
    /\ status' = "done"
    /\ UNCHANGED <<doc, sched, pc>>

Next ==
    \/ EmitParam
    \/ EmitParamNoOptionalMatch
    \/ EmitParamUnknownType
    \/ EmitParamMissingAttribute
    \/ EmitVariantGroup
    \/ EmitCmd
    \/ EmitCmdClass
    \/ EmitSpecDev
    \/ EmitGenDev
    \/ EmitCmdClassIndex
    \/ EmitDevClassIndex

Spec == Init /\ [][Next]_vars

-----------------------------------------------------------------------------
(* Properties.                                                             *)

\* The command (or, for device classes, the root) a node lies in.
EnclosingCmd(n) ==
    IF \E c \in Nodes : doc[c].tag = "cmd" /\ IsBelow(n, c)
    THEN CHOOSE c \in Nodes : doc[c].tag = "cmd" /\ IsBelow(n, c)
    ELSE 0

\* A node of an obsoleted command class, or the class itself.
Obsoleted(n) ==
    \E c \in Nodes : doc[c].tag = "cmd_class" /\ doc[c].obsolete
                    /\ (c = n \/ IsBelow(n, c))

\* Declare before use (spec 4.6): every address the generated C takes is
\* of an identifier declared (forward or in full) at or above that line,
\* whatever order the sibling references, nested variant groups and
\* bit sub-parameters of emit_param and emit_variant_group come in.
DeclaredBeforeUse ==
    \A i \in DOMAIN out :
        \A r \in Refs(out[i]) :
            \E j \in 1..i : out[j].id = r /\ out[j].what \in {"fwd", "def"}

\* Spec 8, scenario 4: nothing of a command class commented [OBSOLETED] is
\* declared or referenced anywhere in the output.
ObsoleteNeverEmitted ==
    \A i \in DOMAIN out, n \in Nodes :
        Obsoleted(n) => Id(n) \notin {out[i].id} \cup Refs(out[i])

\* Spec 8, scenario 3: a length-location or optional-offset reference
\* names a parameter of the same command, never of another command.
ReferencesStayInCommand ==
    \A i \in DOMAIN out :
        out[i].sym = "param" /\ out[i].what = "def" =>
            \A r \in {out[i].lenLoc, out[i].optOffs} \ {Null} :
                EnclosingCmd(r[1]) = EnclosingCmd(out[i].id[1])

\* Spec 4.5: when the script ends, the command-class index lists every
\* command class not obsoleted, and both indexes are strictly ascending
\* by numeric key, whatever order the document lists them in.
IndexesOrderedByKey ==
    status = "done" =>
        \A i \in DOMAIN out :
            out[i].sym = "index" =>
                /\ IsSorted([k \in DOMAIN out[i].subparams |->
                                Key(out[i].subparams[k][1])], <)
                /\ out[i].id = CCIndexId =>
                      Range(out[i].subparams) =
                          {Id(c) : c \in {c \in Nodes : doc[c].tag = "cmd_class"
                                                       /\ ~doc[c].obsolete}}

-----------------------------------------------------------------------------
(* Properties stating what the specification (spec.md) says of the code.  *)

\* The reference resolver of spec 4.2: the unique DIRECT sibling with the
\* key, else no reference; 255 or an absent attribute is no reference.
SpecLenLocRef(n) ==
    LET loc  == IF doc[n].tag = "param" THEN LenLocAttr(n) ELSE doc[n].loc
        sibs == {m \in Nodes : doc[m].tag = "param" /\ doc[m].parent = doc[n].parent
                              /\ Key(m) = loc}
    IN  IF loc \in {NoAttr, 255} \/ Cardinality(sibs) # 1 THEN Null
        ELSE Id(CHOOSE m \in sibs : TRUE)

\* Spec 4.2/8: every length-location reference the code emits, of a
\* parameter or of a variant group, is the one the spec's resolver gives.
LengthLocationPerSpec ==
    \A i \in DOMAIN out :
        /\ out[i].what = "def" /\ out[i].sym = "param"
        /\ doc[out[i].id[1]].tag \in {"param", "variant_group"}
        => out[i].lenLoc = SpecLenLocRef(out[i].id[1])

\* Spec 3/6: the optional_mask slot of a parameter carries the mask its
\* optionalmask attribute gives (0 when absent).
OptionalMaskEmitted ==
    \A i \in DOMAIN out :
        /\ out[i].what = "def" /\ out[i].sym = "param"
        /\ doc[out[i].id[1]].tag = "param"
        => out[i].optMask = IF doc[out[i].id[1]].optMask = NoAttr THEN 0
                           ELSE doc[out[i].id[1]].optMask

\* Spec 4.3: the value table of a field-enum numbers its entries 0, 1, 2...
FieldEnumIndicesSequential ==
    \A i \in DOMAIN out :
        out[i].sym = "enum" /\ doc[out[i].id[1]].tag = "fieldenum" =>
            \A k \in DOMAIN out[i].entries : out[i].entries[k].value = k - 1

\* Spec 4.3/7: a fatal error leaves no partial output.  out is everything
\* printed to stdout, the #include header first, so a crash at any call
\* of emit_param leaves out non-empty.
NoOutputOnFatal == status = "crashed" => out = <<>>

\* Spec 4.5/7: two command classes with the same numeric key are a fatal
\* DuplicateIdentifier, so a run that completes (lines 304-331 emit every
\* non-obsoleted cmd_class and index it) never declares two of them with
\* one key.
NoDuplicateIdentifier ==
    status = "done" =>
        \A i, j \in DOMAIN out :
            /\ i # j
            /\ out[i].sym = "cmd_class" /\ out[i].what = "def"
            /\ out[j].sym = "cmd_class" /\ out[j].what = "def"
            => out[i].key # out[j].key

-----------------------------------------------------------------------------
(* Refinement: the compiler writes a C file as CFile describes.           *)

Ending == CASE status = "running" -> "open"
            [] status = "done" -> "complete"
            [] OTHER -> "aborted"

CF == INSTANCE CFile WITH file <- out, ending <- Ending, RefsOf <- Refs

\* Spec 4.6: every emit_* call appends declarations that take the
\* address only of what is declared above them (or of themselves), no
\* descriptor is defined twice, the file ends complete only with every
\* forward-declared variant group defined, and a fatal error ends it
\* with at most the error text: the compiler's output is a CFile.
ImplementsCFile == CF!Spec
=============================================================================
