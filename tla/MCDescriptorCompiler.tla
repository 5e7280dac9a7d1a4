------------------------ MODULE MCDescriptorCompiler ------------------------
(***************************************************************************)
(* Input documents for DescriptorCompiler.  A document is written as an    *)
(* outline (a sequence of <<depth, node>> in document order) and turned   *)
(* into the parent-linked form the specification reads.                   *)
(***************************************************************************)
EXTENDS DescriptorCompiler

\* ASCII codes of hex key texts ("0x" prefix left out).
T00 == <<48, 48>>   T01 == <<48, 49>>   T02 == <<48, 50>>   T03 == <<48, 51>>
T10 == <<49, 48>>   T20 == <<50, 48>>   T5A == <<53, 65>>   T9F == <<57, 70>>
T1  == <<49>>      T100 == <<49, 48, 48>>   T020 == <<48, 50, 48>>   Ta0 == <<97, 48>>   TB0 == <<66, 48>>

NodeDefaults ==
    [tag |-> "", parent |-> 0, keyText |-> <<>>, obsolete |-> FALSE,
     ptype |-> NoAttr, loc |-> NoAttr, lenMask |-> 0, optOffs |-> NoAttr,
     optMask |-> NoAttr, mask |-> NoAttr, len |-> NoAttr,
     ascii |-> FALSE, hex |-> FALSE, arrayAttrib |-> TRUE]

N(depth, r) == <<depth, r @@ NodeDefaults>>

FromOutline(o) ==
    [i \in DOMAIN o |->
        [o[i][2] EXCEPT !.parent =
            IF o[i][1] = 1 THEN 0
            ELSE Max({j \in 1..(i - 1) : o[j][1] = o[i][1] - 1})]]

\* The children a parameter of type t carries in the XML.
TypeChildren(d, t) ==
    CASE t = "BYTE" ->
           << N(d, [tag |-> "bitflag", mask |-> 1]), N(d, [tag |-> "bitflag", mask |-> 2]) >>
      [] t = "BITMASK" ->
           << N(d, [tag |-> "bitflag", mask |-> 1]), N(d, [tag |-> "bitflag", mask |-> 2]) >>
      [] t = "STRUCT_BYTE" ->
           << N(d, [tag |-> "bitfield", mask |-> 15]), N(d, [tag |-> "bitflag", mask |-> 16]),
              N(d, [tag |-> "fieldenum", mask |-> 224]),
              N(d + 1, [tag |-> "fieldenum"]), N(d + 1, [tag |-> "fieldenum"]) >>
      [] t \in {"ENUM", "ENUM_ARRAY"} ->
           << N(d, [tag |-> "enum", keyText |-> T00]), N(d, [tag |-> "enum", keyText |-> T01]) >>
      [] t = "CONST" -> << N(d, [tag |-> "const", mask |-> 1]) >>
      [] OTHER -> <<>>

Param(d, r) == << N(d, [r EXCEPT !.tag = "param"]) >> \o TypeChildren(d + 1, r.ptype)

\* Two command classes, the first with a command whose parameters cover
\* the kinds with children, length locations, optional offsets and two
\* nested variant groups; two generic device classes out of key order.
EmissionDoc(t1, t2, l2, o2, k3, v1, obs, k1, aa) ==
    FromOutline(
        << N(1, [tag |-> "cmd_class", keyText |-> k1, obsolete |-> obs]),
           N(2, [tag |-> "cmd", keyText |-> T01]) >>
        \o Param(3, [keyText |-> T01, ptype |-> t1] @@ NodeDefaults)
        \o Param(3, [keyText |-> T02, ptype |-> t2, loc |-> l2, lenMask |-> 15,
                     optOffs |-> o2, optMask |-> 3, len |-> 4, arrayAttrib |-> aa] @@ NodeDefaults)
        \o << N(3, [tag |-> "variant_group", loc |-> v1, lenMask |-> 7]),
              N(4, [tag |-> "param", keyText |-> k3, ptype |-> "WORD"]),
              N(4, [tag |-> "variant_group", loc |-> 255]),
              N(5, [tag |-> "param", keyText |-> T01, ptype |-> "MARKER"]),
              N(1, [tag |-> "cmd_class", keyText |-> T5A]),
              N(2, [tag |-> "cmd", keyText |-> T01, mask |-> 15]) >>
        \o Param(3, [keyText |-> T01, ptype |-> "BYTE"] @@ NodeDefaults)
        \o Param(3, [keyText |-> T02, ptype |-> "VARIANT", loc |-> 1, lenMask |-> 15,
                     optOffs |-> T01, optMask |-> 1, hex |-> TRUE] @@ NodeDefaults)
        \o << N(1, [tag |-> "gen_dev", keyText |-> T20]),
              N(2, [tag |-> "spec_dev", keyText |-> T01]),
              N(1, [tag |-> "gen_dev", keyText |-> T10]) >>)


DocsEmission ==
    UNION { { EmissionDoc(t1, t2, l2, o2, k3, v1, obs, k1, TRUE) :
                t1 \in {"BYTE", "STRUCT_BYTE", "ENUM", "CONST", "BOGUS"},
                l2 \in {NoAttr, 1, 2, 255},
                o2 \in {NoAttr, T01, T1},
                k3 \in {T01, T03},
                v1 \in {1, 255},
                obs \in BOOLEAN,
                k1 \in {T20, T9F} } :
            t2 \in {"ARRAY", "BITMASK", "VARIANT", "ENUM_ARRAY"} }
    \cup { EmissionDoc("BYTE", "ARRAY", 1, NoAttr, T01, 1, FALSE, T20, FALSE) }
-----------------------------------------------------------------------------
(* Documents of one command class with one command, given its parameters. *)

CmdDoc(params) ==
    FromOutline(<< N(1, [tag |-> "cmd_class", keyText |-> T20]),
                   N(2, [tag |-> "cmd", keyText |-> T01]) >>
                \o params
                \o << N(1, [tag |-> "gen_dev", keyText |-> T01]) >>)

P(r) == Param(3, r @@ NodeDefaults)

\* A length location or optional offset naming a LATER sibling.
DocsForwardRef ==
    { CmdDoc(P([keyText |-> T01, ptype |-> "ARRAY", loc |-> 2, lenMask |-> 15])
             \o P([keyText |-> T02, ptype |-> "WORD"])),
      CmdDoc(P([keyText |-> T01, ptype |-> "WORD", optOffs |-> T02, optMask |-> 1])
             \o P([keyText |-> T02, ptype |-> "BYTE"])) }

\* A STRUCT_BYTE whose field-enum lacks fieldmask.
DocsMasklessFieldEnum ==
    { CmdDoc(<< N(3, [tag |-> "param", keyText |-> T01, ptype |-> "STRUCT_BYTE"]),
                N(4, [tag |-> "bitfield", mask |-> 15]),
                N(4, [tag |-> "fieldenum"]),
                N(5, [tag |-> "fieldenum"]) >>) }

\* Length locations whose key is 0, or also names a param nested in a
\* variant group, or names only a param nested in a variant group.
DocsLengthLocation ==
    { CmdDoc(P([keyText |-> T00, ptype |-> "WORD"])
             \o P([keyText |-> T01, ptype |-> "ARRAY", loc |-> 0, lenMask |-> 15])),
      CmdDoc(P([keyText |-> T01, ptype |-> "BYTE"])
             \o P([keyText |-> T02, ptype |-> "ARRAY", loc |-> 1, lenMask |-> 15])
             \o << N(3, [tag |-> "variant_group", loc |-> 255]),
                   N(4, [tag |-> "param", keyText |-> T01, ptype |-> "WORD"]) >>),
      CmdDoc(P([keyText |-> T01, ptype |-> "BYTE"])
             \o << N(3, [tag |-> "variant_group", loc |-> 3, lenMask |-> 7]),
                   N(4, [tag |-> "param", keyText |-> T03, ptype |-> "WORD"]) >>) }

\* Parameters carrying both an optional mask and a length-location mask.
DocsOptionalMask ==
    { CmdDoc(P([keyText |-> T01, ptype |-> "BYTE"])
             \o P([keyText |-> T02, ptype |-> lt, loc |-> 1, lenMask |-> 15,
                   optOffs |-> T01, optMask |-> 128])) : lt \in {"ARRAY", "WORD"} }

\* A field-enum with two values.
DocsFieldEnum == { CmdDoc(P([keyText |-> T01, ptype |-> "STRUCT_BYTE"])) }

\* Command classes whose key texts differ in width or in letter case.
TwoClassDoc(k1, k2) ==
    FromOutline(<< N(1, [tag |-> "cmd_class", keyText |-> k1]),
                   N(2, [tag |-> "cmd", keyText |-> T01]),
                   N(1, [tag |-> "cmd_class", keyText |-> k2]),
                   N(2, [tag |-> "cmd", keyText |-> T01]) >>)

DocsIndexKeys == { TwoClassDoc(T9F, T100), TwoClassDoc(Ta0, TB0) }

\* After a valid parameter, one of a type the script does not know, a
\* BITMASK whose bitmask element lacks paramoffs, an ARRAY without an
\* arrayattrib child, or one whose optionaloffs names no sibling key.
DocsFatal ==
    { CmdDoc(P([keyText |-> T01, ptype |-> "BYTE"])
             \o P([keyText |-> T02, ptype |-> t, arrayAttrib |-> FALSE])) :
        t \in {"BOGUS", "BITMASK", "ARRAY"} }
    \cup
    { CmdDoc(P([keyText |-> T01, ptype |-> "BYTE"])
             \o P([keyText |-> T02, ptype |-> "BYTE", optOffs |-> T03, optMask |-> 1])) }

\* Two command classes whose keys 0x20 and 0x020 are one number.
DocsDuplicateKey == { TwoClassDoc(T20, T020) }
=============================================================================
