------------------------------ MODULE SchemaDoc ------------------------------
(***************************************************************************)
(* src/systools/doc/json_schema_to_dox.py: read a JSON schema, build the   *)
(* tree of ZwJsonObj from its properties (recursively, through array      *)
(* items and if/then/else), and print doxygen pages, optionally preceded  *)
(* by a PlantUML class diagram.                                           *)
(*                                                                         *)
(* A schema node is a record of the keywords the script reads: type,      *)
(* $ref, enum, properties (an ordered sequence of [key, node]), required,  *)
(* items, if (its properties) / then / else; an absent optional child is  *)
(* <<>>.  Keys and definition names are sequences of tokens, "/" and "_"   *)
(* among them, because link names are built by concatenation and          *)
(* str.replace.  The output is abstracted to the doxygen anchors          *)
(* (\page .. \paragraph headers), the \ref references and the PlantUML    *)
(* [[links]] it contains, in order; text, tables and layout are left out. *)
(***************************************************************************)
EXTENDS Integers, Sequences, SequencesExt, FiniteSets

CONSTANTS
    Inputs      \* the schema files: [root |-> node, defs |-> definitions]

VARIABLES
    input,      \* the parsed schema file (read-only)
    pu,         \* the --pu option
    objs,       \* every ZwJsonObj created, in creation order
    out,        \* the output string, as anchors, refs and links
    status      \* "start", "plantuml", "doc", "done" or "crashed"

vars == <<input, pu, objs, out, status>>

\* Mutant: the '/' of namespaces is kept in anchors.
GetLinkNoReplace(l) == l

\* Line 43 (link_prepend, the input file's name, is a common prefix and
\* left out): name.replace('/', '_').
GetLink(l) == ReplaceAll(l, "/", "_")

\* Mutant: an object's link name is its bare name.
GetLinknameNoNamespace(o) == o.name

\* Lines 263-264.
GetLinkname(o) == o.ns \o o.name

\* "definitions_" + name, lines 113, 166, 226, 239.
DefLinkname(name) == <<"definitions", "_">> \o name

\* Line 431: "{} == {}".format(key, value), and line 436: "NOT ({})".
CondText(kv) == kv.key \o <<"==", kv.value>>
NotCond(c) == <<"NOT(">> \o c \o <<")">>

\* Lines 215-229: the type an object reports.
PyType(n) ==
    IF n.enum THEN "enum"
    ELSE IF n.type # "NoType" THEN n.type
    ELSE IF n.ref # <<>> THEN "ref"
    ELSE "None"

\* Line 232: an array without items raises KeyError.
MissingItems(n) == PyType(n) = "array" /\ n.items = <<>>

\* Lines 231-240: items with neither type nor $ref leave array_item_type
\* unset, and get_type_str (lines 243-249) raises AttributeError.
UntypedItems(n) ==
    /\ PyType(n) = "array"
    /\ n.items # <<>>
    /\ n.items[1].type = "NoType"
    /\ n.items[1].ref = <<>>

-----------------------------------------------------------------------------
(* Lines 400-436: _parse_objects.  ParseProps is the loop of lines 414-426 *)
(* from its i-th key; a created object carries its schema location (id),   *)
(* which is the identity of the Python object.                             *)

Step(s, i) == [step |-> s, i |-> i]

\* Mutant: the reset of line 427 is missing, so a then/else under an
\* object without an if inherits the caller's condition.
IfConditionNoReset(objIn, condition) ==
    IF objIn.hasIf /\ objIn.ifProps # <<>> THEN CondText(Last(objIn.ifProps)) ELSE condition

\* Lines 427-431: the condition of the if's LAST property (the loop
\* overwrites it), or "" when there is none.
IfCondition(objIn, condition) ==
    IF objIn.hasIf /\ objIn.ifProps # <<>> THEN CondText(Last(objIn.ifProps)) ELSE <<>>

RECURSIVE ParseObjects(_, _, _, _), ParseProps(_, _, _, _, _, _, _)

\* Lines 400-436.  The keys come from properties, or else from
\* items.properties (line 406), but 'required' (line 416) and if/then/else
\* (lines 428-436) are read from obj_in itself.  A then/else branch adds
\* its objects to the same parent.
ParseObjects(objIn, ptr, parent, condition) ==
    LET src == IF objIn.hasProps THEN [base |-> ptr, props |-> objIn.props]
               ELSE IF objIn.items # <<>> /\ objIn.items[1].hasProps
                    THEN [base |-> ptr \o <<Step("items", 0)>>, props |-> objIn.items[1].props]
                    ELSE [base |-> ptr, props |-> <<>>]
        ns == IF parent = <<>> THEN <<>> ELSE GetLinkname(parent[1]) \o <<"/">>
        pid == IF parent = <<>> THEN <<>> ELSE <<parent[1].id>>
        cond == IfCondition(objIn, condition)
    IN ParseProps(src.props, objIn.required, src.base, 1, ns, pid, condition)
       \o (IF objIn.ifThen = <<>> THEN <<>>
           ELSE ParseObjects(objIn.ifThen[1], ptr \o <<Step("then", 0)>>, parent, cond))
       \o (IF objIn.ifElse = <<>> THEN <<>>
           ELSE ParseObjects(objIn.ifElse[1], ptr \o <<Step("else", 0)>>, parent, NotCond(cond)))

\* Lines 414-426: ZwJsonObj(key, namespace, ...), then recursion into it.
ParseProps(props, req, base, i, ns, pid, condition) ==
    IF i > Len(props) THEN <<>>
    ELSE LET id == base \o <<Step("properties", i)>>
             zw == [id |-> id, ns |-> ns, name |-> props[i].key, required |-> props[i].key \in req,
                    condition |-> condition, node |-> props[i].node, parent |-> pid]
         IN <<zw>> \o ParseObjects(props[i].node, id, <<zw>>, <<>>)
                   \o ParseProps(props, req, base, i + 1, ns, pid, condition)

-----------------------------------------------------------------------------
(* Rendering.  Anchor: a header of level 0-4 (lines 49-67); Ref:          *)
(* get_reference (lines 69-70); PLink: a PlantUML [[link]] (lines 45-47). *)

Anchor(l) == [kind |-> "anchor", link |-> GetLink(l)]
Ref(l) == [kind |-> "ref", link |-> GetLink(l)]
PLink(l) == [kind |-> "plink", link |-> GetLink(l)]

Children(o) == SelectSeq(objs, LAMBDA c : c.parent = <<o.id>>)
TopLevel == SelectSeq(objs, LAMBDA o : o.parent = <<>>)

\* get_type_str(True), lines 242-254: the \ref of a $ref type, or of the
\* $ref item type of an array (a 'type' in items wins, line 232).
TypeRefs(n) ==
    CASE PyType(n) = "ref" -> << Ref(DefLinkname(n.ref)) >>
      [] PyType(n) = "array" /\ n.items[1].type = "NoType" ->
             << Ref(DefLinkname(n.items[1].ref)) >>
      [] OTHER -> <<>>

\* Lines 266-311 with the property table of lines 313-331.
AsDocType(o) ==
    LET l == GetLinkname(o)
        ch == Children(o)
    IN << Anchor(l), Anchor(l \o <<"/", "desc">>) >>
       \o TypeRefs(o.node)
       \o (IF o.node.enum THEN << Anchor(l \o <<"/", "enum">>) >> ELSE <<>>)
       \o (IF ch = <<>> THEN <<>>
           ELSE << Anchor(l \o <<"/", "prop">>) >>
                \o [i \in DOMAIN ch |-> Ref(GetLinkname(ch[i]))])

RECURSIVE AsTree(_), Trees(_)

\* Mutant: as_tree called with depth 0.
AsTreeShallow(o) == AsDocType(o)

\* Lines 333-345 with depth None: the object, then its subtrees in order.
AsTree(o) == AsDocType(o) \o Trees(Children(o))

Trees(s) == IF s = <<>> THEN <<>> ELSE AsTree(Head(s)) \o Trees(Tail(s))

\* Lines 105-114: of the values in a definition's key/value tables (its
\* own, then those of its oneOf alternatives and properties, lines
\* 136-152), only a dict holding "$ref" prints a \ref, to the last path
\* segment; a $ref string or a list element prints as text.  entries are
\* those values in print order: value "dict", "list" or "scalar", ref the
\* $ref it holds or <<>>.
KvTableRefs(d) ==
    LET r == SelectSeq(d.entries, LAMBDA e : e.value = "dict" /\ e.ref # <<>>)
    IN [j \in DOMAIN r |-> Ref(DefLinkname(r[j].ref))]

\* Lines 158-169 and 182-187: each definition's header, then its tables.
DefinitionsAsTree ==
    FlattenSeq([i \in DOMAIN input.defs |->
        << Anchor(DefLinkname(input.defs[i].name)) >> \o KvTableRefs(input.defs[i])])

\* Lines 438-448.
DocOutput ==
    << Anchor(<<"Definitions">>) >> \o DefinitionsAsTree \o << Anchor(<<"Objects">>) >>
    \o Trees(TopLevel)

\* Lines 453 and 463: only object and array children get a class.
InDiagram(c) == PyType(c.node) \in {"object", "array"}

RECURSIVE Classes(_), ClassesOf(_)

\* Lines 347-363 and 460-465: the class of o, then those of its
\* object/array children.
Classes(o) == << PLink(GetLinkname(o)) >> \o ClassesOf(SelectSeq(Children(o), InDiagram))

ClassesOf(s) == IF s = <<>> THEN <<>> ELSE Classes(Head(s)) \o ClassesOf(Tail(s))

\* The objects as_plantuml visits.
RECURSIVE Visited(_)
Visited(o) == {o} \cup UNION {Visited(c) : c \in Range(SelectSeq(Children(o), InDiagram))}

\* Lines 355 and 358-361: get_type_str(False) of each class and its members.
PlantumlCrashes ==
    \E o \in UNION {Visited(t) : t \in Range(TopLevel)} :
        UntypedItems(o.node) \/ \E c \in Range(Children(o)) : UntypedItems(c.node)

-----------------------------------------------------------------------------

Init ==
    /\ input \in Inputs
    /\ pu \in BOOLEAN
    /\ objs = <<>>
    /\ out = <<>>
    /\ status = "start"

Parsed == ParseObjects(input.root, <<>>, <<>>, <<>>)

\* Lines 368-377 and 383-387: the constructor parses the definitions and
\* then the objects.
Load ==
    /\ status = "start"
    /\ \A i \in DOMAIN input.defs : input.defs[i].kind # "none"
    /\ \A i \in DOMAIN Parsed : ~MissingItems(Parsed[i].node)
    /\ objs' = Parsed
    /\ status' = IF pu THEN "plantuml" ELSE "doc"
    /\ UNCHANGED <<input, pu, out>>

\* Lines 87-92: a definition with neither type nor oneOf.
LoadBadDefinition ==
    /\ status = "start"
    /\ \E i \in DOMAIN input.defs : input.defs[i].kind = "none"
    /\ status' = "crashed"
    /\ UNCHANGED <<input, pu, objs, out>>

\* Line 232 reached from line 420: an array property without items.
LoadMissingItems ==
    /\ status = "start"
    /\ \A i \in DOMAIN input.defs : input.defs[i].kind # "none"
    /\ \E i \in DOMAIN Parsed : MissingItems(Parsed[i].node)
    /\ status' = "crashed"
    /\ UNCHANGED <<input, pu, objs, out>>

\* Lines 503-504 and 467-478.
RenderPlantuml ==
    /\ status = "plantuml"
    /\ ~PlantumlCrashes
    /\ out' = FlattenSeq([i \in DOMAIN TopLevel |-> Classes(TopLevel[i])])
    /\ status' = "doc"
    /\ UNCHANGED <<input, pu, objs>>

RenderPlantumlCrash ==
    /\ status = "plantuml"
    /\ PlantumlCrashes
    /\ status' = "crashed"
    /\ UNCHANGED <<input, pu, objs, out>>

\* Lines 505-512: the doc pages are appended and the whole string written.
RenderDoc ==
    /\ status = "doc"
    /\ \A i \in DOMAIN objs : ~UntypedItems(objs[i].node)
    /\ out' = out \o DocOutput
    /\ status' = "done"
    /\ UNCHANGED <<input, pu, objs>>

\* Line 291: get_type_str of an array whose items are untyped.
RenderDocCrash ==
    /\ status = "doc"
    /\ \E i \in DOMAIN objs : UntypedItems(objs[i].node)
    /\ status' = "crashed"
    /\ UNCHANGED <<input, pu, objs, out>>

Next ==
    \/ Load \/ LoadBadDefinition \/ LoadMissingItems
    \/ RenderPlantuml \/ RenderPlantumlCrash
    \/ RenderDoc \/ RenderDocCrash

Spec == Init /\ [][Next]_vars

-----------------------------------------------------------------------------
(* Properties.                                                             *)

Statuses == {"start", "plantuml", "doc", "done", "crashed"}

\* Every anchor and link is a doxygen label (no '/'), and every object's
\* parent was created before it.
TypeOK ==
    /\ status \in Statuses
    /\ pu \in BOOLEAN
    /\ \A r \in Range(out) : r.kind \in {"anchor", "ref", "plink"} /\ "/" \notin Range(r.link)
    /\ \A i \in DOMAIN objs :
          objs[i].parent = <<>> \/ \E j \in 1..(i - 1) : objs[j].id = objs[i].parent[1]

Links(kinds) == {r.link : r \in {x \in Range(out) : x.kind \in kinds}}

\* Every \ref of the written pages (type references and property tables)
\* and every PlantUML class link names an anchor the pages define: the
\* property tables of as_doc_type link to subtrees as_tree must print.
RefsResolve == status = "done" => Links({"ref", "plink"}) \subseteq Links({"anchor"})

Keys(ps) == [i \in DOMAIN ps |-> ps[i].key]

\* The keys whose objects get n's namespace: its properties (or its items'
\* properties) and those of its then/else branches.
RECURSIVE DeclaredAt(_)
DeclaredAt(n) ==
    (IF n.hasProps THEN Keys(n.props)
     ELSE IF n.items # <<>> /\ n.items[1].hasProps THEN Keys(n.items[1].props) ELSE <<>>)
    \o (IF n.ifThen = <<>> THEN <<>> ELSE DeclaredAt(n.ifThen[1]))
    \o (IF n.ifElse = <<>> THEN <<>> ELSE DeclaredAt(n.ifElse[1]))

RECURSIVE SubNodes(_)
SubNodes(n) ==
    {n} \cup UNION {SubNodes(p.node) : p \in Range(n.props)}
        \cup UNION {SubNodes(c) : c \in Range(n.items) \cup Range(n.ifThen) \cup Range(n.ifElse)}

PlainName(k) == "_" \notin Range(k) /\ "/" \notin Range(k)

\* A schema whose link names cannot meet: no '_' or '/' in names, no key
\* named like a section anchor (desc, enum, prop), no top-level key named
\* like a page anchor, and no key declared twice for one parent (in its
\* properties and a then/else branch).
Plain ==
    /\ \A n \in SubNodes(input.root) :
          /\ IsInjective(DeclaredAt(n))
          /\ \A k \in Range(DeclaredAt(n)) :
                PlainName(k) /\ k \notin {<<"desc">>, <<"enum">>, <<"prop">>}
    /\ \A k \in Range(DeclaredAt(input.root)) :
          k \notin {<<"definitions">>, <<"Definitions">>, <<"Objects">>}
    /\ \A i \in DOMAIN input.defs : PlainName(input.defs[i].name)

\* On a plain schema, namespace + name (lines 263-264, 412) and the
\* '/' -> '_' of get_link give every object section and every definition
\* its own doxygen anchor.
AnchorsUniqueWhenPlain ==
    (status = "done" /\ Plain) =>
        LET a == SelectSeq(out, LAMBDA r : r.kind = "anchor")
        IN IsInjective([i \in DOMAIN a |-> a[i].link])

\* The schema node at location p.
RECURSIVE At(_, _)
At(n, p) ==
    IF p = <<>> THEN n
    ELSE At(CASE Head(p).step = "properties" -> n.props[Head(p).i].node
              [] Head(p).step = "items" -> n.items[1]
              [] Head(p).step = "then" -> n.ifThen[1]
              [] OTHER -> n.ifElse[1],
            Tail(p))

\* The condition read off a property's location: that of the if beside
\* the then (or, negated, the else) branch declaring it, if any.
GoverningCondition(id) ==
    LET p0 == Front(id)
        p == IF p0 # <<>> /\ Last(p0).step = "items" THEN Front(p0) ELSE p0
        owner == At(input.root, Front(p))
        c == IF owner.hasIf /\ owner.ifProps # <<>> THEN CondText(Last(owner.ifProps)) ELSE <<>>
    IN IF p = <<>> \/ Last(p).step \notin {"then", "else"} THEN <<>>
       ELSE IF Last(p).step = "then" THEN c ELSE NotCond(c)

\* The condition _parse_objects threads through its recursion (lines 421,
\* 426-436) is, for every object, the one of the branch that declares it:
\* never inherited from an outer if, never lost through nested calls.
ConditionIsGoverningIf ==
    status \in {"plantuml", "doc", "done"} =>
        \A i \in DOMAIN objs : objs[i].condition = GoverningCondition(objs[i].id)

=============================================================================
