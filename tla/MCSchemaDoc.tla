---------------------------- MODULE MCSchemaDoc -----------------------------
(***************************************************************************)
(* Schema files for SchemaDoc.  The root object has a property with a     *)
(* child, an array property, and an if on two properties whose then and  *)
(* else branches declare more properties.  The choices vary the names     *)
(* (plain, with '_', named like a section anchor, repeated in a branch),  *)
(* the array's items (object, $ref, untyped, missing), a then branch with *)
(* its own if-less then, and the definitions.                             *)
(***************************************************************************)
EXTENDS SchemaDoc

A == <<"a">>   B == <<"b">>   C == <<"c">>   E == <<"e">>
AUB == <<"a", "_", "b">>
DESC == <<"desc">>

NodeDefaults ==
    [type |-> "NoType", ref |-> <<>>, enum |-> FALSE, hasProps |-> FALSE, props |-> <<>>,
     required |-> {}, items |-> <<>>, hasIf |-> FALSE, ifProps |-> <<>>,
     ifThen |-> <<>>, ifElse |-> <<>>]

KV(k, n) == [key |-> k, node |-> n]
Str == [NodeDefaults EXCEPT !.type = "string"]
EnumStr == [Str EXCEPT !.enum = TRUE]
RefTo(d) == [NodeDefaults EXCEPT !.ref = d]
Props(ps) == [NodeDefaults EXCEPT !.hasProps = TRUE, !.props = ps]
Obj(ps, req) == [Props(ps) EXCEPT !.type = "object", !.required = req]
Arr(items) == [NodeDefaults EXCEPT !.type = "array", !.items = items]

Items(kind) ==
    CASE kind = "object" -> << Obj(<< KV(B, RefTo(B)) >>, {}) >>
      [] kind = "ref" -> << RefTo(B) >>
      [] kind = "untyped" -> << Props(<< KV(C, Str) >>) >>
      [] OTHER -> <<>>

\* The then branch: its own properties, or only an if-less then of its own.
Then(k3, nested) ==
    IF nested THEN [NodeDefaults EXCEPT !.ifThen = << Props(<< KV(k3, Str) >>) >>]
    ELSE Props(<< KV(k3, Str) >>)

Root(kc, k2, k3, items, nested) ==
    [Obj(<< KV(A, Obj(<< KV(kc, Str) >>, {kc})), KV(k2, Arr(Items(items))) >>, {A})
        EXCEPT !.hasIf = TRUE,
               !.ifProps = << [key |-> A, value |-> "1"], [key |-> C, value |-> "2"] >>,
               !.ifThen = << Then(k3, nested) >>,
               !.ifElse = << Props(<< KV(C, EnumStr) >>) >>]

\* A typed definition whose items is {"$ref": ".../b"} and whose enum is a
\* list; a oneOf whose alternative is a bare {"$ref": ".../b"}; one with
\* neither type nor oneOf.
Defs ==
    { << [name |-> B, kind |-> "type",
          entries |-> << [value |-> "scalar", ref |-> <<>>], [value |-> "dict", ref |-> B],
                         [value |-> "list", ref |-> <<>>] >>] >>,
      << [name |-> B, kind |-> "oneOf", entries |-> << [value |-> "scalar", ref |-> B] >>] >>,
      << [name |-> B, kind |-> "none", entries |-> <<>>] >> }

MCInputs ==
    { [root |-> Root(kc, k2, k3, items, nested), defs |-> d] :
        kc \in {B, DESC}, k2 \in {B, AUB}, k3 \in {E, A},
        items \in {"object", "ref", "untyped", "none"}, nested \in BOOLEAN, d \in Defs }
=============================================================================
