# TLA+ models of the zipgateway Python tools

This directory holds TLA+ models of the Python sources of the repository
(`src/`). Each model is checked with TLC. The natural-language
specification (`spec.md`) describes the descriptor compiler
(`libzwaveip/xml/generate_c_decoder.py`) and treats the other scripts as
external collaborators. Every module here is translated from the Python
source, and `PROJECT.json` maps each definition to the source lines it
models.

## 1. Inventory

| Component | Source | State it keeps | Operations |
|---|---|---|---|
| Descriptor compiler | `libzwaveip/xml/generate_c_decoder.py` (343 lines) | The parsed XML document (read-only), the position in the top-level loops, and the C text printed to stdout so far | `emit_param`, `emit_bitparm`, `emit_variant_group`, `emit_cmd`, `emit_cmd_class`, `emit_spec_dev_class`, `emit_gen_dev_class`, the two index arrays. Helpers: `dom2unique_name` (name resolver) and `deserialize_domlist` (sub-parameter lists). |
| Kill server | `src/pykillserver.py` (20 lines) | A bound UDP socket (the kernel's receive buffer) | A loop that receives a datagram, compares it with the reboot phrase, and runs `sudo ./kill_ziprouter` blocking, or ignores the datagram |
| NVM map symbol extractor | `systools/zw_nvm_converter/controllerlib_6.xx/maps/extract_structures.py` and `extract_structures2.py` | `symbols` (16-bit offset → name, type, array size), `numbers` (name → value) | Parse each map-file line; refine each symbol's type from `git grep` output; print the table sorted by offset |
| JSON-schema to doxygen generator | `systools/doc/json_schema_to_dox.py` (513 lines) | A tree of `ZwJsonObj` (name, namespace, required, condition, children) and the definitions list | `_parse_definitions`, the recursive `_parse_objects` (including if/then/else), `as_tree`, `as_plantuml` and the link naming of `ZwDocumentationHelper` |

How the components interact: they don't. Each script is a separate batch
process with no shared state. The compiler's input is the XML spec tree,
parsed by `xml.dom.minidom`. Its output is a C file that a separate runtime
decoder reads (out of scope, spec §1). The compiler is single-threaded
(spec §5). Its hard behaviour is about order and reference, not
concurrency. It covers:

* the order declarations are printed in, against the references between
  them (length locations, optional offsets, sub-parameter lists, enum
  tables, forward-declared nested variant groups);
* the scope and arithmetic of reference resolution: a descendant scan
  rather than a sibling scan, Python truthiness of `0`, first match versus
  unique match, and keys compared as text versus as numbers;
* fatal errors part-way through, after output has already been printed;
* sorting by key text.

The kill server is the only component that meets an unreliable
environment. UDP datagrams can be lost, duplicated or delayed, and the
loop blocks in `subprocess.call` while datagrams queue up.

Properties that make each component correct:

* **Compiler:**
  * every address taken is of an identifier already declared (spec §4.6);
  * nothing is defined twice;
  * every forward declaration is completed;
  * nothing of an obsoleted class is emitted (spec §8);
  * references stay within their command (spec §8, scenario 3);
  * the indexes list every live class in ascending numeric key order
    (spec §4.5);
  * length locations resolve as spec §4.2 says;
  * the optional mask slot carries the optional mask;
  * field-enum values are numbered 0, 1, 2, and so on;
  * a fatal error leaves no partial output (spec §7);
  * duplicate command-class keys are a fatal error (spec §4.5, §7).
* **Kill server:**
  * a power cycle only follows a datagram carrying the reboot phrase;
  * every reboot request the socket queues is eventually acted on;
  * how many power cycles one request can cause.
* **Symbol extractor:**
  * the table holds, for each 16-bit offset of the map's public HDATA
    symbols, the last symbol at that offset (so symbols that share an
    offset after masking collapse to one row);
  * the table is sorted by offset;
  * a symbol's type comes from the first source line that declares it.
* **Doc generator:**
  * every schema property appears exactly once in the object tree;
  * link names are unique;
  * each property's condition is the one of the `if` that governs it.

## 2. Plan

1. **`DescriptorCompiler`**, the core, is done in this sitting. It models
   the compiler with one action per `emit_*` call. `MCDescriptorCompiler`
   builds the input documents.
2. **`KillServer`** is done (section 4). It models the UDP network with
   loss, duplication and reordering, the socket's bounded receive buffer,
   and the loop with a blocking kill step, with liveness under weak
   fairness of the loop.
3. **`NvmSymbols`** is done (section 5), for both extract scripts: one
   step per map line, then the grep refinement, then the sorted print.
4. **`SchemaDoc`** is done (section 6). It models the recursive
   `_parse_objects` as a RECURSIVE operator, checks each object's
   condition against a definition read off the schema location, and
   checks link-name uniqueness.
5. **`CFile`** is done (section 3). It is an abstract specification of the
   C file the compiler writes. `DescriptorCompiler` is shown to refine it
   (`INSTANCE CFile WITH file <- out, ending <- Ending`), with the
   abstract `Spec` checked as a PROPERTY of the `emission` run.
6. **`RebootService`** is done (section 4). It is an abstract FIFO
   reboot service with a fair `Cycle`. `KillServer` is shown to refine
   it, liveness included.

## 3. The descriptor compiler model (`DescriptorCompiler.tla`)

**State.**

* `doc` is the parsed document. It is a function from document order
  `1..N` to node records with the fields `tag`, `parent`, `keyText`,
  `obsolete`, `ptype`, `loc`, `lenMask`, `optOffs`, `optMask`, `mask`,
  `len`, `ascii`, `hex` and `arrayAttrib`. It is chosen in `Init` and
  never changes.
* `sched` is `Sched`, the sequence of calls that the top-level loops at
  lines 304-342 make. Those loops iterate over lists built from the
  read-only document, so `sched` is fixed in `Init` along with `doc`.
  Keeping it in a variable spares TLC from rebuilding it on every step.
* `pc` is the position in `sched`.
* `out` is the printed C, one record per declaration: forward
  declaration, definition, or a text line. It starts as `Header`, the
  `#include` lines printed at lines 299-302 before any `emit_*` call.
* `status` is `running`, `done` or `crashed`.

**Abstractions.**

* Names, help texts and comments are dropped, except the `[OBSOLETED]`
  marker.
* Key and `optionaloffs` texts are kept as ASCII-code sequences (without
  the common `0x`), because the code compares them as strings. `Key` is
  `int(text, 16)` (`HexValue`), and `TextLess` is Python's string order.
* The `arrayattrib`, `arraylen`, `bitmask` and `variant` sub-elements are
  folded into the parameter node. The code reads only the first of each.
  `arrayAttrib` records whether an ARRAY has its `arrayattrib` child at
  all.
* `dom2unique_name` is injective on live nodes (it embeds the node
  address), so a node stands for its identifier (`Id`, `EnumId`).

**Actions.** `EmitParam`, `EmitParamNoOptionalMatch` (the `IndexError`
at line 123), `EmitParamUnknownType` (lines 222-224), `EmitParamMissingAttribute`
(the `ValueError` of `int("")` at line 169, for a BITMASK without
`paramoffs`, and the `IndexError` at line 153, for an ARRAY without an
`arrayattrib` child), `EmitVariantGroup`,
`EmitCmd`, `EmitCmdClass`, `EmitSpecDev`, `EmitGenDev`,
`EmitCmdClassIndex` and `EmitDevClassIndex`. Each appends everything its
Python function prints, sub-parameters and enum tables included.

**Runs** (`MCDescriptorCompiler.tla` and the `.cfg` files):

| Run | cfg | Expect | What it shows |
|---|---|---|---|
| emission | MCEmission.cfg | pass | See below. |
| forward_sibling_ref | MCForwardRef.cfg | violation | A length location or `optionaloffs` naming a later sibling takes the address of an undeclared object. |
| maskless_fieldenum | MCMasklessFieldEnum.cfg | violation | A field-enum without `fieldmask` is not emitted but is still referenced (line 192). |
| length_location_scope | MCLengthLocation.cfg | violation | See below. |
| optional_mask_slot | MCOptionalMask.cfg | violation | The optional mask slot gets `length_location_mask` (line 257). |
| fieldenum_index | MCFieldEnum.cfg | violation | All field-enum values get index 0 (line 281). |
| index_key_text_order | MCIndexKeys.cfg | violation | Sorting by key text is not numeric order for `0x9F`/`0x100` or `0xa0`/`0xB0`. |
| fatal_partial_output | MCUnknownType.cfg | violation | An unknown type leaves the `#include` header, earlier declarations and the error text in the output. A BITMASK without `paramoffs`, an ARRAY without `arrayattrib`, or an `optionaloffs` naming no sibling leaves the header and the earlier declarations. |
| duplicate_class_key | MCDuplicateKey.cfg | violation | Two command classes keyed `0x20` and `0x020` are both defined and indexed, and the run completes (`NoDuplicateIdentifier`); spec §4.5 and §7 make it a fatal `DuplicateIdentifier`. |

* **emission** checks 3,841 documents (38,979 states). It shows that
  when references point backwards:
  * the output refines `CFile` (`ImplementsCFile`). Every step only
    appends declarations that take addresses of identifiers declared above
    them. No object is defined twice. The file is complete only when every
    forward-declared nested group has been defined. A fatal error ends it
    with at most the error text;
  * obsoleted classes never appear;
  * references stay inside their command;
  * the indexes are complete and ascending.

  This also holds on the crashing documents, up to the crash.
* **length_location_scope** shows that the code's lookup differs from
  spec §4.2 in three cases: key 0, a key repeated in a nested variant
  group, and a variant group naming a parameter nested inside itself.

**Bounds.** The emission documents have two command classes and two
generic device classes, in reverse key order. The first class's command
has:

* one parameter of each kind that has children (BYTE, STRUCT_BYTE, ENUM,
  CONST) or an unknown type;
* one parameter of a kind with a length location (ARRAY, BITMASK,
  VARIANT, ENUM_ARRAY), whose location is absent, a backward key, its own
  key, or 255, and whose optional offset is absent, matching, or
  textually mismatched;
* a variant group that contains a parameter, whose key either repeats an
  outer key or does not, and a nested variant group.

The second class has a BYTE and a VARIANT whose `optionaloffs` names the
BYTE. The first class may be obsoleted, and its key may sort before or
after the second's. Every branch of `emit_param`'s kind dispatch that has
children, a length location or an optional offset is reached. Every
property involves at most two siblings and one nesting level, which these
documents contain.

**Refinement.** `CFile.tla` is the abstract specification. It does not
mention the XML or the `emit_*` order. Its state is a `file` of
declarations (`what`, `id`, and the referenced identifiers `RefsOf`),
which starts with text lines only (the `#include` header), and
an `ending` that is `open`, `complete` or `aborted`. It has three actions:

* `Write` appends declarations, each valid where it stands;
* `Complete` does the same and ends the file with every forward
  declaration defined;
* `Abort` keeps the file and adds at most an error line.

The mapping in `DescriptorCompiler` is:

* `file <- out`;
* `ending <- Ending`, where `running`, `done` and `crashed` map to `open`,
  `complete` and `aborted`;
* `RefsOf <- Refs`.

Every `emit_*` step is then one `Write`. `EmitDevClassIndex` is
`Complete`, and the three fatal actions are `Abort`. `Abort` keeps what was
written because the script does. Spec §7 asks for no output, and the
`fatal_partial_output` run reports the difference.
`DeclaredBeforeUse` remains as the invariant of the two violation runs
that show a reference to a later sibling.

**Fairness.** None is assumed. The runs check safety only. The script is
a batch job that stops, so deadlock checking is off.

## 4. The kill server model (`KillServer.tla`)

**State.** `sent`, `inflight` and `copies` are the senders and the network:
datagrams `[id, payload]` in flight, and how many copies of each have
reached the socket. `queue` is the kernel receive buffer of the socket
bound at line 10, a FIFO of `BufCap` datagrams. `srv` is the loop: waiting
in `recvfrom` (line 13) or blocked in `subprocess.call` (line 17) for
request `req`. `kills` is a history variable that counts the kill calls
that returned.

**Actions.** The environment does `Send`, `Deliver` (a copy reaches the
socket, and the datagram may stay in flight to be duplicated; a full
buffer drops the copy) and `Lose`. The server does `Receive` (lines
13-19: take the oldest datagram and compare its payload with the reboot
phrase) and `KillReturns` (line 17 returns). `IsReboot` carries the
interpreter version: under Python 3, `recvfrom` returns `bytes`, and that
never equals the `str` literal of line 15.

**Refinement.** `RebootService.tla` states what the server promises,
without UDP or sockets. Its state is `pending`, the sequence of accepted
reboot requests, and `cycles`, the number of power cycles. It has two
actions:

* `Request(i)` appends a request;
* `Cycle` serves the oldest request with one power cycle and is weakly
  fair.

`KillServer` maps onto it:

* `pending <- Pending`: the request whose kill call is running, then the
  reboot datagrams in the socket buffer, oldest first. A datagram counts
  as a request by its payload, not by what line 15 decides;
* `cycles <- kills`.

So a reboot datagram the kernel queues is `Request`, and `KillReturns` is
`Cycle`. Everything else is a stutter:

* `Send` and `Lose`;
* a `Deliver` into a full buffer, or of another payload;
* `Receive`, which moves the oldest request from the buffer into the
  kill call.

`ImplementsRebootService` (`RS!Spec`) therefore checks the following:

* `recvfrom` and the payload test never drop, reorder or invent a
  request;
* every power cycle serves one accepted request (a duplicate datagram is
  a second request);
* every accepted request is eventually served.

**Runs.**

| Run | cfg | Expect | What it shows |
|---|---|---|---|
| kill_server_py2 | MCKillServer.cfg | pass | Under Python 2 the server refines `RebootService` (`ImplementsRebootService`). |

**Bounds.** The py2 run has four datagrams, two payloads (the phrase and
one other), two copies per datagram and a buffer of two (764,557 states,
under a minute). This is enough for:

* a duplicate to cause a second power cycle;
* an ignored payload to sit between two requests;
* two requests to queue behind a running kill call while a fourth is
  dropped by the full buffer.

**Python 3.** Under Python 3, `recvfrom` returns `bytes`, which never
equals the `str` literal of line 15, so the server ignores every request.
`IsReboot` encodes this with `PyMajor`, but no run checks it: a property
checked against that encoding would only restate it. The runs fix
`PyMajor = 2`, the interpreter the script is written for (the debug
line 14 it keeps commented out uses Python 2's `print` statement and
`str.encode('hex')`).

**Fairness.** `Receive` and `KillReturns` are weakly fair. The loop is
`while True`, and `kill_ziprouter` is assumed to return. Senders and the
network get no fairness, because UDP promises nothing. Deadlock checking is
off: once the senders stop, the server waits in `recvfrom` forever, which
is the program's normal idle state.

## 5. The NVM symbol extractor model (`NvmSymbols.tla`)

`extract_structures.py` and `extract_structures2.py` share their first two
loops. They differ in the last loop: the first prints an `nvm_desc_t`
table headed by the two version numbers, and the second prints C
declarations. The variable `script` is set at the start to one of the constant set `Scripts`, so one run checks both scripts.

**State.** `mapFile` and `source` are the inputs, chosen in `Init`. A map
line is a record of what the regexes of lines 13 and 20 capture. A source
line is what `git grep` prints: the identifier the line contains, and
whether the regex of line 33 matches, with the captured type and array
suffix. Names are character sequences, so grep's substring match
(`Grep`) is modelled. The other variables are:

* `li`, the loop position;
* the dicts `symbols` (16-bit offset → name, type, array) and `numbers`;
* `refined`, the keys the refinement loop has handled;
* `out`, the printed lines as records;
* `status`.

**Actions.**

* `ReadLine` (lines 10-24) reads one map line.
* `RefineSymbol(s)` (lines 27-44) handles one dict key, in any order. It
  folds `Refined` over the grep lines, and prints the error when grep
  finds nothing.
* `PrintTable` (lines 47-56) prints the table.
* `PrintTableNoApp` and `PrintTableNoZw` raise `KeyError` after a partial
  header.
* `PrintDeclarations` is `extract_structures2.py` lines 39-43.

**Runs.**

| Run | cfg | Expect | What it shows |
|---|---|---|---|
| nvm_table | MCNvmSymbols.cfg | pass | Whenever either script finishes (1,920 states), its table equals `ExpectedTable`, for every order of the refinement loop. `ExpectedTable` holds, for each 16-bit offset in ascending order, the last symbol at that offset. Each symbol has its map type if it is known, and otherwise the first typed declaration that grep prints. |

**Bounds.** `MCNvmSymbols` has 32 map files and 4 source trees:

* two symbols, `nvmA` and `nvmAB`, where the first name is a substring of
  the second;
* addresses `0x0010` and `0x10010`, which collide after masking;
* known and unknown map types;
* every combination of present and missing version numbers, plus a
  non-matching line;
* source trees with no hit, a single hit, a substring hit ahead of the
  symbol's own declaration, and a use line ahead of an array declaration.

This covers each branch of the refinement and of the print.

Things the model shows but does not flag, because no statement of the
scripts says they are wrong (all are listed as hazards in `PROJECT.json`):

* offset collisions lose a symbol;
* a symbol can take the type of a longer-named variable;
* grep failures print an error line into the generated file;
* a missing version number leaves a truncated file.

## 6. The JSON-schema doc generator model (`SchemaDoc.tla`)

**State.**

* `input` is the schema file. A node is a record of the keywords the
  script reads: `type`, `$ref`, `enum`, `properties` as an ordered
  sequence of `[key, node]`, `required`, `items`, the `if` properties,
  `then` and `else`. The definitions are a list of `[name, kind, entries]`, where
  `entries` are the values of the definition's key/value tables in print
  order: `dict`, `list` or `scalar`, with the `$ref` each holds.
  `KvTableRefs` (lines 105-114) prints a `\ref` only for a dict that
  holds `$ref`; a bare `$ref` string of a `oneOf` alternative prints as
  text.
* `pu` is the `--pu` option.
* `objs` holds the `ZwJsonObj`s in creation order. Each one carries its
  schema location (its identity), namespace, name, required flag,
  condition and parent.
* `out` is the output string, abstracted to its doxygen anchors (headers
  of level 0-4), `\ref` targets and PlantUML `[[links]]`, in order.
* `status` is the phase of `__main__`.

Keys are token sequences such as `<<"a", "_", "b">>`. This keeps the
concatenation of namespaces and the `'/'` → `'_'` replacement of
`get_link` exact.

**Operators and actions.**

* `ParseObjects`/`ParseProps` (lines 400-436) translate the recursion
  directly. The keys come from `properties` or `items.properties`.
  `required` and `if`/`then`/`else` are read from the object itself. A
  branch's objects go to the same parent, and `IfCondition` (lines
  427-431) takes the last `if` property.
* `AsTree`/`AsDocType` (lines 266-345), `DefinitionsAsTree` and
  `Classes` (PlantUML, lines 347-363 and 450-478) compute the output.
* `Load` is the constructor. `LoadBadDefinition` and `LoadMissingItems`
  are its crashes.
* `RenderPlantuml` and `RenderDoc` are `__main__`. `RenderPlantumlCrash`
  and `RenderDocCrash` are the `AttributeError` of untyped array items.
  The file is written only after rendering succeeds.

**Run `schema_doc`** (`MCSchemaDoc.cfg`, pass) checks 192 schemas, each
with and without `--pu` (1,024 states). The schemas vary:

* a child key (`b` or `desc`);
* a top-level key (`b` or `a_b`);
* a then-branch key (fresh, or repeating `a`);
* the array's items (object with properties, `$ref`, untyped, or
  missing);
* whether the then branch holds only an if-less then;
* the definition kind (type, oneOf with a `$ref`, or neither).

The run checks:

* `RefsResolve`: every `\ref` and PlantUML link names an anchor of the
  output;
* `AnchorsUniqueWhenPlain`: anchors are unique when no name contains `_`
  or `/`, none is `desc`/`enum`/`prop` or a page anchor, and no key is
  declared twice for one parent. MCSchemaDoc has schemas on both sides,
  and the others do collide;
* `ConditionIsGoverningIf`: each object's condition equals the one read
  off its schema location (the `if` beside the declaring branch). This
  shows the condition threaded through the recursion is never inherited
  and never lost.

Things the model shows but does not flag, because no statement of the
script says they are wrong (all are listed as hazards):

* anchor collisions;
* `items.required` is ignored;
* `if`/`then`/`else` inside `items` is dropped;
* only the last `if` property is shown;
* an `else` without an `if` gets `NOT ()`;
* the crashes on untyped array items.

## 7. Not modelled (yet)

* The minidom parser and the printing format (layout, names and help
  strings) are left out. No property depends on them.
* Other missing attributes that `int()` parses (`lenmask`, `sizemask`,
  `flagmask` on a BITMASK) raise the same way as the modelled
  `paramoffs` and `arrayattrib` cases. The model gives them values.
* In the doc generator, the text of descriptions, tables, enum values and
  layout is left out, and so are the `link_prepend` prefix (a constant)
  and the PlantUML edges (which use aliases, not anchors).
  `print_definitions` and `_print_obj_str` are never called. The
  discarded `_obj_to_str` call at line 153 has no effect.
  `as_doc_type` and `as_plantuml` read the module-global `schema`
  (lines 441 and 473). They are left as reads of the single instance
  `__main__` creates, which is the only way the script runs.
* In the extractor, the regex text matching and the `printf` layout are
  left out. So is the `[1:-1]` slicing of the array suffix, which
  mangles a two-dimensional suffix such as `[2][3]`.
* The kill server's `sudo ./kill_ziprouter` is an external program. It is
  modelled only as a call that blocks and then returns.
