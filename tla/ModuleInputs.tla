---------------------------- MODULE ModuleInputs ----------------------------
(***************************************************************************)
(* checkModuleInputs (checker/modules.go 87-729): every input a module     *)
(* block passes is compared with the type the child module declares for    *)
(* it.  A child's declarations are read once and cached.  A reference to a *)
(* local value is followed through the other locals, cycles included, as   *)
(* far as its type, its constant value or its structure can be told.       *)
(*                                                                         *)
(* An expression is a record.  A constant scalar carries the types its     *)
(* text converts to ("1" converts to number); "value" is an expression of  *)
(* known type whose value only a run decides, such as a call to join.      *)
(***************************************************************************)
EXTENDS Naturals, Sequences, FiniteSets, FiniteSetsExt

CONSTANTS
  Families,   \* sets of local values, child modules and module blocks to combine
  Checks      \* the codes enabled

ChecksAssumption == Checks \subseteq {"E006", "E007"}
ASSUME ChecksAssumption

VARIABLES
  locals,    \* buildLocalsMap's table, a function from names to expressions
  children,  \* the module directories by source: link or directory, and files
  blocks,    \* the module blocks: source and arguments
  at,        \* the block the loop is at, over the files in order
  cache,     \* parseModuleVarSchemas's cache, from sources to answers
  left,      \* the arguments not looked at yet: a map is walked in any order
  out        \* the violations, as <<code, path>>

vars == <<locals, children, blocks, at, cache, left, out>>

Scalars == {"string", "number", "bool"}
Containers == {"list", "set", "map"}

Report(code, path) == IF code \in Checks THEN {<<code, path>>} ELSE {}

Plain(kind) == [kind |-> kind, elem |-> << >>, fields |-> << >>]

RECURSIVE TypeSchema(_)

\* parseObjectSchema: a key that cannot be told spoils the whole type.
ObjectSchema(args) ==
  IF Len(args) # 1 \/ args[1].t # "fields" THEN Plain("unknown")
  ELSE LET items == args[1].items
           keys == {items[i].key : i \in DOMAIN items}
           Last(key) == items[Max({i \in DOMAIN items : items[i].key = key})]
       IN IF "" \in keys THEN Plain("unknown")
          ELSE [Plain("object") EXCEPT !.fields = [key \in keys |-> TypeSchema(Last(key).type)]]

\* parseTypeSchema: what it does not understand becomes unknown.
TypeSchema(e) ==
  CASE e.t = "wrap" -> TypeSchema(e.of)
    [] e.t = "name" /\ e.name \in Scalars -> Plain(e.name)
    [] e.t = "call" /\ e.name \in Scalars /\ e.args = << >> -> Plain(e.name)
    [] e.t = "call" /\ e.name \in Containers /\ Len(e.args) = 1 ->
         [Plain(e.name) EXCEPT !.elem = <<TypeSchema(e.args[1])>>]
    [] e.t = "call" /\ e.name = "object" -> ObjectSchema(e.args)
    [] e.t = "call" /\ e.name = "optional" /\ Len(e.args) >= 1 -> TypeSchema(e.args[1])
    [] OTHER -> Plain("unknown")

\* The variables the files declare between them, files as buildEffectiveConfig
\* leaves them (module Effective); a declaration without a type has type "none".
Declarations(files) == UNION {{<<n, files[i].vars[n]>> : n \in DOMAIN files[i].vars} :
                                i \in DOMAIN files}
SchemasOf(files) ==
  LET Declaring(n) == {i \in DOMAIN files : n \in DOMAIN files[i].vars}
  IN [n \in {d[1] : d \in Declarations(files)} |-> TypeSchema(files[Max(Declaring(n))].vars[n])]

\* Mutant: a file that does not parse is passed over.
ReadableSchemas(child) ==
  IF child.link THEN {} ELSE {SchemasOf(SelectSeq(child.files, LAMBDA f : f.parses))}

\* parseModuleVarSchemas: nothing, or one table.
ModuleSchemas(child) ==
  IF child.link \/ \E i \in DOMAIN child.files : ~child.files[i].parses
  THEN {} ELSE {SchemasOf(child.files)}

RECURSIVE Unwrap(_), InferType(_)

\* unwrapExpr: "${x}" is x.
Unwrap(e) == IF e.k = "wrap" THEN Unwrap(e.of) ELSE e

\* inferExprType
InferType(e) ==
  CASE e.k = "wrap" -> InferType(e.of)
    [] e.k \in {"const", "value"} -> e.type
    [] e.k \in {"tuple", "object"} -> "object"
    [] OTHER -> "unknown"

\* A reference to a local not met before on this chain.
Follows(e, seen) == e.k = "local" /\ e.name \notin seen /\ e.name \in DOMAIN locals

RECURSIVE ResolveType(_, _), Constant(_, _), StructKind(_, _)

\* resolveExprTypeRecursive
ResolveType(expr, seen) ==
  LET e == Unwrap(expr)
  IN IF InferType(e) # "unknown" THEN InferType(e)
     ELSE IF Follows(e, seen) THEN ResolveType(locals[e.name], seen \cup {e.name})
     ELSE "unknown"

\* resolveConstantScalarValue: the constant, or nothing.
Constant(expr, seen) ==
  LET e == Unwrap(expr)
  IN IF Follows(e, seen) THEN Constant(locals[e.name], seen \cup {e.name})
     ELSE IF e.k = "const" THEN {e} ELSE {}

\* varTypeToSchemaKind
StructKind(expr, seen) ==
  LET e == Unwrap(expr)
  IN CASE e.k = "tuple" -> "list"
       [] e.k = "object" -> "object"
       [] Follows(e, seen) -> StructKind(locals[e.name], seen \cup {e.name})
       [] OTHER -> "unknown"

IsSequence(kind) == kind \in {"list", "set"}

\* Mutant: a string converts to no other type.
ConvertibleStrictly(e, source, target) ==
  source = target \/ (target = "string" /\ source \in {"bool", "number"})

\* scalarTypesCompatible: a string of unknown value may yet convert.
Convertible(e, source, target) ==
  \/ source = target
  \/ target = "string" /\ source \in {"bool", "number"}
  \/ /\ source = "string"
     /\ target \in {"bool", "number"}
     /\ \A c \in Constant(e, {}) : target \in c.converts

\* The leaf of the comparison, once no literal can be taken apart.
Mismatch(e, schema) ==
  LET type == ResolveType(e, {})
      scalar == schema.kind \in Scalars
      kind == StructKind(e, {})
  IN /\ type # "unknown"
     /\ \/ scalar # (type \in Scalars)
        \/ scalar /\ type \in Scalars /\ ~Convertible(e, type, schema.kind)
        \/ ~scalar /\ type \notin Scalars /\ kind # "unknown"
             /\ IsSequence(kind) # IsSequence(schema.kind)

RECURSIVE CompareExpr(_, _, _)

\* Mutant: only the first element of a literal is looked at.
ComparePartsFirst(path, parts, schema) ==
  IF parts = << >> THEN {} ELSE CompareExpr(Append(path, 1), parts[1], schema)

\* The elements of a tuple, or the values of an object taken as a map.
CompareParts(path, parts, schema) ==
  UNION {CompareExpr(Append(path, i), parts[i], schema) : i \in DOMAIN parts}

\* compareObjectToSchema: an item whose key cannot be told has key "".
CompareObject(path, items, fields) ==
  LET Item(it) ==
        CASE it.key = "" -> {}
          [] it.key \notin DOMAIN fields /\ it.key # "" ->
               Report("E007", Append(path, it.key))
          [] OTHER -> CompareExpr(Append(path, it.key), it.val, fields[it.key])
  IN UNION {Item(items[i]) : i \in DOMAIN items}

\* compareExprToSchema
CompareExpr(path, expr, schema) ==
  LET e == Unwrap(expr)
      typedElem == schema.elem # << >> /\ schema.elem[1].kind # "unknown"
  IN CASE schema.kind = "unknown" -> {}
       [] schema.kind = "object" /\ e.k = "object" -> CompareObject(path, e.items, schema.fields)
       [] IsSequence(schema.kind) /\ typedElem /\ e.k = "tuple" ->
            CompareParts(path, e.parts, schema.elem[1])
       [] schema.kind = "map" /\ typedElem /\ e.k = "object" ->
            CompareParts(path, [i \in DOMAIN e.items |-> e.items[i].val], schema.elem[1])
       [] OTHER -> IF Mismatch(expr, schema) THEN Report("E006", path) ELSE {}

MetaArgs == {"source", "version", "count", "for_each", "depends_on", "providers"}

Block == blocks[at]
Loaded == Block.source \in DOMAIN cache
Schemas == CHOOSE s \in cache[Block.source] : TRUE

CheckInput(name) ==
  IF name \in MetaArgs THEN {}
  ELSE IF name \notin DOMAIN Schemas THEN Report("E007", <<at, name>>)
  ELSE IF "E006" \in Checks THEN CompareExpr(<<at, name>>, Block.inputs[name], Schemas[name])
  ELSE {}

Init ==
  /\ \E f \in Families : locals \in f.locals /\ children \in f.children /\ blocks \in f.blocks
  /\ at = 1 /\ cache = << >> /\ left = {} /\ out = {}

\* A source that is not a literal, not local, not there or the caller itself.
SkipBlock ==
  /\ at <= Len(blocks) /\ left = {}
  /\ Block.source \notin DOMAIN children
  /\ at' = at + 1
  /\ UNCHANGED <<locals, children, blocks, cache, left, out>>

\* Look the child up, or parse and remember it, and start on the arguments.
LoadModule ==
  /\ at <= Len(blocks) /\ left = {}
  /\ Block.source \in DOMAIN children
  /\ LET s == Block.source
         answer == IF Loaded THEN cache[s] ELSE ModuleSchemas(children[s])
     IN /\ cache' = [x \in DOMAIN cache \cup {s} |-> IF x = s THEN answer ELSE cache[x]]
        /\ left' = IF answer = {} THEN {} ELSE DOMAIN Block.inputs
        /\ at' = IF left' = {} THEN at + 1 ELSE at
  /\ UNCHANGED <<locals, children, blocks, out>>

Check(name) ==
  /\ out' = out \cup CheckInput(name)
  /\ left' = left \ {name}
  /\ at' = IF left' = {} THEN at + 1 ELSE at
  /\ UNCHANGED <<locals, children, blocks, cache>>

Next == SkipBlock \/ LoadModule \/ \E name \in left : Check(name)

Spec == Init /\ [][Next]_vars

(***************************************************************************)
(* What Terraform would make of an input: its value, with every local      *)
(* replaced by its definition, and whether that value converts.  What a    *)
(* broken type expression says nothing of is taken to accept everything.   *)
(***************************************************************************)
Unknown == [k |-> "opaque"]

RECURSIVE Value(_, _), Accepts(_, _), IsLiteral(_)

Value(e, seen) ==
  CASE e.k = "wrap" -> Value(e.of, seen)
    [] e.k = "tuple" -> [e EXCEPT !.parts = [i \in DOMAIN e.parts |-> Value(e.parts[i], seen)]]
    [] e.k = "object" ->
         [e EXCEPT !.items = [i \in DOMAIN e.items |->
                                [key |-> e.items[i].key, val |-> Value(e.items[i].val, seen)]]]
    [] e.k = "local" -> IF e.name \in seen \/ e.name \notin DOMAIN locals THEN Unknown
                        ELSE Value(locals[e.name], seen \cup {e.name})
    [] OTHER -> e

ScalarAccepts(type, v) ==
  \/ v.k \in {"const", "value"} /\ v.type \in Scalars /\ type \in {v.type, "string"}
  \/ v.k = "value" /\ v.type = "string"
  \/ v.k = "const" /\ type \in v.converts

Accepts(type, v) ==
  \/ v.k = "opaque" \/ type.t \notin {"wrap", "name", "call"}
  \/ type.t = "wrap" /\ Accepts(type.of, v)
  \/ type.t = "name" /\ (type.name \in Scalars => ScalarAccepts(type.name, v))
  \/ /\ type.t = "call"
     /\ CASE type.name \in Scalars -> type.args # << >> \/ ScalarAccepts(type.name, v)
          [] type.name \in Containers ->
               \/ Len(type.args) # 1
               \/ v.k = "value" /\ v.type = "object"
               \/ /\ type.name # "map" /\ v.k = "tuple"
                  /\ \A i \in DOMAIN v.parts : Accepts(type.args[1], v.parts[i])
               \/ /\ type.name = "map" /\ v.k = "object"
                  /\ \A i \in DOMAIN v.items : Accepts(type.args[1], v.items[i].val)
          [] type.name = "object" ->
               \/ Len(type.args) # 1
               \/ type.args[1].t # "fields"
               \/ v.k = "value" /\ v.type = "object"
               \/ \E i \in DOMAIN type.args[1].items : type.args[1].items[i].key = ""
               \/ /\ v.k = "object"
                  /\ \A i \in DOMAIN v.items, j \in DOMAIN type.args[1].items :
                       v.items[i].key = type.args[1].items[j].key
                         => Accepts(type.args[1].items[j].type, v.items[i].val)
          [] type.name = "optional" -> type.args = << >> \/ Accepts(type.args[1], v)
          [] OTHER -> TRUE

IsLiteral(e) ==
  CASE e.k = "tuple" -> \A i \in DOMAIN e.parts : IsLiteral(e.parts[i])
    [] e.k = "object" -> \A i \in DOMAIN e.items : IsLiteral(e.items[i].val)
    [] e.k = "wrap" -> IsLiteral(e.of)
    [] OTHER -> e.k = "const"

\* The type every declaration of the child gives an argument, broken files included.
Types(k, name) == {d[2] : d \in {x \in Declarations(children[blocks[k].source].files) : x[1] = name}}

\* The arguments of the blocks dealt with, for children that can be read.
Checked ==
  {<<k, n>> \in UNION {{<<k, n>> : n \in DOMAIN blocks[k].inputs} : k \in 1..(at - 1)} :
     /\ n \notin MetaArgs
     /\ blocks[k].source \in DOMAIN children
     /\ ~children[blocks[k].source].link
     /\ \A i \in DOMAIN children[blocks[k].source].files : children[blocks[k].source].files[i].parses}
Input(c) == blocks[c[1]].inputs[c[2]]
Reported(code, c) == \E v \in out : v[1] = code /\ SubSeq(v[2], 1, 2) = c
MayConvert(c) == \A t \in Types(c[1], c[2]) : Accepts(t, Value(Input(c), {}))

\* An input E006 is reported in cannot be converted to its declared type,
\* whatever a run makes of the unknown values; following locals through a cycle
\* proves nothing, and neither does a broken type expression.
E006Sound ==
  \A v \in out : v[1] = "E006" => ~MayConvert(SubSeq(v[2], 1, 2))

\* No file of the child declares an input E007 names, not even a broken one.
E007Sound ==
  \A v \in out : v[1] = "E007" /\ Len(v[2]) = 2 => Types(v[2][1], v[2][2]) = {}

\* Neither code is ever reported where Terraform would accept the input: callers
\* must not derive them from a partial schema, a cycle of locals, a value only a
\* run knows or a type that is itself broken (the comments of
\* parseModuleVarSchemas, scalarTypesCompatible and parseTypeSchema).
NoFalseAlarm == E006Sound /\ E007Sound

\* A literal that cannot be converted is reported, however deep it fails, in
\* every block that passes it, whether its child was parsed or found in the cache.
LiteralsCaught ==
  "E006" \in Checks =>
    \A c \in Checked : IsLiteral(Input(c)) /\ ~MayConvert(c) => Reported("E006", c)
=============================================================================
