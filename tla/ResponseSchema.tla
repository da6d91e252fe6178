--------------------------- MODULE ResponseSchema ---------------------------
(***************************************************************************)
(* operationResponseToJSONSchema, resolveSelections, resolveFieldSchema    *)
(* and handleTransformDirective of packages/sdk/src/graphql/operations.ts: *)
(* the JSON schema of an operation's response, built by a walk of its      *)
(* selection set against the output types, and the "get" transformations  *)
(* that @transform directives record on the way.                           *)
(*                                                                         *)
(* A selection is [kind |-> "field", name, alias, sel, get],               *)
(* [kind |-> "inline", on, sel] or [kind |-> "spread", name]; alias, on and *)
(* get are Absent when not given, and get is WrongKind for a non-string   *)
(* argument or the sequence of the parts of the string split at ".".      *)
(* A response schema is a record of the keys the code sets, with "type" a *)
(* plain string; {} is <<>> and NoSchema is JavaScript's undefined.        *)
(***************************************************************************)
EXTENDS TypeSchema

CONSTANTS
  Objects,     \* object type name -> Seq of [name, type]
  Unions,      \* union type name -> Seq of its member type names
  Fragments,   \* fragment name -> [on, sel]
  RootTypes    \* operation kind -> root type name, for the kinds the schema has

NoSchema == [undefined |-> TRUE]

ObjectSchema == [type |-> "object", properties |-> <<>>, additionalProperties |-> FALSE]

KeyIgnoringAlias(s) == s.name

(* selection.alias !== undefined ? selection.alias.value : name            *)
Key(s) == IF s.alias = Absent THEN s.name ELSE s.alias

(* parentObject.properties![propName] = schema                             *)
SetProp(o, k, s) == [o EXCEPT !.properties = (k :> s) @@ @]

(* parentObject.required.push(propName), or required = [propName]         *)
AddRequired(o, k) ==
  IF "required" \in DOMAIN o THEN [o EXCEPT !.required = Append(@, k)]
                             ELSE o @@ [required |-> <<k>>]

AddRequiredOnceFirstOnly(o, k) == IF "required" \in DOMAIN o THEN o ELSE AddRequired(o, k)

(* [...new Set([...(parent.required || []), propName])]                    *)
AddRequiredOnce(o, k) ==
  IF "required" \in DOMAIN o /\ k \in ToSet(o.required) THEN o ELSE AddRequired(o, k)

(* delete parentObject.required                                            *)
DeleteRequired(o) == [f \in DOMAIN o \ {"required"} |-> o[f]]

(* operationRootTypeName (lines 976-987): '' when the schema lacks it.     *)
operationRootTypeName(kind) == IF kind \in DOMAIN RootTypes THEN RootTypes[kind] ELSE ""

(* Step into an array's items, recording "[]" in outPath (lines 1278-1289). *)
UnwrapItemsSilently(a) == IF "items" \in DOMAIN a.node THEN [a EXCEPT !.node = a.node.items] ELSE a

UnwrapItems(a) ==
  IF "items" \in DOMAIN a.node THEN [a EXCEPT !.out = Append(@, "[]"), !.node = a.node.items] ELSE a

(***************************************************************************)
(* handleTransformDirective (lines 1265-1313).  Walks the field's schema  *)
(* along the get path, unwrapping an array before each part; a part that  *)
(* is not a property leaves undefined, and the next part's .items on it   *)
(* throws a TypeError.  Returns the schema, the transformations and        *)
(* whether an error was thrown.                                            *)
(***************************************************************************)
handleTransformDirective(get, schema, path, tr) ==
  LET Walk(a, elem) ==
        IF a.typeError THEN a
        ELSE IF a.node = NoSchema THEN [a EXCEPT !.typeError = TRUE]
        ELSE IF elem = "[]" /\ "items" \in DOMAIN a.node THEN UnwrapItems(a)
        ELSE LET u == UnwrapItems(a) IN
             IF "properties" \in DOMAIN u.node
               THEN [u EXCEPT !.out = Append(@, elem),
                              !.node = IF elem \in DOMAIN u.node.properties
                                         THEN u.node.properties[elem] ELSE NoSchema]
               ELSE [u EXCEPT !.valid = FALSE]
      w == FoldLeft(Walk, [node |-> schema, out |-> <<>>, valid |-> TRUE, typeError |-> FALSE], get)
  IN  IF get \in {Absent, WrongKind} THEN [s |-> schema, tr |-> tr, err |-> FALSE]
      ELSE IF w.typeError \/ ~w.valid THEN [s |-> schema, tr |-> tr, err |-> TRUE]
      ELSE [s |-> w.node, tr |-> Append(tr, [from |-> path \o w.out, to |-> path]), err |-> FALSE]

RECURSIVE resolveSelections(_, _, _, _, _)
RECURSIVE resolveFieldSchema(_, _, _, _, _, _)

(***************************************************************************)
(* resolveFieldSchema (lines 1144-1263).  A NonNullType marks the field   *)
(* required in the enclosing object; a list's items are resolved with the  *)
(* same parent.  Returns the schema, the updated parent, the               *)
(* transformations and whether an error was thrown.                        *)
(***************************************************************************)
resolveFieldSchema(k, field, t, parent, path, tr) ==
  LET Leaf(s) == [s |-> s, parent |-> parent, tr |-> tr, err |-> FALSE]
      n == t.name
  IN
  CASE t.kind = "nonNull" ->
         IF parent.type = "object"
           THEN resolveFieldSchema(k, field, t.of, AddRequiredOnce(parent, k), path, tr)
         ELSE IF parent.type = "array"
           THEN resolveFieldSchema(k, field, t.of, [parent EXCEPT !.minItems = 1], path, tr)
         ELSE Leaf(<<>>)
    [] t.kind = "list" ->
         LET r == resolveFieldSchema(k, field, t.of, parent, path \o <<"[]">>, tr)
         IN  [r EXCEPT !.s = [type |-> "array", items |-> r.s]]
    [] n \in DOMAIN Builtin -> Leaf([type |-> Builtin[n]])
    [] n = "JSON" -> Leaf(<<>>)
    [] n \in Scalars -> Leaf([type |-> "string"])
    [] n \in DOMAIN Enums -> Leaf([type |-> "string", enum |-> Enums[n]])
    [] n \in DOMAIN Objects \cup DOMAIN Unions ->
         IF field.sel = <<>> THEN Leaf(ObjectSchema)
         ELSE LET r == resolveSelections(field.sel, n, ObjectSchema, path, tr)
              IN  [s |-> r.obj, parent |-> parent, tr |-> r.tr, err |-> r.err]
    [] OTHER -> Leaf(<<>>)   \* a type the schema lacks, or an input object

(***************************************************************************)
(* resolveSelections (lines 989-1142) over a union or an object type.     *)
(* Returns the parent object, the transformations and whether an error    *)
(* was thrown (which ends the walk).                                       *)
(***************************************************************************)
resolveSelections(sels, tn, obj, path, tr) ==
  LET Start == [obj |-> obj, tr |-> tr, err |-> FALSE]
      Typename(a, k, enum) == [a EXCEPT !.obj = AddRequired(SetProp(@, k, [type |-> "string", enum |-> enum]), k)]
      Optional(r) == [r EXCEPT !.obj = DeleteRequired(@)]
      InUnion(a, s) ==
        IF a.err THEN a
        ELSE CASE s.kind = "field" ->
                    IF s.name = "__typename" THEN Typename(a, Key(s), Unions[tn]) ELSE a
               [] s.kind = "inline" ->
                    IF s.on = Absent THEN a
                    ELSE Optional(resolveSelections(s.sel, s.on, a.obj, path, a.tr))
               [] s.kind = "spread" ->
                    IF s.name \notin DOMAIN Fragments THEN a
                    ELSE Optional(resolveSelections(Fragments[s.name].sel, Fragments[s.name].on,
                                                    a.obj, path, a.tr))
      InObject(a, s) ==
        IF a.err THEN a
        ELSE CASE s.kind = "field" /\ s.name = "__typename" ->
                    IF Key(s) \in DOMAIN a.obj.properties /\ "enum" \in DOMAIN a.obj.properties[Key(s)]
                      THEN [a EXCEPT !.obj.properties[Key(s)].enum = Append(@, tn)]
                      ELSE Typename(a, Key(s), <<tn>>)
               [] s.kind = "field" ->
                    IF \A f \in ToSet(Objects[tn]) : f.name # s.name THEN a
                    ELSE LET def == CHOOSE f \in ToSet(Objects[tn]) : f.name = s.name
                             p == path \o <<Key(s)>>
                             r == resolveFieldSchema(Key(s), s, def.type, a.obj, p, a.tr)
                             x == IF r.err THEN [err |-> TRUE]
                                  ELSE handleTransformDirective(s.get, r.s, p, r.tr)
                         IN  IF x.err THEN [a EXCEPT !.err = TRUE]
                             ELSE [obj |-> SetProp(r.parent, Key(s), x.s), tr |-> x.tr, err |-> FALSE]
               [] s.kind = "spread" ->
                    IF s.name \notin DOMAIN Fragments THEN [a EXCEPT !.err = TRUE]
                    ELSE resolveSelections(Fragments[s.name].sel, tn, a.obj, path, a.tr)
               [] s.kind = "inline" -> resolveSelections(s.sel, tn, a.obj, path, a.tr)
  IN  CASE tn \in DOMAIN Unions  -> FoldLeft(InUnion, Start, sels)
        [] tn \in DOMAIN Objects -> FoldLeft(InObject, Start, sels)
        [] OTHER                 -> Start

(* operationResponseToJSONSchema (lines 945-974), with the transformations *)
(* list parseGraphQLOperations passes in (line 171).                       *)
operationResponseToJSONSchema(op) ==
  LET r == resolveSelections(op.sel, operationRootTypeName(op.operation), ObjectSchema, <<"data">>, <<>>)
  IN  [schema |-> [type |-> "object", properties |-> ("data" :> r.obj), additionalProperties |-> FALSE],
       tr |-> r.tr, err |-> r.err]

(***************************************************************************)
(* The operations checked: one per state, next to one variables operation *)
(* of TypeSchema, the two ranging over disjoint sets of states.            *)
(***************************************************************************)
CONSTANT ResponseInputs   \* a set of [operation, sel]

VARIABLE operationNode

JsonSchemaInit ==
  \/ vars \in Operations /\ operationNode = CHOOSE o \in ResponseInputs : TRUE
  \/ vars = (CHOOSE o \in Operations : TRUE) /\ operationNode \in ResponseInputs
JsonSchemaSpec == JsonSchemaInit /\ [][UNCHANGED <<vars, operationNode>>]_<<vars, operationNode>>

Response == operationResponseToJSONSchema(operationNode)

(* The same operation with every @transform directive removed, as          *)
(* removeTransformDirectives does before the operation is sent upstream.   *)
RECURSIVE Untransformed(_)
Untransformed(sels) ==
  [i \in DOMAIN sels |->
     CASE sels[i].kind = "field"  -> [sels[i] EXCEPT !.get = Absent, !.sel = Untransformed(@)]
       [] sels[i].kind = "inline" -> [sels[i] EXCEPT !.sel = Untransformed(@)]
       [] OTHER                   -> sels[i]]

Plain == operationResponseToJSONSchema([operationNode EXCEPT !.sel = Untransformed(@)])

(***************************************************************************)
(* Reference: the response GraphQL's CollectFields and field execution    *)
(* give a selection set, as the [path, JSON type] of every value in it,    *)
(* "[]" standing for the items of a list and "any" for an unconstrained    *)
(* value.                                                                   *)
(***************************************************************************)
LeafJsonType == [Int |-> "integer", Float |-> "number", String |-> "string",
                 ID |-> "string", Boolean |-> "boolean"]

ResponseKey(s) == IF s.alias = Absent THEN s.name ELSE s.alias

HasField(tn, name) == tn \in DOMAIN Objects /\ \E f \in ToSet(Objects[tn]) : f.name = name
FieldType(tn, name) == (CHOOSE f \in ToSet(Objects[tn]) : f.name = name).type

(* The type condition a fragment applies under: its own, or the parent's. *)
Condition(s, tn) ==
  IF s.kind = "spread" THEN Fragments[s.name].on ELSE IF s.on = Absent THEN tn ELSE s.on
Subselection(s) == IF s.kind = "spread" THEN Fragments[s.name].sel ELSE s.sel

RECURSIVE Collected(_, _, _), Values(_, _, _)
Values(t, p, sel) ==
  CASE t.kind = "nonNull" -> Values(t.of, p, sel)
    [] t.kind = "list"    -> {[path |-> p, type |-> "array"]} \cup Values(t.of, p \o <<"[]">>, sel)
    [] t.name \in DOMAIN LeafJsonType -> {[path |-> p, type |-> LeafJsonType[t.name]]}
    [] t.name \in Scalars \cup DOMAIN Enums -> {[path |-> p, type |-> "string"]}
    [] t.name \in DOMAIN Objects \cup DOMAIN Unions ->
         {[path |-> p, type |-> "object"]} \cup Collected(sel, t.name, p)
    [] OTHER -> {[path |-> p, type |-> "any"]}
Collected(sels, tn, p) ==
  LET Of(s) ==
        CASE s.kind # "field" -> Collected(Subselection(s), Condition(s, tn), p)
          [] s.name = "__typename" -> {[path |-> p \o <<ResponseKey(s)>>, type |-> "string"]}
          [] HasField(tn, s.name) -> Values(FieldType(tn, s.name), p \o <<ResponseKey(s)>>, s.sel)
          [] OTHER -> {}
  IN  UNION {Of(s) : s \in ToSet(sels)}

(* The response path of every field selection, one entry per selection.   *)
RECURSIVE FieldPaths(_, _, _), ItemsOf(_, _)
ItemsOf(t, p) ==
  CASE t.kind = "nonNull" -> ItemsOf(t.of, p)
    [] t.kind = "list"    -> ItemsOf(t.of, p \o <<"[]">>)
    [] OTHER              -> [name |-> t.name, path |-> p]
FieldPaths(sels, tn, p) ==
  LET Of(s) ==
        CASE s.kind # "field" -> FieldPaths(Subselection(s), Condition(s, tn), p)
          [] s.name = "__typename" -> <<p \o <<ResponseKey(s)>>>>
          [] HasField(tn, s.name) ->
               LET i == ItemsOf(FieldType(tn, s.name), p \o <<ResponseKey(s)>>)
               IN  <<p \o <<ResponseKey(s)>>>> \o FieldPaths(s.sel, i.name, i.path)
          [] OTHER -> <<>>
  IN  FoldLeft(LAMBDA acc, s : acc \o Of(s), <<>>, sels)

RootType == IF operationNode.operation \in DOMAIN RootTypes
              THEN RootTypes[operationNode.operation] ELSE ""

(* No two selections, fragments included, give a value at one path.       *)
Unmerged ==
  LET fp == FieldPaths(operationNode.sel, RootType, <<"data">>)
  IN  Len(fp) = Cardinality(ToSet(fp))

(* The keys an object of the response always has: its non-null fields and *)
(* __typename, selected directly or through fragments on the object type;  *)
(* on a union every key is optional, since which member answers is open.  *)
RECURSIVE MustRequire(_, _, _)
MustRequire(sels, tn, p) ==
  LET Of(s) ==
        CASE s.kind # "field" ->
               {q \in MustRequire(Subselection(s), Condition(s, tn), p) :
                  tn \in DOMAIN Objects \/ q.at # p}
          [] s.name = "__typename" ->
               IF tn \in DOMAIN Objects THEN {[at |-> p, key |-> ResponseKey(s)]} ELSE {}
          [] HasField(tn, s.name) ->
               LET t == FieldType(tn, s.name)
                   i == ItemsOf(t, p \o <<ResponseKey(s)>>)
               IN  (IF t.kind = "nonNull" THEN {[at |-> p, key |-> ResponseKey(s)]} ELSE {})
                   \cup MustRequire(s.sel, i.name, i.path)
          [] OTHER -> {}
  IN  UNION {Of(s) : s \in ToSet(sels)}

(* The [at, key] of every "required" entry of a response schema.          *)
RECURSIVE RequiredIn(_, _)
RequiredIn(s, p) ==
  IF s = NoSchema THEN {}
  ELSE (IF "required" \in DOMAIN s THEN {[at |-> p, key |-> k] : k \in ToSet(s.required)} ELSE {})
       \cup (IF "items" \in DOMAIN s THEN RequiredIn(s.items, p \o <<"[]">>) ELSE {})
       \cup (IF "properties" \in DOMAIN s
               THEN UNION {RequiredIn(s.properties[k], p \o <<k>>) : k \in DOMAIN s.properties}
               ELSE {})

(* The [path, JSON type] of every node of a response schema.               *)
RECURSIVE Shapes(_, _)
Shapes(s, p) ==
  IF s = NoSchema THEN {}
  ELSE {[path |-> p, type |-> IF "type" \in DOMAIN s THEN s.type ELSE "any"]}
       \cup (IF "items" \in DOMAIN s THEN Shapes(s.items, p \o <<"[]">>) ELSE {})
       \cup (IF "properties" \in DOMAIN s
               THEN UNION {Shapes(s.properties[k], p \o <<k>>) : k \in DOMAIN s.properties}
               ELSE {})

(* The node a path names in a response schema, or NoSchema.               *)
RECURSIVE NodeAt(_, _)
NodeAt(s, p) ==
  CASE p = <<>> -> s
    [] s = NoSchema -> NoSchema
    [] Head(p) = "[]" /\ "items" \in DOMAIN s -> NodeAt(s.items, Tail(p))
    [] Head(p) # "[]" /\ "properties" \in DOMAIN s /\ Head(p) \in DOMAIN s.properties ->
         NodeAt(s.properties[Head(p)], Tail(p))
    [] OTHER -> NoSchema

(***************************************************************************)
(* Properties.                                                             *)
(***************************************************************************)

(* Without transforms, and where no two selections meet at one response    *)
(* path, resolveSelections and resolveFieldSchema build a schema with a    *)
(* node of the right JSON type for every value the operation's response   *)
(* holds, through aliases, lists, unions, inline fragments and fragment   *)
(* spreads, and no other node; and the walk throws nowhere.               *)
ResponseShapesAsSelected ==
  Unmerged =>
    /\ ~Plain.err
    /\ Shapes(Plain.schema, <<>>) =
         {[path |-> <<>>, type |-> "object"], [path |-> <<"data">>, type |-> "object"]}
         \cup Collected(operationNode.sel, RootType, <<"data">>)

(* Where no two selections meet at one path, the response schema requires *)
(* every key the response always has: a non-null field or an object's     *)
(* __typename, in the object it belongs to, however deep in lists and      *)
(* fragments; the requirements one selection adds are never lost to the    *)
(* next one (NonNull's deduplicating update, __typename's push, and the   *)
(* delete after a fragment on a union reach only the union's own object). *)
RequiredWhereNonNull ==
  Unmerged => MustRequire(operationNode.sel, RootType, <<"data">>) \subseteq RequiredIn(Plain.schema, <<>>)

(* Every "get" transformation handleTransformDirective records reads, at  *)
(* its from path of the untransformed response, the value whose schema    *)
(* the transformed field was given at its to path: the "[]" steps the walk *)
(* adds when it unwraps a list are the ones the response has.             *)
TransformsAgree ==
  ~Response.err =>
    \A i \in DOMAIN Response.tr :
      NodeAt(Response.schema, Response.tr[i].to) = NodeAt(Plain.schema, Response.tr[i].from)
=============================================================================
