----------------------------- MODULE TypeSchema -----------------------------
(***************************************************************************)
(* operationVariablesToJSONSchema and typeSchema of                         *)
(* packages/sdk/src/graphql/operations.ts: the JSON schema of an           *)
(* operation's variables, built by a recursion over the GraphQL type of    *)
(* each variable that threads the root's "definitions" (one entry per      *)
(* input object type, reused by $ref) and mutates the parent schema on a   *)
(* non-null type (required for an object parent, minItems for an array).   *)
(*                                                                         *)
(* A GraphQL type is [kind |-> "named", name |-> N] or                     *)
(* [kind |-> "list" | "nonNull", of |-> T].  A JSON schema is a record of   *)
(* the keys the code sets: type (the set {t} for the string t, {t, "null"} *)
(* for the array [t, 'null']), enum, items, minItems, properties,         *)
(* required, additionalProperties, or [ref |-> N] for                      *)
(* {$ref: '#/definitions/N'}; {} is <<>>.                                  *)
(***************************************************************************)
EXTENDS Naturals, Sequences, SequencesExt, FiniteSets

CONSTANTS
  InputObjects,      \* input object type name -> Seq of [name, type, hasDefault]
  Enums,             \* enum type name -> its values
  Scalars,           \* custom scalar type names
  CustomJsonScalars, \* options.customJsonScalars
  Absent, WrongKind  \* "on:" not given / not a string

Named(n) == [kind |-> "named", name |-> n]
List(t) == [kind |-> "list", of |-> t]
NonNull(t) == [kind |-> "nonNull", of |-> t]

(* The NamedType cases of typeSchema for the built-in scalars.             *)
Builtin == [Int |-> "integer", Boolean |-> "boolean", ID |-> "string",
            Float |-> "number", String |-> "string"]

(* nonNull ? t : [t, 'null']                                               *)
JType(t, nonNull) == IF nonNull THEN {t} ELSE {t, "null"}

(***************************************************************************)
(* SchemaSkipFields as the set of its paths (updateSkipFields, 670-681): a *)
(* field is a leaf, and skipped, when some path names it and none goes     *)
(* below it; its own skip fields are the paths below it.                   *)
(***************************************************************************)
Under(skip, f) == {p \in skip : p[1] = f}
(* Mutant: the field's skip paths are passed down without their head.     *)
ChildUnstripped(skip, f) == Under(skip, f)
Child(skip, f) == {Tail(p) : p \in Under(skip, f)} \ {<<>>}

Skipped(skip, f) == Under(skip, f) # {} /\ Child(skip, f) = {}

(***************************************************************************)
(* typeSchema (lines 800-943).  Returns the schema, the root's updated     *)
(* definitions, and whether the parent was marked by a NonNullType (its    *)
(* type is 'object' or 'array', the string forms only).                    *)
(***************************************************************************)
RECURSIVE typeSchema(_, _, _, _, _, _)

(* Mutant: the completed schema is not stored over the placeholder        *)
(* (root.definitions![typeName] = schema left out).                        *)
NamedSchemaPlaceholderKept(defs, interp, n, nonNull, skip) ==
  LET Plain(s) == [s |-> s, defs |-> defs, mark |-> FALSE]
      InputObject ==
        LET ty == JType("object", nonNull)
            Field(acc, f) ==
              IF Skipped(skip, f.name) THEN acc
              ELSE LET ft == IF f.hasDefault /\ f.type.kind = "nonNull" THEN f.type.of ELSE f.type
                       r  == typeSchema(acc.defs, interp, ft, FALSE, Child(skip, f.name), ty)
                   IN  [defs     |-> r.defs,
                        props    |-> acc.props @@ (f.name :> r.s),
                        required |-> IF r.mark THEN Append(acc.required, f.name) ELSE acc.required]
            res == FoldLeft(Field, [defs |-> defs @@ (n :> [type |-> ty]),
                                    props |-> <<>>, required |-> <<>>], InputObjects[n])
            sch == [type |-> ty, additionalProperties |-> FALSE, properties |-> res.props]
                   @@ (IF res.required = <<>> THEN <<>> ELSE [required |-> res.required])
        IN  [s |-> [ref |-> n], defs |-> res.defs, mark |-> FALSE]
  IN  IF n \in DOMAIN Builtin THEN Plain([type |-> JType(Builtin[n], nonNull)])
      ELSE IF n = "JSON" \/ n \in CustomJsonScalars THEN Plain(<<>>)
      ELSE IF n \notin Scalars \cup DOMAIN Enums \cup DOMAIN InputObjects THEN Plain(<<>>)
      ELSE IF n \in interp THEN Plain(<<>>)
      ELSE IF n \in Scalars THEN Plain([type |-> JType("string", nonNull)])
      ELSE IF n \in DOMAIN Enums THEN Plain([type |-> JType("string", nonNull), enum |-> Enums[n]])
      ELSE IF n \in DOMAIN defs THEN Plain([ref |-> n])
      ELSE InputObject

NamedSchema(defs, interp, n, nonNull, skip) ==
  LET Plain(s) == [s |-> s, defs |-> defs, mark |-> FALSE]
      InputObject ==
        LET ty == JType("object", nonNull)
            Field(acc, f) ==
              IF Skipped(skip, f.name) THEN acc
              ELSE LET ft == IF f.hasDefault /\ f.type.kind = "nonNull" THEN f.type.of ELSE f.type
                       r  == typeSchema(acc.defs, interp, ft, FALSE, Child(skip, f.name), ty)
                   IN  [defs     |-> r.defs,
                        props    |-> acc.props @@ (f.name :> r.s),
                        required |-> IF r.mark THEN Append(acc.required, f.name) ELSE acc.required]
            res == FoldLeft(Field, [defs |-> defs @@ (n :> [type |-> ty]),
                                    props |-> <<>>, required |-> <<>>], InputObjects[n])
            sch == [type |-> ty, additionalProperties |-> FALSE, properties |-> res.props]
                   @@ (IF res.required = <<>> THEN <<>> ELSE [required |-> res.required])
        IN  [s |-> [ref |-> n], defs |-> [res.defs EXCEPT ![n] = sch], mark |-> FALSE]
  IN  IF n \in DOMAIN Builtin THEN Plain([type |-> JType(Builtin[n], nonNull)])
      ELSE IF n = "JSON" \/ n \in CustomJsonScalars THEN Plain(<<>>)
      ELSE IF n \notin Scalars \cup DOMAIN Enums \cup DOMAIN InputObjects THEN Plain(<<>>)
      ELSE IF n \in interp THEN Plain(<<>>)
      ELSE IF n \in Scalars THEN Plain([type |-> JType("string", nonNull)])
      ELSE IF n \in DOMAIN Enums THEN Plain([type |-> JType("string", nonNull), enum |-> Enums[n]])
      ELSE IF n \in DOMAIN defs THEN Plain([ref |-> n])
      ELSE InputObject

typeSchema(defs, interp, t, nonNull, skip, parentType) ==
  CASE t.kind = "nonNull" ->
         LET r == typeSchema(defs, interp, t.of, TRUE, skip, parentType)
         IN  [r EXCEPT !.mark = parentType \in {{"object"}, {"array"}}]
    [] t.kind = "list" ->
         LET ty == JType("array", nonNull)
             r  == typeSchema(defs, interp, t.of, FALSE, skip, ty)
         IN  [s    |-> IF r.mark THEN [type |-> ty, minItems |-> 1, items |-> r.s]
                                 ELSE [type |-> ty, items |-> r.s],
              defs |-> r.defs, mark |-> FALSE]
    [] t.kind = "named" -> NamedSchema(defs, interp, t.name, nonNull, skip)

(***************************************************************************)
(* The variable directives that hide a variable or some of its fields:     *)
(* internalVariables/injectedVariables (739-747), directiveInjectedField   *)
(* (765-774), hasInternalVariable/hasInjectedVariable (776-782),           *)
(* directiveDefinedFields (784-795).  A directive is [kind, on].           *)
(***************************************************************************)
internalVariables ==
  {"fromClaim", "internal", "injectGeneratedUUID", "injectCurrentDateTime",
   "injectEnvironmentVariable"}
injectedVariables == {"injectGeneratedUUID", "injectCurrentDateTime", "injectEnvironmentVariable"}

HasFieldless(v, kinds) == \E d \in v.directives : d.kind \in kinds /\ d.on \in {Absent, WrongKind}
DefinedFields(v, kinds) ==
  {d.on : d \in {e \in v.directives : e.kind \in kinds /\ e.on \notin {Absent, WrongKind}}}

(* Lines 703-715: a variable left out of the schema, and the fields of it  *)
(* that are skipped, unless internal/injected variables are kept.          *)
Hidden(v, keepInternal, keepInjected) ==
  \/ ~keepInternal /\ HasFieldless(v, internalVariables)
  \/ ~keepInjected /\ HasFieldless(v, injectedVariables)
SkipOf(v, keepInternal, keepInjected) ==
  (IF keepInternal THEN {} ELSE DefinedFields(v, internalVariables))
  \cup (IF keepInjected THEN {} ELSE DefinedFields(v, injectedVariables))

(* Mutant: hidden variables are not left out (the early returns dropped). *)
operationVariablesToJSONSchemaNoHide(variableDefinitions, interp, keepInternal, keepInjected) ==
  LET Var(acc, v) ==
        LET strip == v.type.kind = "nonNull" /\ v.hasDefault
            r == typeSchema(acc.definitions, interp, IF strip THEN v.type.of ELSE v.type,
                            strip, SkipOf(v, keepInternal, keepInjected), {"object"})
        IN  [definitions |-> r.defs,
             properties  |-> acc.properties @@ (v.name :> r.s),
             required    |-> IF r.mark THEN Append(acc.required, v.name) ELSE acc.required]
  IN  FoldLeft(Var, [definitions |-> <<>>, properties |-> <<>>, required |-> <<>>],
               variableDefinitions)

(***************************************************************************)
(* operationVariablesToJSONSchema (lines 683-737): each variable in order,  *)
(* skipped when hidden, with the fields its directives name skipped; a     *)
(* non-null variable with a default value loses its NonNullType.           *)
(***************************************************************************)
operationVariablesToJSONSchema(variableDefinitions, interp, keepInternal, keepInjected) ==
  LET Var(acc, v) ==
        IF Hidden(v, keepInternal, keepInjected) THEN acc
        ELSE LET skip == SkipOf(v, keepInternal, keepInjected)
                 strip == v.type.kind = "nonNull" /\ v.hasDefault
                 r == typeSchema(acc.definitions, interp, IF strip THEN v.type.of ELSE v.type,
                                 strip, skip, {"object"})
             IN  [definitions |-> r.defs,
                  properties  |-> acc.properties @@ (v.name :> r.s),
                  required    |-> IF r.mark THEN Append(acc.required, v.name) ELSE acc.required]
  IN  FoldLeft(Var, [definitions |-> <<>>, properties |-> <<>>, required |-> <<>>],
               variableDefinitions)

-----------------------------------------------------------------------------
(* The operations checked: up to MaxVars variables, named in order from    *)
(* VarNames, each of a type from VarTypes, with or without a default       *)
(* value, carrying one of DirectiveChoices.                                *)

CONSTANTS VarNames, VarTypes, DirectiveChoices, MaxVars, Depth

Operations ==
  UNION {{[i \in 1..n |-> [name |-> VarNames[i], type |-> s[i].type,
                          hasDefault |-> s[i].hasDefault, directives |-> s[i].directives]] :
            s \in [1..n -> [type : VarTypes, hasDefault : BOOLEAN, directives : DirectiveChoices]]} :
           n \in 1..MaxVars}

VARIABLE vars

Init == vars \in Operations
Next == UNCHANGED vars
Spec == Init /\ [][Next]_vars

(* VariablesSchema, InternalVariablesSchema and InjectedVariablesSchema    *)
(* (lines 187-210; no variable is interpolated as JSON in these).          *)
Variants == {<<FALSE, FALSE>>, <<TRUE, FALSE>>, <<TRUE, TRUE>>}
Schema(k) == operationVariablesToJSONSchema(vars, {}, k[1], k[2])

Visible(k) == {v \in ToSet(vars) : ~Hidden(v, k[1], k[2])}

(* The definitions a schema refers to, by $ref, outside definitions.       *)
RECURSIVE Refs(_)
Refs(s) ==
  IF "ref" \in DOMAIN s THEN {s.ref}
  ELSE IF "items" \in DOMAIN s THEN Refs(s.items)
  ELSE IF "properties" \in DOMAIN s THEN UNION {Refs(s.properties[f]) : f \in DOMAIN s.properties}
  ELSE {}

(* A schema node accepts null: its type (a $ref's through the definition)  *)
(* includes "null", or it has no type at all (JSON).                       *)
AcceptsNull(s, defs) ==
  IF "ref" \in DOMAIN s THEN "null" \in defs[s.ref].type
  ELSE "type" \notin DOMAIN s \/ "null" \in s.type

(* The field paths a schema lets a client send, up to length fuel, with    *)
(* whether null is accepted there.                                         *)
RECURSIVE SchemaPaths(_, _, _)
SchemaPaths(s, defs, fuel) ==
  IF fuel = 0 THEN {}
  ELSE IF "ref" \in DOMAIN s THEN SchemaPaths(defs[s.ref], defs, fuel)
  ELSE IF "items" \in DOMAIN s THEN SchemaPaths(s.items, defs, fuel)
  ELSE IF "properties" \in DOMAIN s
    THEN UNION {{[path |-> <<f>>, null |-> AcceptsNull(s.properties[f], defs)]}
                \cup {[e EXCEPT !.path = <<f>> \o @] : e \in SchemaPaths(s.properties[f], defs, fuel - 1)} :
                f \in DOMAIN s.properties}
  ELSE {}

(* Reference: every field path of a GraphQL type up to length fuel, with  *)
(* whether null may be sent there: the field's type is nullable, or it has *)
(* a default (the SDK lets a client send null for a defaulted field).      *)
RECURSIVE TypePaths(_, _)
TypePaths(t, fuel) ==
  IF fuel = 0 THEN {}
  ELSE IF t.kind # "named" THEN TypePaths(t.of, fuel)
  ELSE IF t.name \notin DOMAIN InputObjects THEN {}
  ELSE UNION {{[path |-> <<f.name>>, null |-> f.type.kind # "nonNull" \/ f.hasDefault]}
              \cup {[e EXCEPT !.path = <<f.name>> \o @] : e \in TypePaths(f.type, fuel - 1)} :
               f \in ToSet(InputObjects[t.name])}

(* Reference: a path is injected, and so hidden, when an "on:" path that   *)
(* no other one extends is a prefix of it.                                 *)
HiddenPath(path, skip) ==
  \E q \in skip : IsPrefix(q, path) /\ ~\E r \in skip : r # q /\ IsPrefix(q, r)

DeclaredEntries(v, k) ==
  {e \in TypePaths(v.type, Depth) : ~HiddenPath(e.path, SkipOf(v, k[1], k[2]))}

Produced(k) ==
  LET r == Schema(k) IN
    UNION {{[path |-> <<n>>, null |-> AcceptsNull(r.properties[n], r.definitions)]}
           \cup {[e EXCEPT !.path = <<n>> \o @] : e \in SchemaPaths(r.properties[n], r.definitions, Depth)} :
           n \in DOMAIN r.properties}

Declared(k) ==
  UNION {{[path |-> <<v.name>>, null |-> v.type.kind # "nonNull"]}
         \cup {[e EXCEPT !.path = <<v.name>> \o @] : e \in DeclaredEntries(v, k)} : v \in Visible(k)}

(* The input object types a type reaches, one entry per occurrence.        *)
RECURSIVE Occurrences(_, _)
Occurrences(t, fuel) ==
  IF fuel = 0 THEN <<>>
  ELSE IF t.kind # "named" THEN Occurrences(t.of, fuel)
  ELSE IF t.name \notin DOMAIN InputObjects THEN <<>>
  ELSE <<t.name>> \o FoldLeft(LAMBDA acc, f : acc \o Occurrences(f.type, fuel - 1),
                              <<>>, InputObjects[t.name])

(* No input object type occurs twice among the variables' types.           *)
Unshared ==
  LET occ == FoldLeft(LAMBDA acc, v : acc \o Occurrences(v.type, Depth + 1), <<>>, vars)
  IN  Len(occ) = Cardinality(ToSet(occ))

TypeOK ==
  /\ vars \in Operations
  /\ \A k \in Variants :
       /\ DOMAIN Schema(k).definitions \subseteq DOMAIN InputObjects
       /\ DOMAIN Schema(k).properties = {v.name : v \in Visible(k)}

(* Every $ref of a schema, also those inside definitions, names a          *)
(* definition that was completed: no reference to the placeholder typeSchema *)
(* stores while it recurses into a (possibly recursive) input type is left.  *)
DefinitionsComplete ==
  \A k \in Variants :
    LET r == Schema(k)
        refs == UNION {Refs(r.properties[n]) : n \in DOMAIN r.properties}
                \cup UNION {Refs(r.definitions[d]) : d \in DOMAIN r.definitions}
    IN  \A d \in refs : d \in DOMAIN r.definitions /\ "properties" \in DOMAIN r.definitions[d]

(* When no input object type is used twice, each schema lets a client send *)
(* exactly the fields of the variables' GraphQL types, less those the      *)
(* directives' "on:" paths inject (at any depth), and accepts null at a    *)
(* field exactly where its GraphQL type does.                              *)
FieldsAsDeclaredUnshared == Unshared => \A k \in Variants : Produced(k) = Declared(k)

=============================================================================
