--------------------------- MODULE ParseOperations ---------------------------
(***************************************************************************)
(* parseGraphQLOperations of packages/sdk/src/graphql/operations.ts, the   *)
(* part that turns an operation's directives into its access and variable *)
(* injection configuration: @fromClaim, @injectEnvironmentVariable,        *)
(* @injectGeneratedUUID, @injectCurrentDateTime on variables, and          *)
(* @internalOperation and @rbac on the operation.  The JSON schemas and    *)
(* the printed content are left out (ParseOperations does not depend on    *)
(* them).  A directive is a record of its arguments; an argument not given *)
(* is Absent, one of the wrong GraphQL kind is WrongKind.  An "on:" path   *)
(* is kept as the sequence of its dot-separated components.                *)
(***************************************************************************)
EXTENDS Naturals, Sequences, SequencesExt

CONSTANTS
  WellKnownClaims,   \* keys of parseWellKnownClaim's table
  CustomClaims,      \* names of options.customClaims
  TimeFormats,       \* getTimeFormat's table: format name -> Go layout
  DefaultLayout,     \* '2006-01-02T15:04:05Z07:00'
  WGRole,            \* values of the WG_ROLE enum (if the schema has one)
  HasRoleEnum,       \* the schema defines WG_ROLE
  Absent, WrongKind

RbacLists == {"requireMatchAll", "requireMatchAny", "denyMatchAll", "denyMatchAny"}

(* The result of a handler: the updated operation, or a thrown error.      *)
Ok(op) == [err |-> FALSE, op |-> op]
Throw(op) == [err |-> TRUE, op |-> op]

(* directiveInjectedVariablePathComponents (lines 487-506).                *)
PathOk(d) == d.on # WrongKind
PathComponents(d, name) == IF d.on = Absent THEN <<name>> ELSE <<name>> \o d.on

(* defaultVariableInjectionConfiguration plus the fields a handler sets.   *)
InjectionConfig(path, kind, env, layout) ==
  [variablePathComponents |-> path, variableKind |-> kind,
   environmentVariableName |-> env, dateFormat |-> layout]

(* handleFromClaimDirective (lines 508-549), with parseWellKnownClaim.     *)
handleFromClaimDirective(d, v, op) ==
  IF \/ d.name \in {Absent, WrongKind}
     \/ ~PathOk(d)
     \/ d.name \notin CustomClaims \cup WellKnownClaims
  THEN Throw(op)
  ELSE Ok([op EXCEPT
            !.required = TRUE,
            !.claims = Append(@, [variablePathComponents |-> PathComponents(d, v.name),
                                  claimType |-> IF d.name \in CustomClaims
                                                  THEN "CUSTOM" ELSE d.name])])

(* Mutant: the missing name: argument is not rejected.                    *)
handleInjectEnvironmentVariableNoNameCheck(d, v, op) ==
  IF ~PathOk(d)
  THEN Throw(op)
  ELSE Ok([op EXCEPT !.inject = Append(@,
            InjectionConfig(PathComponents(d, v.name), "ENVIRONMENT_VARIABLE", d.name, ""))])

(* handleInjectEnvironmentVariableDirectives, one directive (561-581).     *)
handleInjectEnvironmentVariable(d, v, op) ==
  IF d.name \in {Absent, WrongKind} \/ ~PathOk(d)
  THEN Throw(op)
  ELSE Ok([op EXCEPT !.inject = Append(@,
            InjectionConfig(PathComponents(d, v.name), "ENVIRONMENT_VARIABLE", d.name, ""))])

(* Mutant: the uuid is injected into the variable itself, "on:" ignored.  *)
handleUuidIgnoringOn(d, v, op) ==
  IF ~PathOk(d)
  THEN Throw(op)
  ELSE Ok([op EXCEPT !.inject = Append(@, InjectionConfig(<<v.name>>, "UUID", "", ""))])

(* handleUuidDirectives, one directive (583-592).                          *)
handleUuid(d, v, op) ==
  IF ~PathOk(d)
  THEN Throw(op)
  ELSE Ok([op EXCEPT !.inject = Append(@,
            InjectionConfig(PathComponents(d, v.name), "UUID", "", ""))])

(* handleDateTimeDirectives, one directive (620-655): the format is        *)
(* checked and looked up, but the pushed configuration carries the default *)
(* layout.                                                                 *)
handleDateTime(d, v, op) ==
  IF \/ d.format # Absent /\ d.customFormat # Absent
     \/ d.format = WrongKind
     \/ d.format \notin DOMAIN TimeFormats \cup {Absent}
     \/ d.format = Absent /\ d.customFormat = WrongKind
     \/ ~PathOk(d)
  THEN Throw(op)
  ELSE Ok([op EXCEPT !.inject = Append(@,
            InjectionConfig(PathComponents(d, v.name), "DATE_TIME", "", DefaultLayout))])

(* internalVariables / injectedVariables (739-747) and hasInternalVariable *)
(* (776-778): a variable with one of these directives and no string "on:"  *)
(* is left out of VariablesSchema.                                         *)
internalVariables ==
  {"fromClaim", "internal", "injectGeneratedUUID", "injectCurrentDateTime",
   "injectEnvironmentVariable"}

hasInternalVariable(v) ==
  \E i \in DOMAIN v.directives :
    v.directives[i].kind \in internalVariables /\ v.directives[i].on \in {Absent, WrongKind}

(***************************************************************************)
(* handleJsonSchemaDirectives, one directive (316-453): every known        *)
(* argument computes the directive's path (which throws on a non-string    *)
(* "on:") and walks VariablesSchema first.  The walk (updateJSONSchema)    *)
(* indexes the variable's schema itself with the remaining components, so  *)
(* a path with "on:" ends at undefined, as does a variable left out of     *)
(* VariablesSchema; an argument of the right kind then assigns a field of  *)
(* undefined, a TypeError.  d.arg is Absent (no known argument), "match"   *)
(* or "mismatch" (only arguments whose value kind does not fit).          *)
(***************************************************************************)
handleJsonSchema(d, v, op) ==
  IF /\ d.arg # Absent
     /\ \/ ~PathOk(d)
        \/ d.arg = "match" /\ (d.on # Absent \/ hasInternalVariable(v))
  THEN Throw(op)
  ELSE Ok(op)

(* The handler of a directive kind, and applying it to each directive of   *)
(* that kind in order until one throws (directivesNamed(...).forEach).     *)
Handle(kind, d, v, op) ==
  CASE kind = "fromClaim"                 -> handleFromClaimDirective(d, v, op)
    [] kind = "jsonSchema"                -> handleJsonSchema(d, v, op)
    [] kind = "injectGeneratedUUID"       -> handleUuid(d, v, op)
    [] kind = "injectCurrentDateTime"     -> handleDateTime(d, v, op)
    [] kind = "injectEnvironmentVariable" -> handleInjectEnvironmentVariable(d, v, op)

ForEachNamed(kind, v, r) ==
  FoldLeft(LAMBDA acc, d : IF acc.err \/ d.kind # kind THEN acc
                           ELSE Handle(kind, d, v, acc.op),
           r, v.directives)

(* Lines 243-249: the handlers in their fixed order for one variable.      *)
HandleVariable(v, r) ==
  LET r1 == ForEachNamed("fromClaim", v, r)
      r2 == ForEachNamed("jsonSchema", v, r1)
      r3 == ForEachNamed("injectGeneratedUUID", v, r2)
      r4 == ForEachNamed("injectCurrentDateTime", v, r3)
  IN  ForEachNamed("injectEnvironmentVariable", v, r4)

(* Lines 251-288: the first @rbac directive's list arguments, filtered to  *)
(* WG_ROLE values; an argument that is not a list value is skipped.        *)
RoleConfig(o) ==
  [l \in RbacLists |->
     IF HasRoleEnum /\ o.rbac[l] # Absent /\ o.rbac[l].kind = "list"
       THEN o.rbac[l].roles \cap WGRole
       ELSE {}]

(* Mutant: only claims make authentication required (the role check of    *)
(* lines 289-297 left out).                                                *)
ParseOperationClaimsOnly(o) ==
  LET base == [name |-> o.name, internal |-> FALSE, required |-> FALSE,
               claims |-> <<>>, roles |-> [l \in RbacLists |-> {}],
               inject |-> <<>>]
      r == FoldLeft(LAMBDA acc, v : IF acc.err THEN acc ELSE HandleVariable(v, acc),
                    Ok(base), o.vars)
  IN  IF r.err THEN r
      ELSE Ok([r.op EXCEPT
                 !.internal = o.internalOperation,
                 !.roles = RoleConfig(o),
                 !.required = @ \/ r.op.claims # <<>>])

(***************************************************************************)
(* The OperationDefinition visitor (lines 148-302) for one operation that  *)
(* passed validation: the defaults of lines 173-242, the variable          *)
(* handlers, @internalOperation, @rbac, and the authentication rule of     *)
(* lines 289-300.                                                          *)
(***************************************************************************)
ParseOperation(o) ==
  LET base == [name |-> o.name, internal |-> FALSE, required |-> FALSE,
               claims |-> <<>>, roles |-> [l \in RbacLists |-> {}],
               inject |-> <<>>]
      r == FoldLeft(LAMBDA acc, v : IF acc.err THEN acc ELSE HandleVariable(v, acc),
                    Ok(base), o.vars)
      roles == RoleConfig(o)
  IN  IF r.err THEN r
      ELSE Ok([r.op EXCEPT
                 !.internal = o.internalOperation,
                 !.roles = roles,
                 !.required = @ \/ (\E l \in RbacLists : roles[l] # {})
                                \/ r.op.claims # <<>>])

(***************************************************************************)
(* One operation file (lines 144-311): its operations in document order;   *)
(* one failing validation is skipped (line 168), an exception from a       *)
(* handler ends the visit of the whole file (caught at line 305), keeping  *)
(* the operations already pushed.                                          *)
(***************************************************************************)
ParseFile(ops) ==
  FoldLeft(LAMBDA acc, o :
             IF acc.aborted \/ ~o.valid THEN acc
             ELSE LET r == ParseOperation(o) IN
                    IF r.err THEN [acc EXCEPT !.aborted = TRUE]
                    ELSE [acc EXCEPT !.parsed = Append(@, r.op)],
           [aborted |-> FALSE, parsed |-> <<>>], ops)

-----------------------------------------------------------------------------
(* The operation files checked: every file of up to MaxOps operations,     *)
(* each with one variable carrying up to MaxDirectives directives.         *)

CONSTANTS
  Directives,     \* the variable directives an operation may carry
  RbacChoices,    \* the @rbac arguments an operation may carry
  MaxDirectives,
  MaxOps

OpShapes ==
  [name : {0}, valid : BOOLEAN, internalOperation : BOOLEAN, rbac : RbacChoices,
   vars : {<<[name |-> "v", directives |-> ds]>> : ds \in BoundedSeq(Directives, MaxDirectives)}]

Files ==
  UNION {{[i \in 1..n |-> [s[i] EXCEPT !.name = i]] : s \in [1..n -> OpShapes]} :
           n \in 1..MaxOps}

VARIABLE file

Init == file \in Files
Next == UNCHANGED file
Spec == Init /\ [][Next]_file

Parsed == ParseFile(file).parsed
Source(p) == file[p.name]

DirectivesOf(o) == UNION {ToSet(v.directives) : v \in ToSet(o.vars)}

ParsedOperation ==
  [name : Nat, internal : BOOLEAN, required : BOOLEAN,
   claims : Seq([variablePathComponents : Seq(STRING), claimType : STRING]),
   roles : [RbacLists -> SUBSET WGRole],
   inject : Seq([variablePathComponents : Seq(STRING), variableKind : STRING,
                 environmentVariableName : STRING, dateFormat : STRING])]

TypeOK ==
  /\ file \in Files
  /\ \A i \in DOMAIN Parsed : Parsed[i] \in ParsedOperation

(* Roles an @rbac list argument names (what the operation author wrote).   *)
DeclaredListRoles(o, l) ==
  IF o.rbac[l] # Absent /\ o.rbac[l].kind = "list" THEN o.rbac[l].roles ELSE {}

(* An operation that reads a claim or restricts roles requires an          *)
(* authenticated user, and one that does neither does not: the flag the   *)
(* node enforces matches the operation's access rules.                     *)
AuthenticationRequiredIffRules ==
  \A i \in DOMAIN Parsed :
    LET o == Source(Parsed[i]) IN
      Parsed[i].required =
        \/ \E d \in DirectivesOf(o) : d.kind = "fromClaim"
        \/ \E l \in RbacLists : DeclaredListRoles(o, l) # {}

(* Reference: the injection one inject directive declares.                 *)
InjectKind == [injectGeneratedUUID |-> "UUID", injectCurrentDateTime |-> "DATE_TIME",
               injectEnvironmentVariable |-> "ENVIRONMENT_VARIABLE"]

Declared(d, name) ==
  [variablePathComponents |-> PathComponents(d, name), variableKind |-> InjectKind[d.kind],
   environmentVariableName |-> IF d.kind = "injectEnvironmentVariable" THEN d.name ELSE ""]

(* Every inject directive of a parsed operation yields exactly one         *)
(* injection, at the path its "on:" names, of its kind, and no other       *)
(* injection is configured (the date layout aside).                        *)
InjectionsAsDeclared ==
  \A i \in DOMAIN Parsed :
    LET o == Source(Parsed[i])
        inj == Parsed[i].inject
        decl == <<>> \o SelectSeq(o.vars[1].directives,
                                   LAMBDA d : d.kind \in DOMAIN InjectKind)
    IN  /\ Len(inj) = Len(decl)
        /\ {[variablePathComponents |-> inj[k].variablePathComponents,
             variableKind |-> inj[k].variableKind,
             environmentVariableName |-> inj[k].environmentVariableName] : k \in DOMAIN inj}
           = {Declared(decl[k], o.vars[1].name) : k \in DOMAIN decl}

(* Reference: a directive the directive definitions accept.                *)
WellFormed(d) ==
  /\ d.on # WrongKind
  /\ d.kind = "fromClaim" => d.name \in CustomClaims \cup WellKnownClaims
  /\ d.kind = "injectEnvironmentVariable" => d.name \notin {Absent, WrongKind}
  /\ d.kind = "injectCurrentDateTime" =>
       /\ d.format = Absent \/ d.customFormat = Absent
       /\ d.format \in DOMAIN TimeFormats \cup {Absent}
       /\ d.customFormat # WrongKind

(* Section 6: an operation is dropped only for a validation error or a     *)
(* malformed directive; a well-formed operation reaches the config.        *)
WellFormedOperationKept ==
  \A n \in DOMAIN file :
    (file[n].valid /\ \A d \in DirectivesOf(file[n]) : WellFormed(d))
      => \E i \in DOMAIN Parsed : Parsed[i].name = n

(* Every role an @rbac argument names is part of the operation's role      *)
(* configuration, whether written as a list or as a single value (GraphQL  *)
(* coerces a single value to a list, so validation accepts both).          *)
RbacRolesApplied ==
  \A i \in DOMAIN Parsed :
    LET o == Source(Parsed[i]) IN
      \A l \in RbacLists : o.rbac[l] # Absent => o.rbac[l].roles \subseteq Parsed[i].roles[l]
=============================================================================
