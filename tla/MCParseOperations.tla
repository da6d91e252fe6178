------------------------- MODULE MCParseOperations -------------------------
(* A model of ParseOperations: one variable "v" per operation, each        *)
(* directive in a few argument combinations that reach every branch of its  *)
(* handler (accepted, each kind of throw), and @rbac arguments as lists or  *)
(* as single enum values.                                                   *)
EXTENDS ParseOperations

CONSTANTS NoArg, BadKind

Dir(kind, name, on, fmt, cf, arg) ==
  [kind |-> kind, name |-> name, on |-> on, format |-> fmt, customFormat |-> cf, arg |-> arg]

MCWellKnownClaims == {"EMAIL"}
MCCustomClaims == {"tenant"}
MCTimeFormats == [UnixDate |-> "Mon Jan _2 15:04:05 MST 2006"]
MCDefaultLayout == "2006-01-02T15:04:05Z07:00"
MCWGRole == {"admin", "user"}

Path == <<"a">>

MCDirectives ==
  {Dir("fromClaim", n, on, NoArg, NoArg, NoArg) : n \in {"EMAIL", "tenant", "bogus"}, on \in {NoArg, Path}}
  \cup {Dir("fromClaim", "EMAIL", BadKind, NoArg, NoArg, NoArg)}
  \cup {Dir("jsonSchema", NoArg, on, NoArg, NoArg, a) :
          <<a, on>> \in {<<"match", NoArg>>, <<"match", Path>>, <<"mismatch", Path>>,
                         <<NoArg, Path>>, <<"match", BadKind>>}}
  \cup {Dir("injectGeneratedUUID", NoArg, on, NoArg, NoArg, NoArg) : on \in {NoArg, Path, BadKind}}
  \cup {Dir("injectCurrentDateTime", NoArg, on, f, c, NoArg) :
          <<f, c, on>> \in {<<NoArg, NoArg, NoArg>>, <<NoArg, NoArg, Path>>,
                            <<"UnixDate", NoArg, NoArg>>, <<NoArg, "15:04", NoArg>>,
                            <<"UnixDate", "15:04", NoArg>>, <<"bogus", NoArg, NoArg>>,
                            <<NoArg, BadKind, NoArg>>}}
  \cup {Dir("injectEnvironmentVariable", n, on, NoArg, NoArg, NoArg) :
          n \in {"HOME", NoArg}, on \in {NoArg, Path}}
  \cup {Dir("internal", NoArg, NoArg, NoArg, NoArg, NoArg)}

NoRbac == [l \in RbacLists |-> NoArg]

(* No @rbac, or one argument as a list (empty or not) or as a single value. *)
MCRbacChoices ==
  {NoRbac} \cup
  {[NoRbac EXCEPT ![l] = a] :
     l \in RbacLists,
     a \in {[kind |-> "list", roles |-> {"admin"}], [kind |-> "list", roles |-> {}],
            [kind |-> "single", roles |-> {"admin"}]}}
=============================================================================
