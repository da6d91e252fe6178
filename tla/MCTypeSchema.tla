--------------------------- MODULE MCTypeSchema ---------------------------
(* A GraphQL schema with an input object that nests another, one that is   *)
(* recursive, a non-null field with a default, an enum, a custom scalar    *)
(* and JSON; variables of these types bare, non-null and in lists, with    *)
(* the directives that hide a variable or one of its fields.               *)
EXTENDS ResponseSchema

CONSTANTS NoArg, BadKind

F(name, type) == [name |-> name, type |-> type, hasDefault |-> FALSE]

MCInputObjects ==
  [Filter |-> <<F("id", NonNull(Named("ID"))), F("tenant", Named("String")),
                F("inner", Named("Inner")), F("role", Named("Role")),
                F("at", Named("Time")), F("meta", Named("JSON"))>>,
   Inner  |-> <<F("x", NonNull(Named("Int"))),
                [F("y", NonNull(Named("Int"))) EXCEPT !.hasDefault = TRUE]>>,
   Tree   |-> <<F("v", Named("Int")), F("kids", List(NonNull(Named("Tree"))))>>]
MCEnums == [Role |-> {"admin", "user"}]
MCScalars == {"Time"}
MCCustomJsonScalars == {}

MCVarNames == <<"a", "b">>
MCVarTypes ==
  {Named("Filter"), NonNull(Named("Filter")), NonNull(List(NonNull(Named("Int")))),
   Named("Tree"), List(Named("Inner"))}
MCDirectiveChoices ==
  {{}, {[kind |-> "fromClaim", on |-> <<"tenant">>]},
   {[kind |-> "injectGeneratedUUID", on |-> <<"inner", "x">>]},
   {[kind |-> "fromClaim", on |-> NoArg]},
   {[kind |-> "injectEnvironmentVariable", on |-> BadKind]}}
(* Output types: a query root, two objects, a union of them and a         *)
(* recursive list; fragments on each member; operations of one or two    *)
(* root selections, with aliases, fragments on objects and on the union,  *)
(* and @transform(get:) paths through lists, into objects, past a leaf,   *)
(* onto an unknown field and with a non-string argument.                  *)
O(name, type) == [name |-> name, type |-> type]
MCObjects ==
  [Query |-> <<O("user", Named("User")), O("users", NonNull(List(NonNull(Named("User"))))),
               O("search", List(Named("SearchResult"))), O("tags", List(NonNull(Named("String"))))>>,
   User  |-> <<O("id", NonNull(Named("ID"))), O("name", Named("String")), O("role", Named("Role")),
               O("at", Named("Time")), O("meta", Named("JSON")),
               O("friends", List(NonNull(Named("User"))))>>,
   Post  |-> <<O("id", NonNull(Named("ID"))), O("title", NonNull(Named("String")))>>]
MCUnions == [SearchResult |-> <<"User", "Post">>]

Fld(n, sel) == [kind |-> "field", name |-> n, alias |-> NoArg, sel |-> sel, get |-> NoArg]
As(a, f) == [f EXCEPT !.alias = a]
Get(g, f) == [f EXCEPT !.get = g]
On(t, sel) == [kind |-> "inline", on |-> t, sel |-> sel]
Spread(n) == [kind |-> "spread", name |-> n]

MCFragments == [UserName  |-> [on |-> "User", sel |-> <<Fld("name", <<>>), Fld("role", <<>>)>>],
                PostTitle |-> [on |-> "Post", sel |-> <<Fld("title", <<>>)>>]]
MCRootTypes == [query |-> "Query"]

UserSels ==
  {<<Fld("id", <<>>)>>, <<Fld("__typename", <<>>), As("who", Fld("name", <<>>))>>,
   <<Fld("__typename", <<>>), Fld("id", <<>>)>>,
   <<Spread("UserName"), Fld("at", <<>>), Fld("meta", <<>>)>>,
   <<On(NoArg, <<Fld("id", <<>>)>>), Fld("friends", <<Fld("id", <<>>), Fld("name", <<>>)>>)>>,
   <<As("id", Fld("name", <<>>)), Fld("id", <<>>)>>}
SearchSels ==
  {<<Fld("__typename", <<>>), On("User", <<Fld("id", <<>>)>>)>>,
   <<On("User", <<Fld("name", <<>>)>>), Spread("PostTitle")>>,
   <<On("Post", <<Fld("id", <<>>)>>), On("User", <<Fld("id", <<>>)>>)>>}
RootSels ==
  {Fld("user", s) : s \in UserSels} \cup {Fld("users", s) : s \in UserSels}
  \cup {Fld("search", s) : s \in SearchSels}
  \cup {Fld("tags", <<>>), Fld("user", <<>>), As("me", Fld("user", <<Fld("id", <<>>)>>))}
Transformed ==
  {Get(<<"id">>, Fld("users", <<Fld("id", <<>>)>>)),
   Get(<<"[]", "id">>, Fld("users", <<Fld("id", <<>>)>>)),
   Get(<<"friends", "name">>, Fld("user", <<Fld("friends", <<Fld("name", <<>>)>>)>>)),
   Get(<<"name", "x">>, Fld("user", <<Fld("name", <<>>)>>)),
   Get(<<"nope">>, Fld("user", <<Fld("id", <<>>)>>)),
   Get(<<"nope", "x">>, Fld("user", <<Fld("id", <<>>)>>)),
   Get(BadKind, Fld("users", <<Fld("id", <<>>)>>)),
   Fld("user", <<Get(<<"name">>, Fld("friends", <<Fld("name", <<>>)>>))>>)}
MCResponseInputs ==
  {[operation |-> "query", sel |-> <<r>>] : r \in RootSels \cup Transformed}
  \cup {[operation |-> "query", sel |-> <<a, b>>] :
          <<a, b>> \in {Fld("user", <<Fld("id", <<>>)>>), As("user", Fld("tags", <<>>)),
                        Get(<<"id">>, Fld("users", <<Fld("id", <<>>)>>))}
                       \X {Fld("user", <<Fld("name", <<>>)>>), Fld("search", <<Fld("__typename", <<>>)>>)}}
  \cup {[operation |-> "mutation", sel |-> <<Fld("user", <<Fld("id", <<>>)>>)>>]}
=============================================================================
