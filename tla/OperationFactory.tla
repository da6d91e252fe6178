--------------------------- MODULE OperationFactory ---------------------------
(***************************************************************************)
(* createQuery, createMutation and createSubscription of                    *)
(* packages/sdk/src/operations/operations.ts: each turns the options an    *)
(* operation file passes to the factory into a NodeJSOperation.  Handlers  *)
(* and input schemas are carried through untouched and are left out; the  *)
(* options are the optional flags, the rbac lists and the live query      *)
(* config, where JavaScript's defaulting rules decide the result.          *)
(***************************************************************************)
EXTENDS Naturals

CONSTANTS
  Roles,          \* the user roles an rbac list can name
  Intervals,      \* polling intervals an operation can ask for
  Undefined       \* JavaScript's undefined (an option not given)

ASSUME Undefined \notin BOOLEAN /\ Undefined \notin Intervals /\ Intervals \subseteq Nat

(* The operators "a || b" and "?." of JavaScript over the values that      *)
(* occur here: a boolean is falsy when false, a number when 0, an array    *)
(* (even an empty one) never; undefined always is.                         *)
OrBool(x, d) == IF x \in {Undefined, FALSE} THEN d ELSE x
OrNum(x, d)  == IF x \in {Undefined, 0} THEN d ELSE x
OrList(x, d) == IF x = Undefined THEN d ELSE x
Field(r, f) == IF r = Undefined THEN Undefined ELSE r[f]

OptBool == BOOLEAN \cup {Undefined}
OptRoles == SUBSET Roles \cup {Undefined}
RbacLists == {"requireMatchAll", "requireMatchAny", "denyMatchAll", "denyMatchAny"}

(* The arguments an operation file can pass (BaseOperationConfiguration    *)
(* and LiveQueryConfig).                                                   *)
Args ==
  [requireAuthentication : OptBool,
   internal              : OptBool,
   rbac                  : [RbacLists -> OptRoles] \cup {Undefined},
   live                  : [enable : BOOLEAN, pollingIntervalSeconds : Intervals]
                             \cup {Undefined}]

(* Mutant: the polling interval is taken without its default.            *)
createQueryNoIntervalDefault(a) ==
  [type                  |-> "query",
   internal              |-> OrBool(IF a.internal = Undefined THEN FALSE ELSE a.internal, FALSE),
   requireAuthentication |-> IF a.requireAuthentication = Undefined
                               THEN FALSE ELSE a.requireAuthentication,
   rbac                  |-> [l \in RbacLists |-> OrList(Field(a.rbac, l), {})],
   liveQuery             |-> [enable |-> OrBool(Field(a.live, "enable"), TRUE),
                              pollingIntervalSeconds |->
                                Field(a.live, "pollingIntervalSeconds")]]

(* createQuery: the destructuring defaults (requireAuthentication = false, *)
(* internal = false), "internal || false", "rbac?.x || []" for each list,  *)
(* live?.enable || true and live?.pollingIntervalSeconds || 5.            *)
createQuery(a) ==
  [type                  |-> "query",
   internal              |-> OrBool(IF a.internal = Undefined THEN FALSE ELSE a.internal, FALSE),
   requireAuthentication |-> IF a.requireAuthentication = Undefined
                               THEN FALSE ELSE a.requireAuthentication,
   rbac                  |-> [l \in RbacLists |-> OrList(Field(a.rbac, l), {})],
   liveQuery             |-> [enable |-> OrBool(Field(a.live, "enable"), TRUE),
                              pollingIntervalSeconds |->
                                OrNum(Field(a.live, "pollingIntervalSeconds"), 5)]]

(* createMutation: the same defaulting; live queries are switched off.     *)
createMutation(a) ==
  [type                  |-> "mutation",
   internal              |-> OrBool(IF a.internal = Undefined THEN FALSE ELSE a.internal, FALSE),
   requireAuthentication |-> IF a.requireAuthentication = Undefined
                               THEN FALSE ELSE a.requireAuthentication,
   rbac                  |-> [l \in RbacLists |-> OrList(Field(a.rbac, l), {})],
   liveQuery             |-> [enable |-> FALSE, pollingIntervalSeconds |-> 0]]

(* createSubscription: as createMutation.                                  *)
createSubscription(a) ==
  [type                  |-> "subscription",
   internal              |-> OrBool(IF a.internal = Undefined THEN FALSE ELSE a.internal, FALSE),
   requireAuthentication |-> IF a.requireAuthentication = Undefined
                               THEN FALSE ELSE a.requireAuthentication,
   rbac                  |-> [l \in RbacLists |-> OrList(Field(a.rbac, l), {})],
   liveQuery             |-> [enable |-> FALSE, pollingIntervalSeconds |-> 0]]

-----------------------------------------------------------------------------
(* Every combination of arguments is checked: one state per argument.      *)

VARIABLE args

Init == args \in Args
Next == UNCHANGED args
Spec == Init /\ [][Next]_args

(* The NodeJSOperation type (operations.ts lines 196-237).                 *)
NodeJSOperation ==
  [type : {"query", "mutation", "subscription"},
   internal : BOOLEAN, requireAuthentication : BOOLEAN,
   rbac : [RbacLists -> SUBSET Roles],
   liveQuery : [enable : BOOLEAN, pollingIntervalSeconds : Intervals \cup {0, 5}]]

TypeOK ==
  /\ args \in Args
  /\ createQuery(args) \in NodeJSOperation
  /\ createMutation(args) \in NodeJSOperation
  /\ createSubscription(args) \in NodeJSOperation
=============================================================================
