----------------------------- MODULE UpLifecycle -----------------------------
(***************************************************************************)
(* What "wunderctl up" promises about its own lifecycle, without its      *)
(* goroutines: RunE validates the entry point, starts up (initial build,   *)
(* stack, background loops), runs until the context is canceled, and then  *)
(* either stops cleanly or returns an error.  The node takes its first     *)
(* config only once the development session is running, and keeps it.      *)
(***************************************************************************)

VARIABLES
  phase,     \* where RunE is in its lifecycle
  serving    \* the node has received a config

Phases == {"init", "starting", "running", "shuttingDown", "stopped", "failed"}

Init == phase = "init" /\ serving = FALSE

(* The entry point exists: the session starts up.                          *)
Begin ==
  /\ phase = "init"
  /\ phase' = "starting"
  /\ UNCHANGED serving

(* The entry point is missing: RunE returns an error at once.              *)
FailFast ==
  /\ phase = "init"
  /\ phase' = "failed"
  /\ UNCHANGED serving

(* The initial build and the stack are behind; the loops are running.      *)
Started ==
  /\ phase = "starting"
  /\ phase' = "running"
  /\ UNCHANGED serving

(* A signal or a node error cancels the context.                           *)
Cancel ==
  /\ phase \in {"starting", "running"}
  /\ phase' = "shuttingDown"
  /\ UNCHANGED serving

(* RunE returns an error while running or shutting down.                   *)
Fail ==
  /\ phase \in {"running", "shuttingDown"}
  /\ phase' = "failed"
  /\ UNCHANGED serving

(* RunE closes the node and returns nil, only after cancellation.          *)
Stop ==
  /\ phase = "shuttingDown"
  /\ phase' = "stopped"
  /\ UNCHANGED serving

(* The node receives its first config.                                     *)
Serve ==
  /\ phase \in {"running", "shuttingDown"}
  /\ ~serving
  /\ serving' = TRUE
  /\ UNCHANGED phase

Next == Begin \/ FailFast \/ Started \/ Cancel \/ Fail \/ Stop \/ Serve

SafetySpec == Init /\ [][Next]_<<phase, serving>>

TypeOK == phase \in Phases /\ serving \in BOOLEAN
=============================================================================
