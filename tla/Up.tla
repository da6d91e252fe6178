--------------------------------- MODULE Up ---------------------------------
(***************************************************************************)
(* The "wunderctl up" workflow of cli/commands/up.go: the RunE goroutine,  *)
(* the config-bundler watch loop it backgrounds, the config watcher that   *)
(* re-reads generated/wundergraph.config.json, the WunderNode goroutine    *)
(* and the unbuffered channel configFileChangeChan between them.           *)
(*                                                                         *)
(* A generated config is identified by its write number: disk = k means    *)
(* the k-th write of the config json (0: the file does not exist).  A read *)
(* of the file (node.ReadAndCreateConfig) yields the record                *)
(* [ver |-> k, patched |-> b], b telling whether the S3 endpoints were     *)
(* rewritten to the local stack's host:port.                               *)
(***************************************************************************)
EXTENDS Naturals, Sequences, SequencesExt, BagsExt

CONSTANTS
  MaxWrites,      \* bound on the writes of the config json
  MaxEdits,       \* bound on the edits of watched sources
  StackOutcomes,  \* what stack.NewRunner/Run can leave in stackRunner
  Runners         \* the script runners whose restarts are tracked

ASSUME MaxWrites \in Nat \ {0} /\ MaxEdits \in Nat
ASSUME Runners \subseteq {"hooks", "poller"}
ASSUME StackOutcomes \subseteq {"nil", "none", "s3"} /\ StackOutcomes # {}

VARIABLES
  configEntry,    \* wundergraph.config.ts exists
  serverEntry,    \* wundergraph.server.ts exists (hooks branch of RunE)
  mainPc,         \* control point of the RunE goroutine
  mainCfg,        \* wunderNodeConfig read by RunE at line 346
  ctxDone,        \* the shared ctx is canceled (signal or cancel())
  disk,           \* write number of the config json on disk, 0 = absent
  stackRunner,    \* "pending", or one of StackOutcomes
  srcEvent,       \* a source change the config bundler has not built yet
  edits,          \* number of source edits so far
  watcherPc,      \* control point of the configWatcher goroutine
  watcherEvent,   \* fs event on the config json not yet delivered
  watcherCfg,     \* config read by the watcher callback
  sendq,          \* senders blocked on configFileChangeChan, FIFO
  nodePc,         \* state of the node goroutine
  live,           \* config the node runs with (NoConfig before the first)
  panicked,       \* a goroutine panicked: the process is gone
  delivered,      \* history: <<sender, config>> received by the node
  armedAt,        \* history: disk when the config watcher was set up
  bundled,        \* history: edits compiled by the latest Bundle() call
  watchFrom,      \* history: edits when the bundler's watch loop started
  rebuildPc,      \* the watch loop's build: "idle", or compiled and in onAfterBuild
  runq,           \* runner -> bag of the steps its Run goroutines are at
  owned           \* runner -> its handle holds a live process

vars == <<configEntry, serverEntry, mainPc, mainCfg, ctxDone, disk,
          stackRunner, srcEvent, edits, watcherPc, watcherEvent, watcherCfg,
          sendq, nodePc, live, panicked, delivered, armedAt,
          bundled, watchFrom, rebuildPc,
                 runq, owned>>

NoConfig == [ver |-> 0, patched |-> FALSE]
Config == [ver : 0..MaxWrites, patched : BOOLEAN]
Senders == {"main", "watcher"}

(* RunE has returned (or the process died): every goroutine is gone.       *)
Exited == mainPc \in {"done", "fatal", "error"} \/ panicked

(***************************************************************************)
(* node.ReadAndCreateConfig with the closure of lines 298-309 / 346-358:   *)
(* the closure ranges over stackRunner.Resources, which dereferences a nil *)
(* stackRunner when stack.NewRunner failed.  The outcome is "panic",       *)
(* "absent" when the file does not exist, or "ok" with the config read.    *)
(***************************************************************************)
ReadAndCreateConfig ==
  [outcome |-> CASE stackRunner = "nil" -> "panic"
                 [] disk = 0            -> "absent"
                 [] OTHER               -> "ok",
   cfg     |-> [ver |-> disk, patched |-> stackRunner = "s3"]]

(* A write of the config json: the watcher sees it once its watch is set   *)
(* up, and an event during its callback is kept for the next window.       *)
(* Mutant: events arriving while the callback runs are dropped.           *)
ConfigWrittenDropsBusy ==
  /\ disk' = disk + 1
  /\ watcherEvent' = (watcherPc = "idle" \/ watcherEvent)

ConfigWritten ==
  /\ disk' = disk + 1
  /\ watcherEvent' = (watcherPc \in {"idle", "read", "send", "blocked"} \/ watcherEvent)

(***************************************************************************)
(* configBundler.Bundle() followed by onAfterBuild (lines 160-237): the    *)
(* compile can fail; in the hooks branch the operations bundling can       *)
(* return an error before the config runner runs; the config runner (node  *)
(* config.js) writes the config json or fails.  Only a successful run of   *)
(* the config runner writes the file.  Its result is not checked            *)
(* (<-configRunner.Run(ctx)): after it, the hooks branch bundles hooks and *)
(* webhooks and waits for both, then both branches start a goroutine per   *)
(* runner that runs or restarts it (lines 209-219 and 226-229).            *)
(***************************************************************************)
BundleOutcomes == {"compileError", "afterBuildError", "runnerError", "ok"}

(* hookServerRunner (hooks branch only) and configIntrospectionRunner.     *)
Restarted == Runners \cap (IF serverEntry THEN {"hooks", "poller"} ELSE {"poller"})

(* go func() { <-runner.Run(ctx) }() for every runner of the branch.       *)
SpawnRestarts ==
  runq' = [r \in Runners |-> IF r \in Restarted THEN BagAdd(runq[r], "check")
                                                ELSE runq[r]]

Bundle(outcome) ==
  /\ outcome = "afterBuildError" => serverEntry
  /\ IF outcome = "ok" /\ disk < MaxWrites
       THEN ConfigWritten
       ELSE UNCHANGED <<disk, watcherEvent>>
  /\ IF outcome \in {"ok", "runnerError"}
       THEN SpawnRestarts
       ELSE UNCHANGED <<runq>>

-----------------------------------------------------------------------------
(* RunE                                                                    *)

(* lines 43-52: a missing config entry point is returned as an error.      *)
Validate ==
  /\ mainPc = "validate"
  /\ mainPc' = IF configEntry THEN "build" ELSE "fatal"
  /\ UNCHANGED <<configEntry, serverEntry, mainCfg, ctxDone, disk,
                 stackRunner, srcEvent, edits, watcherPc, watcherEvent,
                 watcherCfg, sendq, nodePc, live, panicked, delivered, armedAt,
                 bundled, watchFrom, rebuildPc,
                 runq, owned>>

(* lines 263-270: the initial build; an error is only logged.              *)
InitialBuild ==
  /\ mainPc = "build"
  /\ bundled' = edits
  /\ \E o \in BundleOutcomes : Bundle(o)
  /\ mainPc' = "stack"
  /\ UNCHANGED <<configEntry, serverEntry, mainCfg, ctxDone, stackRunner,
                 srcEvent, edits, watcherPc, watcherCfg, sendq, nodePc,
                 live, panicked, delivered, armedAt,
                 watchFrom, rebuildPc, owned>>

(* lines 273-284: stack.NewRunner and stackRunner.Run; errors are logged.  *)
StartStack ==
  /\ mainPc = "stack"
  /\ \E s \in StackOutcomes : stackRunner' = s
  /\ mainPc' = "spawn"
  /\ UNCHANGED <<configEntry, serverEntry, mainCfg, ctxDone, disk, srcEvent,
                 edits, watcherPc, watcherEvent, watcherCfg, sendq, nodePc,
                 live, panicked, delivered, armedAt,
                 bundled, watchFrom, rebuildPc,
                 runq, owned>>

(* lines 287-341: go configBundler.Watch(ctx), go configWatcher.Watch(...) *)
(* and go n.StartBlocking(...); the goroutines proceed on their own.       *)
Spawn ==
  /\ mainPc = "spawn"
  /\ mainPc' = "read"
  /\ watcherPc' = "setup"
  /\ nodePc' = "running"
  /\ watchFrom' = edits
  /\ UNCHANGED <<configEntry, serverEntry, mainCfg, ctxDone, disk,
                 stackRunner, srcEvent, edits, watcherEvent, watcherCfg,
                 sendq, live, panicked, delivered, armedAt,
                 bundled, rebuildPc, runq, owned>>

(* lines 346-361: read and patch the config; a read error ends RunE.       *)
MainRead ==
  /\ mainPc = "read"
  /\ LET r == ReadAndCreateConfig IN
       CASE r.outcome = "panic"  -> panicked' = TRUE /\ UNCHANGED <<mainPc, mainCfg>>
         [] r.outcome = "absent" -> mainPc' = "error" /\ UNCHANGED <<mainCfg, panicked>>
         [] r.outcome = "ok"     -> mainPc' = "push" /\ mainCfg' = r.cfg
                                    /\ UNCHANGED panicked
  /\ UNCHANGED <<configEntry, serverEntry, ctxDone, disk, stackRunner,
                 srcEvent, edits, watcherPc, watcherEvent, watcherCfg, sendq,
                 nodePc, live, delivered, armedAt,
                 bundled, watchFrom, rebuildPc,
                 runq, owned>>

(* line 365: configFileChangeChan <- wunderNodeConfig, no select on ctx.   *)
MainPush ==
  /\ mainPc = "push"
  /\ sendq' = Append(sendq, <<"main", mainCfg>>)
  /\ mainPc' = "blocked"
  /\ UNCHANGED <<configEntry, serverEntry, mainCfg, ctxDone, disk,
                 stackRunner, srcEvent, edits, watcherPc, watcherEvent,
                 watcherCfg, nodePc, live, panicked, delivered, armedAt,
                 bundled, watchFrom, rebuildPc,
                 runq, owned>>

(* Mutant: RunE closes the node without waiting for ctx.Done().          *)
MainShutdownNoWait ==
  /\ mainPc = "wait"
  /\ mainPc' = "done"
  /\ UNCHANGED <<configEntry, serverEntry, mainCfg, ctxDone, disk,
                 stackRunner, srcEvent, edits, watcherPc, watcherEvent,
                 watcherCfg, sendq, nodePc, live, panicked, delivered, armedAt,
                 bundled, watchFrom, rebuildPc,
                 runq, owned>>

(* lines 368-377: <-ctx.Done(), then n.Close() and return.                 *)
MainShutdown ==
  /\ mainPc = "wait"
  /\ ctxDone
  /\ mainPc' = "done"
  /\ UNCHANGED <<configEntry, serverEntry, mainCfg, ctxDone, disk,
                 stackRunner, srcEvent, edits, watcherPc, watcherEvent,
                 watcherCfg, sendq, nodePc, live, panicked, delivered, armedAt,
                 bundled, watchFrom, rebuildPc,
                 runq, owned>>

-----------------------------------------------------------------------------
(* The config bundler's watch loop (go configBundler.Watch(ctx), line 287) *)
(* and the source edits it watches.                                        *)

(* Mutant: the watch loop is taken to end once RunE has pushed its config. *)
BundlerWatchingUntilPush == mainPc \in {"read", "push", "blocked"} /\ ~ctxDone

BundlerWatching == mainPc \in {"read", "push", "blocked", "wait"} /\ ~ctxDone

(* Mutant: a change made while a build runs is not queued.                *)
EditDropsDuringBuild ==
  /\ edits < MaxEdits
  /\ edits' = edits + 1
  /\ srcEvent' = (srcEvent \/ (BundlerWatching /\ rebuildPc = "idle"))
  /\ UNCHANGED <<configEntry, serverEntry, mainPc, mainCfg, ctxDone, disk,
                 stackRunner, watcherPc, watcherEvent, watcherCfg, sendq,
                 nodePc, live, panicked, delivered, armedAt,
                 bundled, watchFrom, rebuildPc,
                 runq, owned>>

(* An edit of a watched source (or a new introspection cache entry): the  *)
(* bundler's watcher only sees it once its watch loop runs.                *)
Edit ==
  /\ edits < MaxEdits
  /\ edits' = edits + 1
  /\ srcEvent' = (srcEvent \/ BundlerWatching)
  /\ UNCHANGED <<configEntry, serverEntry, mainPc, mainCfg, ctxDone, disk,
                 stackRunner, watcherPc, watcherEvent, watcherCfg, sendq,
                 nodePc, live, panicked, delivered, armedAt,
                 bundled, watchFrom, rebuildPc,
                 runq, owned>>

(* One debounce window of the bundler's watcher starts one Bundle() call: *)
(* esbuild reads the sources as they are now.  A change made before the    *)
(* call returns sets a new event, which is the follow-up build (4.3).      *)
BundlerRebuild ==
  /\ BundlerWatching
  /\ srcEvent
  /\ rebuildPc = "idle"
  /\ srcEvent' = FALSE
  /\ bundled' = edits
  /\ rebuildPc' = "after"
  /\ UNCHANGED <<configEntry, serverEntry, mainPc, mainCfg, ctxDone, disk,
                 stackRunner, edits, watcherPc, watcherEvent, watcherCfg, sendq,
                 nodePc, live, panicked, delivered, armedAt,
                 watchFrom, runq, owned>>

(* The rest of that Bundle() call: the compile result and onAfterBuild,   *)
(* which runs the config runner and the hook bundles to their end.        *)
BundlerAfterBuild ==
  /\ rebuildPc = "after"
  /\ rebuildPc' = "idle"
  /\ \E o \in BundleOutcomes : Bundle(o)
  /\ UNCHANGED <<configEntry, serverEntry, mainPc, mainCfg, ctxDone,
                 stackRunner, srcEvent, edits, watcherPc, watcherCfg, sendq, nodePc,
                 live, panicked, delivered, armedAt,
                 bundled, watchFrom, owned>>

-----------------------------------------------------------------------------
(* The config watcher goroutine (lines 296-323).                           *)

(* configWatcher.Watch sets up its watch on the config json.               *)
WatcherSetup ==
  /\ watcherPc = "setup"
  /\ ~ctxDone
  /\ watcherPc' = "idle"
  /\ armedAt' = disk
  /\ UNCHANGED <<configEntry, serverEntry, mainPc, mainCfg, ctxDone, disk,
                 stackRunner, srcEvent, edits, watcherEvent, watcherCfg,
                 sendq, nodePc, live, panicked, delivered,
                 bundled, watchFrom, rebuildPc,
                 runq, owned>>

(* The debounce window of the watcher closes and its callback is called.  *)
(* The window's events are consumed; one written from now on opens the     *)
(* next window, which fires once this callback has returned.              *)
WatcherWindow ==
  /\ watcherPc = "idle"
  /\ watcherEvent
  /\ ~ctxDone
  /\ watcherEvent' = FALSE
  /\ watcherPc' = "read"
  /\ UNCHANGED <<configEntry, serverEntry, mainPc, mainCfg, ctxDone, disk,
                 stackRunner, srcEvent, edits, watcherCfg, sendq, nodePc, live,
                 panicked, delivered, armedAt, bundled, watchFrom, rebuildPc,
                 runq, owned>>

(* The callback reads and patches the config json as it is now (lines     *)
(* 297-312); a read error is returned to the watcher, which logs it.       *)
WatcherRead ==
  /\ watcherPc = "read"
  /\ LET r == ReadAndCreateConfig IN
       CASE r.outcome = "panic"  -> panicked' = TRUE
                                    /\ UNCHANGED <<watcherPc, watcherCfg>>
         [] r.outcome = "absent" -> watcherPc' = "idle"
                                    /\ UNCHANGED <<watcherCfg, panicked>>
         [] r.outcome = "ok"     -> watcherPc' = "send" /\ watcherCfg' = r.cfg
                                    /\ UNCHANGED panicked
  /\ UNCHANGED <<configEntry, serverEntry, mainPc, mainCfg, ctxDone, disk,
                 stackRunner, srcEvent, edits, watcherEvent, sendq, nodePc,
                 live, delivered, armedAt, bundled, watchFrom, rebuildPc,
                 runq, owned>>

(* Mutant: the callback hands the config over without waiting for the     *)
(* node to take it, as a buffered channel would.                           *)
WatcherSendNoWait ==
  /\ watcherPc = "send"
  /\ sendq' = Append(sendq, <<"watcher", watcherCfg>>)
  /\ watcherPc' = "idle"
  /\ UNCHANGED <<configEntry, serverEntry, mainPc, mainCfg, ctxDone, disk,
                 stackRunner, srcEvent, edits, watcherEvent, watcherCfg,
                 nodePc, live, panicked, delivered, armedAt,
                 bundled, watchFrom, rebuildPc,
                 runq, owned>>

(* line 314: configFileChangeChan <- wunderNodeConfig.                     *)
WatcherSend ==
  /\ watcherPc = "send"
  /\ sendq' = Append(sendq, <<"watcher", watcherCfg>>)
  /\ watcherPc' = "blocked"
  /\ UNCHANGED <<configEntry, serverEntry, mainPc, mainCfg, ctxDone, disk,
                 stackRunner, srcEvent, edits, watcherEvent, watcherCfg,
                 nodePc, live, panicked, delivered, armedAt,
                 bundled, watchFrom, rebuildPc,
                 runq, owned>>

(* Watch returns once ctx is canceled, unless blocked in the callback.     *)
WatcherStop ==
  /\ watcherPc \in {"setup", "idle"}
  /\ ctxDone
  /\ watcherPc' = "stopped"
  /\ UNCHANGED <<configEntry, serverEntry, mainPc, mainCfg, ctxDone, disk,
                 stackRunner, srcEvent, edits, watcherEvent, watcherCfg,
                 sendq, nodePc, live, panicked, delivered, armedAt,
                 bundled, watchFrom, rebuildPc,
                 runq, owned>>

-----------------------------------------------------------------------------
(* The node goroutine (lines 325-341): n.StartBlocking receives from       *)
(* configFileChangeChan and reloads with each config in turn.              *)

(* The node takes the longest-blocked sender's config (Go's FIFO sendq).  *)
NodeReceive ==
  /\ nodePc = "running"
  /\ sendq # <<>>
  /\ LET s == Head(sendq)[1] IN
       /\ live' = Head(sendq)[2]
       /\ delivered' = Append(delivered, Head(sendq))
       /\ sendq' = Tail(sendq)
       /\ mainPc' = IF s = "main" THEN "wait" ELSE mainPc
       /\ watcherPc' = IF s = "watcher" THEN "idle" ELSE watcherPc
  /\ UNCHANGED <<configEntry, serverEntry, mainCfg, ctxDone, disk,
                 stackRunner, srcEvent, edits, watcherEvent, watcherCfg,
                 nodePc, panicked, armedAt,
                 bundled, watchFrom, rebuildPc,
                 runq, owned>>

(* StartBlocking returns an error: cancel() (line 339).                    *)
NodeFail ==
  /\ nodePc = "running"
  /\ nodePc' = "failed"
  /\ ctxDone' = TRUE
  /\ UNCHANGED <<configEntry, serverEntry, mainPc, mainCfg, disk,
                 stackRunner, srcEvent, edits, watcherPc, watcherEvent,
                 watcherCfg, sendq, live, panicked, delivered, armedAt,
                 bundled, watchFrom, rebuildPc,
                 runq, owned>>

(* The node stops on the canceled ctx and no longer receives.              *)
NodeExit ==
  /\ nodePc = "running"
  /\ ctxDone
  /\ nodePc' = "exited"
  /\ UNCHANGED <<configEntry, serverEntry, mainPc, mainCfg, ctxDone, disk,
                 stackRunner, srcEvent, edits, watcherPc, watcherEvent,
                 watcherCfg, sendq, live, panicked, delivered, armedAt,
                 bundled, watchFrom, rebuildPc,
                 runq, owned>>

(* An interrupt/terminate signal cancels ctx (signal.NotifyContext, l.57). *)
Signal ==
  /\ mainPc # "validate"
  /\ ~ctxDone
  /\ ctxDone' = TRUE
  /\ UNCHANGED <<configEntry, serverEntry, mainPc, mainCfg, disk,
                 stackRunner, srcEvent, edits, watcherPc, watcherEvent,
                 watcherCfg, sendq, nodePc, live, panicked, delivered, armedAt,
                 bundled, watchFrom, rebuildPc,
                 runq, owned>>

-----------------------------------------------------------------------------
(* The Run goroutines started by onAfterBuild.  scriptrunner is not under  *)
(* src/: its Run follows the ProcessRunner contract of the spec (4.2).  A  *)
(* run request when a process is live sends the termination signal and    *)
(* waits for the exit, then launches the new process; Run does nothing     *)
(* once ctx is canceled.  Goroutines of one runner are alike, so they are   *)
(* a bag of the step each is at.                                           *)

Step(r, from, to) ==
  runq' = [runq EXCEPT ![r] = IF to = "exit" THEN BagRemove(@, from)
                                             ELSE BagAdd(BagRemove(@, from), to)]

(* Run(ctx): stop the live process first, if there is one.                *)
RunnerCheck(r) ==
  /\ BagIn("check", runq[r])
  /\ Step(r, "check", IF ctxDone THEN "exit" ELSE IF owned[r] THEN "stop" ELSE "start")
  /\ UNCHANGED owned
  /\ UNCHANGED <<configEntry, serverEntry, mainPc, mainCfg, ctxDone, disk,
                 stackRunner, srcEvent, edits, watcherPc, watcherEvent,
                 watcherCfg, sendq, nodePc, live, panicked, delivered, armedAt,
                 bundled, watchFrom, rebuildPc>>

(* The termination signal was sent; the process has exited.  A process     *)
(* another goroutine already stopped leaves nothing to wait for.           *)
RunnerStop(r) ==
  /\ BagIn("stop", runq[r])
  /\ Step(r, "stop", "start")
  /\ owned' = [owned EXCEPT ![r] = FALSE]
  /\ UNCHANGED <<configEntry, serverEntry, mainPc, mainCfg, ctxDone, disk,
                 stackRunner, srcEvent, edits, watcherPc, watcherEvent,
                 watcherCfg, sendq, nodePc, live, panicked, delivered, armedAt,
                 bundled, watchFrom, rebuildPc>>

(* Launch the process from the artifacts now on disk.                      *)
RunnerStart(r) ==
  /\ BagIn("start", runq[r])
  /\ Step(r, "start", "exit")
  /\ owned' = IF ctxDone THEN owned ELSE [owned EXCEPT ![r] = TRUE]
  /\ UNCHANGED <<configEntry, serverEntry, mainPc, mainCfg, ctxDone, disk,
                 stackRunner, srcEvent, edits, watcherPc, watcherEvent,
                 watcherCfg, sendq, nodePc, live, panicked, delivered, armedAt,
                 bundled, watchFrom, rebuildPc>>

-----------------------------------------------------------------------------
Init ==
  /\ configEntry \in BOOLEAN
  /\ serverEntry \in BOOLEAN
  /\ mainPc = "validate"
  /\ mainCfg = NoConfig
  /\ ctxDone = FALSE
  /\ disk \in {0, 1}          \* 1: a config json left by an earlier session
  /\ stackRunner = "pending"
  /\ srcEvent = FALSE
  /\ edits = 0
  /\ watcherPc = "off"
  /\ watcherEvent = FALSE
  /\ watcherCfg = NoConfig
  /\ sendq = <<>>
  /\ nodePc = "off"
  /\ live = NoConfig
  /\ panicked = FALSE
  /\ delivered = <<>>
  /\ armedAt = MaxWrites + 1
  /\ bundled = 0
  /\ watchFrom = MaxEdits + 1
  /\ rebuildPc = "idle"
  /\ runq = [r \in Runners |-> EmptyBag]
  /\ owned = [r \in Runners |-> FALSE]

(* Goroutine steps; Edit, Signal and NodeFail come from outside.  Once    *)
(* RunE has returned the process is gone and nothing moves.                *)
Next ==
  \/ ~Exited /\ Validate
  \/ ~Exited /\ InitialBuild
  \/ ~Exited /\ StartStack
  \/ ~Exited /\ Spawn
  \/ ~Exited /\ MainRead
  \/ ~Exited /\ MainPush
  \/ ~Exited /\ MainShutdown
  \/ ~Exited /\ BundlerRebuild
  \/ ~Exited /\ BundlerAfterBuild
  \/ ~Exited /\ WatcherSetup
  \/ ~Exited /\ WatcherWindow
  \/ ~Exited /\ WatcherRead
  \/ ~Exited /\ WatcherSend
  \/ ~Exited /\ WatcherStop
  \/ ~Exited /\ NodeReceive
  \/ ~Exited /\ NodeExit
  \/ ~Exited /\ Edit
  \/ ~Exited /\ Signal
  \/ ~Exited /\ NodeFail
  \/ ~Exited /\ \E r \in Runners : RunnerCheck(r)
  \/ ~Exited /\ \E r \in Runners : RunnerStop(r)
  \/ ~Exited /\ \E r \in Runners : RunnerStart(r)

(* The Go scheduler runs every runnable goroutine eventually.              *)
Fairness ==
  /\ WF_vars(Validate) /\ WF_vars(InitialBuild) /\ WF_vars(StartStack)
  /\ WF_vars(Spawn) /\ WF_vars(MainRead) /\ WF_vars(MainPush)
  /\ WF_vars(MainShutdown) /\ WF_vars(BundlerRebuild)
  /\ WF_vars(BundlerAfterBuild)
  /\ WF_vars(WatcherSetup) /\ WF_vars(WatcherWindow) /\ WF_vars(WatcherRead) /\ WF_vars(WatcherSend)
  /\ WF_vars(WatcherStop) /\ WF_vars(NodeReceive) /\ WF_vars(NodeExit)
  /\ \A r \in Runners : WF_vars(RunnerCheck(r)) /\ WF_vars(RunnerStop(r))
                        /\ WF_vars(RunnerStart(r))

Spec == Init /\ [][Next]_vars /\ Fairness

-----------------------------------------------------------------------------
(* Properties                                                              *)

TypeOK ==
  /\ configEntry \in BOOLEAN /\ serverEntry \in BOOLEAN
  /\ mainPc \in {"validate", "build", "stack", "spawn", "read", "push",
                 "blocked", "wait", "done", "fatal", "error"}
  /\ mainCfg \in Config /\ watcherCfg \in Config /\ live \in Config
  /\ ctxDone \in BOOLEAN /\ panicked \in BOOLEAN
  /\ disk \in 0..MaxWrites
  /\ stackRunner \in {"pending"} \cup StackOutcomes
  /\ srcEvent \in BOOLEAN /\ edits \in 0..MaxEdits
  /\ watcherPc \in {"off", "setup", "idle", "read", "send", "blocked", "stopped"}
  /\ watcherEvent \in BOOLEAN
  /\ sendq \in Seq(Senders \X Config) /\ Len(sendq) <= 2
  /\ nodePc \in {"off", "running", "failed", "exited"}
  /\ delivered \in Seq(Senders \X Config)
  /\ armedAt \in 0..MaxWrites + 1
  /\ bundled \in 0..MaxEdits /\ watchFrom \in 0..MaxEdits + 1
  /\ rebuildPc \in {"idle", "after"}
  /\ \A r \in Runners :
       /\ IsABag(runq[r]) /\ BagToSet(runq[r]) \subseteq {"check", "stop", "start"}
       /\ owned[r] \in BOOLEAN

(* A config json written after the watcher set up its watch reaches the    *)
(* node (itself or a newer one) unless ctx is canceled first, even when it *)
(* is written while the callback is still blocked on the channel.          *)
WatchedWriteDelivered ==
  \A v \in 1..MaxWrites :
    (disk = v /\ v > armedAt)
      ~> (\E i \in DOMAIN delivered : delivered[i][2].ver >= v)
         \/ ctxDone \/ Exited

(* Section 4.6: the node ends up running the config on disk, unless the    *)
(* session is shutting down.                                               *)
LiveConfigConverges ==
  <>[](ctxDone \/ Exited \/ live.ver = disk)

(* Section 4.6 step 10 / Scenario E: once ctx is canceled (signal, or the  *)
(* node failing to start) RunE returns.                                    *)
ShutdownCompletes ==
  ctxDone ~> Exited

(* Section 4.6 step 4 / Scenario B: a failed initial build does not end    *)
(* the session; the watch loop picks up the fix.                           *)
InitialBuildFailureNotFatal ==
  mainPc # "error"

(* Section 4.4: a stack that fails to start is best effort; the session    *)
(* goes on without it.                                                     *)
StackFailureNotFatal ==
  ~panicked

(* Section 4.3: a change made while the bundler watches its sources is    *)
(* compiled by a later Bundle() call (the coalesced follow-up build),      *)
(* unless ctx is canceled first.                                           *)
WatchedEditRebuilt ==
  \A e \in 1..MaxEdits :
    (edits = e /\ e > watchFrom) ~> (bundled >= e \/ ctxDone \/ Exited)

(* Section 4.6 step 4: after a failed initial build the user fixes the    *)
(* sources and the watch loop picks up the retry: every edit is compiled   *)
(* by some later Bundle() call unless ctx is canceled first.               *)
EditRebuilt ==
  \A e \in 1..MaxEdits :
    (edits = e) ~> (bundled >= e \/ ctxDone \/ Exited)

-----------------------------------------------------------------------------
(* Refinement of UpLifecycle.  RunE's control point and the context give   *)
(* the lifecycle phase: startup is the build, the stack and the spawn      *)
(* (lines 263-341), the session runs from the read at line 346, and a     *)
(* canceled context before RunE returns is the shutdown.                   *)
Phase ==
  CASE mainPc = "validate"                         -> "init"
    [] mainPc = "done"                             -> "stopped"
    [] mainPc \in {"fatal", "error"}               -> "failed"
    [] ctxDone                                     -> "shuttingDown"
    [] mainPc \in {"build", "stack", "spawn"}      -> "starting"
    [] OTHER                                       -> "running"

Lifecycle == INSTANCE UpLifecycle WITH phase <- Phase, serving <- live # NoConfig

(* Up implements the lifecycle: RunE stops cleanly only after the context  *)
(* is canceled, reports a failure only from the states that return an      *)
(* error, and the node receives a config only once the loops are running.  *)
LifecycleRefined == Lifecycle!SafetySpec
=============================================================================
