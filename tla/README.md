# A formal model of Conven's runtime

Conven starts a selection of a workspace's services on a developer's machine,
next to a remote cluster that a `ktctl` tunnel (or another connection command)
makes reachable. Several Conven processes of the same user run at once: commands
in different workspaces, a hot-reload watcher per workspace, dashboards. They
share files, file locks and operating-system processes and nothing else. This
directory holds TLA+ modules of that program, the TLC runs that check them and
the theorems TLAPS proves about them.

## The system

| Component | Source | State it keeps | Operations | Modelled by |
|---|---|---|---|---|
| shared connection registry | `runtime/connection.go` | one record per connection configuration in `~/.conven/state/connections` (process identity, leases by workspace and time), one lock file | ensure, renew, validate, release, recover, report | `SharedConnection` |
| workspace session | `runtime/orchestrator.go`, `restart.go`, `state.go`, `process.go`, `cleanup.go` | `.conven/runtime/session.json` (connection, services, watcher), the lock `.conven/runtime/.lock`, `.conven/runtime/current` | start, confirmed replacement, stop, restart, rollback, clean-up, status | `WorkspaceSession` |
| ktctl attempts | `runtime/connection.go` 261-398, `kubernetes_connection.go` | none on disk but a kubeconfig snapshot | API gate, two attempts, readiness wait, recovery of what an attempt created in the cluster | `KtctlAttempt` |
| hot reload | `runtime/hot_reload.go`, `fingerprint.go` | its registration in the session; observed and pending fingerprints | watch, debounce, restart | `HotReload` |
| startup plan, dependency resolution | `runtime/plan.go`, `config_plan.go`, `dependency/*` | none | order services, group mutual dependencies, resolve dependencies, plan each configuration | `StartPlan`, `ConfigPlan` |
| health, listener and registry observation | `runtime/health.go`, `listener_observer.go`, `registry_observer.go` | none | poll until ready, prove who listens, watch the registry | `ServiceVerification` |
| logs | `runtime/log_capture.go`, `logs.go` | log files, an index of times beside each | capture, follow, look up a time | `LogCapture`, `LogStream`, `LogTail` |
| diagnostics | `runtime/diagnostics.go` | attempt records under `.conven/diagnostics` | begin, stages, fail, finish, archive | `StartupRecord` |
| terminal dashboard | `runtime/dashboard.go` | history of lines, view, selection, what the screen shows | keys, mouse, search, copy, frames | `LogDashboard`, `DashboardInput` |
| web dashboard | `runtime/web.go`, `web_data.go` | lock and record of the one viewer; health cache, events; nothing of the log pages | open, stop, act, pages of logs, health, settings | `WebViewer`, `WebLogs`, `WebHealth` |
| materializer | `materialize/*` | `.conven/runtime/current/configs` | copy, fetch, merge, patch, guard, publish | `ConfigDocument`, `RuntimeConfig` |
| preflight, external dependencies, contracts | `runtime/startup_preflight.go`, `external_dependencies.go`, `contract_*.go`, `disabled_bindings.go`, `rpcconfig/*` | none | inspect published configuration, ask Consul, plan isolation | `ConfigPlan`, `RuntimeConfig` |
| selector | `selector/*` | selection, cursor | keys | `Selector` |
| manifest and policy | `config/*` | `.conven/conven.yaml`, its backups and edited drafts | edit, import, reset, migrate, init, discover, set a field, settings page | `WorkspaceManifest` |
| plugins | `plugins/*` | two plugin stores, each with a lock | install, replace, install a builtin, remove, run | `Plugins` |
| command line | `cli/*`, `cmd/*` | none | parse, confirm, call the above | `StartCommand`, `Plugins`, `WorkspaceManifest` |
| guarded builds | `runtime/guard_*.go` | none | prepare and build in a namespace | not modelled |

How they interact. Every state-changing command of a workspace first takes the
workspace's `flock` without blocking and holds it to its end, so two commands of
one workspace never overlap; the watcher takes the same lock for each restart. A
command that needs the connection registry then polls the registry's lock every
100 ms, *while it holds the workspace lock*. Who holds the registry lock looks at
other workspaces to find out whether their leases are live: it tries their
workspace locks (without blocking), then reads their session files and the
processes those name, *without holding their locks*. Processes are known by PID,
PGID and start time, and are signalled by process group. A service's collector,
the log followers and the dashboards take no part in this: they read files and
processes as they find them, and the collector shares the log's own lock with
whoever looks up a time. The commands that change the manifest take none of these
locks but one on the manifest's own file, and the commands about plugins one on
the store.

What is hard here: the two-step look at a foreign workspace; a kill of Conven
between any two steps, where the operating system drops its locks but leaves
files and child processes; PIDs that are reused; processes whose leader is gone
but whose group lives; a file that cannot be written or a group that cannot be
stopped in the middle of a command; commands that each leave some of their
work for the next one to find; files that are replaced under a reader or a second
writer; developer commands that rewrite what was just checked; and screens that
redraw only what they think has changed. `PROJECT.json` lists the hazards at their
lines.

What makes each component correct:

* registry: nobody's connection is stopped while live services use it; only one
  ktctl tunnel of an executable at a time, and only one in the registry; every running
  connection can be found again; no left-over leases; no signal to a process that cannot
  be verified, unless by the command that was forced; waiting commands end.
* session: what runs is named by the session file, even after failures and kills;
  a replacement is confirmed against the very session it replaces; a rollback
  leaves what it could not stop in the session; a start that fails gives back
  what it took.
* ktctl attempts: never more than two launches, the second only when nothing of
  the first is left in the cluster.
* hot reload: a saved change is eventually built, unless a later one supersedes
  it; the watcher ends with its session.
* plan: dependencies start before dependents, mutual dependencies together.
* verification: a service is called verified only on evidence about itself, not
  about a stranger on its port, and only after the registry was quiet long enough.
* logs: a follower gives each line once and in order, and never keeps anybody
  waiting who has left; a line is never shown with the time of another.
* diagnostics: the record of a failed start tells what became of each service.
* dashboards: the screen is what drawing everything anew would give; pages of a log
  add up to the log; there is one viewer and it can be found; health is shown on the
  evidence of probes of this very process.
* configuration: the directory a service reads is the old one or a complete new one,
  and what it starts with is still isolated after the developer's builds.
* manifest: nobody's change is lost, unless nothing could have prevented it.
* plugins: a file is overwritten only by agreement about that very file.

## Modules

| Module | Contents |
|---|---|
| `SharedConnection` | the registry and the commands of the workspaces that use it; its properties |
| `SharedConnectionInvariant` | its two inductive invariants, by their named parts |
| `SharedConnection_proofs` | the theorems |
| `WorkspaceSession` | the commands of one workspace, service by service: session file, processes, registration of the watcher; its properties |
| `WorkspaceSessionInvariant` | the inductive invariant and its named parts |
| `WorkspaceSession_proofs` | the theorems, and that `HotReload` implements `WorkspaceSession` |
| `HotReload` | the watchers, composed with `WorkspaceSession` (it extends it); liveness |
| `KtctlAttempt` | one launch of a managed connection: API gate, attempts, readiness, recovery in the cluster; its properties and inductive invariant |
| `Selector` | the interactive selector: keys, confirmation, terminal modes |
| `StartPlan` | the plan of a start: expansion, components, groups, local dependencies; its properties and inductive invariant |
| `StartCommand` | `services --start` from its arguments or the selector to its plan (it extends both) |
| `StartCommand_proofs` | the theorems about the three |
| `Orders` | operators: the smallest of a set of numbers, a set as a sorted list |
| `Orders_proofs` | the lemmas about them, for the other proof modules |
| `ServiceVerification` | ports, health, listeners and registry of a started service |
| `LogTail` | what following a log promises, abstractly |
| `LogStream` | the followers, the channel and the reader, which implement it |
| `LogCapture` | the collectors of a log and their index of times |
| `StartupRecord` | the diagnostic attempts of starts, restarts and stops |
| `LogDashboard`, `DashboardInput` | the terminal dashboard: history, view, search, selection, frames; the decoding of its keys |
| `WebViewer`, `WebLogs`, `WebHealth` | the one viewer of a workspace; its pages of logs; its health evidence |
| `ConfigDocument` | operators: what is read from and done to a YAML application document |
| `ConfigPlan` | operators: the plan of a service's configuration and what is demanded of the result (it extends `ConfigDocument`) |
| `RuntimeConfig` | the delivery of configuration: materialize, publish, preflight, build, preflight, launch (it extends `ConfigPlan`) |
| `Plugins` | the stores of plugins and the commands on them |
| `WorkspaceManifest` | the commands that replace the manifest |
| `Tools_proofs` | the theorems about `KtctlAttempt`, `RuntimeConfig` and `Plugins` |
| `BesideOthers_proofs` | the theorems about `LogStream`, `ServiceVerification` and `WorkspaceManifest` |
| `Logs_proofs` | the theorems about `LogCapture` and `DashboardInput` |
| `Observers_proofs` | the theorems about `WebViewer`, `WebHealth` and `StartupRecord` |
| `MCSharedConnection`, `MCWorkspaceSession`, `MCHotReload`, `MCStartCommand` | small instances for TLC |
| `MCTools` | sum of `KtctlAttempt`, `RuntimeConfig`, `Plugins` |
| `MCBesideOthers` | sum of `LogStream`, `ServiceVerification`, `WorkspaceManifest` |
| `MCObservers` | sum of `LogCapture`, `WebLogs`, `WebViewer`, `WebHealth`, `StartupRecord`, `LogDashboard`, `DashboardInput` |

The last three put modules that share no state side by side in one run. A variable
`part`, chosen at the beginning, says which of them moves; the others stay in their
initial states, of which all but one are excluded. The states of such a run are the
disjoint union of those of its parts, and no interleaving of theirs is lost, since
they could only commute. What a part owes under fairness it owes when it moves
(`WF(part = ... /\ Action)`). A property of one part is trivially true of the
states of the others.

`SharedConnection` and `WorkspaceSession` look at the same commands from two sides:
the first has several workspaces, the registry and the connection's processes, and
takes the services of a workspace as one value; the second has one workspace with
its services, fingerprints and watcher, and takes the connection as a flag in the
session (`conn`: the session names a managed connection). In the same way
`KtctlAttempt` is the launch that `SharedConnection` takes as one step,
`ServiceVerification` the step `Verify` of `WorkspaceSession`, and `RuntimeConfig` what
happens before its first service is started.

### SharedConnection

State and its counterpart in the code:

* `pc[w]`: where the command of workspace `w` stands. It is not `"idle"` exactly
  while that command holds the workspace's flock. `target`, `task`, `forced`,
  `retained`, `result` are the command's local variables (`plan.Connection`, who
  called `releaseConnection`, `--force`, `retainedConnection`, the process
  `EnsureConnection` returns).
* `sconn`, `smanaged`, `svc`: the session file: `session.Connection`, its
  `Managed` flag, and its services as one value: `"none"` listed, some `"live"`,
  only `"stuck"` ones (leader gone, group alive) or all `"dead"`.
* `connLock`: who holds the registry lock; `cur`, `mem`, `todo`, `suspect`,
  `rest`, `active`, `ready`: what that command has read from the record it
  examines and decided about it, in memory.
* `rec`, `leases`, `aged`: the record files; `aged` are leases older than
  `connectionLeaseGrace`, which are the ones a prune examines.
* `conn[p]`: what the operating system knows of the identity `p` (PID, PGID,
  start time): not started, running, leader gone, exited, stopped by a signal of
  Conven's, its numbers reused by a foreign process, and that process killed.
* `user`, `crashed`, `orphan`: history variables that only properties read.
* `Executable[w][f]` is the file a workspace finds for the command of a configuration (the
  manifest names it freely, by a path or by a name that `PATH` resolves) and
  `ExecutableOf[p]` the one that `ps` shows of an identity. `KtctlRunning(w)`, the look for
  tunnels nobody recorded, sees those of `w`'s executable only, as
  `runningConnectionCommandPIDs` matches command lines.

Actions follow the code's own steps. What happens under the registry lock without
looking at another workspace is one action (nobody else can see the difference);
the prune of leases is two actions per lease (`PruneProbe`, `PruneRead`) since its
owner can act in between. `Start` leads through `ValidateReplacement`, `Renew`,
`StopOld`, the release of the old connection, `EnsureAcquire` ... `AwaitReady` (or
`AwaitFails`), `SaveSession` and `StartServices` or `Rollback`; `Stop`, `Recover` and
`Restart` are the other commands; `Cancel`, `Crash`, `ServicesDie`, `ConnectionDies`,
`PidReused` and `LeaseAges` are the environment's. `Faults` says which of these may
happen. `Unwritten` and `Unremoved` are a record that cannot be written or removed, on every
path that does either: the command ends with an error and the file is as it was, or, when
only the kubeconfig snapshot beside it resists, gone.

Abstractions. Verification and signal of a group are one step; readiness
endpoints answer anything; a launch of ktctl with its possible second attempt is
one launch; a connection that is reachable without Conven (driver other than
ktctl) has no process of ours and appears as `None` in a session; the session file
can always be written (its failures are left to the session module); the momentary
hold of a workspace lock by a prune, which makes a command of that workspace fail
without effect, is left out; one kill per workspace is enough, since a second one
finds nothing the first could not leave. Services are started in one step: all
that the registry sees of them is whether the session lists live ones.

Properties:

* `UsersKeepConnection`: services that were started under a lease, stayed up, and
  were not given up by their own workspace run on a connection that Conven has not
  stopped. `user[w]` is set when the services start on a connection and ends when
  the workspace stops them, they all die, or it restarts all of them.
* `OneKtctl`: two tunnels that run one executable never run at once, and of tunnels that
  run different ones at most one is in the registry. No more is true: the code looks at
  the records of all configurations, but at unrecorded processes only by its own executable
  path or the bare name of it (`connection.go` 209 and 833-879). A tunnel that was orphaned
  by a kill and had been started from another path is not seen, and a second one is
  started beside it.
* `UnverifiedNeedsForce`: a group whose leader exited, or whose PID is somebody else's
  by now, is signalled only in a step of a command that was given `--force`.
* `NoLostConnection`, `NoLeaseWithoutSession`, `CommandsEnd`: as stated at their
  definitions.
* `LiveServicesKeepConnection`: the stronger form of the first that the
  documentation promises; the code does not keep it (below).

### WorkspaceSession

State and its counterpart in the code:

* `disk`: the session file. `services[s]` says which process is listed for `s`,
  `fp[s]` is its `SourceFingerprint`, `selected` is `session.Selected`, `hot` the
  registered watcher, `conn` a managed connection. `mem` and `orig` are the running
  command's copy of the session and what it loaded.
* `os`: the processes. `"up"`, `"off"`, or `"stuck"`: the group lives but its leader
  is gone or cannot be verified, so that `StopProcess` refuses to signal it without
  `--force`. A process is `<<service, slot>>`; a slot is used again when no session
  and no command refers to it.
* `source`, `built`: the content of each source directory, and the content the last
  process of each service was built from. `fps`: the fingerprints of the running command.
  `artifact`: the content each artifact on disk was built from. `Persistent` are the
  services whose artifact lies outside `.conven/runtime/current`, which a fresh start clears
  (`Reset`).
* `skip`: the command was given `--skip-build`. `unbuilt`: history, the services last
  started by such a command.
* `pc`, `actor`, `kind`, `targets`, `todo`, `started`, `failed`, `retained`, `forced`:
  where the command is, for whom it runs (the user, or a watcher that restarts), and
  its local variables. One command at a time: all hold the workspace's flock.
* `token`: the session whose digest the user was shown with the question whether to
  replace it.
* `orphan`: history, the processes that only the memory of a killed command named.
  `faults`: what may go wrong in a behaviour, chosen at its beginning from `FaultSets`.

One action per step between two writes that another process could see or a kill
could fall between: `StartFresh` or `AskReplacement` and `StartReplacement`;
`ReplaceHot`, `ReplaceStop`, `ReplaceSave`; `ReleaseOld`, `ClearOld`, `Connect`,
`SaveNew`; then per service `Fingerprint`, `Build`, and per startup group
`StartService`, `SaveStarted`, `Verify`; `FinalCheck`; the watcher (`WatcherKept`,
`StartWatcher`, `SaveHot`); `FinishStart`. A failure of a start goes to `RollbackHot`,
`RollbackStop`, `RollbackSave`. `Restart` takes its targets, builds all, then
`RestartStop`s all, starts them group by group with the same actions, and on failure
`RestoreStop` and `RestoreSave` put back the predecessors' entries of the group
(`rollbackRestartGroup`), or `CleanupHot`, `CleanupStop`, `CleanupSave` stop what was
restarted. `Stop` is `StopHot`, `StopServices`, `StopLast`, `StopSave`.

`--skip-build` is part of the model, in the runs and theorems of `WorkspaceSession`: a
command given it takes the fingerprints and builds nothing; a start is refused when it
would reuse an artifact that it is about to clear (`ReusesArtifacts`), and nothing starts
without an artifact.

Abstractions. `conven cleanup`, which runs without a session only and removes build
outputs, is left out. A service without build commands, whose artifact is its source, is
not told from the others. The artifacts a command leaves are remembered only in behaviours
in which a later one may skip its builds (`ReturnWith`). A start or a restart that fails
before it has changed anything is not a step. The tokens that the dashboards present with
a stop or a restart only restrict these. Ports, health and isolation checks fail or
succeed freely (`"commandFails"`). A watcher whose own restart cannot be completed signals
its own process group (`restart.go` 356): it ends in `CleanupHot`, as the code's own
SIGKILL ends it. `MaxOrphans` bounds how many processes kills may orphan.

Properties: `NoLostService`, `SingleInstance`, `StartAllOrNothing`, `RestartSpares`,
`ReplacementConfirmed`, `NoStaleFingerprint`, as stated at their definitions. The last leaves
out services last started with `--skip-build`: the code records the source of that moment
for them although their artifact may be older, so that neither the watcher nor a restart
without names rebuilds them before the next edit. `docs/conven.1` 436-441
describes the option as reusing existing artifacts and promises no more. That every
selected service is listed is not claimed: killed after `SaveNew`, the session selects
services it does not list, and a restart without names fails at the first of them,
having stopped the others.

### HotReload

A watcher is `"off"`, waits for its registration (`"register"`), has not scanned yet
(`"first"`), watches (`"watch"`) or goes through the services it found changed
(`"attempt"`, `queue`). `observed`, `pending` and `since` are the loop's variables
(`pendingSince` set or not). It reads the session without the lock. `Tick` is a poll
with its debounce; `Attempt` begins a `Restart` of `WorkspaceSession` in the watcher's
name, which needs the lock; `Locked` is its failure to get it, after which the rest
of the queue is scanned anew; `Rejected` a restart refused before it changed
anything; `Follow` attaches what a step of a command means for a watcher: it is
started, it ends, or the restart it asked for has returned (`Attempted`).

Abstractions. No command skips its builds in this module's runs. A scan reads all
fingerprints in one step. The queue is worked off in any order (by name in the code). A
watcher gives up waiting for its registration only when the command that started it cannot
register it any more: the code waits three seconds for the very next write.

Properties: `ChangesBuilt` and `WatchersSettle` are liveness; the latter is `WatchersRest`
and `WatchersEnd`.

### KtctlAttempt

`SharedConnection` takes a launch as one step that succeeds or fails; this module is
that step in detail. State and its counterpart in the code:

* `pc`: `EnsureConnection` from its preflight on (`"preflight"`, the API gates `"gate"`,
  `"preaudit"`, `"regate"`), the loop of `ensureConnectionAttempts` (`"launch"`, `"wait"`,
  `"save"`, `"stop"`) and `recoverKtctlAttempt` (`"observe"`, `"delete"`, `"confirm"`,
  `"exact"`). `attempt` is the loop's counter.
* `driver`, `safe`, `kubectl`: the configuration: its driver, whether its flags allow a
  second attempt, whether `kubectl` is there.
* `ready`, `good`, `empties`: consecutive good readiness probes, consecutive good API
  probes, empty lists; `expired`: the deadline of the current wait has passed;
  `cancelled`: the caller's context.
* `found`, `todo`, `clear`: the resources observed with their UIDs, those still to be
  deleted or looked at, and whether this round of the confirmation found nothing.
* `snapshot`, `recorded`, `result`: the private kubeconfig, the connection record and
  what the caller gets.

The rest is external. `proc`, `phase` and `log` are ktctl: what is alive of each
attempt, which create request it is at, and what its log shows. It sends one request
at a time, the ConfigMap's before the Pod's, as its own log lines, which the code
parses, show. `flight` are requests that may still take effect, before or after ktctl has
exited. `uid`, `label`, `dying` are the cluster's objects; names are of one attempt
(the code generates them from the attempt's ID). `Others` may delete an attempt's
object, take its label off, or put an object of their own in its place, with or
without a copy of the label.

Abstractions. A query that fails, answers something malformed or is rejected by a
check of the answer is the fault `"query"`. Time is `Expire` and `Cancel`, which may
come at any point. The three seconds of the observation window are `MaxLists`: a list that is
empty `EmptyLists` times may end the observation, and does after `MaxLists`.

Properties: `CleanRetry`, `OthersSpared`, `NothingLeft`, and `CallEnds`, which is
liveness and checked as a part of `EveryoneEnds`.

### StartCommand, StartPlan and Selector

`StartPlan` is `buildPlan` and `ExpandLocalServiceDependencies`, one action per
iteration of their loops. A service is a number (the code sorts names and compares
them for equality, no more), and a manifest is what `localServiceForDependency` makes
of it: `depends[s]`, the services that serve dependencies of `s`. `phase` is the loop
that runs; `selected` and `at` are `expanded` and `index` of the expansion. Tarjan's
algorithm, recursive in the code, is a machine: `calls` is the stack of active
`visit`s, `left[s]` what the visit of `s` has not looked at, `index`, `low`, `stack`
and `components` are the code's variables. `Root`, `Descend`, `Meet` and `Leave` are
a call from outside, a recursive call, an iteration without one, and a return
together with what the caller does with it. `waits`, `ready` and `groups` are the
queue of `dependencyStartGroups`; `routes` are the local modes of
`dependency.Resolve`.

`Selector` is `selectCandidates`: `mode` is where its loop stands, `raw`, `screen` and
`active` are the terminal's modes and `screenActive`, `answer` and `retries` belong to the
confirmation; `broken` remembers which of the deferred calls failed. Keys are taken by
their effect, and an answer is a sequence of letters, `"y"` standing for all that is yes.
A read or a write may fail at every iteration, and each of the deferred calls at the
return. `TerminalGivenBack` speaks of every way out, errors and cancellation included:
only the failure of the deferred call itself leaves the terminal in raw mode or on the
alternate screen.

`StartCommand` joins them: `Named` and `Selected` are the two ways `runStart` comes
by its services. The command ends when the selector returned without a selection.

Abstractions. A choice of the manifest stands for loading one; it is made when the
plan begins, as nothing reads dependencies before. An environment that is not
declared ends a plan as a refusal of the selection does, and is left out; so are
the paths, commands, variables and health of the planned services. A dependency
that no selected service serves needs a resolution of the environment, which may
fail: `ResolveFails`. No service depends on itself (`ManifestsAssumption`): the loader refuses
it, but not in a manifest of version 2 whose binding or provider alias resolves to the
service itself (`load.go` 316-326), which is left out.

Properties: `GroupsAreDetermined`, which is `GroupsAreCycles` (a group is a set of
services that reach each other, by the definition of reachability over closed sets) and
`FirstNameFirst`; `RoutesStartFirst`, `ExpansionExact`, `PlanAsAgreed`,
`TerminalGivenBack`, and `PlanEnds`, which is liveness. `OneIsOne` is a theorem only.
Sorting is `Sorted` of `Orders`, the list that has the members of a set in order.

### ServiceVerification

`step` is how far the command has come with one service: `Ports`
(`preflightServicePorts`), `Baseline`, `StartProcess`, `Check` and `Judge`
(`WaitHealthy`), `Listeners`, `ObserveRegistry`, `Finalize`. `check` is the health
check it is at and what came of it, `elapsed` the ticks of the wait it is in, `request`
the look at the registry under way with its attempt, `baseline` what the registry held
before the start, `quiet` the time since the observation last began anew, and `level`
the `Verification` that is saved with the process. A tick is one interval between two
looks.

Around it go on, at any time: the service binds its port, at either address, or exits;
another process takes the port; the service or another instance registers or goes.
`calm`, `lasting` and `bound` are history variables: the time without a failed look, the
new instances that were there throughout the last look, and whether the service ever had
its port at the right address.

Abstractions. A look has two moments, the one at which the registry answers and the one
at which the command acts on it. `Checks` are of the kind that only needs the process or
of the kind that anybody listening answers. The effective registration settings and the
readiness of Apollo and of RPC servers are left out.

Properties: `VerificationIsEarned` and `VerificationEnds`. The first speaks of what was
true at some moment of the observation rather than of its end: the code cannot do
better, as a service may let go of its port right after it was looked at. It is not
claimed of manifests that ask for no observation.

### LogTail and LogStream

A follower (`follower[l].pc`) is a `followLogWithInitialLimits` goroutine: `Snapshot`,
then `Poll` and `Send` by turns; `outbox` are the lines it has cut and not sent, `offset`,
`pending` and `discarding` the code's variables. `channel` is the bounded channel,
`reader` the command that prints. `Consume` cuts a chunk into lines as `consumeLogData`
does, with the limit on the length of a line; `LastLines` is the snapshot, `Share` how
`logFollowLines` and the bytes of the snapshots are shared among the logs. `Write` and
`OpenFresh` are the services and a new connection, `Fail` a file that cannot be read.

Abstractions. A byte is known by its position in all that was ever written to its log, so
that "twice" and "skipped" can be said. A line is the sequence of the positions it shows,
and what is between two newlines is an interval of them; once cut, lines are only counted.
`given` remembers the positions put in lines, `inOrder` whether each came after all before
it. A log that does not exist yet has no follower waiting for it to appear but one that
polls it, as in the code. Naming a service twice is left out: it gives it two followers
and every line twice, which is what was asked for.

Properties: `NothingSkippedOrRepeated` (bytes), `NoFollowerLeaks` (liveness) and
`FollowingIsTailing`: the log of a service, followed, implements `LogTail`, whose lines
fall due, are delivered once in order, and are delivered in the end. The mapping: `due`
are the lines that became complete, or too long to wait for, since the snapshot of the
follower; `delivered` what the reader printed beyond the snapshot's lines; `open` that
nobody has failed or left.

### LogCapture

A collector is the process that `startLogCapture` starts beside a service: it opens the
index for the size the log has (`Stat`, `OpenIndex`), and then, under the log's lock,
appends a chunk (`Copy`) and its record (`Note`). `position` is where it writes its next
record. Two collectors live at once when the children of a stopped service keep its output
open. `AppendBare` are the lines Conven itself puts into the log, `RemoveLogs` a new
session, which takes the names away and leaves the old collector its files.
`CollectedTime` is the binary search of `collectedLogTime`.

Property: `CollectedTimesAreTrue`. A time may be missing after collectors have met, one
was killed between a chunk and its record, or a record was not written (`disturbed`);
it is never another line's.

### StartupRecord

`history` is `attempts.json`, `draft` the attempt in the memory of the recorder, `saved`
and `mine` the session on disk and the command's, `alive` what runs. A command begins
(`BeginDiagnostics`), stops what a start replaces (`Transition`) or a restart targets
(`StopTargets`), starts services with a stage before and after each (`Spawn`,
`SaveSpawned`), and succeeds or goes through `Failing`, `Cleanup` and `Close`, or through
`RestartFails`; a failure before a session is saved is recorded by the deferred function
(`Deferred`). `StopServices` adds to the attempt of the session it stops. Every write
may fail (`Writes`: the ones before the failure are there), every process may resist,
and the command may be killed at every step.

Property: `RecordIsTrue`. `fate` remembers how each attempt really ended. Stages other
than those around a service, redaction and the advice for the user are left out, and so are
failures after `Transition` and before the session is saved (`orchestrator.go` 237-290), a
restart whose first service cannot be started, and one that finds nothing to restart
(`restart.go` 112-125).

### LogDashboard and DashboardInput

`kept` and `expired` are the history (`dashboardHistory`), bounded in lines and in cells;
`dashView` what the dashboard wants to show: the first row, whether it follows, the
query and its match, the selection; `drawn` what `dashboardRenderState` remembers and `screen`
what the terminal shows. `TakeLine`, `TakeKey`, `TakeMouse`, `Resize` and `Frame` are the
cases of the loop's select. Keys, mouse and lines change the view at once; `Frame` draws:
all rows, or, when the last frame was of the same size, query and selection, the scroll
`dashboardVisibleRowShift` finds and the rows it has not brought (`Continues`).

`DashboardInput` is the goroutine that reads keys, among them `q`, `[` and `O` as they are
typed: `ReadInput` takes as many of the bytes as happen to be there, `Drain` decodes
(`Parse`), `Quiet` is the 25 ms after which a lone escape is the key of that name,
`EmitKey` waits for room in the channel, and `HandleKey` is the loop, which may end and
cancel the goroutine. The decoder cannot tell an Escape that is followed by a typed `[` or
`O`, before it has been decoded for want of 25 ms or of room in the channel, from the
beginning of a sequence, and swallows what follows (`dashboard.go` 943-1008). `joined`
remembers that this was typed, and `KeysAreTyped` promises nothing from then on.

Abstractions. Lines are widths of characters with the places of the query in them; the
banner is rows only; severities, colours, the choice of the address in the banner and the
encoding for the clipboard are left out. A key is one piece when the terminal sends it,
but not when it is read. Quitting is the end of the behaviour.

Properties: `ScreenShowsView` (after a frame, the screen is what drawing all of it
would have given, following shows the end, the match has the query, and what a finished
selection copies is what is marked), `PausedViewStays` and `KeysAreTyped`.

### WebViewer, WebLogs and WebHealth

`WebViewer`: `opener` are commands that open the dashboard, `viewer` the detached processes
they launch, `webLock` and `record` `web.lock` and `web.json`, `stopper` the command
`--stop-all`, `action` the one action a viewer may run. A viewer that agrees to shut down
stops answering in the same step; the code answers 202 first and shuts down in a goroutine
(`web.go` 377-380). A viewer ends by `Shutdown`, by
`Idle` and `Expire`, by a signal (`Terminate`) or killed; a killed one leaves its record.
Property: `OneViewerIsFound`.

`WebLogs`: a page is one action of the viewer, which keeps nothing between two; `cursor`
and `view` belong to the browser. `Start` is where a source goes on from (another file, a
shorter one, a log in which its process began later), `ReadLines` and `ReadNothing` what it
reads, `PageOf` how the page is shared among the sources, `Pending` the redaction of a
value whose name is on the line before. Property: `PagesAreTheLog`. It is not claimed of
a log in which a restarted service found the viewer in the middle of a line of its
predecessor (`torn`). A log that does not exist yet (`web_data.go` 869) and the tail of a
log that a failure in the diagnostics carries (`Failure.LogTail`) are left out.

`WebHealth`: `refresher` are the ticker and the action, which probe without a lock and
store later; `cache` the evidence by service and process, `seen` and `events` what
`observe` makes of it. A look that is skipped and finds its entry replaced by one of
another process meanwhile is stored without a verdict; the code stores the health it read
when it skipped (`web_data.go` 410 and 464). Property: `HealthIsEvidence`; its last part
only as long as the two have not overlapped.

Left out: the snapshot of the session and its reading of a malformed manifest, the
patterns of redaction, the authentication of requests.

### ConfigDocument, ConfigPlan and RuntimeConfig

`ConfigDocument` has operators only. A document has scalar settings and one mapping for
each RPC client; a mapping is its `discovType` and its direct target; one mapping may carry
an anchor, which others alias. A setting that is the empty string has the value "empty", a
client without a direct target the target "none". `Nodes` and `Documents` are all there can
be. Operators say what decodes, what a patch, an optional
patch and a guard do (a patch does not follow aliases, a guard's check does), what
`rpcconfig.Validate` makes of a client, and how a binding that Apollo lacks is taken from
the repository.

`ConfigPlan` is the go-zero contract: which patches in which order (the policy's, the
server's, the service's, local routes, disabled bindings), which guards, which fallbacks, and
what `Accepted` demands of the published document. `Planned` says what the loaded manifest
gives of a service; `SetupsAssumption` of `RuntimeConfig` that every service has that much.

`RuntimeConfig` is one command: `stage` is where it stands, `target[s]` the directory of a
service, `draft` the staging directory, `debris` one that was left, `read[s]` what a
service was launched with. `Begin`, `Copy`, `FetchLocal` or `FetchApollo` and `Resume`,
`Merge`, `PatchNext`, `GuardNext`, `VerifyDraft`, `Publish`, `Sweep`, `Check` for every service;
`Inspect`, `Answered`, `Unanswered`, `PreflightPassed` for all of them; `Build`, which may
rewrite what was published, and the preflight again; `LaunchNext`. Apollo and Consul
answer, fail or time out; the user interrupts; the command is killed.

Abstractions. A first start finds no directory of its own and publishes by a rename; the
code creates an empty one first (`startup_preflight.go` 124) and exchanges it, with the same
result. The two go-zero kinds stand for all; the drivers for properties files and for
the environment apply the same plan to flat keys. Two Consul clients of the same address
and key are one. A guard reached through an alias, and how an address is spelled, are left
out. A build that turns a local route into a direct remote one is not caught by the code's
preflight, and not claimed to be.

Properties: `ConfigurationIsSafe`, which is `TargetIsWhole` (at every moment, after a kill
too), `LaunchedIsolated` (whatever the builds did) and `NothingStaged`; `DeliveryEnds`.

### WorkspaceManifest

A writer is one of the ten kinds of commands and pages that read the manifest in order to
replace it. `RequireV3` is what the workspace commands ask first; `StartEdit` and so on how
each comes by its candidate; `EditRefused`, `EditUnchanged` and `EditChanged` the editor on a
draft; `Compare` the backup; `Create` the publication of a first manifest by a link; `Open`,
`Flock`, `CheckSnapshot` and `Rename` that of a replacement. `disk` are the path, the files
and the backups; `source`, `seen` and `candidate` what the writer read, from which file, and
wants to write. A text is the set of the changes that went into it, so that a lost change
is one that is in none.

The lock is on the file and not on the path. The code takes the lock of the file it opened
and then compares that file with the one at the path (`os.SameFile`) and its text with the
one it read. A file number is given out again as soon as nobody names or holds the old
file (`FreeFile`), which is why the text has to be compared too: a mutant that compares
only what is open is caught. That comparison does not help against somebody who
renames a file of his own over the manifest between a writer's check and its rename: his
file is lost, and a second writer, which locks the new file, may pass its check beside the
first. `collided` remembers it and `NoEditLost` excludes it; the code could not prevent
this without a lock on a name that is not replaced.

A migration derives its candidate from one reading and replaces what a second one finds:
a change in between goes into the backup and not into the manifest. `NoEditLost` holds of
this; a user might expect more. Neither does the migration hold the workspace's lock, so
that a start may follow its look at the services.

Abstractions. What a manifest must satisfy is the mark `Broken`; that it is of an older
version is a choice of `RequireV3`; nobody deletes the manifest; a draft that was changed
and cannot be read any more afterwards is removed by the code and not in `typed`.

Property: `NoEditLost`.

### Plugins

Commands install (and replace, after a question), install a builtin plugin, remove, or run,
in the workspace's store, the global one, or either. `Lock`, `FindsEntry`, `Agree`, `Prepare`,
`Link` or `Recheck` and `Rename`, `Uninstall` are the steps of the first three, which hold the
lock of the store but not during the question; `RunUnnamed`, `ListGlobal`, `Select`, `RunNamed`,
`Look` and `Execute` those of a run, which takes no lock. `Outsider` is somebody who puts a
file into a store or takes it away without Conven, `Die` a kill. One name suffices:
commands for different names meet in the lock only.

Properties: `PluginsKept`, which is `EntriesKept` (a file is lost only to a removal, to an
agreed replacement of exactly this file, or to an outsider), `RunsTheRightOne` and
`NoTemporaryLeft`; `PluginCommandsEnd`.

## Runs

| Run | Instance | Checks |
|---|---|---|
| `shared_connection_faults` | two workspaces, one ktctl configuration, two processes of it, every fault but kills | `UsersKeepConnection`, `NoLostConnection`, `NoLeaseWithoutSession`, `UnverifiedNeedsForce` |
| `shared_connection_crash` | two workspaces, two ktctl configurations, for one of which they find different executables, three processes, kills | `OneKtctl` |
| `shared_connection_live` | one ktctl configuration and one of another driver, no faults, fair scheduling | `CommandsEnd` |
| `shared_connection_restart` | one ktctl configuration, no faults | `LiveServicesKeepConnection`, violated |
| `shared_connection_unsaved` | one configuration of the command driver, failing record writes and signals | `NoLostConnection`, violated |
| `session_faults` | two services in two groups; failing commands and groups that survive SIGKILL, or an unwritable session file with failing commands and exits, or kills, or edits and skipped builds | `NoLostService`, `SingleInstance`, `NoStaleFingerprint`, `RestartSpares`, `StartAllOrNothing` |
| `hot_reload_live` | one service, two watchers; edits and other commands, or edits and failing commands, or kills | `ReplacementConfirmed`, `ChangesBuilt`, `WatchersSettle` |
| `hot_reload_revert` | one service; edits that are taken back | `ChangesBuilt`, violated |
| `start_command` | every manifest of four services with at most four local dependencies, or five that link two pairs; named, misnamed and selected services | `GroupsAreDetermined`, `RoutesStartFirst`, `ExpansionExact`, `PlanAsAgreed`, `TerminalGivenBack`, `PlanEnds` |
| `tools` | the code's own two attempts of ktctl, two readiness probes, three API probes and three empty lists, with every fault; two services and two clients under some 790 setups; two commands about one plugin | `NothingLeft`, `CleanRetry`, `OthersSpared`, `ConfigurationIsSafe`, `PluginsKept`, `EveryoneEnds` |
| `beside_others` | a log of three bytes followed beside the connection's; two health checks and a registry with one id; any two writers of the manifest beside one write by hand | `NothingSkippedOrRepeated`, `NoFollowerLeaks`, `FollowingIsTailing`, `VerificationIsEarned`, `VerificationEnds`, `NoEditLost` |
| `observers` | two collectors; two sources of pages and two sessions; two openers and two viewers; one service probed under two processes; two attempts of two services; four lines in a history of two; three keys | `CollectedTimesAreTrue`, `PagesAreTheLog`, `OneViewerIsFound`, `HealthIsEvidence`, `RecordIsTrue`, `ScreenShowsView`, `PausedViewStays`, `KeysAreTyped` |

The type invariants (`TypeOK` of `SharedConnection`, `WorkspaceSession` and `KtctlAttempt`) and
the inductive invariants are theorems and are not run beside the properties that follow from
them.

Bounds of the session. Two services: the order of groups, the services a restart does not
touch and a loop that fails in the middle all need two and no more. The two are in two
groups; services in one group, which only adds the interleavings of their starts, are left
to a larger instance. Three or four processes of a service: the listed one, its successor,
one that a killed command left, one that a token names. Two watchers: one and its
successor. Two contents of a source: the one built and another. One service keeps its
artifact through a fresh start and one does not. A set of faults per behaviour rather than
all at once keeps the runs small; the sets follow the code paths (what fails together is
what a rollback meets together). Where commands fail and groups survive SIGKILL, nothing
is restarted (`StopsAndStarts`).

Bounds of the connection. Two workspaces: every interaction is between the holder of the registry
lock and one lease or one record. Two configurations: a sweep examines the others
one by one, and one other suffices to be reused, refused, retired or removed. Two
processes: one and its successor for the same configuration; where tunnels are counted
three, one of the first configuration and one of each executable of the second.
Symmetry is used between workspaces in the safety runs in which they are alike. The theorems hold
without any of these bounds.

Bounds of the attempts. Two attempts are the code's own number; each has the two objects
ktctl creates. The numbers of probes and lists are the code's. Both drivers, with and
without `kubectl`, with and without flags that allow a retry.

Bounds of the start. Four services are the fewest on which a link to a finished
component can do harm, two cycles can depend on each other, and two components can
become ready in an order that is not that of their names. Four dependencies allow
every shape of a cycle with a branch; the manifests with five add two pairs in a
row. Command lines name one or all services, two out of order, one twice and one
that does not exist; the selector adds every other set. Answers have at most two
letters, which is enough to type one too many (`AnswerLength`).

Bounds of the configuration. A client that is optional and one that may be an alias of it;
Consul, direct, incomplete and missing clients; each of them local, remote or disabled; the
three sources; both kinds of services; a first start and a restart of one of the two
services or of both. Combinations that only repeat another are left out by `MCSetups`. One
document is rewritten by a build (`MaxRewrites`): the preflight looks at each by itself.
Apollo and Consul get two attempts, of which the second is the last.

Bounds of the manifest. Two writers of any two kinds (55 pairs) and one write by hand
(`MaxByHand`): losing a change takes one who read and one who wrote, and the third is
the one whom a lock on the wrong file lets through.

Bounds of the plugins. Two commands and one write by others (`MaxOutsiders`), for the same
reason.

Bounds of the logs. Lines of one byte and its newline (`LineLimit`), chunks of two
(`ReadChunk`), a snapshot of four (`SnapshotBytes`) and a channel of one (`ChannelSize`): every
limit is met by a log of three bytes. The collectors' log of five bytes (`LogSize`) has
room for two chunks of each and a bare line. Pages have two lines (`PageLines`) and four
bytes (`ScanBytes`) for two sources, so that a page ends within a line, within a source,
and before a source.

Bounds of the verification. A tick is an interval; an observation of two (`Duration`) with
two more of grace (`Grace`) is the shortest that can begin anew and yet end in time.

Bounds of the dashboards. Two openers and two viewers: one that wins and one that loses,
or its successor. Two tokens (`MaxTokens`), three probes (`MaxProbes`) and a threshold of
two. Four lines in a history of two lines (`Capacity`), narrow and wide, in two sizes of
the terminal; two events between two frames (`MaxDue`); the mouse in two places
(`MousePlaces`); no query while something is selected (`QueryOrSelection`): their marks
are drawn apart. Three keys (`MaxKeys`), read in pieces of up to three bytes (`ReadSize`);
among the keys are the Escape, the typed `q`, `[` and `O`, and sequences of both kinds, known
and unknown.

Fairness of the connection. `Step(w)` is strongly fair for every workspace: a running command is
scheduled, and one that polls for the registry lock gets it if it becomes free
again and again. Polls are 100 ms apart and the lock is held for bounded work, and
commands are typed by people, so an endless conspiracy against one poller is not
a behaviour of the system. Beginning a command, cancelling it and the environment
are not fair.

Fairness of the session. A running command is scheduled (`WF` of `Step`) and a watcher
keeps polling (`WF` of `Watch(h)`). The two strong conditions say that a watcher that
polls for ever does so again and again while no command has the lock, and gets it
(`SF` of `Attempt(h)`): commands are typed by people and polls are 500 ms apart.
Starting commands, edits and faults are not fair.

Fairness of the attempts. The call is scheduled (`WF` of `Step`), and the deadlines the code
sets pass (`WF` of `Expire`). Nothing is assumed of ktctl, the cluster or the caller.

Fairness of the start. The process runs its own computation (`WF` of `Planning`);
nobody has to press a key.

Fairness of the configuration. The command is scheduled (`WF` of `ConfigStep`), which
includes that a request to Apollo or Consul is answered or fails: their clients have
timeouts. Which of the two is not fair; the attempts are counted.

Fairness of the plugins. Each command is scheduled, and so gets the lock when it is free
(`WF` of `CommandMoves`): the kernel queues those who wait. The user need not answer.

Fairness of the followers. Each goroutine and the reader are scheduled (`WF` of
`FollowerStep(l)` and `ReaderStep`). Nobody has to write, to fail or to interrupt.

Fairness of the verification. The command is scheduled and time passes (`WF` of
`CommandStep` and of `Tick`). Nothing is assumed of the service, the stranger or the
registry.

## Where the code and its documentation differ

* A restart loses the shared connection (`shared_connection_restart`). Another
  workspace's prune tries the lock of the restarting workspace while it is free;
  the restart begins and stops its services; the prune reads the session, sees no
  live service, drops the lease, and, it being the last, stops the connection;
  the restart ends with live services. `README.md` 598-600 promises that a shared
  connection stays running across `--restart`. The lease must be older than the
  grace period, which it is after some minutes, since a restart does not renew it.
* A connection is forgotten (`shared_connection_unsaved`). Its record could not be
  written nor could it be stopped; its session is kept. When another workspace has
  since recorded its own process for the same configuration, `releaseConnection`
  takes that record for its own (it compares fingerprints, not processes), reports
  success, and the session is cleared while the first process runs.

* A service stays built from a discarded edit (`hot_reload_revert`). A command takes
  the fingerprint of a service before it builds it (`orchestrator.go` 373 and 411,
  `restart.go` 108 and 163). An edit saved in between is built; when it is taken back
  before the next poll, the recorded fingerprint equals the source again, and neither
  the watcher nor a restart without names rebuilds the service. `docs/conven.1`
  315-316 and `README.md` 603 promise that running services follow source changes.
  Without reverts the order is the safe one: `NoStaleFingerprint` holds of every service
  that was built for its last start.

## Proofs

Every theorem is about `Spec` (for the start, `CommandSpec`) of a module, for all values
of its constants. The assumptions are those the modules name at their constants: that sets
of services are finite, that bounds are natural numbers, that a value that stands for
"none" is not one of the others. TLC evaluates them on the instances. Where a theorem
needs more, the condition stands in its statement and is discussed below.

A proof of a safety property has one shape. An inductive invariant `IInv` is a conjunction
of named parts; `Init => IInv` is one lemma; a lemma for each part has one step for each
action that can disturb it; `IInv /\ [Next]_vars => IInv'` combines them; the property
follows from `IInv`, or, if it is about steps, from `IInv` and the action. All the invariants
were model-checked on the instances of the runs before they were proved.

| Component | Property | Theorem | Condition |
|---|---|---|---|
| `SharedConnection` | `UsersKeepConnection` | `ConnectionKept` | |
| | `OneKtctl` | `SingleKtctl` | |
| | `UnverifiedNeedsForce` | `UnverifiedSpared` | |
| | `NoLeaseWithoutSession` | `NoLeaseLeft` | |
| | `NoLostConnection` | `ConnectionsFound` | `RecordsSuffice` |
| `WorkspaceSession` | `NoLostService` | `NothingLost` | `StopsOrSaves` |
| | `SingleInstance` | `OneInstance` | `StopsOrSaves` |
| | `StartAllOrNothing` | `StartsAllOrNothing` | `StopsOrSaves` |
| | `NoStaleFingerprint` | `FingerprintsTrue` | `NoReverts` |
| | `ReplacementConfirmed` | `ReplacesWhatWasShown` | |
| | `RestartSpares` | `RestartSparesOthers` | |
| `HotReload` | `Spec` of `WorkspaceSession` | `WatchersImplement` | |
| | `ReplacementConfirmed` | `WatchersReplaceNothing` | |
| `KtctlAttempt` | `CleanRetry` | `RetryIsClean` | |
| | `OthersSpared` | `OthersAreSpared` | |
| | `NothingLeft` | `LeavesNothing` | |
| `StartPlan` | `GroupsAreDetermined` | `GroupsDetermined` | |
| | `RoutesStartFirst` | `DependenciesFirst` | |
| | `ExpansionExact` | `ExpandsExactly` | |
| `Selector`, `StartCommand` | `TerminalGivenBack` | `TerminalRestored` | |
| | `PlanAsAgreed` | `AgreedBefore` | |
| | `OneIsOne` | `SingleSelection` | |
| `RuntimeConfig` | `ConfigurationIsSafe` | `ConfigurationSafe` | |
| `Plugins` | `PluginsKept` | `PluginsAreKept` | |
| `WorkspaceManifest` | `NoEditLost` | `NoEditIsLost` | |
| `ServiceVerification` | `VerificationIsEarned` | `VerificationEarned` | |
| `LogStream` | `NothingSkippedOrRepeated` | `NothingLost` (of `BesideOthers_proofs`) | |
| | the safety half of `FollowingIsTailing` | `FollowingIsSafe` | |
| `LogCapture` | `CollectedTimesAreTrue` | `TimesCollected` | |
| `DashboardInput` | `KeysAreTyped` | `KeysTyped` | |
| `LogDashboard` | `ScreenShowsView` | `ScreenIsTrue` | |
| | `PausedViewStays` | `PausedViewsStay` | |
| `WebViewer` | `OneViewerIsFound` | `ViewerFound` | |
| `WebHealth` | `HealthIsEvidence` | `HealthEvident` | |
| `StartupRecord` | `RecordIsTrue` | `RecordTrue` | |

### SharedConnection

Two invariants, each proved by a theorem (`Invariance`, `Ledger`), the second on top of the
first.

Why the first, `IInv`, is what it is. `UsersKeepConnection` says nothing of leases, so no
step preserves it by itself. `LeaseInv` is the heart: whoever relies on a connection that
is there (its services run on it, or its command has been handed it and is about to start
them) has a lease on its record, in the file *and in the memory of the command that is
pruning that record*. A prune may drop a lease from its memory only after it found the
owner's lock free, and `SuspectInv` says that the workspace under suspicion has not come
to rely on a connection since: to get one it would have had to hold the registry lock.
`LockInv` is the mutual exclusion all of this rests on; `CommandInv` says in which steps
services may run under a lease; `RegistryInv` that records hold processes of their own
configuration and that a process in the hands of a command is in nobody else's;
`TargetInv`, `ScanInv` and `JoinInv` carry the facts of a sweep from the record it
examines to the record it joins or to the launch. `OneKtctl` has two halves: `LaunchInv`
says that no tunnel of an executable runs when one of it is launched (`ApartInv` follows),
and `SingleRecordInv` that the sweep leaves no record of a ktctl configuration before a
launch. `ForceInv` closes `UnverifiedNeedsForce`.

The second, `LedgerInv`, is about the other direction: nothing in the books without a
reason, and nothing in the world without an entry. `BookInv` ties the memory of a prune
to the record it reads. `RetainInv`, `ReleaseInv`, `OwnLeaseInv` and `AloneInv` say at which
steps a command may hold leases beyond the one its session accounts for, and that it gives
up all of them before its session goes; `NoLeaseWithoutSession` follows. `RecordedInv` and
`FoundInv` say that a running process is in its record, in a session or with a command.

`NoLostConnection` needs `RecordsSuffice`: records can be written, or every connection is a
ktctl tunnel and everybody finds the same executable for a configuration, so that no second
tunnel of it is launched while the first runs (`AloneInv`) and
the record of a session's configuration is of the session's own process or of none. With
the driver of the user's own command and a record that cannot be written it is false, and
the run `shared_connection_unsaved` shows the behaviour.

### WorkspaceSession

`IInv` is `TypeOK`, `KindInv`, `WorkInv`, `LossInv`, `SessionsInv` and `SourceInv`. The first three
say which command is at which step on which services.

`LossInv` is why no process is lost. `KnownInv` says that between two commands the file names
every process that is alive and that while a command runs its copy does. This is not
inductive: a command may end early, and then only the file is left. `SavedInv` says at which
steps the copy names nothing alive that the file does not, and these are the steps at which
a command can end. `DownInv` follows a stop through its services: those it is done with are
down, so that the session may be cleared. All three hold under `StopsOrSaves`: writing the
session does not fail in the same behaviours in which a process resists being stopped.
The code remembers a process it cannot stop by writing the session, so that with both
faults nothing can remember it; `ResistInv` says what the absence of the second gives.

`SessionsInv` compares the sessions a command has before it: the file, its copy, the one it
loaded and the one the user was shown (`ShownInv`), what a start and a restart list at each
step (`StartInv`, `RestartInv`), and that what a start took back is gone (`GoneInv`).

`SourceInv` is `ArtifactInv` and `FreshInv`: what was built is at least as new as the fingerprint
taken before, and so is what runs, of services that the command builds (`unbuilt` are those
it did not). It holds under `NoReverts`, that a source never has a
content again that it had before; the run `hot_reload_revert` shows the behaviour otherwise.

`WorkspaceSession` lets a watcher that is up restart a service or exit at any time.
`WatchersImplement` (`WatchSpec => Spec`) is the refinement that makes this enough: the
watchers of `HotReload` do no more than that, so that every theorem above holds beside
them (`WatchersReplaceNothing` is one). Its invariant, `WatchersKnown`, says that a watcher has a
stage exactly while it is up, and that one whose restart runs waits for it: it neither
polls nor gives up meanwhile, and the restart does not stop it without ending.

### KtctlAttempt

`CleanRetry` is about the moment of a launch; what makes
it true was seen at several earlier moments, by queries that look at one object at a
time while the cluster goes on. `RequestInv` is why a look can be conclusive at all: an
attempt has one request under way, the one it is at, so once its Pod was seen no
request of it is left, and nothing can appear late. `RecoveryInv` carries this from the
observation (`Audited`) through the confirmation, where what was found gone stays gone,
to the launch (`Confirmed`). `AttemptInv` says that no process of an attempt is alive
during its recovery, `SnapshotInv` closes `NothingLeft`, and `ForeignInv` says that an
object of others is terminating only if the code observed it with the attempt's label.
Two lemmas, `CallSteps` and `WorldSteps`, say that the call and the world touch
different variables, so that most cases of the step lemmas are one.

### StartCommand, StartPlan and Selector

`PlanInv` (`PlanInvariance`) is why dependencies come first: every selected service is
in a component when the counting begins, and in one only. `VisitInv` is what the search
needs for this: indices grow along the stack, no link leads below its bottom, and the
outermost visit is of the service at the bottom, so that the end of that visit finds no
way back and takes the whole stack. `ComponentInv` says that components are disjoint and,
with the stack, hold every service visited. `QueueInv` says that a component waits for
exactly those it depends on that have no group yet: one that is ready waits for none, and
nothing is taken twice.

`SearchInv` and `OrderInv` (`CyclesInvariance`) are the correctness of Tarjan's search, as the
code runs it. `StackReaches`: each service on the stack reaches every later one, and the
one its link names. `StackReturns`: each reaches the innermost visit around it, the link of
which is not above anything on the stack that a service of this visit is known to need.
`LeftInv`: what a service has looked at has been visited, and it has looked at all it needs
when its visit ends. From the first two, what is taken off the stack reaches each other;
with the third, all else it needs is in a component already (`CyclesInv`). Reachability
is by closed sets, so that no path has to be constructed. `OrderInv` says that the queue
holds all the components that are ready and takes the first name first. As no component
needs a later one, one is always ready, and every service has its group at the end.

`ExpandInv` (`ExpandsExactly`) says that what the expansion has selected is reached from
what was given, once each, and that what it has looked at is closed; `SelectorInv` that the
screen is shown only while `screenActive` says so and a single selection has one mark at
most at any time; `AgreedInv` (`AgreedInvariance`) carries what was marked and answered to
the plan.

The library's sort has no definition the provers can use. `Orders` has one that they can,
and `Orders_proofs` that it is a list of the set's members, each once, in order.

### RuntimeConfig and Plugins

`ConfigInv` (`ConfigInvariance`): `DraftInv` says what the draft holds at each step, patch
by patch. The patches that make local routes local come last, but for those that disable
a binding, which is no client's route any more; a guard touches no binding; so what
`Accepted` demands of the document is true of the draft that is published. `PreflightInv`
says that what the preflight has answered for is what is in the directories, until the
builds, and again after them; `LaunchedIsolated` follows since nothing is written between
the last preflight and the launches. `TargetIsWhole` is preserved because only a rename
ever changes a directory. `SetupsAssumption` says what a loaded manifest gives.

`PluginInv` (`PluginInvariance`): the lock has one holder (`OneHolder`), what a replacement
found under it is still there when it renames (`FoundIsThere`), only the holder or the dead have
a temporary file (`TemporariesHeld`), and who went on to the global store found nothing
in the workspace's (`GlobalMissed`).

### WorkspaceManifest and ServiceVerification

`ManifestInv` (`ManifestInvariance`): `LocksHeld` says that who is beyond the comparison of
files holds the lock of the file at the path, and `OwnTemporary` that no two have one
temporary file; so the manifest is still what was checked (`StillChecked`) when it is
replaced, and what is replaced is in the new text or in a backup (`WriterInv`). That a new file
gets a number nobody has is proved by counting: every writer keeps at most two.

`VerifyInv` (`VerifyInvariance`): a listener that was accepted was there (`PortHad`); a look
shows what was registered all the time it took (`LookShows`); the quiet time is no longer
than the calm time, but for the look that is under way (`QuietIsCalm`).

### LogStream

`StreamInv` (`StreamInvariance`) says of a follower what it has given and what it holds.
`Ordered`: positions in their order, none beyond what it has read, and, when the file has
become shorter than its offset, only of bytes that are gone, since the next poll begins at the
start of the file. `Covered`: while the log has lost nothing, there is one place, the last newline
or the snapshot's end, since which the held line goes on; what it holds is the run since
then, or, when it is discarding, that run is longer than the limit. So what the limit lets
through of the next chunk is in the lines cut from it or in what is held after it.
Two lemmas about `Consume`, the heart of `consumeLogData`, carry it: `ConsumeGoesOn` (for the
order, whatever was truncated) and `ConsumeCovers` (nothing left out). They rest on what cutting at
all newlines comes to (`PiecesAre`, `LinesClimb`): the parts are runs, each after the one before.
The code's loop takes one newline after the other; the model takes them all at once, sorted,
which spares the proof an induction over the chunk.

`FollowingIsSafe` is the refinement of `LogTail`, step by step: the initial state is one of
`LogTail`, and each step is `Grow`, `Deliver`, `Close` or a stutter. What it needs beyond
`StreamInv` is that no line is lost or counted twice between the file and the terminal,
`CountInv` (`CountInvariance`): the lines printed, those in the channel and those to be sent are
together those of the snapshot and those cut since (`Accounted`). A poll keeps it because
a chunk gives a line for each of its newlines, but for the one that ends what is discarded,
and one more for what has grown too long (`ConsumeCounts`); a line is `Deliver`, and not too many,
because what has been cut is due (`CutIsDue`), whatever has been written since.

### LogCapture and DashboardInput

`CaptureInv` (`CaptureInvariance`): every record is true of the bytes it names, and so is
the chunk that has no record yet, since the lock is held from one to the other; and until
two collectors meet or a record is not written, one collector is alone at the end of the
index, its records are in order and apart, and every byte it wrote has one. The binary
search is a recursive function on ranges of records. That there is such a function
(`SearchExists`), and what it finds (`FoundIsRecorded`, `RecordedIsFound`), is proved by
looking at the smallest range for which it would not be so (`SmallestOf`): no rule of
induction is needed.

`InputInv` (`InputInvariance`): the keys that were pressed are in two parts. The events that are
out or wait for room are those of the first (`Typed`), in order, but for the keys that are no
events; the bytes that are read or on their way are those of the rest, one key after the
other (`Spelled`). What makes it true is `ParseIsKey`: whatever follows it, and
wherever a read ends, the bytes of a key are decoded as that key once they are all there
(`WholeKey`), an escape is itself when another key follows that is not a typed `[` or `O`
(`EscapeAndMore`), and less than a key is left until more comes (`PartOfKey`). The keys that are
not decoded yet keep apart in this sense (`Separate`) until `joined` is set, and the
invariant says nothing from then on. When all is read nothing is left to
spell, and the events are all of those the keys are.

### LogDashboard

`DashInv` (`DashInvariance`) has four parts. The history is the lines of the service from
the first one it has not let go (`HistoryAt`). The view rests (`ViewGood`): it begins at a
row of the history no later than the one from which the screen is just full, at that row
if it follows, the line of its match has the query, and the ends of its selection are in
lines of the history. The screen is the whole frame of the rows last drawn, with the query
and the selection they were drawn with (`FrameGood`). And if nothing has happened since
the last frame, what was drawn is what the view names.

What makes a frame that scrolls equal to the whole frame (`PartialSame`) is that
a row is known by its line, its first character and the width: rows of that name in the last
frame and in this one end at the same character, although the history has let lines go in
between (`FullSame`). So a row that the scroll puts where it is wanted need not be rewritten,
and every other one is, whatever distance `dashboardVisibleRowShift` chooses.

For `PausedViewStays`, `Clamped` has to find the row again at which a paused view rests. The
fragments of a line cover it without a gap (`FragsAre`), so a place names one row
(`RowOfPlace`); when lines expire every later row moves up by the rows of those
(`RowsAfter`), and a line that arrives at the end never takes rows away.

`ScreenShowsView` follows from the invariant when a frame has been drawn. The screen ends with
the last row when the view follows (`EndIs`); and the selection on screen is what is
copied (`CopiedOfRow`), because both cut a line at the same two ends.

The fragments of a line and the rows of a history are recursive functions on numbers. That such
a function exists (`FoldExists`) and what holds of all its values (`Upward`) is proved by looking
at the smallest number at which it would fail, so no rule of induction is needed.

`DashAssumption` says that characters are not of negative width, that a terminal has a
column and the log a row (`dashboardLogRows` is never less than 1), and that lines and
sizes are finite sequences. Histories that hold nothing, characters of no width, empty
lines and terminals of one column and one row are among the constants it admits; the
invariant was model-checked on such instances too. The theorems do not need the bound of
the run on queries and selections (`QueryOrSelection`).

### WebViewer, WebHealth and StartupRecord

`ViewerInv`: the lock is held by one viewer (`OneHolds`), the record names the one that
serves (`RecordNamesServing`), and who was told that a viewer stopped, or to stop, was
told so by one that does no more (`ToldStop`, `StopperTold`).

`HealthInv`: an entry of the cache is of this session or an earlier one (`TokensKnown`); one
refresh at a time but for overlaps (`OneAtATime`); every pass and every failure that is
counted was probed (`PassesKnown`, `FailuresKnown`), the last ones in a row
(`LastOnesFailed`), and who is shown unhealthy has enough of them (`UnhealthyCounted`).

`RecordInv`: the last entry of the history is the draft's (`LastAttempt`); every process
that lives is in the session or known to the command (`ProcessesKnown`); what the draft
says of its cleanup is true (`DraftTrue`), and so is what was written (`HistoryFine`).

### What is only model-checked

* Liveness: `CommandsEnd`, `EveryoneEnds` (with `CallEnds` and `DeliveryEnds`), `PlanEnds`,
  `ChangesBuilt`, `WatchersSettle`, `NoFollowerLeaks`, `VerificationEnds`, and the liveness
  of `LogTail`. The prover has no rule for fairness.
* `FollowingIsTailing` for its liveness: the prover has no rule for `WF` of `Deliver` either.
* `PagesAreTheLog`: what it says of a log is computed by folds over its lines, and needs
  induction over data.
* `LiveServicesKeepConnection`, and `NoLostConnection` and `NoStaleFingerprint` without their
  conditions, are false, as the runs show.

## Not modelled

* Guarded builds: a build in a namespace of its own, nearly all of it calls to the
  operating system, handed from one process to another by pipes; and the plan of a
  guarded configuration.
* The source analyzers and the closure of disabled RPC clients over source code
  (`config/disabled_rpc.go`, `config/discover.go`): pattern matching on program text, whose
  inputs a small instance cannot stand for.
* The contracts of Spring Boot, Java, Python and the environment, and the drivers for
  properties files: the same kinds of patches and guards at other paths.
* Drawing, colours, completion, messages, help, the clipboard, flag parsing.
* The status reports, the preview of a connection, the confirmations of the web page that
  only restrict a stop or a restart.

## Plan

1. `SharedConnection`: done, with its theorems.
2. `WorkspaceSession`: done; all its safety properties are theorems.
3. `HotReload`: done; it implements `WorkspaceSession`, which is a theorem.
4. `KtctlAttempt`: done, with its theorems.
5. An abstract specification of a leased resource, implemented by
   `SharedConnection`: open.
6. `StartPlan`, `Selector` and `StartCommand`: done; all their safety properties are theorems.
7. Logs, diagnostics, dashboards: done, with theorems for the safety of `LogStream`,
   `LogCapture`, `DashboardInput`, `LogDashboard`, `StartupRecord`, `WebViewer` and `WebHealth`.
   `PagesAreTheLog` is only model-checked.
8. Publication of configuration, verification of services, plugins, the manifest: done,
   with theorems for all their safety properties.
