# A TLA+ model of beeta-agent

beeta-agent runs on an edge node, receives commands over MQTT from the cloud
service MAPI, and drives the node's docker engine so that the node's *edge
apps* (groups of containers described by a manifest) are deployed, stopped,
resumed, undeployed and removed as MAPI says. This directory models that
program: TLA+ modules, TLC configurations that check them on small instances,
and TLAPS proofs of the properties that matter most. `PROJECT.json` names every
run, mutant, theorem, hazard and finding, and maps each definition to the lines
of Go it stands for.

Line numbers below are those of the files under `internal/` and `cmd/`.

## The system

| Component | Code | State | Operations |
|---|---|---|---|
| Edge app commands | `edgeapp/edgeapp.go`, `handler/orchestration_msg.go`, `handler/node_msg.go` | none of its own between two commands | DEPLOY, STOP, RESUME, UNDEPLOY, REMOVE, node deletion |
| Record of edge apps | `manifest/status.go` | map `knownManifests`; file `known_manifests.jsonl` | add, set status, delete, set last log time, load at start |
| Docker engine, as the agent drives it | `docker/container.go`, `docker/image.go`, `docker/network.go` | containers, networks, images on the host | create, start, stop, remove; pull, remove; create, prune |
| Network numbers | `docker/network.go` 51-84, 120-174 | none | highest number plus one, then gaps, then refusal |
| Status reporting | `edgeapp/status.go`, `com/msg.go`, `cmd/agent/agent.go` 178-217 | node status; the monitor's last list; the retained message at the broker | status computed from record and engine, sent by handlers, heartbeat and monitor |
| MQTT session | `com/mqtt.go`, `com/log_hook.go` | connection, persistent session, will | connect, subscribe on every connection, publish with a timeout, disconnect |
| Startup and shutdown | `cmd/agent/agent.go`, `edgeapp/local_deploy.go` | none | load, key, `--manifest`, connect, `--delete`, threads, signal |
| Edge app logs | `edgeapp/logs.go`, `docker/container.go` 151-189 | last log time of each app | read a window of lines, send it, advance the window |
| Keys | `secret/secret.go`, `handler/secrets_msg.go` | key file, decryptor, hash of the organization key | make or read the node key, take the organization key, decrypt |
| Manifest parsing | `manifest/manifest.go`, `manifest/manifest_model.go` | none | parse commands; name containers; wire modules to each other |
| Configuration, utilities | `config/config.go`, `model/node.go`, `utility/*` | parameters, set once | read file and flags |

How they interact. The MQTT client calls one handler at a time, in the order of
arrival (its default), on topics subscribed with QoS 2 over a persistent
session; a message is acknowledged when its handler returns, so one that a
crash interrupts is delivered again. A handler reads and writes the record,
calls the docker engine, and publishes a status after each change of it. Beside
the handler three goroutines run: the log reader (which also writes the
record), the heartbeat and the monitor. systemd starts the agent again whenever
it ends (`beeta-agent.service`), and most failures of the record's file are
`log.Fatal`.

What is hard about it:

- **Half-done commands.** A command is a chain of engine calls with a rollback
  for some failures and not for others; each call may fail without its effect
  or with it, and images, networks and names are shared between apps.
- **Crashes.** The engine's state outlives the agent, the record does so only as
  far as it has been written, and the message comes again.
- **A world that moves.** Containers exit, restart by themselves and are removed
  by hand while handlers hold lists of them.
- **Unsynchronised goroutines** over the record, its file and the retained
  status message.
- **Limits.** Network numbers end at 999 and share their name space with
  networks of others.

What makes each component correct, in a sentence: commands leave on the host
exactly what the record says, and take nothing of another app; the record on
file is as true as the one in memory; the engine is only asked for what exists;
a new network's number is nobody's; the last status published is the last one
true; a session never loses a command; startup acts on what was recorded; no log
line is sent twice or never; a key once made is never lost; a module's wiring
points to modules that exist.

## The modules

Models:

| Module | What it is |
|---|---|
| `NetworkName` | the numbering of networks, as operators on the set of numbers in use |
| `Docker` | the engine: state and the effect of each successful call; what containers do by themselves |
| `KnownManifests` | the record in memory and on file, with its operations |
| `EdgeApp` | the composition: the commands, each call of a handler a step, over `Docker` and `KnownManifests`; faults, crashes, redelivery |
| `EdgeAppProperties` | what the handling of commands promises |
| `AppLifecycle` | abstract: the life cycle of an app as its status shows it, command by command |
| `EdgeAppLifecycle` | the mapping under which `EdgeApp` implements `AppLifecycle` |
| `StatusReport` | status messages, composed with `EdgeApp`: heartbeat, monitor, handler, the retained message |
| `LocalDeploy` | a start with `--manifest`, over whatever an earlier process left, composed with `EdgeApp` |
| `ManifestFile` | the record's file written in its parts by two goroutines; implements `KnownManifests` under a condition |
| `NodeSession` | startup, shutdown, the MQTT session with its will, and the node status the broker keeps |
| `NodeKeys` | the node's key, its file and the organization key |
| `LogPipeline` | the windows of an app's log lines on their way to MAPI |
| `ManifestWiring` | a manifest from the message to the containers: secrets, connections, names, shared arrays |
| `DataParts` | `ManifestFile`, `LogPipeline` and `ManifestWiring` side by side |

Instances: `MCEdgeApp` (two apps that share an image, one of them in two
versions), `MCLifecycle`, `MCStatusReport`, `MCLocalDeploy` on top of it;
`MCNode` (`NodeKeys` beside `NodeSession`); `MCData` on top of `DataParts`.

Proofs: `EdgeAppSafety` (network numbers, types, record and file, what is left
behind), `EdgeAppHost` (containers and images), `LifecycleProofs` (statuses, the
refinement of `AppLifecycle`), `EdgeAppOutcome` (what commands come to),
`CompositionProofs` (`LocalDeploy`, `StatusReport`), `DataProofs` (file and logs,
`DataParts`), `NodeProofs` (`NodeKeys`, `NodeSession`), `ManifestWiringProofs`. The
inductive invariants stand at the head of the proofs that need them: those of
`EdgeApp`'s own properties in `EdgeAppSafety`, the others in the module of the theorem.

`EdgeApp` EXTENDS `Docker` and `KnownManifests`; `StatusReport`, `LocalDeploy`
and `EdgeAppLifecycle` are built on `EdgeApp`. The others stand alone, because
what joins them to the commands is one step: `ManifestFile` shows under which
condition a change of the record and its saving are the one step that `EdgeApp`
takes them for, and `NodeSession` takes from `StatusReport` only that messages are
put together before they are published.

### How `EdgeApp` corresponds to the code

- `containers`, `networks`, `images` are the engine's. A container keeps its
  app (the label `manifestUniqueID`), its network, the index of its module, its
  image and its state; a network keeps its app and the number in its name.
  `containers` carry a number that stands for their age, since the code relies on
  docker listing the newest first (`edgeapp.go` 194).
- `known` and `file` are the record in memory and on disk. `AddKnownManifest`
  alone does not write the file, as in `status.go` 46.
- `op` is the stack of the running handler: `pc` names the next call, `caller`
  the path by which `RemoveEdgeApp` or `UndeployEdgeApp` was reached (each of the
  six callers does something else with the result), `todo` and `imgs` what a
  loop has left, `failed` whether its list of errors is non-empty.
- `msg` is the message not yet acknowledged; `last` remembers what the last
  handler returned, for the properties only.
- Every call of the code that changes something or may fail is one action, and
  its failure another one beside it: `PullFails` is `edgeapp.go` 63-69 with the
  status and the rollback that belong to it. `setAndSendStatus` is part of the
  step it follows, since nothing the handler reads lies between.
- A failing engine call may have had its effect (`Fails`): a timeout of the
  engine looks like this. Where the agent does not look at an error, there is an
  action for that too (`PullErrorUnseen`, `docker/image.go` 33-41).
- A call about a container that is gone fails without a fault being spent
  (`FailsOn`), and so does making a container from a missing image.
- `Engine` is what containers do under `RestartPolicy` on-failure, and a
  container removed by somebody else; only containers of `Unstable` images do so.
- `CrashRestart` is a crash at any point between two steps: memory is read back
  from the file, the handler is gone, its message is delivered again.
  `LogRead` is the only other writer of the file: advancing `LastLogReadTime`
  saves all records, one that `DEPLOY` has just made included.
- A manifest's connections and secrets are two sets of manifests here.
  `UpdateManifestPanics` is a DEPLOY of a `Misconnected` one (`edgeapp.go` 85,
  `manifest/manifest.go` 204-206): the process ends when it has made the network and
  saved no status, and begins again with the same message. `Restart`, which both it and
  `CrashRestart` are, is what a new process finds; only crashes are bounded. A DEPLOY of
  a `Secretive` manifest may be refused, since the key that decrypts it does not outlive the
  process (`DeployRejected`; `NodeKeys` and `ManifestWiring` say when). A secret that makes
  `Parse` panic ends the process before the handler's first step, which is a crash there.

Left out of `EdgeApp`: the contents of manifests beyond their images (ports,
mounts, environment); times, but for the order of versions; the log file; status
messages, but for `RemoveEdgeApp`'s reaction when one cannot be sent (343-347).
Manifests without modules are refused by `Parse`, so lines 93-99 of
`edgeapp.go` cannot be reached and are not an action.

Assumed of what is not in the repository: the MQTT client runs handlers one at a
time and acknowledges after them; no docker network has a name of fewer than
three characters (`docker/network.go` 169 would panic whenever a network is made;
docker's own networks have longer names); docker prunes only networks no container refers
to (its documentation's words), lists the newest containers first, and refuses
to remove an image in use without force; no one removes images behind the
agent's back.

### How the other modules correspond to the code

**`AppLifecycle`** has no code of its own: it says what MAPI may rely on. Each
app has a status, a content on the host and perhaps a job, the command being
carried out. A job begins only in the statuses the command is permitted in,
moves the status along the command's edges, touches no other app, changes the
content only while the status says that the app is being worked on, and ends
at one of the command's outcomes. `EdgeAppLifecycle` maps `EdgeApp` to it:
content is the app's containers and networks, and job is read off the
handler's frame. What cannot be promised is visible there: DEPLOY may end in
Initiated or Unknown when it fails, and a crash may take an Initiated app back to
what it was.

**`StatusReport`**. `reader[r]` is the stack of `GetEdgeAppStatus` as the heartbeat
or the monitor runs it (`status.go` 61-112, `agent.go` 178-217): which apps are
left, the record it holds a pointer to, the containers it has still to inspect,
the status so far. Each read of the record, of the container list and of a
container is a step; a handler, or the engine, may move in between. The handler's
own message is one step with the status it sets, since the handler changes nothing
while it reads. A record taken out of the map is still read through the pointer
(`held`). `Differs` is `CompareEdgeAppStatus`, position by position over lists
made from a map in any order. `PublishFails` is a message that is lost without an
error, given up after a second, or refused.

**`LocalDeploy`** is `ReadDeployManifestLocal`: UNDEPLOY and then DEPLOY of the
app in the file, by `EdgeApp`'s own handlers, in a process that follows one that
ended anywhere, without the option or with it. It runs before `ConnectNode` (`agent.go`
61-66 and 73), so that there is no MQTT client: `Panics` is a step of a handler at whose end
a status is set and published, and the process ends there, with the status saved
(`com/mqtt.go` 29 and 180). `Called` is any other step. A step that sets a status is
`Called` too when the reading of what is published fails, an error the handlers only log
(`edgeapp/status.go` 27-30, 39-47): that is the one way by which main can get to connect. An
UNDEPLOY of an app without a record is refused, which is `Fatal`.

**`ManifestFile`** splits `writeKnownManifestsToFile` (`status.go` 123-135) into
encode, truncate, write, for the handler and for the log reader, without a lock.
`disk` is absent, empty, whole or mixed (two writers in one file). `damaged`
remembers that the last write did not run alone or was torn; `calm` is fixed in a
behaviour and restricts it to writers that take turns and crashes that do not fall
between truncation and write. `before` is a history variable for the refinement of
`KnownManifests`. `InitKnownManifests` needs a file that is absent or whole.

**`NodeSession`**. `place` is where `main()` is, `link` and `wire` the connection
and what is in it, `will` whether the broker has the will of a connection it
believes open. `Published` is `publishMessage`: dropped without an error while
the client reconnects. A new connection makes the broker publish the will of an
old one first. `DeleteNodeAndExit` is `--delete`; `SayGoodbye` and `Disconnect` are
the two parts of `DisconnectNode`, between which the heartbeat may publish.

**`NodeKeys`**. `InitNodeKeypair` creates the file, which is empty then, and writes
it; a file with anything but a key ends the agent. A key stands for its public
half; a message carries the key it was encrypted with. `SetDecryptor` and
`SetOrgKeyHash` are two assignments, between which a status may be sent. `reported` is the
hash in the retained status. It outlives the process: a status that is published after the
farewell stays (the fourth finding), until a will, a farewell (`DisconnectedIsTold`) or a status
of the next process replaces it. `own` says that it is of the running process.

**`LogPipeline`**. One cycle of `sendEdgeAppLogs`: the end of the window is fixed
and the record copied (`Wake`), containers are listed and read one by one, one
message is published, and the end of the window saved. A line is its container
and its time. Deployments replace the containers and empty the record's time.
`ReadIsCut` is `docker/container.go` 167-188 where it returns no error and not all lines: data
together with EOF, EOF in a frame, or a short `Read` after which text is taken for headers.
What frames and bytes there are is not modelled, only that the lines from some
point on are missing (`cut`). `ModuleNamePanics` is `logs.go` 62 for a container in `Slashless`.

**`ManifestWiring`**. `array` holds the arrays of modules in memory, `record` names
the one the record uses: `clearSecretValues` works on a copy (`AddKnownManifest`),
`UpdateManifest` on the manifest's own. The two loops over maps take their keys
in any order. What `DecryptEnv` does with a module's secrets depends on their kind and on
the organization key: they decrypt, are refused (no key, or not made with it), or are too short for
a nonce, which is a panic if there is a key (`secret.go` 146-162). The first module that does not
decrypt ends `Parse`, one way or the other. Texts of indices include two spellings of one number, a negative
one, one outside the array and one that is no number.

## The runs

The instances built on `EdgeApp` have app `a` in two versions, of which the new
one keeps one image and drops the other; the ones with two apps have `b`, which
shares that image.

| Run | Module, bounds | What it shows |
|---|---|---|
| `Commands` | `MCEdgeApp`: 2 apps, 8 commands, up to 2 failing calls, network numbers 1 and 2 only | As long as calls succeed, after any commands in any order a Running app is exactly its manifest (one network, one running container per module, nothing of an older version), no app is in Error and no deployment rolls back, and a deleted node is empty. Whichever calls fail, a redeployment removes no image it is about to need; nothing is left of an app that is forgotten or Undeployed; numbers never collide although they run out; no image is taken from a container; removal takes the images along; modules start last to first; and every step of a handler takes it nearer to its end (`HandlerGetsOn`). |
| `Crashes` | `MCLifecycle`: 2 apps, 4 commands, 2 crashes, the log reader running; a third version of `a` with a bad connection, `b` with a secret | What the restarted agent believes is true: Stopped is Stopped; the file lacks at most a record DEPLOY has just made; what that record would have owned is owed to a message still to be delivered again (which is refused, if the app has secrets); and every step is one of `AppLifecycle`. |
| `Liveness` | `MCLifecycle`: 1 app whose `web` containers exit, restart and vanish by themselves, its new version with a bad connection, 4 commands, 1 failing call, 1 crash | Every message is acknowledged in the end, even one at which the agent panics each time: a delivery leaves one more network, and when numbers run out the rollback removes them all; without a crash no app is left Executing, and none Initiated unless a call failed; at each call the status is the one its paths have set last. |
| `Status` | `MCLocalDeploy`: 2 apps, 2 commands and one failing call or change of a container; with the monitor, which reads twice as much, commands and changes together at most 2 and no failing call; for `--manifest` 2 commands, 2 failing calls and 2 starts | What is read without a disturbance is true; the monitor acts on every change of how many apps have a status; where a start with `--manifest` panics, or gets through, the file says the truth of its app: Running is whole and alone, Undeployed or forgotten is gone (`LocalRecordIsTrue`). |
| `StatusLiveness` | `MCStatusReport`: 1 app, 2 commands, a failing call, a lost message or a container that changes | Once nothing changes, the retained message becomes true and stays so. |
| `Node` | `MCNode`: keys: 2 keys of each kind, 2 messages waiting, 3 crashes; session: 3 starts with `--delete` or without, 2 lost connections, 3 messages in flight | A published key is never lost and its mail never in vain; a hash that the running process has told stands for a key in use; only a crash in the first write of the key stops the agent for good; a status that says the node is alive has a will behind it that can take it back (`AliveIsRevocable`); the broker comes to say that a node has gone, and comes to agree with one that stays. |
| `Data` | `MCData`: file: 2 apps, 4 changes, 2 crashes; logs: 3 containers, of which one has an image name without a slash and two fit in at a time, 3 ticks, 1 fault, 1 crash; manifests: 2 modules with secrets of 4 kinds, all assignments of 9 lists to at most 2 of 6 keys | A write that ran alone leaves the file as it should be; a start fails for ever only after a torn or overlapped write; calm writers implement `KnownManifests`; no line is passed over but by a reader that ends early, or sent twice but for a crash or the very end of a window, and each leaves in the end unless the agent panics over its app; containers are told where to send as the message says, no secret gets into the record, and a manifest ends in containers, a refusal or one of two panics as its secrets and lists ask for. |
| `RedeployFault`, `RedeliveredDeploy`, `StopRestarting`, `LateHeartbeat`, `LocalManifest` | smallest that show it (`LocalManifest`: those of `Status`) | The five findings below; each is expected to be violated. |

`Status`, `Node` and `Data` each join modules that share no variable (in `Status`:
that share `EdgeApp`'s, but are alternatives). A variable `part`, `stage` or the team
of reporters, chosen at the start, says which of them moves, the others resting in an
initial state; interleaving them would multiply states and show nothing more.

Why the bounds are enough to make the interesting cases happen: a command
sequence that brings an app through deployment, stop, resume, new version,
undeployment and removal has six commands, and `Commands` leaves two for
the other app; two faults are what it takes to fail a command and then its
rollback; with the network numbers 1 and 2 and the foreign number 0 both the
search for gaps and the refusal occur; two crashes hit a command and its second
delivery. Two commands take an app from nothing to Running and through every
status a reader can catch it in. Four changes of the file let each writer overlap
the other's write and write alone again after it. Three starts allow a will to be
late, its session's successor to end in an orderly way, and another start. Three ticks
give a window with a line before it, at its end and after. Two modules have wiring to
themselves, to each other and out of range. Every action fires in some passing run.

Deadlock is checked in the runs of `MCEdgeApp` and `MCLifecycle`; the one state in
which they may stop is `Finished`: the bound on commands is reached and no handler
runs. It is not checked in `Status`, `StatusLiveness`, `Node`, `Data`,
`LateHeartbeat` and `LocalManifest`: there the behaviours end where the bounds do, and some where
the program does (an agent that is switched off, the ends of a start with
`--manifest`, a manifest that is refused, an agent whose file cannot be read).

**Fairness.** Weak fairness throughout, of what is under way in the program:

- `EdgeApp`: `Handler`; a handler that runs goes on, if only to a panic
  (`UpdateManifestPanics`), after which systemd starts the agent and the broker delivers the
  message again. The code justifies it as far
  as every call it makes returns; the agent puts no timeout of its own on engine
  calls. Nothing is asked of MAPI, of containers, of the log reader or of
  crashes; crashes and faults are bounded, so that retries end.
- `StatusReport`: handlers, and each reporter that runs: both are endless loops
  with a sleep (`agent.go` 178-217).
- `NodeSession`: `Main`, `Heartbeat`, `Handlers`, the broker's handling of what has
  arrived and of a dead connection (keep-alive), and reconnection (the client's
  AutoReconnect, on by default). Not stopping, crashing, starting or breaking.
- `NodeKeys`: startup, with `Restart=always` of `beeta-agent.service`, and the handler.
- `ManifestFile`: `InitKnownManifests`, by the same restart.
- `LogPipeline`: the sender's loop, and the clock.

Every property of a passing run has a mutant in `PROJECT.json`: an operator
marked *Variant* in its module, placed before the definition it would replace,
that changes it as a slip in the code would. With the variant in its place, TLC
finds the property violated.

## What is proved

For every set of apps, images and manifests, every limit and every bound, TLAPS
checks what follows. Each result holds under faults (any call may fail, with or
without its effect), restless containers, the log reader and, where the
specification is `CrashSpec`, crashes, unless it says otherwise.

**Numbers, types, record** (`EdgeAppSafety`)

- `NewCountIsFresh`: a number `makeNetworkName` settles on is within the limit and
  borne by no network. It needs that a bounded set of integers has a maximum and
  a non-empty set of naturals a minimum, proved there from well-foundedness.
- `TypeCorrect`: `CrashSpec => []TypeOK`. `TypeOK` is not inductive: an image is
  looked up as `modules[idx]`, so `FrameFits` relates the handler's frame to its
  message, and `IdsBounded` keeps new containers' numbers above all others.
  `TypeInv` is `TypeOK` with both.
- `FileLagsOnlyWhenInitiated`: `CrashSpec => []UnsavedOnlyInitiated`. Each step of a
  handler leaves the record alone, saves all of it, or is `AddKnownManifest`, which
  makes the one record it touches Initiated.
- `NothingLeftBehind`: `Spec => []InactiveIsEmpty`, from `EmptyInv`. It adds that a
  removal without errors still has every container of the app on its list and
  nothing left after it (`RemovalCovers`), and that DEPLOY has put the app on
  record before it makes anything for it, on a network that is there
  (`RecordFirst`). A step that makes nothing (`HostShrinks`) and lets no app lapse
  whose containers or networks remain (`NoneLost`) keeps the invariant when it ends
  at a call that asks for nothing (`ToHarmless`) or at one of the removal that is
  covered (`ToRemoval`); only `Add`, `CreateAppNetwork` and `CreateContainer` are
  looked at one by one. With a crash it is false (the second finding);
  `CrashesLeaveNothingUnowed` says what remains.
- `NetworksNeverCollide`: `CrashSpec => []NetworksDistinct`, from `OwnInv`, which
  asks of the handler's lists only what a crash cannot take from them: that the
  containers on them are the app's own (`OwnWork`), beside `RemovalCovers`.

**Containers and images** (`EdgeAppHost`)

- `StoppedStaysQuiet`: `CrashSpec => []StoppedIsQuiet`, if nothing restarts by itself
  (without that it is false, the third finding), from `QuietInv`: an app being
  worked on is Stopped neither in memory nor on file, a handler starts containers
  of its own app only, and STOP has every running one on its list. Both copies of
  the status are needed: a crash makes the one on file the one in memory.
- `UsedImagesStay`: `CrashSpec => []ImagesOfContainersPresent`, and `NewImagesStay`:
  `CrashSpec => RedeployKeepsImages`, from `ImageInv`: the images a removal is about
  to take were chosen among those of the old version that the new one does not
  need (`ImageWork`), and DEPLOY makes a container only of an image that is there.
- `RemovalTakesImages`: `Spec => RemovalDropsImages`, if containers do not get lost by
  themselves: when the record goes, each image that was on the removal's list has
  gone or is in use.
- `StartsInOrder`: `CrashSpec => StartsInReverseOrder`, if containers do not stop by
  themselves, from `OrderInv`: numbers of containers run against those of modules
  (`MadeInOrder`), so that docker's newest-first list is the order of the manifest,
  and the handler has started all that are behind the next one (`StartWork`).

**Statuses and the life cycle** (`LifecycleProofs`)

- `EveryCallFitsTheStatus`: `CrashSpec => []StatusFits`, and `CommandsSettle`:
  `CrashSpec => []Settled`, from `SInv`: the status of the app a handler works on
  fits the handler's next call (`Fits`), and an app no handler works on is Executing
  only if there was a crash, Initiated only if there was a crash or a failing call
  (`Unsettled`). The lemma `Moves` says of each action where it goes and what status
  it leaves; every later step is about that summary, no longer about the engine.
- `ImplementsTheLifecycle`: `CrashSpec => ImplementsLifecycle`, the refinement of
  `AppLifecycle`. Each action is shown to be a step of it or a stutter under the
  invariants above and two more: `Callers`, by which path a call can be reached and
  from which message, and `FileBehind`, that the file lags behind memory only in
  what a crash of `AppLifecycle` may undo. `OwnHost` shows that a handler's step
  changes containers and networks of its own app only.

**What commands come to** (`EdgeAppOutcome`)

- `RunningIsTheManifest`: `Spec => []RunningMatchesManifest`, from `Smooth` (without
  failing calls nothing a handler is about to work on is missing), `KeyedById` and
  `WholeInv`: between `create` and `start` exactly the modules from `op.idx` on are
  there (`BuiltFrom`), and an app called Running or Stopped is whole. The property
  counts containers; that one per module is as many as modules is a bijection.
- `DeletedNodeIsEmpty`: `Spec => []DeleteIsComplete`, from `DeleteInv` and `EmptyInv`.
- `CommandsMeetNoError`: `Spec => []NoErrorWithoutFault`, from `ErrorInv` and all of
  these. The one call that may fail by itself is the search for a network number, so
  it assumes `Room`: numbers for all apps beside those of foreign networks
  (`RoomForOne` shows that one is then left when an app has no network).
- `CrashesLeaveNothingUnowed`: `CrashSpec => []InactiveIsEmptyAfterCrash`, from
  `OwedInv`: file and memory differ only in the app of a DEPLOY under way, which
  `Taken` ties to the message that has not been acknowledged.
- `HandlersGetOn`: `CrashSpec => HandlerGetsOn`. `Distance` is lexicographic: `Stage`,
  the part of a command that is being carried out and can only be followed by later
  ones; `AppsLeft`, the apps that deleting the node has still to remove; `CallsLeft`,
  the calls on the path from here; `Rounds`, what the loop at this call has left. Every step of a
  handler, whichever calls fail, lowers it, and it is four natural numbers, so
  there is no infinite descent. That `Rounds` and `AppsLeft` are numbers at all needs
  `FiniteWork`: lists and record stay finite, although a new container's number, a
  manifest and a file that is read back may add to them. That the stages come in
  order is read off `Callers`, `SInv` and `Taken`. `EveryCommandEnds` rests on this
  and on fairness; it stays with TLC, being about liveness.

The first three are about `Spec` without crashes and, as the properties say,
states without failing calls, and assume that containers do not change by
themselves. The last two assume none of this: `CrashesLeaveNothingUnowed` excludes
failing calls, as its property says, and `HandlersGetOn` nothing.

**What is composed with `EdgeApp`** (`CompositionProofs`)

- `LocalStartLeavesTruth`: `LocalSpec => []LocalRecordIsTrue`, with no assumption
  and whatever fails, from `LocalInv`. It follows the two calls of
  `ReadDeployManifestLocal` (`UndeployPart`, `DeployPart`): after an UNDEPLOY that returned
  no error nothing of the app is left, so DEPLOY has no old version to remove, and
  a DEPLOY that has come to its last status has made every module (`LocalVersion`).
  `LocalPanics` is the step that a missing client ends: the status it has saved is Executing or
  Error, or it is Undeployed, or the record's deletion, and the removal has left nothing, or it is Running
  and all of the manifest is there (`FileTells`).
- `MonitorTellsChanges`: `ReportSpec => MonitorNotices`, from
  `ReportOK`, the types of what the reporters keep. `Differs` compares lists
  by position; that equal lists have equal counts is what it comes to.
- `UndisturbedReportsAreTrue`: `ReportSpec => [](Unstable = {} \/ faults = 0 =>
  UndisturbedIsTrue)`. `GetEdgeAppStatus` counts containers and never looks which
  modules they are. That this is enough is `PlacedInv`: containers of an app that is
  settled have one network and a module each, and with as many as modules none can
  be missing (pigeonhole, in `ModulesTell`). `ReadInv` says what a reading that
  nothing disturbed has found out so far. The hypothesis is needed: a failed
  removal may leave containers of an older, longer version, and when those of the
  new one get lost by themselves the number may be right and the modules wrong.

**File and logs** (`DataProofs`)

- `FileStaysCurrent`: `Spec => []FileIsCurrent`, from `IInv`: data about to be written
  lag memory at most by Initiated apps as long as their writer is alone
  (`DataFits`), being alone is mutual (`AloneFits`), and the file is unreadable only
  while it is being written or once it was damaged. `StartReads` follows: a start
  finds a readable file unless the last write was damaged.
- `ChangesTakeEffectAtOnce`: `Spec => ChangesAreAtomic`, the refinement of
  `KnownManifests`, step by step. `RInv` adds to `IInv` that in a calm behaviour
  nothing is ever damaged and one writer at most is at work, and that `before`
  and the file are what the abstract state says while a save is under way.
- `LogTypes`, `NoLineIsPassedOver` (`NothingPassedOver`), `LinesAreSentOnce`
  (`SentOnce`). `LInv` says where each line
  of the open window is at each point of the cycle: still to be read, read, sent,
  or lost with its message or by its reader (`WindowCovered`, `Held`); for the second, a line already
  sent lies before the window unless it was written when a window ended
  (`NotAgain`). File and memory always hold the same time, which is why a crash
  costs nothing but a second sending; so it is with the panic over an image name.
- `PartsKeepTheirTypes`: `PartSpec => []TypesOK`, the types of file, logs and wiring when
  any of them moves beside the others (`DataInv`: the three inductive invariants
  together; the parts share no variable).

**Keys and session** (`NodeProofs`)

- `KeyTypes`, `PublishedForGood` (`PublishedKeyLasts`), `NoMailInVain`
  (`OrgKeyIsReadable`), `ToldKeyInUse` (`ReportedKeyIsUsable`). `IInv`: the key in
  memory from the first write on is the one in the file (`KeysAgree`), every message
  waiting was made with a published key, which is that one (`MailIsForNode`), and
  the hash follows the decryptor, in what the running process has told (`own`) as in memory
  (`HashFollowsKey`).
- `AliveStatusIsRevocable`: `SessionSpec => []AliveIsRevocable`, from `SessionInv`. What
  `Standing` says is what the broker will keep once all that is in the connection has
  arrived; if that says the node is alive, the broker has the will of this very
  connection and no DISCONNECT is on its way that would cancel it. `WillIsKept` is what it
  needs: a connection that is up has a will and no DISCONNECT in it; one that broke
  still has its will, or the broker has said already that the node is gone; and while
  `DisconnectNode` is between its two parts the farewell is what stands, unless
  something was published after it. Over crashes, lost
  connections and new ones that make the broker publish an old will late. This is
  the safety behind `GoneIsTold`, which adds that the will does come.

**Manifests** (`ManifestWiringProofs`)

- `ModulesAreWired` (`WiringIsRight`), `SecretsStayOut` (`SecretsStayApart`), `EndsAsWritten`
  (`EndFitsMessage`), `WiringTypes`, all from `WiringInv`: the connections are those of
  the lists visited so far, each from one of the lists for its index
  (`ConnectionsFit`), and the two arrays hold what the steps up to here have put
  into them, module by module (`ArraysFit`), in whatever order maps are visited.
  `ValuesInt` follows the loop of `parseConnections`; that it gives a sequence of the
  numbers that are not negative, and of nothing else (`ValuesIntFits`), is an
  induction over the length of the list. `EndsAsWritten` has four ends: containers, a
  refusal, a panic over a secret, a panic over a connection. `FirstDecides` says that of modules
  whose secrets do not decrypt one comes first, by the order of naturals, and that it alone
  decides between refusal and panic. It is made over the *set* of positions
  that have come out right (`UpTo`), which needs no operator as a parameter, and
  begins with the existence of the recursive function itself (`LoopEnds`).

The assumptions are the modules' named ASSUMEs: a positive limit, foreign
numbers that fit into it, manifests of known apps and images with at least one
module, a clock of one tick at least, `None` and `Empty` being none of the values they stand against, and texts
that are a number or none. TLC evaluates them in every run of their modules. Beside
them some theorems have hypotheses of their own, each of which some run meets:

- `Unstable = {}`, no container exits, restarts or vanishes by itself:
  `StoppedStaysQuiet`, `RemovalTakesImages`, `StartsInOrder`,
  `RunningIsTheManifest`, `DeletedNodeIsEmpty`, `CommandsMeetNoError`. `Commands`
  and `Crashes` have it so too: what happens when containers do change
  is what status messages are there to tell.
- `Room`, in `CommandsMeetNoError`: with the code's limit of 999 it says that apps and
  foreign networks of the same form are no more than a thousand.

Model-checked only:

- liveness under fairness (`EveryCommandEnds`, `RetainedBecomesTrue`,
  `NodeComesToRun`, `GoneIsTold`, `RunningIsTold`, `RestartSucceeds`,
  `EveryLineLeaves`), which is beyond the prover; each invariant and each action
  property of a passing run is proved, but for the next point;
- `UndisturbedIsTrue` when calls fail and containers get lost as well, where it is
  not true for every manifest, as said above; a single fault, as in the run, does
  not get there.

## Findings

1. **A failed removal of the old version is not noticed** (`RedeployFault`;
   `edgeapp.go` 39). The new version is deployed beside what is left of the old
   one, under the same label, and reported as Running; `GetEdgeAppStatus` will then
   count too many containers and report Error for an app whose record says Running.
2. **A crash early in DEPLOY doubles the app** (`RedeliveredDeploy`; `status.go`
   46). The record is not written until the first status is set; on the second
   delivery the agent deploys again.
3. **A restarting container escapes STOP** (`StopRestarting`; `edgeapp.go`
   146). It comes up again in an app that is recorded as Stopped.

4. **A stopped node may stay Connected** (`LateHeartbeat`; `com/mqtt.go` 81). The
   farewell is published before the connection ends, and heartbeat, monitor and
   handlers are not stopped before: one that publishes in between has the last
   word, and an orderly end keeps the will from correcting it. `GoneIsTold` is the
   same promise with this exception, and holds.

5. **`--manifest` deploys nothing** (`LocalManifest`; `local_deploy.go` 33). It
   begins with `UndeployEdgeApp`, which refuses an app the record does not know, and `main`
   ends the agent with that error. For an app on record the first status is published before
   there is an MQTT client, a panic that leaves Executing on file. What `LocalRecordIsTrue`
   adds is that no such end, and none that follows it, leaves an untrue record.

Seen while reading, where the repository says nothing to hold it against: a DEPLOY with a
connection out of range panics at each delivery and makes a network each time
(`edgeapp.go` 85); a secret value too short for a nonce ends the agent in `Parse` (`secret.go` 154);
an image name without a slash ends it whenever the logs of its app are read (`logs.go` 62); the log
reader ends without an error before the last line if data and EOF come together (`container.go` 170,
180); a DEPLOY with secrets that a crash interrupted is refused when it is delivered again before
the organization key has come, and what it had made has no record; STOP and RESUME that a crash
interrupted leave Executing, which neither accepts (`edgeapp.go` 143, 191); RemoveAll ends at the first
app it cannot remove and the node is reported Deleted (`edgeapp.go` 355); a torn or overlapped write of
the record makes every later start fail (`status.go` 129). The modules have each of these, and the
properties say what holds beside them.

## Not modelled

- Configuration (`config/config.go`, `model/node.go`, `utility/*`): read once at
  start, sequential, and nothing of it outlives the start.
- Mounts, devices, ports and the validation of fields of a manifest: copied one by
  one, without state. Parsing of JSON is the library's.
- What is made of a log line (time, level, the name in front of it) and the bytes
  of docker's log stream (`docker/container.go` 167-188): `LogPipeline` has which lines a reading
  returns, not the garbage that a misaligned one may return beside them, nor the size of a
  buffer whose length is read from the wrong place.
- Docker networks with names of one or two characters (`docker/network.go` 169), as
  assumed above.
- The agent's own logs over MQTT, TLS, and the registration, which is not
  implemented in the code.
- Handlers that run while `--delete` removes the apps in `main` (`agent.go` 79):
  nothing in the repository says what should come of it. `NodeSession` has the
  node status of such a start.
- Images of an Undeployed app over which a new version is deployed
  (`edgeapp.go` 32): they stay on the host with no record of them. No property
  says they should not, since no doc does.
- A data race on the map of records as such: `StatusReport` reads between any two
  steps of a handler, and `ManifestFile` takes what the race may do at worst, a fatal
  error, for a crash.

## Plan

What would come next: `--delete` with handlers running, once it is said what it
should do.
