# smarthome-mcp in TLA+

This directory is a verification project for smarthome-mcp, an MCP server that
lets clients query and control a Home Assistant installation, write its scenes,
automations and blueprints, and deploy a small custom component to its host over
SFTP. The modules model the parts of the server that keep state across several
requests, that change something outside the process, or that run concurrently.
Paths below are relative to the repository (`src/...` is its Rust source).

## 1. The system and its parts

| Part | State | Operations | Interacts with | Hard because |
|---|---|---|---|---|
| Deployment transaction, `deployment.rs` | on the host: active, staging and backup trees, journal | reconcile, stage, commit, rollback | one SFTP request after another | any request may fail, lose its answer or be the last before a crash or the deadline; state survives in files only |
| Deployment lock, `deployment.rs` | lock and claim files with owner and lease | acquire, stale takeover, owner check, unlock | other server processes on the same host | several processes, no atomic compare, a clock |
| Deployment service, `ComponentDeployer` | one permit | deploy in a spawned task | MCP handler that may be cancelled | the task outlives its caller |
| Native authoring, `mcp/authoring.rs` | none of its own; one item in Home Assistant | create, edit | reads and one write of the client | other writers, writes carried out after the caller gave up |
| Service calls, `client.rs` and `mcp.rs` | four permits, a dispatch flag | control, trigger | fresh reads, then one POST | deadline and cancellation around the dispatch |
| Thread discovery, `client.rs` | a map of routers | subscribe, follow, unsubscribe | one websocket | events before and after the answers |
| Client operations, `client.rs`, `actions/` | permits, metrics guard | about thirty: reads, Matter, camera, Thread, management | one to five requests to Home Assistant | Home Assistant changes between the requests; deadline and cancellation |
| Listings and inputs, `client.rs`, `actions/` | none | validate, filter, group, limit | the answers above | limits at their boundaries |
| REST exchange, `client.rs`, `http_client.rs` | body so far, span | send, examine, read | HTTP | bodies that break off, sizes, drops |
| SFTP transport, `deployment.rs` | prefix and remaining bytes, handles | poll_read, read, read_dir, write | the russh crates | pieces of any size, failures between them |
| MCP surface, `mcp.rs`, `skills.rs` | static catalogs | dispatch, resources, URIs | all of the above | several tables that must agree; encodings |
| OAuth, `oauth.rs` | signing keys in PostgreSQL | start-up, clean-up of retired keys | the external `mcp` crate | two processes starting, a lost lock |
| Life cycle, `main.rs`, `app.rs`, `observability.rs`, `profiling.rs` | stage, shutdown flag, guards | start, serve, clean up, shut down | signals, clients, a cleanup task, a thread | a shutdown at any point, parts that hang |
| Configuration, `config.rs` | none | validate the environment | | |
| Custom component (Python) | none | one read-only websocket command | Home Assistant | |

What makes each part correct:

* *Transaction.* Home Assistant finds the component it had or the exact new one,
  never a mixture; a success is true; a refusal has changed nothing; foreign and
  newer components are left alone; a repeated deploy gets through.
* *Lock.* One process at a time changes the component; nobody removes a lock that
  is not its own or not the stale one it saw.
* *Authoring.* An answer that denies a change is final, an accepted one was stored
  once, and it replaced the text it was made from.
* *Service calls.* A trigger that says it was not sent never runs; every call acts
  on authority read during the call; permits are conserved.
* *Thread discovery.* The result is the network at the end of the subscription.
* *Deployment service.* One deployment at a time, also one nobody waits for; it ends,
  and the password goes to the pinned host only.
* *Client operations.* What is returned or done rests on authority of the same call; a
  denial is final; everything that is admitted ends and is counted once.
* *Listings.* A page says what it left out; a whole is whole or refused.
* *Transports.* Data is complete and in order or the call fails; limits are exact.
* *Surface.* What is announced is served, reads only read, and an item has one URI.
* *Edits.* An edit happens at the one place it names or not at all.
* *Life cycle.* A signal ends the process in order, whatever hangs, and nothing is
  counted twice or forgotten.
* *Signing key.* Starting processes do not replace a key in use, and a valid token can be
  verified.

The hazards, each with its line and the properties aimed at it, are listed under
`hazards` in `PROJECT.json`.

## 2. Modules

| Module | Models | Runs |
|---|---|---|
| `DeployTransaction` | the transaction, one request per action | `deploy_transaction` and two claims |
| `ComponentSlot` | what a deployment promises, without files and requests | through `DeployRefinement` |
| `DeployRefinement` | `DeployTransaction` as an implementation of `ComponentSlot` | `deploy_transaction` |
| `DeployLock` | the lock and claim files, several processes, a clock | `deploy_lock` and two claims |
| `Authoring` | create and edit with concurrent callers | `authoring` |
| `ServiceCalls` | controls and triggers | `client` |
| `ThreadRouters` | router discovery | `client` |
| `DeployService` | the permit, the spawned task, the connection | `deploy_host` |
| `SftpStream` | `BoundedSftpStream`, poll by poll | `deploy_host` |
| `SftpFiles` | the operations of `NativeFs` that take several requests | `deploy_host` |
| `ClientOperations` | the client's operations as plans of requests | `client` |
| `DeviceList` | listings of entities and devices over five reads | `requests` |
| `Listings` | what the client makes of the other answers | `requests` |
| `ActionInputs` | validation of the actions' inputs | `requests` and a claim |
| `RestExchange` | one REST request and its span | `client` |
| `McpSurface` | names to operations | `requests` |
| `ResourceUri` | catalogs, item URIs and reads | `requests` |
| `EditScript` | validation and application of text edits | `authoring` |
| `Lifecycle` | the process from start to exit | `client` |
| `ServiceParts` | an instance of `ServiceCalls`, and what makes it correct | `client` |
| `AuthoredText` | an instance of `EditScript`, and what makes it correct | `authoring` |
| `ServerParts` | instances of `RestExchange`, `ThreadRouters` and `Lifecycle`, and what makes them correct | `client` |
| `HostParts` | instances of `SftpStream` and `SftpFiles`, and what makes them correct | `deploy_host` |
| `RequestParts` | instances of `McpSurface`, `ResourceUri`, `ActionInputs`, `DeviceList` and `Listings`, and what makes them correct | `requests` |
| `SigningKey` | the signing key on a shared database | `signing_key` |
| `DeployTransactionProofs`, `DeployLockProofs`, `SigningKeyProofs` | theorems about the module each is named after, the first about `DeployRefinement` too | TLAPS |
| `ServiceCallsProofs` | theorems about the part of `ServiceParts` | TLAPS |
| `DeployServiceProofs` | theorems about `DeployService` and the parts of `HostParts` | TLAPS |
| `AuthoringProofs` | theorems about `Authoring` and `AuthoredText` | TLAPS |
| `ClientOperationsProofs` | theorems about `ClientOperations` and the parts of `ServerParts` | TLAPS |
| `RequestsProofs` | theorems about the parts of `RequestParts` | TLAPS |

The `MC` modules instantiate them for TLC. `MCDeployHost`, `MCAuthoring`, `MCClient` and
`MCRequests` each take the modules of one side of the server together: `part`, chosen in
the initial state, says which of them runs, and the others rest at an initial state of
theirs, so that the states of a run are the sum of the states of its parts and not their
product. Where a module's properties are about one piece of code together, `AuthoredText`,
`ServiceParts`, `ServerParts`, `HostParts` and `RequestParts` conjoin or only name them,
for the run and for the theorem; the module itself has each by its own name.

How they fit together: `SftpStream` and `SftpFiles` justify the single requests of
`DeployTransaction`, `DeployTransaction` with `DeployLock` is the one step that
`DeployService` gives to a deployment, and an exit in `Lifecycle` is a `Crash` of
`DeployTransaction` for a deployment whose caller has gone. `McpSurface` leads to the
operations of `ClientOperations`, `ServiceCalls`, `Authoring` and `DeployService`, whose
requests are `RestExchange`s and whose answers go through `DeviceList` and `Listings`;
`EditScript` is the text that `Authoring` takes as given.

Operators named after a definition with a suffix and commented as a *mutant*
(`VerifyStagingNames`, `IsStaleEarly`, ...) are deliberately wrong variants of the
definition that follows them. No specification uses them; each shows that some
property notices that mistake.

### DeployTransaction

A tree is a record `[ver, files, bad]`: the version in its manifest, the files
present, and those among them whose bytes are not the published ones; a directory
that is not there is `Absent`. `Recognized`, `Older` and `Exact` are
`installed_manifest`, `validate_recognized_version` and `verify_exact`. A file is
its place in the order in which files are written and removed, so that a removal
cut short leaves the files the code would leave: `ManifestFile` says where in
that order `manifest.json` is.

`pc` is the next request. One action is one mutation, or one group of reads with
the decision taken on it:

| Actions | Code |
|---|---|
| `Start`, `Refused`, `LeaseExpires` | `run_transaction_with_timeout` up to the lock, `acquire_lock` in outline |
| `Reconcile`, `Restore`, `ClearStaging`, `DropJournal` | `reconcile`; its table is `Row` |
| `Inspect`, `MakeStaging`, `WriteFile`, `VerifyStaging`, `WriteJournal` | `run_locked`, `stage`, `write_journal` |
| `Commit`, `ClearBackup`, `BackupActive`, `Activate`, `CommitJournal` | `commit` |
| `RollbackActive`, `RollbackRestore`, `ClearStaging`, `RollbackJournal` | `rollback` |
| `Unlock`, `Deadline` | the rest of `run_transaction_with_timeout` |
| `Crash`, `Upgrade`, `CalmDown` | death of the process, another server version, the end of failures |

`Request` is what a mutation may come to: carried out; impossible (an exclusive
create on an existing name, a rename onto one), which is an `UnsafeState`; refused
by the server (`"reject"`, which also stands for a failed owner check); unanswered,
with or without its effect (`"lost"`). Writes can also arrive corrupted or be cut
short. The constant `Faults` says which kinds a run explores. `before` and `sound`
are history: the component in effect, and whether `reconcile` accepted the state,
when the last deployment began.

Abstractions, and why they lose nothing the properties tell apart:

* file and directory modes: the modes the server sets are the modes it expects,
  given the usual umask of the SFTP server; a tree with other modes, other kinds of
  entry or too many of them is one that is not `Recognized`;
* the requests of one SFTP session take effect in the order sent, so the effect of
  a request whose answer was lost precedes later requests. A request that is
  dropped by the deadline may still be carried out (`InFlight`);
* removing the emptied subdirectories and the root of a tree is one step, and so is
  making them: between those requests the tree has no files either way;
* `ensure_directory(custom_components)` is left out: it either succeeds or ends the
  transaction before `reconcile`;
* all versions have the same subdirectories; their files may differ (`PackageFiles`), so
  that staging left by another version may be one that `CurrentPartial` refuses
  (`Clearable`);
* the lock is only free, held or stale here; its files are in `DeployLock`.

### ComponentSlot and DeployRefinement

`ComponentSlot` is the promise: one slot, which a deployment may switch to the
server's package if it is empty or older, may switch back until it answers, and
about which its answer is right; nothing changes while no deployment runs. The
mapping takes the slot to be `Effective` (the active tree or, between the two
renames of an update, the backup that the journal vouches for), `old` to be the
history variable `before`, and hides the answer until it is given.

### DeployLock

`lock` and `claim` are the two files. A file has an owner token, a lease time and
whether its bytes are complete: `write_exclusive` creates the file and then fills
it through a handle, which keeps pointing to the file when it is renamed. Every
request of `acquire_lock` is an action, in the code's order, for the three ways it
can go (no lock, stale claim, stale lock; `via`). In the transaction each mutation
is three requests: the lock, the claim, the mutation. `RenameLock` moves whatever
has the lock's name, as SFTP does. `Crash` also stands for a request of the
acquisition or of the unlock that fails: in all these cases the files stay.

The clock is one for all processes (the code compares `SystemTime`s of different
machines; skew would add to the acquisition time). `Tick` is not possible when a
phase has used up its time: the transaction has `TRANSACTION_TIMEOUT`, and the
acquisition and the unlock are finite sequences of requests that each time out.

### Authoring

One item, several callers (`Authors`), and other writers (`OtherWriter`). A text is
its own revision. `Meaning` says which texts parse to the same tree, for the check
that an edit changes something. The write is not atomic with the call: `Send` puts
it on the `wire`, Home Assistant stores or discards it at any later time, and the
caller may have given up by then. A 4xx status and the blueprint errors
`invalid_format` and `already_exists` mean that nothing was stored: that is the
assumption the code states in `blueprint_save_response`. Where
`single` holds (it is chosen at the start) nobody begins to write while a call, or a write
it left behind, is under way: the rule the tool description demands of its users.

### ServiceCalls

`execute_control` (exposure, then one POST) and `trigger_automation` (revision,
the one entity of the automation, then one POST) compete for the permits of
`admit`. `End` drops the permit whichever way an operation ends, as the guard does
in Rust. `dispatched` is the flag the trigger shares with its handler.
`Change` is anybody changing exposure, automation or entities in Home Assistant.

### ThreadRouters

The client's three reading loops are `Receive` with three values of `pc`. Home
Assistant (external) processes commands in order, reports the known routers and
then every change while the subscription lasts, on the same ordered connection.

### DeployService

`Deploy` takes the permit and spawns; the task then connects (`CheckServerKey`,
`Authenticate`, `Open`), runs its transaction in one step with any answer, and
`Finish` records it and frees the permit. `Cancel` ends the caller and not the task.
`told` collects the hosts that were given the password; the host at the address may
change at any time.

### SftpStream and SftpFiles

`SftpStream` has one action per turn of the loop of `poll_read`; the inner stream delivers
any number of bytes at a time or none. The reader (russh-sftp) is external: it asks for a
prefix, then for its packet, and stops at an error. Two facts hold only for such a reader,
and the code documents neither otherwise: the limit error is given once, so a reader that
polled again would be given the packet; and a reader that asked for more than the prefix
could be left Pending with bytes already in its buffer.
`SftpFiles` models `read`, `read_dir`, `write_exclusive` and `mkdir` request by request. It
shows what `DeployTransaction` assumes of them: a read is whole or fails, a write is whole,
absent or cut short.

### ClientOperations

Each operation is its `Plan`, the sequence of its requests: `admit` and the metrics guard
first, then reads of authority, then the read or the command it is about. `Timeout` and
`Cancel` strike between any two; a command that was sent may be carried out later.
`Change` is Home Assistant. `camera_snapshot_with` has its own end (`Complete`), which
looks at the clock again. The setup flow is modelled with the entry that another setup or
a user may make first.

### DeviceList, Listings and ActionInputs

Pure transformations between reads. Identifiers and names are numbers in the code's sort
order. `DeviceList` reads exposure, states and the three registries at five different
moments. `Listings` takes any small answer of Home Assistant, with malformed, foreign and
repeated entries. What is sorted is the one arrangement of its elements that the order
allows (`Sorted`, `InOrder`, `Arranged`), not the outcome of an algorithm; where the code's
sort is stable the position breaks ties. `ActionInputs` has the per-action limits and parameters as tables and
checks inputs on both sides of every limit. The range of a history is compared in whole
seconds (`get_history.rs:49`), so that a fraction of a second more than 24 hours passes:
`IntervalWithinRange` states the documented limit, which the run `history_range_claim`
refutes, and `HistoryForward` how far the code can be from it.

### RestExchange

`Respond`, `Examine`, `Chunk` and the two ways a stream ends, each with what the span
records; `Drop` at any point.

### McpSurface and ResourceUri

`McpSurface` keeps the code's tables (public tools, their rows, the private tools and
handlers) and asks which handler a name reaches. `ResourceUri` keeps `item_uri`,
`decode_item_id` and the canonical-form check at the level of bytes and escapes, and
re-reads the catalog for a read, as the code does.

### EditScript

Texts are bytes, so that offsets, character boundaries and the limit are those of the
code; cutting a character in two is the outcome `panicked`, which never happens. The edits
are validated first (`Give`) and then applied one per step.

### Lifecycle

`main` moves through `Stages`, serving and the steps of shutdown, while requests, the
cleanup loop and the profiler's thread go on. `Finish` and `Drop` are the two callers of
the request guard's `finish`. Probes are left out: they are not counted. `axum::serve` ends
only after a signal and when the requests are over, as its documentation says.

### SigningKey

A starting process holds the advisory lock through one connection and uses the key store
through others, so a failed start leaves its keys and a lost connection takes only the
lock. The key store is the external `mcp` crate's: activating a key retires the former one,
and retired keys are removed once their overlap is over.

## 3. Runs

| Run | States | Properties |
|---|---|---|
| `deploy_transaction` | 256,892 | `TypeOK`, `OldOrNew`, `SuccessMeansInstalled`, `RefusalPreserves`, `ForeignTreeUntouched`, `ImplementsSlot` (the transaction refines `ComponentSlot`), `DeploymentEnds`, `RetrySucceeds`, all under every kind of failure |
| `deploy_cleanup_claim` | violation | `CleanupIncompleteReconciles` |
| `deploy_deadline_claim` | violation | `DeadlineLeavesReconcilable` |
| `deploy_lock` | 51,099 | `MutualExclusion`, `OwnerFileSurvives`, `RemovalsAreOwn`, two processes |
| `deploy_lock_slow_claim` | violation | `MutualExclusion` with a slow acquisition |
| `deploy_lock_claim_race` | violation | `MutualExclusion` with three processes |
| `deploy_host` | 576,410 | `OneDeployment`, `PasswordToPinnedHost`, `DeploymentsAreTrue` (`DeployService`); `StreamIsTrue` (`SftpStream`); `FilesAreTrue` (`SftpFiles`); `NothingHangs` (the first two) |
| `authoring` | 405,339 | `RefusedNeverSaved`, `AcceptedSavedOnce`, `ReplacesExpected` (`Authoring`); `EditIsExact`, `EditsAreSound` (`EditScript`) |
| `client` | 479,781 | `TriggerRetryIsSafe`, `AuthorityIsFresh`, `PermitsBalance` (`ServiceCalls`); `FreshAuthority`, `AnswersAreTrue`, `MetricsBalance`, `NoLateSnapshot` (`ClientOperations`); `RestIsTrue` (`RestExchange`); `DiscoveryIsTrue` (`ThreadRouters`); `ShutdownIsOrderly` (`Lifecycle`); `NothingHangs` (calls and shutdown) |
| `requests` | 3,274,789 | `SurfaceIsTrue` (`McpSurface`), `UrisAreTrue` (`ResourceUri`), `InputsAreTrue` (`ActionInputs`), `ListingsAreTrue` (`Listings`), `DevicesAreTrue` (`DeviceList`) |
| `history_range_claim` | violation | `HistoryWithinRange` |
| `signing_key` | 1,634,511 | `ActiveKeyStands`, `TokensVerify` |

`TypeOK` says what the larger modules' states are made of. `deploy_transaction` checks it;
`DeploymentsAreTrue`, `AnswersAreTrue` and `DiscoveryIsTrue` contain it for their modules.
For every module with a proof module of its own TLAPS proves it.

Bounds. `deploy_transaction` has three versions with three or four files each, of four
names, one renamed between the first two, with the manifest within the order, as it really
is: an older, the server's and a newer version are all possible, a package can be partly written and partly removed, before and after
its manifest, and failures are not counted, so that any number of deployments,
crashes and upgrades follow each other. The theorems lift the bounds for the safety
properties. `deploy_lock` gives each of the three phases one unit and the lease
three, the tightest lease that still covers them, with a clock long enough for
a lock to be created, go stale and be taken over; `deploy_lock_slow_claim` counts
minutes, with the code's five and four and an acquisition of two. Two processes cannot
show the race for a stale claim, which takes a third: only `deploy_lock_claim_race` does,
and it is a violation.

In `client` one caller makes every operation alone, in every state of Home Assistant and
with two changes of it, and two callers at once make those that compete or that leave
something behind (a snapshot, a setup, a read) for one permit. Two callers at once make
every pair of controls and triggers for one permit, with two changes. There is one router more
than the limit allows, with two changes. `deploy_host` has three callers: one cancelled,
one refused, one that follows; the host changes once. The limits in `Listings`,
`ActionInputs`, `SftpFiles`, `SftpStream` and `RestExchange` are small numbers with inputs
on both sides of them. `requests` has `DeviceList` in two parts: `quiet`, without changes,
with as many entities, devices and areas as it takes for two entities of one device to be
in different places and for the limit to cut; and `busy`, with two changes between the
reads, in which one device and one area come and go and the third entity stays alone
(`Small`). `authoring` has two callers
with two calls each under the single-writer rule and one each without it, texts of up to
one byte more than the limit over a one-byte and a two-byte character, which is what it
takes for matches to overlap, and two edits, which is what it takes to pass the limit and
return, or to undo. `signing_key` has three processes: one in service, one that lost its
lock and one that got it; three keys; and times for which the default overlap is too short.

Callers are alike. Where symmetry cannot be declared, because a run checks liveness, they
begin in the order of their numbers (`InTurn`, `CallsInTurn`), the automation is at its
first revision, and the routers known at the start are the first ones; every other
behaviour is one of these with the callers, revisions or routers renamed.

Fairness, where a run checks liveness:

* `DeployTransaction`. Weak fairness of `Step`: the spawned task is polled to its end,
  since it is not tied to its caller, and every request in it ends by answer or timeout.
  Weak fairness of `Start`, `LeaseExpires` and `CalmDown`: clients call again, time
  passes, and failures are not for ever; without the last a retry need not ever succeed.
  No action is assumed to succeed while failures go on.
* `ClientOperations` and `DeployService`. Time passes and timers fire: tokio's timeouts.
  Nothing is assumed of Home Assistant, of the host or of a caller.
* `SftpStream`. Bytes that were sent arrive, and the reader polls again when it is woken.
* `Lifecycle`. `main` and the cleanup loop are polled, and handlers answer, since every
  operation has a deadline. Neither the clean-up of the database nor the profiler is
  assumed to end.

`CHECK_DEADLOCK FALSE` stands where callers make a bounded number of calls and
then everything is quiet, which is a proper end.

### What the violations show

1. *Cleanup.* `docs/operations/component-deployment.md` says to invoke deploy again
   after `deployment_cleanup_incomplete`. `reconcile` clears staging first and
   removes the journal second. If that removal is refused, the journal says
   update, the old component is active and staging is gone: no row of the table
   recovers this, and all further deployments are refused.
2. *Deadline.* `docs/home-assistant/spec/component-deployment.md` says the deadline
   leaves state for reconciliation. When it strikes while `commit` removes the
   previous backup, the backup has lost its manifest, and `reconcile`
   validates a backup before anything else.
3. *Slow acquisition.* The same document sets a five-minute lease against a
   four-minute deadline. The lease runs from before the acquisition, the deadline
   from after it. In `deploy_lock`, which passes, acquisition, transaction and
   unlock together fit into the lease.
4. *Claim race.* A process that takes over a stale claim does not verify the claim
   again before removing it. With three processes it can remove the live
   lock of another that the third has moved there by mistake.
5. *History range.* `docs/home-assistant/spec/get-history.md` says that the interval "must
   be positive and no longer than 24 hours", and so does the action's comment in `mcp.rs`.
   `GetHistoryInput::validate` compares whole seconds, so an interval of 24 hours and a
   fraction of a second passes. The same rounding refuses a positive interval of less than
   a second. `history_range_claim` has only inputs, with the constants of `requests`.

### What the properties allow

* `deploy_lock` and its theorems are about two processes (see the fourth violation).
* `AuthorityIsFresh` and `FreshAuthority` ask that an authority was good at some moment of
  the call. The check and the request that counts on it are two requests to Home Assistant,
  and the code cannot exclude a change between them.
* `ReplacesExpected` holds of configurations under the single-writer rule only, since their
  write has no condition; another writer between the second read and the write goes unnoticed.
* `NothingHangs` of `Lifecycle` takes it that every HTTP request is answered or dropped.

## 4. Proofs

The theorems hold for every value of the constants that meets the named assumptions of the
module, where the runs of section 3 check small ones. Each is about a property of a run,
named in its statement.

| Module | Theorem | Statement |
|---|---|---|
| `DeployTransactionProofs` | `TypeCorrect` | `Spec => []TypeOK` |
| | `ComponentWhole` | `Spec => []OldOrNew` |
| | `SuccessIsTrue` | `Spec => []SuccessMeansInstalled` |
| | `RefusalIsSafe` | `Spec => []RefusalPreserves` |
| | `ForeignIsUntouched` | `Spec => ForeignTreeUntouched` |
| | `Refinement` | `Spec => ImplementsSlot`, that is `Slot!Spec` |
| `DeployLockProofs` | `DeployersExclude` | `Spec => []MutualExclusion` |
| | `OwnerFileIsKept` | `Spec => []OwnerFileSurvives` |
| | `RemovesItsOwn` | `Spec => RemovalsAreOwn` |
| `DeployServiceProofs` | `DeploymentsExclude` | `Spec => []OneDeployment` |
| | `PasswordIsKept` | `Spec => []PasswordToPinnedHost` |
| | `DeploymentsTrue` | `Spec => []DeploymentsAreTrue` |
| | `StreamsAreTrue` | `Stream!Spec => []StreamIsTrue` |
| | `FilesAreSteps` | `Files!Spec => []FilesAreTrue` |
| `ServiceCallsProofs` | `PermitsAreBalanced` | `Calls!Spec => []PermitsBalance` |
| | `RetryIsSafe` | `Calls!Spec => []TriggerRetryIsSafe` |
| | `AuthorityWasFresh` | `Calls!Spec => []AuthorityIsFresh` |
| `AuthoringProofs` | `RefusalIsFinal` | `Spec => []RefusedNeverSaved` |
| | `AcceptedIsSaved` | `Spec => []AcceptedSavedOnce` |
| | `ReplacesWhatWasRead` | `Spec => ReplacesExpected` |
| | `EditsMakeTexts` | `Edit!Spec => []EditsAreSound` |
| | `EditsAreExact` | `Edit!Spec => EditIsExact` |
| `SigningKeyProofs` | `TokensAreVerifiable` | `Spec => []TokensVerify` |
| | `ActiveKeyIsKept` | `Spec => ActiveKeyStands` |
| `ClientOperationsProofs` | `AuthorityWasFresh` | `Spec => []FreshAuthority` |
| | `AnswersTrue` | `Spec => []AnswersAreTrue` |
| | `MetricsAreBalanced` | `Spec => []MetricsBalance` |
| | `SnapshotInTime` | `Spec => NoLateSnapshot` |
| | `RestExchangeIsTrue` | `Rest!Spec => []RestIsTrue` |
| | `ProcessStopsInOrder` | `Life!Spec => []ShutdownIsOrderly` |
| | `DiscoveriesAreTrue` | `Thread!Spec => []DiscoveryIsTrue` |
| `RequestsProofs` | `InputsAreSafe` | `Input!Spec => []InputsAreTrue` |
| | `SurfaceIsSafe` | `Surface!Spec => []SurfaceIsTrue` |
| | `UrisAreSafe` | `Uri!Spec => []UrisAreTrue` |
| | `DevicesAreSafe` | `Home!Spec => []DevicesAreTrue` |
| | `ListingsAreSafe` | `Listing!Spec => []ListingsAreTrue` |

These are all the invariants and action properties that the passing runs check. Hardly any of
the properties is inductive. In every proof an invariant that is, `Inv` (for each part of a
`...Parts` module one of its own), is shown to hold at the start (`InitInv`), to be kept by
every action (a lemma for an action or for a few that are alike, put together in
`NextInv`), and to imply the property. What it says beyond the properties is the argument:

* `DeployTransaction`, for all `Versions`, `NumFiles`, `ManifestFile` and `Faults`. Whether
  `Activate` keeps the component whole depends on what staging holds when it is reached;
  whether `RollbackRestore` restores the right one depends on what is in backup; and that
  depends on the requests before. `Located` says for each place in the code what the trees
  and the journal are there: `LocReconcile`, `LocResolve` (before the journal is resolved),
  `LocStage` (staging, its verification, and that what is cleared there is of this server),
  `LocOlder` (an update replaces an older package), `LocCommit` (from the journal to its
  removal), `LocRollback`, and `LocAnswer` (the answer on its way is true). That foreign
  trees are left alone is an action property that follows from `Inv` before the step.
* `DeployRefinement`. Every step maps to a step of `ComponentSlot` or to none. Only
  `Activate` and `RollbackActive` change `Effective`; `ForwardStutters` and
  `BackwardStutters` show of the other steps that they do not, and need `Inv` for it: that
  the removal of a journal, of a backup or the first rename is invisible depends on where
  the component is at that point. `Replaced` is the one addition to the invariant: the
  component an update replaces is an older one, still known when the answer is given.
* `DeployLock`, for any number of deployments of two processes and all times under two
  hypotheses. `LeaseCovers`: acquisition, transaction and unlock together fit into the
  lease, and so do two acquisitions. `TwoDeployers`: at most two processes. Both are needed and stand in the
  theorems, since the code guarantees neither: the runs `deploy_lock_slow_claim` and
  `deploy_lock_claim_race` show what happens without the one and without the other. A
  deployment that has created its lock holds the host: no other has created its own since,
  and its file is in the lock or, moved there by a slow observer, in the claim. One that is
  about to create is sure of a stale file only, and a live deployment is stale for nobody,
  so a live one's file is in its way. And a stale claim that is being taken over blocks the
  rename of a slow observer, so that what is removed in the end is what was observed. With
  a third process that last step fails.
* `DeployService`, for any callers and any changes of the host. The permit is out exactly
  while a task runs, also after its caller has gone, so the one task that runs accounts
  for the counter, and the key it has checked is that of the connection it authenticates on.
* `ServiceCalls` and `ClientOperations`, for any callers, permits and changes in Home
  Assistant. `Traced` follows each call: what it has read, under which authority, and what
  has become of its write. `ClientOperations` does so along the plan of each operation;
  `PlanShape` says of every plan that the authority is read before anything is done or
  returned on it. The callers need not be finitely many: those under way are, as each
  holds a permit.
* `Authoring`, for any authors, texts and calls. The invariant follows a write from its
  call through the wire: it is the only one of its call, it has not been stored while it
  is on the wire, and a reply that was received says what became of it. `Alone` adds what
  the single-writer rule gives `ReplacesExpected`.
* `SigningKey`, for any processes, keys and times of the policy. `Dated` is the calendar of
  a key: what it signed, when it was retired, and that it was not removed before its tokens
  had ended; `Locking` says that whoever found no key and still has its session keeps every
  other process from coming into service.
* `EditScript`, for all texts over the four kinds of bytes, all edits and limits. A text
  begins with no continuation and ends with no lead byte, so a match of one begins and ends
  at a boundary (`MatchIs`); the look for a second match passes over continuations only
  (`AfterChar`), so it misses no overlapping one (`UniqueIs`); what is put between two
  boundaries makes a text again (`CutsAreTexts`, `ConcatIsText`), and another one unless it
  was there (`AppliedIs`). `ApplyIs` is what both theorems rest on.
* `RestExchange`, for every limit and bodies up to and above it, and `Lifecycle`, for any number of
  requests. What has been read at each place of a request; and how far `main` has come with
  what it stops: both providers are up or none until the meter is taken, and the tracer is
  then what the meter was.

* `ThreadRouters`, for any keys, data, limit and order of events. The messages in the inbox
  are followed to the end before they are read: `Walk` is what the client will know after
  each of them, `Arrives` says that this ends in what Home Assistant knows as long as the
  subscription lasts, and `Peaks` that, if there were ever too many routers, the client will
  have too many at a moment that is still to come.
* `SftpStream`, for any packets, limit and buffers. Where a packet starts is a recursive
  function of the lengths before it, unfolded and shown to grow by induction. `StreamAt` says
  which packet `poll_read` is in and how much of its prefix and its content has been taken,
  so that what was handed on is the beginning of the stream.
* `SftpFiles`, for any files, directories, chunks and limits. The invariant is how much has
  been transferred after each request, and where the handle is. A listing leaves out what
  is not an entry of its own, and does so alike for a whole directory and for its pieces:
  that `Names` distributes over concatenation is shown by induction.
* `ActionInputs`. That every entity is asked for once rests on there being, for every finite
  set of identifiers, a list of them in order, which is shown by induction on its size; the
  intervals are arithmetic on ticks and whole seconds. `McpSurface`: a name has one row in
  the tables, and a row one handler.
* `ResourceUri`, for any items and limits, and for URIs that no catalog made. A path is split
  where it was joined and nowhere else, and two items that are encoded alike are the same;
  the invariant says of every URI handed out whose it is (`HandedOut`) and of every read
  what was found at its moment (`Answered`).
* `DeviceList`, for any numbers of entities, devices, areas and changes. A finite set of
  numbers has one enumeration in order, in which the place of an element is the number of
  elements up to it: that makes a cut by position the same as one by counting (`CutIs`).
  The groups are one for each key (`GroupDevicesIs`), whose names, areas and first entities
  make `Before` a total order on them. `HomeInv` says of each read that it was within the bounds of
  its own moment only, and that it is what Home Assistant has now if nothing has changed:
  the former is enough for the properties of a race, the latter gives `ListingIsExact`.
* `Listings`, for any answers, limits and searches. What is arranged is a selection of the
  positions wanted, each once, and a page of a selection says what it leaves out
  (`OrdersSelect`, `PageOf`). The history is shown to be a beginning by induction along the
  groups: the first of them joined and cut are what has been taken (`TakenJoin`), and a
  group that gets nothing can be left out (`KeptJoin`).

Hypotheses. Besides those of `DeployLock` the theorems rest on the named assumptions of the
modules only, which say of what kind the constants are and, where it matters, what
validation that comes before has made sure of (the datasets of `readiness.get` differ in
their identifiers since `ThreadDatasets` let them pass). TLC evaluates them in the runs.

Induction. The library's induction theorems take an operator as a parameter, which the
provers cannot instantiate. Where a proof needs induction it takes the set of the numbers for
which the statement holds and shows that this is all of them (`SetInduction` and the like),
which is first-order; a recursive function is unfolded by showing in the same way
that a function with its equation exists.

Left to TLC: liveness and fairness (`DeploymentEnds`, `RetrySucceeds`, `NothingHangs`),
which are out of the prover's reach. The five runs that expect a violation show
counterexamples, which need no proof.

## 5. Not modelled

* `config.rs`: one pure pass over environment values at start-up, without state or order.
* Cryptography and protocols of the libraries: SSH, TLS, HTTP, OAuth and OIDC flows.
* The frames and the authentication of Home Assistant's websocket, and URL construction.
* JSON schemas, skill texts, the layout of answers, log formatting and filters.
* The Python component (one read-only command) and the infrastructure code.

## 6. Plan

What the safety properties say is proved; what is left is breadth.

1. The websocket connection (frames, authentication, one command at a time) as a component of
   its own, with the REST exchange as its pattern.
2. The sessions and tokens of `oauth.rs`, once the `mcp` crate's sources are at hand.
3. The size limit of a whole output (`bounded_output`), which `Listings` leaves out.
