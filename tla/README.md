# XFlClash: TLA+ models and proofs

XFlClash is a multi-platform client for the Clash Meta proxy core: a Flutter
application, a Go Core that does the proxying, a privileged Helper service on
the desktop, an Android VPN service, and a brand layer (XBoard) that fetches
endpoints, subscriptions and updates.  A body of Python tooling builds, audits
and releases it.  This directory holds specifications of the parts whose
correctness depends on the order of events, the TLC runs that check them on
small instances and the theorems TLAPS proves for every instance.

Paths below are relative to `src/`.

## 1. The system

### Components, their state and what makes them correct

| component | state it keeps | operations | what is hard | correct when |
|---|---|---|---|---|
| **desktop Core lifecycle** `lib/core/desktop/lifecycle.dart`, `transport.dart`, `launcher.dart` | intents with revisions and their pending commands; published phase; session (lease, connection generation); unconfirmed lease; crash cleanup; the transport bound now | `start`, `restart`, `stop`, `close`; transport events; process exits | one asynchronous worker, callers at any time, losses between any two awaits, processes nobody schedules | no Core is forgotten or doubled; every command gets one truthful answer; close is final |
| **privileged Helper** `services/helper/src/service/hub.rs`, `lib/core/desktop/helper_client.dart` | `MANAGED_CORE`; the client's lease | `/start`, `/stop`, reaper; start, fall back, stop | requests outlive the client's patience and are served in any order; the Helper dies | one managed Core; a confirmed exit is an exit; a late stop hits its own session only |
| **desktop IPC link** `plugins/rust_api/rust/src/ipc/*.rs` | server thread, outbox (frames, bytes, open), permit of `Notify`; the host's transport state | send, accept, transmit, receive, close | the host learns of connections late; queue handed over between peers; byte budget | no frame reaches another peer; order kept; nothing accepted stays for ever |
| **Core RPC client** `lib/core/desktop/rpc_client.dart`, `lib/core/spill.dart` | pending calls, stopwatches, the last response, spill files | `invoke`, responses, transport events, `close` | adaptive windows, answers racing timeouts, losses during connect, answers on disk | every call settles within its bound, none too early; no file left |
| **Go Core: link, dispatch** `core/server.go`, `core/method.go` | connection, calls in progress, spill directory | serve, answer, drop | answers dropped on a slow link | as seen by the RPC client |
| **Go Core: event queues** `core/message.go` | three bounded channels, batch, timer, burst | `sendMessage`, eviction, batcher | many senders race one batcher between two selects | senders never block; eviction stays in its queue; bulk is not starved; the timer is its batch's |
| **Go Core: configuration, route** `core/config.go`, `route.go`, `lifecycle.go`, ... | current configuration under a mutex, route watch sequence, delay-test slots | setup, update, start/stop listener | set-up racing update and stop | newest configuration applied whole |
| **Android service state machine** `android/app/.../ServiceStateMachine.kt` | intent token, transition mutexes, derived run state | start, stop, service lost, permission | coroutines that hold a superseded intent | newest request wins; state tells what runs |
| **Android VPN service, plugins** `android/service/...`, `lib/core/lib.dart` | runtime record, engine attachment | start, stop, attach | process death and engine detach | service and engine agree |
| **restart and run requests** `lib/providers/actions/core.dart`, `setup.dart` | requested and applied revisions, latest run request | restart, set up, roll back | folding of concurrent restarts, roll-back by a superseded request | the newest request decides |
| **exit and boot guard** `lib/providers/actions/system_exit.dart`, `lib/common/boot_*.dart` | exit stage, watchdog, boot record | exit, watchdog, boot | steps that hang or fail | exits once; first error kept |
| **XBoard endpoint race** `lib/xboard/services/endpoint_race_controller.dart` | generations of API, subscription and network | race, fail over, network change | late winners | a stale winner never wins |
| **XBoard profile and subscription sync** `lib/xboard/storage/profile_mutation_queue.dart`, `lib/xboard/services/xboard_subscription_service.dart` | lanes per key, pending sync | mutate, sync, trigger | failing operations, deletes during sync | serial per key, errors isolated |
| **XBoard session, update** | token slots; update lease | sign in/out; update | concurrent refresh | one session, one update |
| **dependency fetch** `tool/pub_get_retry.py`, `owned_process_cleanup.py`, `prepare_go_dependencies.py` | one attempt's process tree, what it printed, report | run, classify, retry, cancel; hash the module files | the tree outlives its leader, cannot be killed, or dies on its own; the operator's signal at any step | one tree at a time; retries of transient failures only; the report is true; it ends |
| **symbol upload** `tool/upload_sentry_symbols.py`, `sentry_upload_confirmation.py` | tries of the CLI, rounds, pending items, status | upload, ask the server, wait | a CLI that lies, a server that is slow or limits | uploaded means processed; it ends |
| **release symbols** `tool/postbuild_sentry_symbols.py`, `prepare_sentry_native_symbols.py`, `upload_sentry_symbols.py` | packages, companions, manifest, report | prepare, audit, upload | what is prepared changes before it is audited; runs die half way | what ships is covered; nothing of an older run is believed |
| **macOS inventory** `tool/sentry_macos_inventory.py` | walk through the packages, inventory, receipt | walk, waive, write, load | code that reaches the app along several chains, in any order | every target is recorded where its code is |
| **macOS symbols** `tool/prepare_sentry_macos_symbols.py`, `upload_sentry_symbols.py` | dSYMs, manifest, report | prepare, audit | rebuilds and losses between the two; failing tools | what is accepted is covered, every gap is stated |
| **local Android build** `tool/build_android_local.py` | lock, counter, batch, configuration, promoted files | build, retry, promote, count | builds race, sources are edited, interrupts and crashes | promoted is what was verified; a number once; the developer's files come back |
| **CI release run** `tool/release_pipeline.py`, `release_build_number.py`, `release_request.py`, `verify_linux_packages.py` | branch with its counter, packages and manifest, draft | request, rename, audit, upload, bump | other runs and people push; answers are lost | the counter passes the number of every run that is done; no commit of others is lost; the draft holds audited packages under their public names |
| user interface, database, plugins, other tools | widgets, tables | | | not concurrent logic of their own |

### How they interact

The providers ask `DesktopCoreLifecycle` for a Core.  Its worker opens the IPC
transport, asks a launcher for a process (the Helper first, the direct launcher
as a fallback), waits for the transport to report the connection of that
process, and keeps the lease with which it can stop it.  The transport is a
thread of Rust code that serves one peer at a time and tells the Dart isolate
through a stream.  `CoreRpcClient` writes calls to the same transport and
matches the responses; the Core sends events on it through its three queues.
A loss of the connection reaches the lifecycle (crash, cleanup) and the RPC
client (failure of what is pending) as the same event.

The tooling is a chain of programs that hand files to each other.  A build (the
local one or the CI run) fetches dependencies, compiles, and calls the symbol
coordinator; that prepares companions, has them audited by code that shares
nothing with the preparation, and uploads them.  On macOS the Xcode phase writes
the inventory both read.  Every hand-over is a place where a file may be old,
changed, cut short or missing, and every program may be killed.

## 2. Order of the project

A component's proofs are in a module of their own; `ReleaseProofs` holds those of
the release tooling, five modules that a release goes through one after the other.
Since one module extends them all, `Init`, `Next`, `Spec` and the like carry the name
of their part there (`UploadSpec`, `SymbolsSpec`, `InventorySpec`, `MacSpec`; the plain
names are those of `ReleaseRun`).

1. `DesktopLifecycle`, with the abstract `LatestIntent`, and `DesktopLifecycleProofs`
2. `HelperService` and `HelperServiceProofs`
3. `IpcLink` and `IpcLinkProofs`
4. `RpcClient` and `RpcClientProofs`
5. `CoreMessages` and `CoreMessagesProofs`
6. `DependencyFetch` and `DependencyFetchProofs`
7. `SymbolUpload`
8. `ReleaseSymbols`
9. `MacReceipt` (operators), `MacInventory` and `MacSymbols`, which both extend it
10. `AndroidBuild` and `AndroidBuildProofs`
11. `ReleaseRun`, and `ReleaseProofs` about `SymbolUpload`, `ReleaseSymbols`,
    `MacInventory`, `MacSymbols` and `ReleaseRun`

Worth doing next: the Android service state machine, the run requests and the
endpoint race (the unmodelled rows of the table above).

## 3. What is modelled

### DesktopLifecycle

Variables are the fields of `DesktopCoreLifecycle` (`_revision`, `_state.phase`,
`_session`, `_unconfirmedLease`, `_unexpectedDisconnectOperation` as
`recovery`), the local state of the worker's asynchronous functions (`pc`,
`intent`, `lease`, `waiter`, ...), the bound `IpcCoreTransport`, the queue of its
events and the Core processes.  A label of `pc` is an await; an action is the
code between two awaits, with everything it calls (`StopSession`,
`StartSession`, `Dispatch`, `LoopHead` are such straight-line stretches).

Dart drains the microtask queue before it takes the next event.  Steps that
resume by microtask are `MicroPcs` or `WakePending`; what stands for an event of
the event loop is guarded by `Quiet`.  Callers may submit from either.  This
matters: some of the interleavings that would break the lifecycle cannot happen,
and one that a reader might think impossible does (section 7).

`LatestIntent` is what callers may rely on: revisions increase, the newest
decides whether the Core may come up, every command is answered once, as
applied only if the newest intent is achieved.  The mapping takes the Core for
up while `Running` is published, or as long as the worker has reached running
and has not yet settled.  `KeepsPromise` is that refinement, checked by TLC and
proved.

History: `orphans` are processes whose lease never reached the lifecycle
(`launcher.start` threw after the spawn) or that a terminal close gave up.

### HelperService

One thread per HTTP request, one mutex, the slot `MANAGED_CORE`.  A request
takes the mutex in any order (`LaunchTakesLock`, `StopTakesLock`), then steps
through release, verification, spawn and adoption; the reaper takes it too.  The
client gives up on an answer at any time after it sent the request
(`Hears(r, "transportError")`) and never withdraws the request, so that old
requests are served late.  `HelperEnds` is a crash of the Helper in the middle of
anything; `JobConfined` distinguishes Windows (a job object that must adopt the
Core) from Linux (a control group).  Left out: the version probe, elevation,
sockets and peer credentials.

### IpcLink

The server thread of `server.rs`, the outbox, the stored permit of `Notify` and
the stream to the isolate, with the host's own state machine behind it.
`Send` may be accepted for a peer the host still believes in.  A frame is a number
with a size of one unit or of more than the whole budget.  Peers dial whenever
they like: a Core an earlier run left behind may be accepted before the host has
seen the last connection end.

### RpcClient

Calls, their stopwatches and timers in ticks; ages and not dates are in the
state.  `WindowLeft` is the arithmetic of `_awaitResponse`, silence and hard
deadline included.  The Core answers, spills the answer to a file, drops it, or
goes away; `toHost` is the order in which the isolate hears of it.  A new peer is
taken as soon as the last one is gone, before the host need have heard of either.
`Tick` requires that no timer is due, that is, the isolate is responsive.

### CoreMessages

Each sender is a goroutine between the two selects of `enqueueLatest`; the
batcher's `pc` names the select it is at.  The timer may fire at any moment
after it was armed.  `waited` and `pushedOut` are history variables for the
properties.

### DependencyFetch

`pc` is the next step of the supervisor (`execute`, `attempt`, `stop_tree`,
`verify`); the leader, its kin and what they print are separate, and any of them
may act between two steps.  A cancellation sets `signal` and is seen where the
code looks at it.  The POSIX and the Windows way of owning a tree are both there
(`host`).  The Go job adds three looks at the module files (`core`, `before`,
`isolated`) and the publication of the report, which a failure may interrupt.

### SymbolUpload

Two phases share the clock: the CLI with its deadline, retries and outcomes, and
the rounds of `confirm_symbol_inventory`, whose queries run on `Workers` threads.
The server receives and processes items at will.  A response carries what the
server listed when it answered, which is later than when it was asked.  Nothing
bounds a request: urllib's timeout is one per socket operation, and the deadline
for the body is looked at between two reads.  A request in the model takes any time
at all, up to the bound of the run on the clock (`MaxTime`).

### ReleaseSymbols

`shipped` is what the packages hold, `local` what the build left, `companions`
and `artifacts` what the preparation made of it, `uploads` what an audit
accepted.  A build is a number; a companion is of a build and has lines and
unwind information or not.  `Change` does what may happen between two programs
(a module rebuilt in one package, a file lost, a manifest row dropped).

`PrepareFails` is a preparation that ends before its first effect (objcopy is not
found, the directory is not safe) and so leaves the manifest of an older one, which
`--reuse-prepared` may then audit; from `Prepare` on there is none until
`PrepareEnds`.  `Dies` is the coordinator killed or interrupted at any step after it
removed the old report, its reading of the completion report included, with no
failure recorded.  An uploader it had started may go on: it is one of `orphans`,
audits what it finds when it gets to it, and writes its report while later runs
are at work (`OrphanReports`).

### MacReceipt, MacInventory, MacSymbols

`MacReceipt` holds what an inventory is and when a receipt loads, used by the
program that writes it and the two that read it.  `MacInventory` is the walk as
an explicit stack of calls (`Product`, `Target`, `Own`), over four packages whose
linkage, images, vendor payload and order of manifests are chosen in the initial
state; then the vendor's images, helpers and pods, one action each.  `AnyGraph` is
every such choice; `InventoryInit` keeps those a run has to walk, since some choices
make no difference to others.  `MacSymbols` runs the
preparation row by row, killed or late at any row, then the audit; `clean`
records whether anything happened between.

### AndroidBuild

`main` with one action per step, two processes and two batch directories.  `tree`
is the hash of the sources; an edit makes a value never seen before.  `Error`
goes to the innermost `finally`, as Python does.  An interrupt lands before any
step and in the `finally` blocks themselves; a crash ends every process where it
is and may leave a JSON file cut short.

`tree.native` is the tracked `build_config.yaml`: "committed" until
`prepare_flavor.dart` has written this flavor's identity into it.

### ReleaseRun

A run is a record of its step and its workspace; runs share the branch and the
draft.  A commit is an identity and the counter it carries.  A push is accepted
exactly if the branch is still the one fetched, and its answer may be lost.
`PushOther` is somebody's commit, which may set the counter further; `Rewrite` (a
force push, a deletion, a commit that sets the counter back) is what people may do
and no run does.

The packages that come out of the distributor may differ from the bundle: other
bytes in a native module, one module more, a package missing or too many
(`Package`).  `Intact` is what the audit asks of a package: the native
modules of the bundle with their bytes, and in a deb no others.  A job may stop
anywhere (`JobFails`), between two renames or when everything is uploaded: what
undoes the renames in the code (`RollBack`) only sees errors of the system.  It is
run again in a fresh workspace (`Rerun`), or an action of the pipeline is run on
what it left (`Resume`), where names may be old and new and the manifest may say
passed without an audit.

## 4. Runs

Each run is one specification with its bounds (`<module>.cfg`).

| run | shows | bounds, and why they are enough |
|---|---|---|
| `lifecycle` | `NoCoreForgotten`, `OneCore`, `PhaseAgrees`, `AnswersAreTrue` (an applied answer is true when given, peers are those of the lease, a close is final), refinement `KeepsPromise`, liveness `EveryCommandSettles` | 3 intents, 3 launches: an intent, one that supersedes it, one submitted while that is in progress; a crash needs a second launch and a superseded start a third |
| `helper` | `KeepsItsCore` (no running Core lost, never two, a stop hits its own session), `ConfirmedIsGone`, `EveryRequestAnswered` | 2 sessions so that a late request meets a newer session; 2 stops per session so that one may be retried; one crash; Windows, where adoption may fail as well |
| `ipc` | `FrameReachesItsPeer`, `OutboxIsSound` (order, byte count, open when the host may send), `LinkMovesOn` | 2 peers that dial whenever they like, so that one is served while the host still believes in the other; 3 frames against a budget of 2, so that a frame is refused, a large one is queued alone, and one is in hand while others wait |
| `rpc` | `NothingIsForgotten` (no call, no spilled file), `NoEarlyTimeout`, `EveryCallSettles` | 2 calls so that one's response extends the other; 2 connections so that a call outlives one; a window of 2 ticks, a grace of 1 and a connect window of 1 let the idle window, the hard deadline and the connect window end a call |
| `messages` | `EvictsOwnQueueOnly`, `BulkNotStarved`, `TimerIsOfThisBatch`, `AcceptedLeaves` | 3 messages against queues of 1, batches of 2 and 2 attempts: a full queue, a sender whose freed slot is taken by another so that it evicts again, a full and a partial batch; a burst of 1 against one waiting bulk message and two priority ones |
| `fetch` | `RetriesAreSafe`, `ReportIsTrue`, `Ends` | 2 attempts, so that one is retried; a total time that a second attempt and its cleanup may overrun; 2 edits, so that a file changes and changes back |
| `upload` | `ReportIsHonest`, `PausesInTime`, `Ends` | 2 ids in 2 forms with one worker, so that a query waits for another; 2 tries of the CLI; 3 rounds, and a Retry-After longer than the time left; the clock stops at 6, beyond the budget of the confirmation, for requests that outlast it |
| `release_symbols` | `AuditedIsCovered` (Dart's code included), `NothingIsStale` | 2 packages and 2 ABIs, so that one copy of a module may differ; 2 runs, so that the second meets what the first left, an uploader that still runs included; 2 changes, one before each |
| `mac_inventory` | `EverySourceIsHosted`, `OwnershipIsTrue`, `WrittenIsAccepted` | 4 packages with one shared by the others: a target reached twice, in one image and in two, below a vendor's and beside it |
| `mac_symbols` | `AcceptedIsCovered`, `LimitsAreTrue`, `PreparedIsAccepted` | 6 modules, one of each kind, in 2 architectures; 2 changes, so that a module is rebuilt and its record lost |
| `android_build` | `PromotedIsPinned`, `NumberOnce`, `UserFilesAreBack` | 2 processes and 2 batches, 3 starts: a build, one that completes in between, and a retry of the first; one edit, one interrupt or crash; processes and batches are interchangeable (only equality is asked of them) |
| `release_run` | `AssetsAreAudited`, `NumberIsConsumed`, `BranchOnlyGrows` | 2 runs of one branch into one draft, whose jobs stop anywhere and whose push answers are lost at will; 3 attempts at a push as in the code; any 2 troubles more (`MaxTroubles`: an odd package, one damaged later, a job run again or resumed, somebody's push, a rewrite), so that a workspace with an odd package is used again, or a retried push meets a branch that moved |

Deadlock checking is off in every run: with its counters at their bounds, or at
the end of its program, each of these systems rests.

A module's type invariant (`TypeOK` and the like) documents its state; no run lists
it.  It is proved for the modules of the rows down to `fetch`, for `SymbolUpload`
and for `AndroidBuild`; `ReleaseSymbols`, `MacInventory` and `MacSymbols` have theorems
about their safety only, and `ReleaseRun` states no types.

## 5. Fairness

- `DesktopLifecycle`: weak fairness of the worker, of the delivery of transport
  events, of the end of a crash cleanup and of the waiter's timeout.  Every await
  of the worker completes by itself or is bounded by `DesktopCoreTimeouts` or the
  Helper client's timeouts.  Callers, processes and connections get none.
- `HelperService`: threads of the blocking pool run to their end (their waits
  are bounded and whoever holds the mutex is one of them); the client's waits end
  by its receive timeouts.  No Core exits on demand.
- `IpcLink`: the server thread runs and the isolate handles its stream; a peer
  that keeps its end open reads, or the write times out.
- `RpcClient`: time passes, timers fire, the isolate and the reader of spilled
  files go on.  The Core owes nothing.
- `CoreMessages`: goroutines are scheduled, the timer fires, and a delivery ends
  (a frame that cannot be written is dropped).
- `DependencyFetch`: the supervisor and the clock go on; the command, its
  descendants and the operating system's kill owe nothing.
- `SymbolUpload`: the program and the clock go on, and a request ends some day, if
  only with an error: every socket operation has a timeout and an answer is read up
  to a limit.  The CLI and the server owe nothing else.
- `ReleaseSymbols`, `MacInventory`, `MacSymbols`, `AndroidBuild`, `ReleaseRun`
  state safety only and assume none.

## 6. What is proved

Every theorem is for all values of the constants that the named assumption of
the module allows (bounds are natural numbers, sizes positive, sets of packages
and architectures finite).  Each safety property follows from an inductive
invariant, which says what the property leaves out: the steps at which a promise
may be open, and who is to keep it.

`DesktopLifecycleProofs`, with and without the PID check:

- `TypeCorrect`, `NothingIsForgotten` (`[]NoCoreForgotten`), `AtMostOneCore`
  (`[]OneCore`) and `PhaseMatchesSession` (`[]PhaseAgrees`), from
  `Inv == TypeOK /\ Ownership /\ NoCoreForgotten`.  `Ownership` says where the
  worker may be while the session, the unconfirmed lease, the crash cleanup or the
  start's own lease is set, and that at most one of them is.  Neither
  `NoCoreForgotten` nor `OneCore` is inductive alone: a launch preserves them only
  because the worker cannot reach it while another owner holds a process.
- `AnswersStayTrue` (`[]AnswersAreTrue`), from `Inv` and two more invariants.
  `Answers` is about the commands: a close is the last one, the worker works for a
  command that is the newest or is settled before it rests, and what it reached is
  what it publishes; nothing it still owes an answer is already decided otherwise.
  `Links` is about the connections: the waiter and the session remember the peer
  of a connection, which the transport can only keep or lose while it is of that
  generation.
- `PromiseIsKept` (`KeepsPromise`): the refinement of `LatestIntent`.  Initial
  states map to initial states, and under `Inv` and `Answers` every step maps to a
  submission, a settlement, a failure or a reach of the promise, or to a stutter.

`HelperServiceProofs`, with a job or a control group:

- `HelperKeepsItsCore` (`[]KeepsItsCore`).  The invariant adds what the locking is
  for: only the holder of the mutex is past waiting; the slot is empty from
  `verifying` to `adopting`, and holds the stop's own session while a stop
  releases; the start of a session the client has not come to is unsent.
- `ConfirmedStaysGone` (`[]ConfirmedIsGone`).  A Core comes up only while its own
  start is under way; the client holds a lease only of a start that is over, so
  that an answer to its stop is about something nobody can bring up again.
- `TypeCorrect`: a client that stops has a session that was opened.

`IpcLinkProofs`:

- `FramesStayWithTheirPeer` (`[]FrameReachesItsPeer`).  The outbox is closed and
  empty from `leaving` to `opening`, which is where the peer changes, and
  everything queued or in hand was sent to the peer being served.
- `OutboxStaysSound` (`[]OutboxIsSound`), in three invariants.  Order: frames are
  numbered as they are sent, the outbox ascends behind the frame in hand, and what
  was accepted for this peer and not received is in one of the two.  Bytes: an
  empty outbox counts none, one frame counts its size, and several are all small
  and within the budget.  Host: it counts no connection before its announcement
  arrives, and those on their way are in order.
- `TypeCorrect`: the peers served and those waiting were dialled, an event or a
  frame names a served one, and the host's count is behind the announcements.

`RpcClientProofs`:

- `NothingStaysForgotten` (`[]NothingIsForgotten`): only calls that were sent are
  answered, and a call whose answer is being read is pending no more.
- `TimeoutsAreNeverEarly` (`NoEarlyTimeout`), an action property: the arithmetic of
  `WindowLeft`, for any window and grace.
- `TypeCorrect`: the clocks as well, which needs that no timer runs past the hard
  deadline of its call.

`CoreMessagesProofs`: `TypeCorrect` (queues and batches within their bounds),
`EvictionStaysInQueue` (`[]EvictsOwnQueueOnly`), `BulkTurnGuaranteed`
(`[]BulkNotStarved`) and `TimerBelongsToBatch` (`[]TimerIsOfThisBatch`).  The
invariant adds: a queue holds messages of its own classes only; only classes that
evict reach the second select, with attempts left; while bulk waits,
`priorityBurst` is at least the number of priority messages it saw go by, and the
batcher reaches the priority queue with some of the burst left; outside a flush
the batch has room.

`DependencyFetchProofs`, for both hosts and both jobs:

- `TypeCorrect`: an attempt begins with time left, so that no remaining time is
  negative.
- `RetriesStaySafe` (`[]RetriesAreSafe`): between two attempts, and after a cleanup
  that succeeded, nothing is alive, so that what was heard of the tree by then is
  all it ever said; the classification is therefore of the whole output.
- `ReportStaysTrue` (`[]ReportIsTrue`): up to the comparison of the hashes the report
  on disk says that nothing has passed; from then on evidence of success means that
  the graph is the one hashed and that nothing fails.
- `FetchStaysInTime` (`[]FetchInTime`, defined there), the safety half of `Ends`: the
  clock never passes the total time by more than two cleanups, the second being that
  of an attempt whose output cannot be read.

`AndroidBuildProofs`:

- `NumbersAreCompletedOnce` (`[]NumberOnce`).  A process that is not idle has the
  lock, so there is one; from the number rule to the counting, the number of a build
  to be released is beyond the counter; every completed number is at most the
  counter.  The rule alone would not do: it is checked long before the number is
  counted, and only the lock keeps the counter where it was.
- `FilesComeBack` (`[]UserFilesAreBack`).  Unless a build was cut short, the files
  are the developer's outside of `temporary_android_configuration`, and within it
  the process holds what it has to put back.
- `PromotedStaysPinned` (`[]PromotedIsPinned`).  What a process compiles, verifies
  and promotes is of its own batch, which is bound to a number and to sources once
  and for all; the build has those sources unless something was edited since, and
  the second capture catches that.  An evidence file that is there when it is
  checked is of this APK.
- `TypeCorrect`: within `temporary_android_configuration` there is at least the
  process's own init script, even when builds that were cut short left theirs, so
  that removing one leaves a natural number.

`ReleaseProofs`:

- `ReleasedNumbersArePassed` (`[]NumberIsConsumed`) and `RunsOnlyAddCommits`
  (`BranchOnlyGrows`: a run never loses what others pushed).  The branch, and what a
  run is about to push onto, are sequences of commits with a counter, only a rewrite
  makes the branch disappear, and the number of a run that is done is below the last
  counter, which a push only raises.
- `DraftIsAudited` (`[]AssetsAreAudited`).  The invariant is about the manifest and
  not about the step of the job, since a job may stop anywhere and be taken up
  again: one that says passed was written of both packages under their public names,
  and a job that uploads has compared its packages with it and had them audited.
- `UploadsAreServed` (`[]ReportIsHonest`): what the server listed it has
  processed, and an item stops being pending by being listed only.
- `UploadTypesStay` (`[]UploadTypeOK`) and `PausesStayInTime` (`[]PausesInTime`):
  every attempt of the CLI and every pause is cut to the time left, so that the CLI
  ends within its budget, retries included, and no pause of the confirmation ends
  after its own.  Nothing is said of the end of a request.
- `AcceptedReleaseIsCovered` (`[]AuditedIsCovered`) and `NoSuccessStaysBehind`
  (`[]NothingIsStale`).
  What an audit accepted is on disk unchanged until the next run starts, and would
  be accepted again; a success is reported by an audit alone, that of the run or of
  an uploader that outlived an earlier one, and the coordinator believes no report
  before its own audit has accepted; a manifest is written by the last step of a
  preparation and gone from the first step of the next one on.  The audit counts the
  builds of a module's copies, which is where packages have to be finite in number.
- `AcceptedAppIsCovered` (`[]AcceptedIsCovered`), `AcceptedLimitsAreTrue`
  (`[]LimitsAreTrue`): nothing happens between a verdict and the end of its run,
  and whatever a manifest lists has a file, of the slice it is listed for.
- `PreparationsAreAccepted` (`[]PreparedIsAccepted`), the agreement of two
  programs that share no list.  Row by row, every slice whose row was worked on is
  in the draft, or excused with a limit that is true of the app, unless the
  preparation has failed; each row is worked on once, so that no later row undoes
  an earlier one.  When the rows are used up and nothing failed, what the draft
  holds is what the audit asks for.
- `SourcesAreHosted` (`[]EverySourceIsHosted`), `OwnersAreTrue` (`[]OwnershipIsTrue`)
  and `WrittenLoads` (`[]WrittenIsAccepted`), for the bounded choices of the run and
  for every choice there is (`AnyInventorySpec`).  `HostsIn` says by linkage, without
  the walk, which images a product ends up in.  The invariant of the walk is that it
  is sound (what is on the stack, visited or selected is linked there), complete (what
  is linked has been visited or waits on the stack, whatever the order) and has
  written down what it visited; and what is walked in an image lies on the stack
  before the call that claims the image.  With an empty stack the records are
  therefore those of `HostsIn`.  Every later phase has its own part of the invariant:
  sources move from a vendor's image to the hosts that linked it (`CodeIn`), and
  products leave only with targets that are waived.  At the end `CodeIn` is shown to
  be what the definition says of chains of products from the runner (`HostsOf`), one
  length of chain after the other.

Only model-checked, and why:

- liveness under fairness (`EveryCommandSettles`, `EveryRequestAnswered`,
  `LinkMovesOn`, `EveryCallSettles`, `AcceptedLeaves`, `Ends` of `DependencyFetch` and
  of `SymbolUpload`): the fairness is of actions, whose ENABLED the prover cannot
  reason about.

## 7. Where the code and its documents disagree

Five statements of the documents and comments are false of the code.  Each is a definition
beside its model that no run lists, because TLC refutes it; to see the
counterexample, give it to TLC with the constants below.

- `RunningIsConnected` (`DesktopLifecycle`, invariant; MaxRevision = 1,
  MaxLaunch = 1, VerifyPeerPid = TRUE): a Core that connects and dies before
  `launcher.start` answers is published as Running on a dead connection
  (`lib/core/desktop/lifecycle.dart:451`), though the architecture notes say that
  a disconnect while running becomes a failure (`.agents/architecture.md:270`).
- `StopPublishesIdle` (`DesktopLifecycle`, invariant; MaxRevision = 4,
  MaxLaunch = 1, VerifyPeerPid = TRUE): start, stop, then start and stop between
  the microtasks of the abandoned start: the last stop is answered as applied
  while Starting stays published (`lib/core/desktop/lifecycle.dart:376`;
  `test/core/desktop/lifecycle_test.dart:124`).
- `CoreDiesWithHelper` (`HelperService`, property; MaxSession = 1, MaxStop = 1,
  MaxCrash = 1, JobConfined = TRUE): on Windows a Core spawned and not yet adopted
  outlives the Helper (`services/helper/src/service/hub.rs:498`;
  `.agents/architecture.md:1579`).
- `DirectRetryAlone` (`HelperService`, invariant; MaxSession = 2, MaxStop = 1,
  MaxCrash = 0, JobConfined = TRUE): a direct retry can run next to the managed
  Core of an earlier start the client gave up on, which is served after the later
  one failed (`services/helper/src/service/hub.rs:460`;
  `.agents/architecture.md:1566`).
- `FailureLeavesNoManifest` (`ReleaseSymbols`, property; the constants of
  `ReleaseSymbols.cfg`): a preparation that does not find objcopy fails before it
  removes the old output and leaves the manifest of the one before
  (`tool/prepare_sentry_native_symbols.py:289`), though a comment says that a failed
  run cannot leave a valid old manifest
  (`tool/prepare_sentry_native_symbols.py:71`).  The audit still compares that
  manifest with the packages of now, which is why `AuditedIsCovered` holds.

A sixth was met while modelling `AndroidBuild`: `prepare_flavor.dart
--android-identity` rewrites the tracked `build_config.yaml`, which
`capture_sources` hashes before, so that the first build in a fresh checkout of
another identity ends at `assert_sources` (`tool/build_android_local.py:607`).
The model has that behaviour (`tree.native` in `Init` and `Prepare`); no property
speaks of it, since nothing unsafe follows.

## 8. Assumptions and what is not modelled

- `AndroidBuild`: an edit never restores contents that were there before; nobody
  edits the counter by hand; killing the coordinator alone leaves no child
  compiling; nobody edits `pubspec.yaml` between the comparison and the
  replacement of `RestorePubspec`.
- `ReleaseRun`: the platform is Linux; the renames that undo a failed rename
  succeed; packages do not change while `gh` reads them; nobody's commit sets the
  counter back, except as a `Rewrite`, of which `NumberIsConsumed` promises nothing.
  That two runs never have the same number is not promised either: two of the same
  commit do.  Of a package only what the audit looks at is modelled, its native
  modules; other files may differ, and an AppImage may hold more modules.
- `ReleaseSymbols`: a preparation does not outlive its coordinator; an audit reads
  the files at one moment.
- `DependencyFetch`: output beyond `output_limit` is never read by the code, and the
  classification is of what is read.
- `SymbolUpload`: no single operation on a socket takes for ever.
- `MacInventory`: the identities and paths of packages are not modelled, except that
  what the root package declares may not be what was resolved (`RootDisagrees`).
- `MacInventory`, `MacSymbols`, `ReleaseSymbols`: what a reader finds in a Mach-O,
  ELF or PE file, a manifest or a project file is chosen freely and is right.
- Operating-system calls without state of their own (sockets, service control,
  peer credentials, file ownership), the handlers behind the Core's dispatch
  table, payloads and their encoding, logging, the user interface, database and
  generated code, and vendored plugins are left out.
- The Android service and the application's providers (restart and run requests,
  exit, endpoint race, profile sync, session, update) are not modelled.
  `PROJECT.json` lists them with the reason, and so it does for the tools that are
  single checks, downloads or generators.
