# dshcloud in TLA+

dshcloud runs one DeepSeek Harness workspace per container on a host, for
several users.  A control plane (`src/apps/server/src`, Fastify, Postgres)
keeps the rows, runs the workflows and writes Traefik's configuration; a node
agent on the same host (`runtime/node`) is the only process that talks to
Docker and to the storage pool.  This directory holds TLA+ models of that
program, TLC configurations that check them on small instances, and TLAPS
proofs about them.  Every definition is translated from the TypeScript; paths
below are relative to `src/apps/server/src` unless they begin with `src/`.

## Inventory

| component | state it keeps | operations | what makes it correct |
| --- | --- | --- | --- |
| Operation queue (`instance/operation-queue.ts`) | `pending`, `tail`, the promise each caller awaits | `run` | one operation at a time, in order, no place lost, every admitted call served |
| Workspace lifecycle (`instance/provisioner.ts`, `data-store.ts`, `orchestrator.ts`, `db/instance-repo.ts`) | the `instance` rows; through the agent: containers and three storage keys per workspace | create, restart, stop, start, remove, setQuota, setImage, rollbackImage | data survives whatever fails; a snapshot belongs to the image recorded with it; a deleted workspace leaves nothing; a row never stays in transit |
| Reconciler, boot, route projection (`reconciler.ts`, `boot.ts`, `routes-sync.ts`, `dynamic-config.ts`, `index.ts`) | row status, `routes.yml`, the timer's `reconciliationPending` | reconcile, bootInstances, syncRoutes, heal | drift is noticed; interrupted workflows are marked; no route leads to a workspace in transit |
| Node agent and Docker driver (`runtime/node`, `runtime/docker/driver.ts`) | `active`, `mutating`; containers, networks, directories | 23 RPCs, 13 of them mutations | one mutation at a time, also while its caller has given up; data before container |
| Storage pool and project registry (`instance/pool.ts`, `storage-audit.ts`) | `.dsh-projects.json`, directories, XFS project quotas | allocate, complete, update, release, reconcile, inspect | project ids are never given out twice; a pending record is never mounted |
| Host port allocator (`instance/port-allocator.ts`) | none of its own; rows and sockets | allocateHostPort | a port leads to the workspace it was given to and to no other |
| Workspace access (`http/workspace-gateway.ts`, `access-lease.ts`, `authorization-*.ts`, `workspace-login.ts`, `db/workspace-access-repo.ts`) | grants, workspace sessions, admission slots, open streams | authorize, exchange, renew, shutdown | a grant is used once; a stream ends within a bounded time of the loss of access; slots are given back |
| Accounts and invitations (`invitation.ts`, `account.ts`, `db/invitation-repo.ts`, `src/apps/server/scripts/seed.ts`) | users, credentials, sessions, invitations | sign in, invite, revoke, accept, seed | an invitation makes at most one account, and that one can sign in |
| Administration (`app.ts`, `http/admin-routes.ts`, `db/user-repo.ts`) | role, banned, sessions, user quota | ban, unban, setRole, setQuota | there is always an administrator; a banned user has no session |
| Image releases and catalog (`db/image-*-repo.ts`, `instance/image-sync.ts`, `registry.ts`) | releases, the default, the catalog | publish, unpublish, setDefault, sync | at most one default, and it is published |
| Setup wizard (`http/setup-routes.ts`, `platform-routes.ts`, `src/apps/server/scripts/domain.ts`) | domains, first administrator, platform route files | setup, start, restart | no domains without an account; the open setup page goes for good; some door always leads in |
| Metrics, logs, pull streams (`http/log-stream.ts`, `pull-stream.ts`, `instance/metrics-sampler.ts`) | metric samples; a stream of Docker's per response | sample, stream | no stream is read for a client that has gone |
| Web console (`src/apps/web/src`) | the query cache, the page, the dialog open on it, mutations under way, the wizard, the log panel | sign in and out, redeem, every button that changes something, polls | what the screen shows is the user's own and not older than the user's own changes; nothing is sent that was not checked or is being sent already |
| instance-spec, installer, images, site, docs | | | validation, packaging |

How they interact.  The HTTP routes call the provisioner; the provisioner puts
every operation through one `OperationQueue` of 16 places, shared with the
reconciler.  Inside an operation it awaits the database, the agent (over a
Unix socket, with a deadline of 15 s for reads and 15 min for mutations) and
the route projection, which reads rows and container states and replaces one
file.  The agent refuses a second mutation while one is under way, and does not
stop a mutation whose client has gone.  Inside the agent every registry access
goes through another `OperationQueue` of 64 places.  The console is a single
page: it learns what the server holds by its queries and polls, and that
something has changed by the answers to its own mutations only.

What is hard here: workflows of up to ten awaits with compensation in catch
blocks, each of which may fail too; a crash between any two of them, after
which boot sees only the row; node calls that take effect after their caller
gave up; one projection that runs outside the queue; check-then-act steps on
accounts and roles; transactions that lock some rows and not others; reads that
stall while what they read changes; files replaced by two writers with one
temporary name; in the console, answers that arrive after a sign-out, after a
newer change or on another page.  `PROJECT.json` lists them one by one under `hazards`, with the
properties that watch them.

## Plan

1. `SerialExecutor`, `OperationQueue`, `OperationQueueProofs` - done.
2. `RuntimeNode`, `InstanceLifecycle`, `MCInstanceLifecycle`,
   `InstanceLifecycleProofs`, `InstanceDataProofs` - done for one workspace.
3. `ProjectRegistry`, `NodeStorage`, `NodeOutcomes`, `MCNodeStorage`,
   `NodeStorageProofs` - done, except for sizes (`update`, `resizeStorage`) and
   the agent's read-only calls and pull streams.
4. `WorkspaceGateway`, `WorkspaceGatewayProofs` - done: grants, workspace
   sessions, slots, deadlines and leases.
5. `Accounts`, `Setup`, `MCSetup`, `SetupProofs` - done: sessions, bans, roles and
   invitations, composed with the start of the control plane and the wizard.
6. `ImageReleases`, `Fleet`, `MCFleet`, `FleetProofs` - done: versions and requests
   about them, composed with several workspaces that share ports and the route file.
7. `QueryClient`, `SetupPage`, `Console`, `Pages`, `LogStream`, `WebConsole`,
   `MCWebConsole`, `WebConsoleProofs` - done: one tab of the console, from the
   wizard to the log panel.
8. Proofs of the invariants, action properties and refinements of every passing
   run - done.
9. Left: what TLC alone can check, the liveness properties under fairness (see
   the end of "Proofs").

Parameters are CONSTANTS with named assumptions, there is one action per await,
and no module uses RECURSIVE, so that each can be proved about.

## The operation queue

`OperationQueue.tla` has the class as it is: a counter and a chain of promises.
A promise is named by the call that will resolve it; `Resolved` stands for any
promise already resolved.  The body of `run` up to `await previous` is one
JavaScript turn, hence one action (`Admit` or `Refuse`); `Begin` is the return
of the await, `Finish` the finally block, which runs whether the operation
returned or threw.  `line` is a history variable.  `SerialExecutor.tla` says
what callers rely on, a bounded line whose head runs alone, and
`ImplementsExecutor` is the refinement.

Run `operation_queue`: four call sites against three places, so that refusals,
a full line and an emptied chain all occur.  A call site stands for any number
of calls in sequence.  Fairness is weak, on `Begin` and `Finish`: the event loop
resumes a caller whose promise is resolved, and every operation ends (that is
`EveryOperationEnds` below).  Callers owe nothing.

## The lifecycle of a workspace

`RuntimeNode.tla` is what the agent's mutations do to one workspace: a container
and, behind each of the keys `live`, `prev` and `recovery`, a directory and a
registry record.  For a call `m` and a node state `w`, `Done(m, w)` is what a
success leaves, `Denied(m, w)` what is left when the driver's own checks reject
the call, and `Broken(m, w)` what a failure on the way may leave (a container
created and not started, a directory half removed with its record complete, a
copy with a pending record, ...).  Directory contents are a version number: 0
when made, one more with every change of the workload; `Damaged` is a directory
that holds part of what it should.

`InstanceLifecycle.tla` is the control plane.  `row` has the columns the
workflows read and write; `pc` is the await at which the running workflow
stands, `op` its local variables, `job` a mutation that the agent works on
although its caller gave it up, `routed` what the route file says of this
workspace, and `stray` the projection that a reconciliation leaves outside the
queue.  `clock`, `latest` and `doomed` are history.

Because the queue runs one operation at a time, one `pc` serves all; that is the
use made of `MutualExclusion`.  Each await is one action:

| code | actions |
| --- | --- |
| `applyRuntime` (541-592) | `RebuildEnsure` ... `RebuildSync`; `CreateData` instead of the first for create |
| `createUnlocked`, `restartUnlocked`, `stopUnlocked`, `startUnlocked` | `Create`, `Restart`, `Stop*`, `Start*` |
| `removeUnlocked`, `DataStore.destroy` | `Delete`, `Remove*`, `Destroy*` |
| `setQuotaUnlocked` | `SetQuota`, `Quota*` |
| `setImageUnlocked`, `DataStore.snapshot` | `SetImage`, `Image*`, `Snapshot*` |
| `rollbackTo`, `DataStore.restoreSnapshot`, `finishRestore` | `Rollback*`, `Restore*` |
| `failWith` and the catch blocks around it | `FailWith`, directed by `op.stage` |
| `reconcileUnlocked`, `reconcile` and the timer of `index.ts` | `Tick`, `Reconcile*`, `StrayRead`, `StrayWrite` |
| `bootInstances`, the boot part of `index.ts` | `Boot*`, and start with `op.home = "boot"` |
| the node agent's end of an abandoned call | `NodeFinishes` |

Modelling decisions a reader should know:

- One workspace.  Operations of others stutter, except that they keep the agent
  busy; that is one of the failures of `Ask`.
- A workflow starts with a successful read of its row (if that read fails,
  nothing happens).  The second read that a restart inside another workflow
  makes is modelled (`RebuildRead`), for its failure matters.
- A database statement either takes effect or fails without effect.
- Admission of an image and allocation of a port precede the call they are
  folded into, and fail without effect.  The disk size is not kept: `resize` is
  a call that can fail.  A copy that fails in two places at once, the copy
  itself and its clean-up, leaves any mixture of a directory and a record, the
  record of a copy already confirmed included (`NodeOutcomes` found that one:
  the save took effect and its last sync failed).
- `Create` begins a new life of the same host name: new id, new storage key.
- Crash: the control plane dies between any two steps and its next process goes
  through boot.  A call it was waiting for may go on (`lost`).  The agent itself
  does not crash as a whole: what a call cut short leaves is what `Broken` says.
- The container may exit at any time, and may be pruned by hand (a fault).

Faults are counted and bounded by `MaxFaults`; `FaultKinds` chooses which can
happen.  Two are enough for every compensation to fail in its turn: the first
sends a workflow into its catch block, the second hits the catch block, the
boot after it, or the abandoned call.

## The storage pool

`ProjectRegistry.tla` is the file `.dsh-projects.json`: a record per key, with
its project id, its flag (`pending`, done, `released`) and the ids the key has
had before.  A method of the class is an operator from file to file, because the
class keeps nothing in memory and runs its methods one at a time; `LowestFree`
is the search from 2 upwards.

`NodeStorage.tla` has the driver's calls around it, one action per await:

| code | actions |
| --- | --- |
| `ensureStorage` | `Check` as a call (a read, which the agent answers beside an abandoned mutation too); `EnsureStorage` at the head of `copyStorage` |
| `createStorage`, `copyStorage` | `MakeDirectory`, `AllocateProject`, `SetProject`, `SetLimit`, `FillCopy`, `SyncData`, `CompleteProject` |
| `removeStorage`, by itself or cleaning up after a copy | `LookUp`, `RemoveDirectory`, `ClearProject`, `ReleaseProject` |
| `createLocalRuntime`, `ProjectRegistry.load` | `Start`, `StartDies` |
| `DataStore.create`, `snapshot`, `restoreSnapshot` with `finishRestore`, `destroy` | the plans, which `Receive` hands over call by call and `GiveUp` abandons |

`file` is the registry on disk, `dirs` the directories, each with what is in it
and the project it is on, `limited` the ids that have a hard limit.  Any step
may throw (`StepFails`), be cut by a kill (`Crash`) or end with the power
(`PowerFails`); `Halfway` says what the step it hits may leave.  A power failure
takes back data that was copied and not synced.  What it may take back of the
metadata needs no action of its own: the journal is in order and every save
syncs the pool's directory, so it leaves what a kill a few steps earlier would
have left.  `charged` is history: what was ever charged to an id.  With it
`UsageIsOwn` covers every order in which `storageUsageAll` and `storageUsageMb`
may read the report and the records while a mutation runs.

`NodeOutcomes.tla` joins the two levels.  It remembers what the key of a call
held when the call came in, and `OutcomesAsAssumed` says that whatever a call
leaves when it ends, fails or dies with the agent is among the states that
`RuntimeNode` gives for it; so the lifecycle is checked against outcomes that
the driver's steps have been compared with (checked in `node_storage`, and proved
for any workspaces, ids and faults).  The lifecycle's third party, the
container, does not occur here.

Run `node_storage`: two workspaces, one of which is upgraded, rolled back and
deleted while the other comes and goes; four ids, so that a second snapshot and
its retired ids fit and running out of ids happens; two faults of any kind, the
second of which can hit the clean-up after the first; a caller that gives up
counts as one of them.  0.96 million states.
Deadlock is not checked: an agent whose registry is lost while the pool holds
data, or whose first save was cut short, refuses to start and stays down.

- `AccountsApart`: no two directories on one project.
- `UsageIsOwn`: what was charged to the id of a record was charged by its key.
- `UsableIsSound`: live data and snapshots that may be used are on their
  record's project, the project has a limit, and no half-copied or unsynced
  directory passes for usable.
- `DataIsLimited`: the limit comes before the data and goes after it.

`UsableIsSound` does not speak of the recovery key, and cannot.  A removal whose
last step fails (`runtime/docker/driver.ts:328`) leaves a complete record
without a directory; the next copy to that key makes the directory, is refused
by `allocate`, and leaves it.  `ensureStorage` (`driver.ts:254`) then accepts a
directory that is on no project, which its comment says it exists to keep out,
and every later rollback of the workspace is blocked until an operator clears
it.  The model reaches that state.

## The way into a workspace

`WorkspaceGateway.tla` has one slug: the console's authorisation endpoint, the
gateway with its two pools of slots, the streams it has open, and the rows they
read, while the owner signs out or is banned and the workspace stops, goes and
comes back under a new row.

| code | actions |
| --- | --- |
| `workspace-authorization.ts`, `resolveSession` and `issue` in `app.ts` | `AskConsole` ... `IssueGrant`, `ConsoleGivesUp` |
| `authorizationCapacity` | `Arrive` takes the slot, `Settles` gives it back when the work ends |
| `decideForwardAuth`, `resolveUserId`, `findTargetPort` | `ReadSlug`, `ReadRow`, `ReadIdentity`, `ReadPort` |
| `completeWorkspaceLogin`, `exchangeWorkspaceGrant` | `ReadCallback`, `Exchange` |
| `authorizationDeadline`, the close of a socket | `DeadlinePasses`, `ClientLeaves` |
| `monitorAccess`, `renewAccess` | `Renew`, `Check*`, `CheckFails`, `RenewalTimesOut` |
| `shutdown` | `Shutdown` |
| other requests, users, timers | `World` |

A request record says at which await its work stands (`at`) and whether anybody
still waits for it or holds a stream (`http`); the two part when a deadline
passes or the client goes.  A database read may take any time and may fail.
Time is a `Tick` of five seconds, the greatest common divisor of the code's
intervals; a timer that is due fires before the next one.  `age` is history: for
how many ticks the session behind a request has not been good for the workspace.

Run `access`: two requests compete for one slot of each pool, one code, two rows
of the slug, sessions of the owner and of somebody else, two changes of the
world; real intervals (25 s and 5 s).  0.34 million states.

- `StreamsEndInTime`: a stream outlives the right to it by 35 s at most.  The
  documents disagree on the number: `src/docs/ARCHITECTURE.md:70` has a check
  every 25 s with 5 s to answer, `src/docs/PLATFORM-TARGET-DESIGN.md:100` and
  `src/docs/PLATFORM-MIGRATION-PLAN.md:84` at most 30 s.  35 s are reached when the right
  ends during a renewal that has just read it, and the next one does not answer.
- `SlotsAreWork`: the counters are the work under way, no slot lost or
  overspent, also after deadlines, hang-ups and failures.
- `CodeIsUsedOnce`, `TokensHangOnOwner`: whatever comes between issue, callback,
  revocation and ban.
- `EveryRequestAnswered`: even if the database never answers.  Fairness is weak on
  `Tick` and on the timers, and on nothing else.

## Accounts and setup

`Accounts.tla` has the tables and every call on them, cut at its statements;
`Setup.tla` adds the process that serves them: its start, the projection of the
three platform files step by step, the wizard, its restart, a crash, and the two
scripts.  A call stands at the statement it will run next; any statement may
fail, and a crash takes all calls but the scripts'.

| code | actions |
| --- | --- |
| better-auth's sign-in, the ban hook of `auth.ts` | `CheckSignIn`, `OpenSession` |
| `ban`, `unban`, `setRole` of `app.ts` with `user-repo.ts` | `SetUserBanned`, `RevokeUserSessions`, `ReadTarget`, `CountAdmins`, `SetUserRole` |
| `invite`, `deleteInvitation`, `acceptInvitation` | `LookForAccount` ... `CreateInvitation`, `DeleteInvitation`, `FindUsable`, `MarkAccepted` |
| `createUserWithPassword` | `LookUpEmail`, `CreateUser`, `LinkAccount` |
| `POST /api/setup`, `saveDomains`, `restartSelf` | `AskSubmit`, `SavePlatformDomains`, `SubmitProjects`, `Answer`, `Finish` |
| the start in `index.ts` | `Start`, `BootProjects`, `Listen` |

Run `platform`: a fresh machine, or one that serves; two addresses, sessions and
invitations, four requests, two of them at a time, one fault.  0.6 million
states.  Two requests are what the races of this code take; the third and the
fourth set the stage (a sign-in, an invitation).

- `BansHold`: a banned user's session belongs to a sign-in that looked before the
  ban and wrote after it (better-auth looks first), or to a ban that is cut
  between its two statements.  `across` and `half` are history and say which.
- `InvitationsSettle`: two visitors of one link never both use it, and an accepted
  invitation is an account with a password.
- `LastAdminStays`: only a call with a stale read takes the last administrator.
- `DomainsComeWithAccount`: see the module.
- `DoorIsRight`: also that the console's file a configured process serves behind
  is whole.  Two writers of one temporary name are followed by `shared` (opened
  by one while the other was still to rename) and `torn` (renamed while shared:
  it may be cut off or mixed, which of them is left open).

What the runs also reach, and no document denies: an invitation revoked between
`findUsableInvitation` and `markInvitationAccepted` answers 500 although the
account was made (`invitation.ts:68`; the comment at `invitation.ts:44` takes the
failure of the mark for unreachable); a wizard whose `linkAccount` fails leaves
an administrator without a password, after which the same address is refused
and the seed script skips; a wizard whose projection fails after the domains are
stored is not restarted; two submissions under different addresses that overlap
can leave `platform.yml` torn until the next start, which writes it anew before
it listens (`dynamic-config.ts:6` calls the write atomic).

## Versions, ports and routes

`ImageReleases.tla` has the releases, the registry's snapshot, the images on the
machine and the administrators' requests.  A transaction is cut at its
statements, with the locks PostgreSQL takes: the advisory lock of publishing,
the row lock of the default (`held`, `default_waits`), the unique index.
`Fleet.tla` composes it with several workspaces: one operation of the queue at a
time, with every probe of a port a step; containers with the port each was made
for; programs that take and leave ports; and two projections of the routes, the
queue's and the timer's, cut at open, write and rename.

| code | actions |
| --- | --- |
| `publishImageRelease`, `unpublishImageRelease`, `setDefaultImageRelease` | `Publish*`, `Unpublish`, `Default*` |
| `syncImageCatalog` | `SyncReads`, `SyncSaves`, `SyncPrunes` |
| `streamImagePull`, the agent's pull stream | `Pull*`, `BrowserLeaves` |
| `allocateHostPort`, `isPortFree` | `Allocate`, `Probe` |
| create, restart, start, stop, remove | `Create`, `Prepare`, `Make`, `SaveMade`, ..., `Updating` |
| `writeDynamicConfig` | `ReadRoutes`, `OpenFile`, `WriteFile`, `RenameFile` |
| `reconcile` and its timer | `Reconcile`, the projection `"timer"` |

What `InstanceLifecycle` cuts finely (data, snapshots, the agent's outcomes) is
coarse here; what it leaves out (ports, other workspaces, the file itself) is
fine.  A reconciliation is one step, because the queue runs nothing beside it.

Run `fleet`: two of everything, two ports, two requests at a time, one fault (a
failed statement or call, a container or a program that comes or goes, an agent
that finishes what its caller gave up); an operation costs 2 and a request 3 of
the budget of 6, so that three operations, or two requests, or one of each,
occur together.  0.98 million states.  With two workspaces every second port is
somebody else's, and the range is exhausted.

- `LeadsHome`: the port that visitors are sent to is never one at which another
  workspace answers; names and ports are not shared, and a name never passes to
  another owner.
- `RoutesWhole`: a projection that no other overlaps leaves a whole file.  Two that
  overlap may leave a torn or an empty one until the next projection, and the
  second rename fails, which a running operation records as an error; the comment
  at `instance/dynamic-config.ts:6` promises that the file is replaced atomically.
- `DefaultKept`: the default is lost only when the version that `setDefault`
  changes to is taken back after it was found (`db/image-release-repo.ts:98-106`).

## The console

One tab of the browser.  The library behind it (`@tanstack/react-query`), the
`EventSource` and the network are outside the repository; `QueryClient.tla` has
what the pages rely on when they mount a query, poll it, invalidate it, set it or
clear the cache, and is marked external in the map.

| code | module, actions |
| --- | --- |
| `SetupPage.tsx`, `useDomainProbe`; `POST /api/setup` | `SetupPage`: `Type`, `ProbeLeaves`, `ProbeAnswers`, `Waive`, `Submit`, `SubmitAnswers`; `Console`: `Wizard`, `Submitted` |
| `App.tsx`, `use-setup.ts`, `RequireAuth`, `RequireAdmin` | `Console`: `AppStarts`, `WizardOpens`, `Lands`, `Shows` |
| the queries and their keys | `Served`, `Arrives`, `Drops`, `SessionAges`; `PageKeys` says which page mounts which |
| `LoginPage`, `AcceptInvitePage`, `SidebarUser` | `AskSignIn`, `AskAccept`, `AskSignOut`, `ServeAuth`, `AuthAnswered`, `AuthFails` |
| links, the address bar, other tabs | `Move`, `Reload`, `SessionChanges` |
| buttons, dialogs, sheets, the command menu | `Pages`: `OpenDialog`, `OpenSheet`, `OpenMenu`, `CloseOver`, `Ask` |
| the server's side of a request | `Carries`, `Refuses` |
| `onSuccess` and `onError` | `Answered` with `Refreshes` and `Over`, `AskFails`, `PullSettles` |
| `instance-status.ts`, `OpenWorkspacePage` | `Polls`, `WorkspaceOpens` |
| containers that change by themselves | `Drifts`, `Provisioned` |
| `log-panel.tsx` and the browser's `EventSource` | `LogStream`: `Switches`, `Reconnects`, `Errs` |
| `http/log-stream.ts` | `OpensLogs` ... `CutsOff`, `SeesClose` |

A query is one record of the cache: its data, its fetch ("sent" until the server
reads it, then "read" or "refused" until the answer arrives), and whether it is
stale.  An answer carries who asked, a version of its section and the rows it
shows; nothing else of it matters.  The version of a section counts the changes
that this user made to it.  `req` is the list of mutations under way in the order
they were asked, because an observer of `useMutation` follows the latest of its
kind: what disables a button, and what the answer closes, hang on that order.
`WebConsole` adds the log panel, which every step of the tab takes along: its key
changes with the page, the sheet and, on the settings page, the status.

Run `web_console`: the nineteen scenes of `MCWebConsole`.  A scene is a page, who
is signed in, which workspaces there are, and how often what may happen in it: so
many inputs, requests, refusals, failures, moves, changes of the session from
outside.  Whatever the bounds of a scene admit happens in any order.  There is
one for each page and, where a page has several things to race, one for each
combination: two requests on one list (three on one list, for the observer that
moves from row to row), a request and a move, a request and a fault.  Two rows
are what the dialogs and observers can confuse.  `MaxStreams` is 5, enough for
every response that the bounds of a scene can open.

- `SetupSendsChecked`: the domains submitted were approved by the probe, or
  waived after it had failed, since they were last typed.
- `InviteTellsTruth`: an error on the invitation's page says that the account
  exists exactly when this visit has made it.  One case is left out: when the
  answer that it was made is lost, a retry says that the invitation is not valid.
- `ShownIsOwn`: after a sign-out nothing of the former user is on the screen or
  on its way to it.
- `OwnChangeShown`: after the answer to a change, its lists and the page it was
  made on are not older.
- `AsksOnce`: two requests for one workspace are not under way from one visit of
  the list, unless the observer has gone on to another workspace in between.
- `NoOrphanStream`: the server reads logs for a panel on the screen, or for one
  whose end it has yet to notice.
- `PollShowsTruth`: what a polled page shows comes to be true again after every
  change.

Fairness: weak, on "some fetch of the session or of the polled page is served,
arrives or is sent by its timer": the network answers and timers fire.  Failures
are bounded by the scene.  Users, other tabs, containers and the server's
provisioning owe nothing.

What the model also reaches, and the properties leave out by name or by shape:

- The observer of `InstancesPage` can be moved on by a request for another row,
  and then offers the first row again although its answer is awaited.
- Dialogs that ask for a confirmation stay open once confirmed (only the one of
  `InstanceCard` closes) and are not disabled: unpublish, role, ban, revoke and
  roll back can be sent twice.  Confirmed twice, the first answer of a roll-back
  neither closes the dialog nor refreshes it.
- `AdminInstancesPage.tsx:86` says that the details of a row are refreshed with
  the lists; every call leaves the row out.
- The answer to a quota or image change closes whatever dialog of its kind is
  open by then, that of another row included; the quota form saves four values
  it read when it was opened.
- A new password that signs the other devices out does not refresh the list of
  devices.
- A first load under way when a change is answered is kept, so that a page shows
  the state before until its next poll, or, where nothing is polled, until it is
  visited again.  A session query that was under way when the user signed in
  may still answer "nobody" and send them back to the login page.
- When the answer of a sign-out is lost the cache is kept; when another tab signs
  somebody else in, this one mixes the data of both until it is loaded again.
- An `EventSource` does not reconnect after an answer that is not a stream, so
  that a panel whose logs are refused stays "connecting"; `log-panel.tsx:60` says
  that it reconnects and gives up after several attempts.  An error inside a
  stream counts twice.

## What the runs show

| run | instance | shows |
| --- | --- | --- |
| `operation_queue` | 4 callers, capacity 3 | safety, `AdmittedRuns`, refinement |
| `lifecycle_safety` | 2 images, 2 quotas, 1 change of the data, 2 faults of any kind but `late`; symmetric in images and quotas; 1.8 million states | the invariants below |
| `lifecycle_liveness` | 2 images, 2 quotas, 1 fault of any kind but `db`; 0.17 million states | `EveryOperationEnds`, `LeavesTransit`, `DriftConverges` |
| `node_storage` | 2 workspaces, 4 ids, 2 faults of any kind; 0.96 million states | the invariants above, `OutcomesAsAssumed` |
| `access` | 2 requests, 1 slot of each kind, 1 code, 2 changes; 0.34 million states | the gateway's invariants, `EveryRequestAnswered` |
| `platform` | 2 addresses, 2 calls at a time, 4 in all, 1 fault; 0.6 million states | the accounts' and the door's |
| `fleet` | 2 workspaces, 2 ports, 2 versions, 1 fault; 0.98 million states | `LeadsHome`, `RoutesWhole`, `DefaultKept` |
| `web_console` | 19 scenes, 2 rows, 3 accounts, up to 3 requests; 0.18 million states | the console's |
| `stop_stops`, `partial_data`, `unrouted_while_removed` | 1 fault | refute what comments say, see Findings |
| `admin_lockout` | 2 addresses, 1 call at a time, no fault | refutes what a comment says, see Findings |

Deadlock is not checked in `platform`, `fleet` and `web_console`: the bounds on
requests and faults run out.

Type invariants: `TypeOK` is a property of `lifecycle_safety` and `node_storage`,
whose proofs begin with it, and part of the inductive invariant of the queue; of
the other modules it is proved (`TypeCorrect`) and not checked again.

Of the lifecycle: two images are what an upgrade needs; a third would only rename the second,
since images are only compared.  One change of the data tells new contents from
old.  `late` faults are left out of the safety run because none of its
invariants speaks of routes.

- `ContainerHasData`: no container over missing or incomplete data.
- `LatestRecoverable`: the contents the owner worked with last are, complete, in
  the live directory or in the recovery copy, until deletion begins.
- `PairedSnapshot`: a previous image on record means a complete snapshot taken
  under that image.
- `RunsWhatRowSays`: the running container has the image of the row, and the
  quota whenever the row has a containerId.
- `DeletedLeavesNothing`: a retained row means no data, no container and no call
  that could bring them back.
- `QuietCopies`: no workload runs while an abandoned copy, or removal of the
  live data, is under way.
- `EveryOperationEnds`, `LeavesTransit`: see the module.
- `DriftConverges`: a row that says `running`, with a container on record that
  does not run, is put right, unless a quota change throws after it has
  cleared `containerId` (`QuotaAborted`).  That way out is no convergence, see
  `StopStops` below: it takes two quotas and one fault, and the run has both.

Fairness: weak on `Workflow` (each await has a deadline or is a database query),
on `NodeFinishes` and on `Stray`; strong on `Tick`, because the reconciler queues
like any operation and `AdmittedRuns` gives it its turn whatever else arrives.
Users, the workload and faults owe nothing.  The liveness run has no `db`
faults: when the UPDATE inside `failWith` fails, the row does stay
`provisioning` or `removing` until the next operation or boot.

## Findings

- `StopStops` (`provisioner.ts:178`): after a quota change whose container
  removal failed, or a create whose container started and whose status could not
  be read, `containerId` is null while the container runs; `stop` then records
  `stopped` without asking the node.  The same quota change leaves the row
  `running` when the container has exited meanwhile, and nothing but another
  operation or a boot puts it right: the reconciler, which is to align the row
  with the facts (`reconciler.ts:26`), passes over rows without a `containerId`
  (`reconciler.ts:50`).  `DriftConverges` names this as its exception
  (`QuotaAborted`) and is violated without it.
- `NeverRunsOnPartialData` (`runtime/docker/driver.ts:325`): `rm` precedes the
  release of the record, so a removal that fails half way during a rollback
  leaves a partial directory with a complete record, on which a later restart
  builds a container.  The recovery copy still holds the data
  (`LatestRecoverable` holds), but nothing keeps the workload from starting.
- `UnroutedWhileRemoved` (`index.ts:173`): the projection after a reconciliation
  is not in the queue and can be overtaken by a removal, whose routes it then
  puts back until the next projection.
- `AnAdminCanSignIn` (`app.ts:329`): `countAdmins` counts administrators who are
  banned.  Ban the other administrator, then demote yourself: the guard, whose
  comment says that without it everybody is shut out until `db:seed`, lets it
  through, and `db:seed` skips because it counts the same way.

## Proofs

`OperationQueueProofs.tla`, for any set of calls and any capacity: the inductive
invariant describes the chain.  Each call in line holds the promise of the one
before it, the first one a resolved promise, `tail` is the promise of the last,
and a running call is the first.  From it `MutualExclusion`, `OldestRunsFirst`,
`PendingIsExact` (with the cardinality of a line without repetitions) and
`ImplementsExecutor`, step by step.  Assumptions: `CapacityAssumption`,
`ResolvedAssumption`.

`InstanceLifecycleProofs.tla`, for any images, quotas, bounds and faults:
`ContainerHasData`, `QuietCopies` and `DeletedLeavesNothing` are not inductive,
since a wipe of the live data would break the first if a container could be
there.  `IInv` adds what the order of the workflows establishes:

- `Prepared`: from the removal of the container on, a rollback and a deletion
  have no container; from the stop on, an upgrade has none running; what a
  deletion has cleared stays clear; and at these places no abandoned call can be
  under way, because the node has just answered.
- `LateWipe`: an abandoned removal of the live data began after the container
  was discarded.
- `Locals`: what the local variables hold at the places that use them.
- `Unlisted`: without a row, or with a retained one, there is nothing on the
  node and only the reconciler, boot and the last steps of a deletion run.

The proof first says what `Done`, `Denied` and `Broken` can leave (`OutcomeForms`
and the lemmas after it), then what each shape of step keeps (`CallKeeps`,
`StoreKeeps`, `LookKeeps`, `PublishKeeps`, `MoveKeeps`), then goes through the
workflows, one lemma each and one step per action.  `NextHolds` puts them
together.  Assumptions: `NodeAssumption`, `LifecycleAssumption`.

`NodeStorageProofs.tla`, for any workspaces, any number of ids and any faults:
`AccountsApart` and `UsageIsOwn`.  Neither is inductive, since an id travels
from the registry to a call, from there to a directory and to the accounts, and
stays on the directory when the record is long released.  `IInv` follows it:
`OnDisk`, `InHand` and `OnAccount` say that the id at each of these places is
held by the registry for the same key, `Distinct` that no id is held for two,
`Numbered` that a record has an id.  Without a registry file only the directories
are known to be apart, and the agent is down; the next start either finds the
pool empty (`GoneIsClean`) or does not happen.  The lemmas first say that
allocating, confirming and releasing extend what is held (`AllocateExtends`,
`MarkExtends`), then what a step must keep (`StepKeeps` and its special cases),
then go through the steps whole (`WorkHolds`) and cut short (`HalfwaySound`,
`FaultsHold`).  Assumptions: `RegistryAssumption`, `StorageAssumption`.

The same module proves `DataIsLimited` and `UsableIsSound`.  `LInv` adds to the
first the order of a call: the directory is bare until it has its id (`Bare`),
the id has its limit before the data comes (`Charged`, `Limited`), and the limit
goes after the directory (`Removed`); `ClearsOwn` then needs `IInv`, for the limit
taken away could be that of another directory with the same id.  `UInv` is about
records: a key that is made has no record before, because what is created was
never there (`Unmade`) and every copy that a plan holds comes after the removal of
what it replaces (`RemovedFirst`), so that "done" still says what it said when
the call that filled the directory completed.

Its last part proves `OutcomesAsAssumed`, an action property between the two
levels.  `OInv` says of every call under way how the disk of its key stands
to what the key held when the call came in (`Course`): nothing is touched yet, or
the entry is gone, or there is a bare directory, or one being filled from a source
that is sound, according to the stage of the plan and to what is left of it.
Whatever ends the call, the last step, a failing one, or the death of the agent,
then leaves one of the outcomes that `RuntimeNode` lists (`Leaves`); steps of the
other calls do not touch the key.  It needs `UInv` for the source of a copy, and
one more assumption, `OutcomeAssumption`: that the two values for no contents and
for damaged ones are neither equal nor a version of the contents.

`InstanceDataProofs.tla`, on top of `InstanceLifecycleProofs`: `LatestRecoverable`,
`PairedSnapshot` and `RunsWhatRowSays`.  A call that was given up may take effect
at any later time, next to any later step of any workflow, so the invariant
speaks of three things.  `Safe` is what holds at any time.  `Harmless` says when a
call may be under way at all: what it removes is kept elsewhere, the snapshot it
replaces is not offered any more, the container it makes is the row's; then every
outcome of it keeps `Safe` (`OutcomesSafe`).  `Relied` says what a place of a
workflow has behind it: from the copy on a rollback has the owner's data in the
recovery key, and once it is committed in the live one; an upgrade offers no
snapshot until it has a new one; a deletion has said so before it destroys.

`WorkspaceGatewayProofs.tla`, for any requests, sessions, limits and delays, in
three layers.  `Slots`: the counters are the cardinalities of the sets of requests
at work, which are finite although there may be any number of requests
(`SlotsAreWork`).  `Codes`: a code that has minted is spent, and a session comes of
a spent code (`CodeIsUsedOnce`, `TokensHangOnOwner`).  `Leases`: at every await of a
renewal the age of the right and the time left on the timer are bounded
together, by a deadline, an interval and a deadline, or an interval and two
deadlines; a tick moves one up and the other down, an answer sets one of them
back (`StreamsEndInTime`).  Assumption: `GatewayAssumption`.

`SetupProofs.tla`, for any people, sessions, invitations and calls.  `Shaped` and
`Known` say where a call may stand and whom it is about, and every step is one of
the moves of `Follows`.  `Settled`: two calls that have made an account have not
made the same one, and the account has its password exactly when its call is past
"link" (`InvitationsSettle`; with `Stored`, `DomainsComeWithAccount`).  `Counted`: no
call has seen a single administrator and gone on (`LastAdminStays`).  `Doors` and
`Submitting` say of every projection under way what it has still to do: on the
platform's files, whatever projections interleave, the step that opens the way in
lies before the one that closes the page (`Leading`), which makes `DoorIsRight`
inductive under steps of any number of submissions and of a process that
dies at any of them.  `Whole` adds that a start has the console's file to itself,
because no submission outlives its process.  `BansHold` is inductive beside these.  Assumptions:
`AccountsAssumption`, whose `IsFiniteSet(People)` is for counting
administrators, and `SetupAssumption`.

`FleetProofs.tla`, for any workspaces, names, owners, versions, requests and ports.
`LeadsHome` rests on `Working`: containers are where their rows say (`AtHome`); the
container still being made for a caller who gave up is where no other row is
(`Orphan`), and while it is, the node is busy, so no operation is between making a
container and saving its port; the port an operation goes for is in no other live
row from the read in `allocateHostPort` on, although sockets come and go
(`Chosen`).  `RoutesWhole` rests on `Filed`: of two projections that hold the file
neither counts as alone, one alone holds the temporary file, and the file in use
is nobody's target.  `DefaultKept` rests on `Requested`: a version that a
`setDefault` goes over to is published or marked as taken back.  The proof of the
first led to a correction of the model: `failWith` after a completed deletion
updates no row (`updateInstance` looks for `deletedAt IS NULL`), where the model
had brought it back to life.  Assumptions: `ReleasesAssumption`, `FleetAssumption`.

`WebConsoleProofs.tla`, for any accounts, workspaces, domains and scenes; each
property has an invariant over its own part of the tab, and a lemma that nothing
else touches that part.  `SetupSendsChecked`: a waiver and a verdict are of the
input on the screen.  `NoOrphanStream`: every response that lasts is read by the
panel, or its end is on the way.  `ShownIsOwn`: whatever the cache holds or
awaits for a page was asked since the last sign-out, where the page is one that the
signed-in may see.  `InviteTellsTruth`: where the redemption stands, by what this
visit has heard.  `AsksOnce`: of the requests for one row, each that its visit still
looks at is the latest of its kind.  `OwnChangeShown`: data older than what is owed
may well be in the cache, while nobody watches it and it is marked as old, so that
the next observer asks again (`Fresh`); hence every step that brings something
to the screen must mount it (`ShowsFresh`), and every key that an answer owes must
be among those it invalidates (`OwedIsRefreshed`).  The latter needs that
whatever is open, or was asked, on the page on the screen is about the row of that
page (`PageInv`): the mutation invalidates the keys of the row it was asked for,
the property speaks of those the page watches.  Assumptions: `DomainsAssumption`,
`ConsoleAssumption`, and `ScenesAssumption`, that a scene on the page of a
workspace names one.

Only model-checked: the liveness properties, which are out of the prover's reach
(fairness and ENABLED): `AdmittedRuns`, `EveryOperationEnds`, `LeavesTransit`,
`DriftConverges`, `EveryRequestAnswered` and `PollShowsTruth`.  Every invariant,
action property and refinement of a passing run is proved for every value of the
constants.  TLC has checked each inductive invariant on the instance of its run
before it was proved.

## Not modelled

- Of the web console: charts, metrics and health, theme and language, what is
  filtered or sorted on the screen, the options offered for a new workspace
  (kept for 60 s) and the checks of its fields, the component library, the
  progress of a download.  The development launcher (`src/scripts/dev.mjs`).
- Text: Traefik's document, logs, metrics, schemas, cookies, headers, the
  records of the API.
- Hosts: admission checks, container hardening, lxcfs, the making of the storage
  pool itself (`ensureStoragePool` either returns a pool or stops the process),
  the development fallback without a pool (Docker volumes).
- Sizes: `resizeStorage` and `ProjectRegistry.update` in `NodeStorage`, CPU and
  memory; a user's own quota, except for the request that changes it.
- `healOrphans`; the 32 concurrent calls of the agent (`active`); a pull stream
  that reports its end several times (`released` makes the second one a no-op).
- In `Setup`, domains given by the environment, a development machine that does
  not serve the console, and which domains the files hold.  In `Fleet`, crashes
  (`InstanceLifecycle` has them) and quotas of single users.
