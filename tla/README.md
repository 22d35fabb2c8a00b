# Tugtainer in TLA+

Tugtainer keeps the docker containers of several hosts up to date. A backend
(FastAPI, one process, one asyncio event loop) talks over HTTP to one agent per
host, which talks to docker. Cron jobs and users start *checks* (is there a
newer image?) and *updates* (pull, stop, recreate, start, roll back). This
directory models the application's own logic: how an update plan is built and
carried out on a host whose calls may fail, what an update makes of a
container's settings, how runs, users and the agent's threads interfere, how
database rows, settings in memory, clients of hosts and sessions of browsers
stay consistent while everything overlaps.

Paths below are relative to `src/`; `update_actions/` and the like are under
`backend/core/`.

## Inventory

| Component | Code | State | Operations | What makes it correct |
|---|---|---|---|---|
| Update plan builder | `update_actions/update_actions_plan.py` | the labels, rows and settings it reads; two searches and their queues | `build_update_plan` | ends; the plan holds the eligible containers and exactly their dependents, each once, dependencies first |
| Update plan executor | `update_actions/update_actions_executor.py` | items (errors, results), place in the order; on the host: containers, images, tags | `execute_update_plan` | never loses a container, touches nothing else, reports what is on the host |
| Hooks | `update_actions/hooks_executor.py` | - | `run_hooks` | a veto leaves the container as it is |
| Container configuration | `container_util/*` | - | `get_container_config`, `diff_container_config_with_image` | what the user gave survives any number of updates |
| Progress cache | `progress/*` | at most ten records with a status, for 600 s | `get`, `set`, `update`, `is_allowed_start_cache` | one run per key; a record tells the truth about work |
| Check and update actions | `update_actions/update_*_containers.py`, `check_actions/*` | the coroutines under way | check or update of all hosts, a host, a container | locks are taken once and always given back |
| Check of one container | `check_actions/check_one_container.py`, `check_actions_util.py` | digests, the row | `check_one_container`, the lookup at the registry | a verdict is true, and announced once |
| Containers router, rows | `backend/modules/containers/*` | rows | start runs, poll, control a container, patch its settings | writers of a row do not undo each other's work |
| Agent | `agent/*` | docker; a pool of seven threads | one call per docker command | an answer says what happened |
| Agent client and manager, hosts router | `agent_client.py`, `backend/modules/hosts/*` | host rows, clients, http sessions | request, close; create, update, delete a host | the client of a host is made of its row; no session is forgotten |
| Settings, cron | `backend/modules/settings/*`, `cron_manager.py` | rows, values in memory, jobs | change, schedule, load | memory, rows and jobs agree |
| Authentication | `backend/modules/auth/*`, `frontend/.../auth-interceptor.ts` | cookies in the browser; nothing in the backend but a key | log in, refresh, log out | a session is whole or gone, and not lost needlessly |
| Notifications | `notifications_core.py` | - | format, send | - (after the record is DONE, caught) |
| Images, public | `backend/modules/images`, `public` | - | summaries, prune | - |
| Signatures, URL guard | `shared/util/signature.py`, `backend/util` | - | sign, verify; accept a url | - (predicates) |
| Web user interface | `frontend/src/app` | stores | start, poll, show | a poller ends, and copes with a record that is gone |

How they interact. A cron job or a handler creates a task; the task asks the
progress cache for permission, lists the containers of a host through the
agent, and either checks them one by one or builds a plan (reading rows and
settings) and executes it through the agent. Tasks share the event loop, the
cache, the database, the clients and the docker hosts. The user interface polls
the cache, which also refreshes a record's place in it; its tabs share the
cookies of one browser.

What is hard here: every agent call may fail, or do its work and fail to say
so, or do it later; the executor has some twenty awaits, each with its own way
out, and what it has already done decides whether a container survives; nothing
but the names of records keeps two plans, a user and a prune apart; rows are
read before several awaits and written after them; memory follows a flush and
not a commit; labels may name anything, also in circles; the docker CLI cannot
say all that a container is; responses overtake each other.

`PROJECT.json` lists the hazards, each at its line and with the properties
that would catch it.

## Modules

| Module | Models | State | Actions |
|---|---|---|---|
| `UpdatePlanSchema` | `UpdatePlan` | - | - (`IsPlan` is the contract between the next two) |
| `UpdatePlan` | `build_update_plan` | one variable per local variable; `stack`/`unseen` are the recursion of `dfs` | `Select` (choice and graph), `Scan` (one turn of the breadth-first search), `Root`/`Descend`/`Leave` (`dfs`), `EndScan`, `EndSort`, `Filter`, `Return` |
| `PlanExecutor` | `execute_update_plan` and the database update after it, on one host | items (`err`, `result`), host (`st`, `image`, `attached`, `tag`), rows (`available`), control (`pc`, `pos`, `todo`), the status of the record | one per await, named for it |
| `HostUpdate` | the abstract specification of the executor: what anybody may see of the host and of the report | `st`, `image`, the container in `hand`, `outcome`, `phase` | `Stop`, `Advance`, `PickUp`, `Resume`, `Work`, `Settle` |
| `HostUpdateRefinement` | the refinement mapping from `PlanExecutor` to it | - | - |
| `SharedHost` | two executors (two instances of `PlanExecutor`), a user's commands and prunes on one host | the host once, each run's own variables, the images that are stored (`kept`) | the steps of both, `BuildSecond`, `Control`, `Prune`, all of them at any moment of one another |
| `ContainerConfig` | what `get_container_config`, `get_container_net_kwargs` and the merge make of a container, through docker and back | the container; what its user gave; what excuses a loss | `Update` (also failed and rolled back), `Toggle`, `Connect`, `Disconnect` |
| `ProgressCache` | the `TTLCache` and `is_allowed_start_cache` | `status` by key, the order of use | operators `Get`, `Set`, `Forget` |
| `Actions` | the four coroutines of hosts and all hosts, the locks of `check_one_container` and `execute_update_plan`, what starts them | per run: where it is and what is left of its loops | `Request`, one per await, `Expire`, `Poll` |
| `RegistryLookup` | `get_image_remote_digest` over several local digests | what the registry serves, the lookup with the digest its headers name and the answer it got | `Unreachable` (schemes), `Challenged`, `Token`, `Responds` (the registry), `Refuses`, `Concludes` (what the code makes of the answer) |
| `ContainerCheck` | the writers of a container's rows: check, end of an update, patch; the notification | rows, the object each session holds, the image on the host | one per await of each writer, what becomes of an update (`Replace`, `NotReplaced`, `NotRecorded`), `Crash` |
| `AgentPool` | `asyncall` and the handlers above it | docker, for each call its handler, its thread, its answer | `Take`, `Operates`, `GivesUp`, `Loses`, ... |
| `AgentClients` | `AgentClient`, `AgentClientManager`, and the handlers that use or edit a host | the row, the registered client, all clients and open sessions, a program counter for each task | one per await |
| `Settings` | `change_system_settings`, the event of the flush, the two jobs | committed values, those of the writer's transaction, memory, jobs, requests | one per statement that awaits |
| `Sessions` | routers and providers of the login, the interceptor, guard and login of the web interface | the cookies, for each tab its page, its form, its refresh | one per request sent and per response stored, `Tick`, `Restart` |
| `*Proofs` | theorems | | |
| `MC*` | plans, labels, calls, images for TLC; `MCUpdatePlan` also checks that `Reaches` is reachability as the graph operators of the community modules compute it | | |

How they compose. `PlanExecutor` and `UpdatePlan` both EXTEND
`UpdatePlanSchema`: the executor ASSUMEs `IsPlan` of every plan it is given,
and the builder is proved to return only such plans. `HostUpdateRefinement`
EXTENDS the executor and INSTANCEs `HostUpdate` with a mapping.
`SharedHost` INSTANCEs the executor twice over one host. `Actions` EXTENDS
`ProgressCache`; `ContainerCheck` EXTENDS `RegistryLookup`.

### What the abstractions are

*Agent calls.* `Outcomes == {"ok", "error", "lost"}`: done; not done and an
error; done and an error all the same (a timeout, a broken connection). A
sequence of calls that all concern one container, between which no property
can tell the states apart, is one step with every outcome of the sequence:
the tear-down (`TearDown`) is any prefix of stop, disconnect, remove; `StartNew` is
the start, the connect commands and the inspect. In the
executor a lost call takes effect at once. That one may take effect *later* is
the subject of `AgentPool`, for any client; the two are not composed.

*Crashes.* Nothing of a plan is persisted, and nothing resumes it, so a crash
of the executor is: stop in any state. `OnlyCurrentMissing` holds in every
state, and is thereby the statement about crashes. Where something survives,
`Settings`, `AgentClients` and `Sessions` have a `Restart`, and `ContainerCheck`
a `Crash`: between any two steps check, patch and update are gone, the row and
the container are as they were left.

*docker.* A container is running, stopped or absent, made from one version of
one image, attached to all its networks or not. `create` attaches it to one; the others
(of a container in `Linked`) are connected by commands after the start. `create` needs a free name and
resolves the spec at that moment; `remove` needs a stopped container. A spec
points to one version on the host; a pull makes that the registry's `Latest`.
In `ContainerConfig` the container has a command line, labels and networks
instead, and `create` merges them with the image as docker does.

*Hooks and commands.* Hooks are outcomes; a container outside `Hooked` has none.
The commands connect the other networks of a container in `Linked`
(`RunsCommands`): each is tried, a failing one is recorded as an error and
changes nothing else, and a container that was not running never gets to them.
`Hooked` and `Linked` are sets of containers, so that a run can say who has
neither.

*History variables* (`vetoed`, `retagged`, `lost`, `crossed`, `excused`,
`overlapped`, `mixed`, `rolledBack`, `failures`, `unrecorded`, `front`,
`reported`, `seen`, `setting`, `pruned`, `halted`, ...) remember what properties
speak of. No guard reads them. What excuses something is set from its cause (a
command that failed, an answer that was empty), never from the outcome that a
property is about.

*The searches.* The queue is a set and an iteration takes any element: the
code starts from a python set, whose order is unspecified, and the result is
shown not to depend on it. An endless search is an endless behaviour.
Parsing labels happens before: a call gives the sets of names they hold.

*The cache.* A record's time to live is `Expire`. With `Outlasts = FALSE` a
record under which a run works does not expire (no step takes 600 s); with
`TRUE` it may. Recency is the relation `before` on the keys that have records.
The same `Containers` on every host is no loss: keys contain the host.

*A run* (`Actions`) is the stack of coroutines of one task, flattened: each
level knows by `kind` where to return to. What is done on the host is left
out there; `PlanExecutor` has it. A run happens once; more runs of the same
kind are more members of `Runs`.

*The database.* A session hands out the object it has read, without reading it
anew (`Judge` in `ContainerCheck` keeps it over the second select), and a flush
writes the columns that changed in the object. SQLite has one writer at a
time; one that waits too long fails (`Settings`).

*Digests* are numbered in the order they are published, one per image of one
platform. The registry answers to the digest that a request names: "not
modified" only if that is what it serves, otherwise what it serves, with or
without a digest in the headers. An `Etag`, which the code takes where there is
no digest header, is assumed to be the digest. *Times* of checks and changes are left out.

*Time in `Sessions`* passes in lives of an access token; a refresh, a login
and a logout take none of it, and a request that waits for a refresh does.

## Runs

| Run | Asks | Bounds |
|---|---|---|
| `plan` | what may be missing, which image runs under which result, who is touched, what is down, does it end, is it a behaviour of `HostUpdate` | 2 containers in every role (both updatable; one updatable and one affected; one only listed; the empty plan), 2 specs, 2 versions, both hooked, one in further networks. 662,012 states |
| `build_plan` | is the plan sound, complete, in order, and returned | all 512 graphs on 3 containers and all sets of available updates, but those with a cycle of updatable containers; a chain under all selections; a compose project with 2 replicas. 84,093 states |
| `build_cycle` | *violated*: a plan is built | 2 updatable containers that name each other |
| `locks` | one run per key, shown as long as it works, no orphans, no lock for ever | 2 runs of any kinds, 1 host, 1 container, room for 2 of the 4 keys in use, records may expire under a run. 70,198 states |
| `shared_host` | what two plans, a user and a prune leave of a run's promises | a plan of the database that stops the api, and a plan of the api, built at any moment of the first, and 2 commands of a user or prunes at any moment of both. 1,353,617 states |
| `agent_pool` | what an answer means, what comes late, does everybody get an answer | 1 client, 3 calls of stop, remove, create, 2 threads. 112,395 states |
| `container_check` | flag, settings and announcements of a row | 3 checks, 1 update, 1 patch, 3 digests, 1 row, any write failing, crashes. 2,108,540 states |
| `check_notified` | *violated*: "available(notified)" was in a notification | 2 checks, room for 2 rows |
| `settings` | memory and jobs against the stored values | 2 requests at a time of 3, of 1 or 2 settings or of one setting twice, 1 restart. 133,648 states |
| `agent_clients` | sessions, locks and clients of a host | 2 users with 3 requests, 1 editor with 2 edits, 1 broken connection, 1 restart, 2 sets of data. 1,263,575 states |
| `sessions` | the cookies of two tabs | 2 tabs, 2 pages in one of them, 2 logins, 2 requests, 2 units of time, 1 restart. 1,625,406 states |
| `config` | command line, labels and networks over updates | 3 images, 3 networks, users who give each of entrypoint and command, both, neither, or clear the entrypoint; any number of updates and commands: the states are finite. 88,118 states |

Why these bounds are enough to be interesting. The executor treats one name of
the order at a time and looks at others only through the tags and by position:
two containers in each pair of roles meet each position and each interference
of tags, and the theorems take over for more. Two versions are "what the
registry has" and "anything else". Three nodes have every shape the searches
distinguish: chain, fork, join, shortcut beside a chain, self-loop, cycle with
a tail. Two runs are what an exclusion can fail between, and a full cache needs
only fewer places than there are keys. Three calls are a call that hangs, the
one after it, and one more that meets a pool of two threads that both hang.
Three checks are one that finds something, one beside an update, and one that
repeats the question; three digests let an image be overtaken twice. The
properties of the row speak of a container with one row, and no row is ever
deleted, so room for a second one would only add states they say nothing of;
the theorems are about any set of ids. Two
settings of a request are one that is flushed and one that is refused after it.
Two users and an editor are the three parties of every race over a session
(who closes, who opens, who replaces the client); two editors at a time are
excepted from `ClientIsCurrent` (`overlapped`) and covered for the other
properties by the theorems. The three images of `config` have an entrypoint of
two words, none, and the one word that the first is turned into, so that words
that moved coincide with an image's once more. `agent_clients` and `sessions`
use symmetry: tasks of a kind, values and the two pages of one tab are told
apart by nothing in the modules, and all their properties are about steps and
states, not about liveness. `shared_host` tells states apart by its VIEW only,
`Future`: what enables steps, what they do, and what the properties of the run
read. Its comment says what that leaves out and why the steps of two states
that agree in it agree as well.

The properties, by module:

- `PlanExecutor`: `OnlyCurrentMissing` (crash points), `UnsharedUpdatedRunsLatest`
  and `RetaggedRollBackRunsOld` (which image runs under which result),
  `BystandersUntouched`, `DependentsDown`, `VetoedStaysUp`,
  `ReportMatchesHost` (result, state, networks and errors of a container agree
  when the walk is over); as liveness, `EveryUpdatableSettled`; as refinement,
  `ImplementsHostUpdate`.
- `UpdatePlan`: `PlanIsSound`; against a reference definition of reachability
  `AffectedAreDependents` and `DependenciesFirst`; liveness `PlanIsBuilt`.
- `Actions`: `OneRunPerKey`, `WorkIsShown`, `NoOrphanRecord`; liveness
  `LocksAreFreed`.
- `SharedHost`: `MissingIsAccounted` (no interleaving loses a container
  unreported), `NothingLeftDown` (nor leaves one down that nobody answers for),
  `ImagesAsReported`.
- `AgentPool`: `AnswersAreFinal`, `ReorderedOnlyAfterTimeout`,
  `LateEffectsBounded`; liveness `EveryRequestEnds`.
- `RegistryLookup`: `FoundIsServed` (what a lookup concludes has been served
  since it began, though the answer says only "not what you named").
  `ContainerCheck`: `VerdictStands` (the flag against image and registry,
  between checks and updates), `PatchKept`, `ReportedOnce`.
- `Settings`: `MemoryFollowsStored`, `JobsFollowStored`.
- `AgentClients`: `NoSessionLost`, `ClientIsCurrent`, `OnlyBreaksFail`,
  `LocksAreReleased`.
- `Sessions`: `PairIsOne`, `LogoutHolds`, and the action property
  `NoNeedlessLogin`.
- `ContainerConfig`: `ArgvKept`, `LabelsKept`, `NetworksKept`.

Each has a mutant, an operator named in a comment "Mutant of ...", that
changes one definition as a plausible mistake would, and breaks the property.
`TypeOK` and `IInv` of a module with proofs are theorems and are therefore in
no run; they hold under the configurations of the runs too, when they are added
to the invariants there.

### What does not hold

Statements of the documentation, of comments or of log messages that do not
hold of the code; `PROJECT.json` quotes them. Two have a run that violates
them; the others are met by the passing properties, as exceptions.

1. `build_cycle`: updatable containers in a cycle of dependencies keep the
   search, and with it the event loop, busy for ever. (`CyclicUpdates` is left
   out of the calls of `build_plan`.)
2. `check_notified` (`NotifiedWasSent`): "available(notified)" after a check
   that notified nobody.
3. Two containers of one image spec: the roll-back of the first retags the spec
   for the second, which is then "updated" to the old image.
   (`UnsharedUpdatedRunsLatest`.)
4. A failed tag call in a roll-back is passed over, and a prune by another run
   undoes one that succeeded: "rolled_back" to the new image.
   (`RetaggedRollBackRunsOld`, `~pruned` in `ImagesAsReported`.)
5. A manual update of an ineligible container becomes a scheduled update of the
   whole host.
6. A scaled compose service has dependents through one of its replicas only.
7. Plans of one host that update different containers run at the same time.
   (`SharedHost` is about what follows.)
8. A check of ten containers evicts its own lock. (`k \in lost` in
   `OneRunPerKey` and `WorkIsShown`.)
9. A refused request leaves flushed values in memory. (`~rolledBack` in
   `MemoryFollowsStored`.)
10. A failed lookup makes the next one announce the same image again and
    restarts the delay of its update. (`failures` in `ReportedOnce`,
    which also counts reports whose own commit failed; a check that is given up
    or dies counts for nothing.)
11. The MAC address of another endpoint moves to the main one. (`moved` in
    `NetworksKept`.)
12. The other networks of a container that was not running are never connected.
    (`missed` in `NetworksKept`, `MayMissNetworks` in `ReportMatchesHost`.)
13. A user's command given alone makes an override of the old image's
    entrypoint, which no later image gets rid of. (`front` in `ArgvKept`.)

Further exceptions a reader should know, because they take a part of the
hazard out of the property that is listed for it:

- `VerdictStands`. `crossed`: a check that was given a container before an
  update recreated it, and reads the row while the flag is not set, sets the
  flag of an image that runs already; and a check that finds a third image
  during an update loses its flag when the update ends. `unrecorded`: an update
  brought the image but did not clear the flag, because the result is "failed"
  or "rolled_back" on the new image, the write after the execution failed, or
  the process died; the flag then asks for an update that is not needed. A lost
  flag, the worse of the two mistakes, is excused by `crossed` alone. In each
  case the next check that finds a digest and crosses no update puts the flag
  right, and the excuse ends with it.
- `OneRow` (`PatchKept`, `VerdictStands`, `ReportedOnce`): two first writes of
  one container give it two rows.
- `OneRunPerKey` and `WorkIsShown` (`lost`): a record that expired or was
  evicted under its run locks nothing and shows nothing, and a run that writes
  its record after that writes into somebody else's. The properties say that
  there is no other way.
- `MemoryFollowsStored` (`rolledBack`): values of a request that was rolled
  back after a flush stay in memory until a restart.
- `JobsFollowStored` (`mixed`): a request that gives one setting two values
  stores the last one (`settings_router.py:98`) and makes the jobs of the first
  (`:102`); and of two requests that overlap, each makes the jobs of its own
  settings and of what it finds in memory. What is left to the property is one
  request with its failures, its waits and a crash between its statements.
- `OnlyBreaksFail` holds up to the first broken connection or edit: either
  closes the session under the requests of others, which fail.
- `ClientIsCurrent` (`overlapped`): two edits of one host at a time. The run
  has one editor; the theorem any number.
- `LogoutHolds` (`crossed`): a refresh of another tab that was sent before a
  logout and is answered after it brings the session back.
- `ReportMatchesHost`: a container of `Linked` with an error may lack networks.
  For "updated" that is a failed command; a roll-back never comes without an
  error, so of its networks the property only asks those of containers outside
  `Linked`.
- `NetworksKept` (`missed`): from the first update at which a connect command
  failed, or there was no network, or there were several and the container was
  not started.
- `ArgvKept`. `coincided`: an override that equals its image's pair at one
  update is no override any more at the next. `front`: in front of a command
  given alone stands the entrypoint of the image it was given for, which is
  what an operator sees of finding 13. A user who cleared the entrypoint gets
  that of the first image that has one: the CLI cannot clear it
  (`container_config.py:108-111`).
- `LabelsKept` does not say that a label goes away with the image that brought
  it. It does not: the merge takes away the keys of the new image only
  (`container_config.py:47-53`), so one that the new image has not any more
  looks like the user's from then on.
- `LateEffectsBounded` counts what may still take effect. That docker reports
  an error after having done the work is not in `AgentPool`; the executor has
  it ("lost").
- `NoNeedlessLogin` is about the interceptor, and the guard's question whether
  the session is valid. The guard also sends a tab to the login page when that
  question meets a broken connection or a 403; this is not modelled.

### Fairness

`PlanExecutor`: weak fairness of `Next`. Each agent call has a total timeout
(`agent_client.py:124`), the wait for health has one as well, and nothing else
is waited for. `UpdatePlan`: weak fairness of `Next`; the function has no await
after its query, so it runs on. `Actions`: weak fairness of the steps of the
runs *together*: the event loop runs some task that can go on, no task is
promised its turn; and of the expiry of records that nobody works under, which
is time passing. `AgentPool`: weak fairness of the two timeouts of each call
only, `wait_for` in the agent and the total timeout in the client; docker, the
threads and the queue are promised nothing. `HostUpdate`, `SharedHost`,
`ContainerCheck`, `Settings`, `AgentClients`, `Sessions` and `ContainerConfig`
state safety only.

## Proofs

All for any values of the constants that meet the named assumptions.

**`PlanExecutorProofs`**. Assumed: plans satisfy `IsPlan`, `Latest \in Versions`,
`Hooked \subseteq Containers`, `Linked \subseteq Containers`. `TypeCorrect`; `Invariance`, the
induction over `IInv`; and from it `NothingLostUnreported`, `UpdatedIsNew`,
`RolledBackIsOld`, `BystandersSafe`, `VetoIsFinal`, `DependentsStayDown`,
`ReportAgrees`.

None of these properties is inductive. That an updated container runs the
latest image says nothing about the moment of its creation: `NewImageHeld`
follows its tag from the pull, through everything other items do, to `create`.
`OldImageHeld` does the same from the tag call of a roll-back. Both speak of one
container, so that they serve a run that is not alone as well. `StillDown`
says what of the backward walk is still in force at each place of the forward
walk; `VetoHeld` and `Placed` that a vetoed container falls into no hand and
that a result is given at one's own place only, where it needs `IsPlan`: a
name that came twice in the order would be replaced twice. `Present` ties the
place in the code to the container that may be missing. `ReportHeld` says of
each name that the walk has passed what the report will say of it, and follows
the networks of the one in hand from its creation through the commands to the
result (`StartEffect` is the one lemma about both starts).

`ExecutorKeepsPromise`: the executor implements `HostUpdate`. The initial states
map to initial states, and each action of the executor to one action of `HostUpdate` or a stutter; `Placed` and `Present` of
the inductive invariant say that a container that is put down with an outcome
other than "failed" exists.

**`SharedHostProofs`**. Assumed: the plans of both runs satisfy `IsPlan`,
`Latest` is a version, `Hooked` and `Linked` are sets of containers, `SpecMaps`
are maps from containers to specs, `MaxCommands` is a natural number. `InductiveInvariant`, `TypeCorrect`, and from
the former `MissingAccounted`, `DebtsArePaid`, `ReportedImages`: what the run
`shared_host` checks of two containers and two commands holds of any number, of
any two plans, also of plans that overlap, and of any numbers of commands and
prunes.

Most of the executor's own invariant is lost when others change the host: the
container in hand may be gone, what was stopped may run. What is left is the
part that speaks of the run's own variables (`TypeOK`, `Placed`, `Prepared`),
and from that alone `PlanExecutorProofs` derives what one step of a run does to
a host it does not have to itself: it moves only its own images and tags
(`MovesOwnImages`); it lets go of a name it has vacated only with "failed"
(`VacantStep`); it stops what it will start again, and forgets a container that
is down only with an error or a roll-back to show (`DebtStep`); what it has
reported stands (`ReportsStand`). `SharedHostProofs` instantiates that module
twice, once for each run, and the invariant adds up the two accounts:
`Vacated` says that every missing container is in one of them, `Debts` that
every container that is down is owed by a run, settled by one, or was stopped by
a user and not started since (`halted`). Both are facts about the pair: a run alone can say neither, since the
container it finds missing or down may be the other's. `ImagesHeld` is
`NewImageHeld` and `OldImageHeld` of either run for the containers whose spec
the other does not move; a prune keeps the first, because a pruned tag comes
back as what the registry serves, and may break the second, which is why
`ImagesAsReported` says `~pruned` of a roll-back.

**`UpdatePlanProofs`**. Assumed: containers are names, calls are well-formed.
`TypeCorrect`, `Invariance`, and `PlanSoundness`, which discharges the
executor's assumption about plans, for any graph and any order of iteration.
`Sorted` is the invariant of the depth-first search (what has been visited is
once in the stack or once in the order), `Covered` that no involved container
escapes it, `Kept` the same of the filter.

`DependentsAreFound` and `DependenciesComeFirst` say what the two searches
compute, and with it when the order of a plan can be trusted. Reachability is
defined without paths, so that no induction over them is needed: `d` reaches
`c` if every set that is closed under dependencies and holds what `d` names
holds `c` (`Closed`, `Reaches`). An assumption of `MCUpdatePlan` has TLC
compare this with the graph operators on all graphs of three containers. `Met`
says both halves of the first search: whatever it has met depends on an
updatable container; and what it has met has its dependents met, or is waiting
for its turn. When nothing is waiting, the rest of the names is a closed set,
so no name of it reaches an updatable container, and the result is exactly the
dependents (`Searched`). For the order, `Nested` says
that the stack of the depth-first search is a path of dependencies, so that a
dependency which is met again on the stack depends on the container in turn;
that is the one exception. `Ordered` and `Follows` say the same of what has
left the stack and of what the filter keeps.

**`ActionsProofs`**. Assumed: `Capacity` is a positive natural number.
`TypeCorrect` (also: the cache never exceeds its capacity), `Invariance`, and
`Exclusion`, `Visibility`, `NoOrphans`, for any number of runs, hosts and
containers, whatever is evicted or expires. `OneRunPerKey`, `WorkIsShown` and
`NoOrphanRecord` are inductive only together, with `RunsItsKind`: a run enters
only under a record that is not working, which is free of other runs because
their work is shown.

**`AgentProofs`** has both ends of the calls of an agent. The agent
(`AgentPool`). Assumed: finitely many clients, `MaxCalls` a natural number,
`Threads` a positive one. `PoolTypeCorrect`, `PoolInvariant`, and from it
`AnswersCanBeTrusted`, `CallsInOrder`, `LateEffectsLimited`. `InStep` relates
the place of the handler to that of the thread, `Truthful` both to what has
taken effect; `Sequential` is the order of a client's awaits.

The backend's clients (`AgentClients`). Assumed: users, editors and `Nobody` are
different. `InductiveInvariant`, `SessionsKept`, `LocksReleased`, for any numbers of tasks
and of everything the run bounds. That no session is forgotten needs that
whoever closes one holds the lock of that client, with the session closed
already (`ClosesAlone`), so that a `Send` cannot come between the close and
the moment the client forgets the session; and that needs what a task has in
its hands to be what its next step takes (`InHands`). Three lemmas carry the
steps: a task moves alone (`TaskMoves`), makes a client (`ClientIsMade`), or
changes one that nobody else is closing (`ClientChanges`).

`ClientsAreCurrent` has an invariant of its own, `EditsInOrder`: as long as no
two edits overlap, at most one editor is under way, an editor that has
committed carries the row as it is, and the client is that of the row
(`Current`) until it is taken out (`Unedited`). A user that has read an older
row can register a client of it only while none is registered, which is after
the client was taken out; and then the editor is before its `SetClient`, which
takes the registration over. `OnlyBreaksCost` needs `Calm`: before anything
breaks or is edited, every request in flight has an open session, because
timeouts and answers leave it alone.

**`ContainerProofs`** has what is known of a container and what becomes of its
settings. What is known (`ContainerCheck`). Assumed: `MaxDigest` is a natural number, 0 is no
row's id, `Default` is a value of the settings. `InductiveInvariant`, for any number of checks, updates, patches, rows
and digests, and from it `LookupsFindWhatIsServed`, `SettingsStay`,
`NewImagesAreReportedOnce`, `FlagSaysWhatIsKnown`. Everything rests on an order:
digests are numbered as they are published, so no row, image or lookup is ahead
of the registry (`NothingAhead`), and a lookup finds nothing older than the
check that began it knew (`LookupIsNew`). `AnswerIsNew` is why a lookup finds
what is served: the digest that a request names is the one that the call holds,
through every retry, and an answer in flight carries nothing that was not served
since the lookup began. `ReadIsKept` says what of the object
that a session keeps still agrees with the row when others have written it:
every column but those that somebody else wrote, which the flush leaves alone.
`OverlapIsKnown` says that a check knows of the update it overlaps; `FlagHeld`
what the flag is in the middle of the two, when it is not yet what
`VerdictStands` says; an update that ends unrecorded, by failure or with the
process, leaves the half that is left of it (no newer image is hidden), which
`UpdateEnds` shows of all of them at once. `ReportsHeld` counts: a digest that
was announced is in the row unless a lookup found nothing since or its own
commit failed.

Its settings (`ContainerConfig`). Assumed: command lines are sequences of
strings, labels have strings for values, a user's networks and mode are networks of the
host, and a mode without a network namespace (`Bare`) comes with no other
network and nothing set for that one (`OneIfBare`), which docker enforces; and a
user who clears the entrypoint gives a command.
`ConfigInvariant`, and from it `WordsAreKept`, `LabelsAreKept`,
`NetworksAreKept`, for any images, networks and users, and for any number of
updates. An update and a roll-back make a container in the same way
(`Renewed`), so each property is one lemma for both. `ArgvKept` alone is not
inductive: an entrypoint and a command that are the image's only when taken
together would be passed on and hide the words of the next image. `WordsHeld`
says that this does not arise: of a user who gave no words, both are the
image's, each for itself, because a pair that equals the image's is not passed;
and of one who did, the entrypoint is empty only when nothing is to stand there,
so that passing the pair on, with its words moved, keeps their sequence. `front`
is what stands before the user's own words. `LabelsHeld` says that what the CLI refuses is excused from the
start. For the networks, an endpoint that is excused of nothing is the main one,
and the mode's, so its MAC address is passed; the others are settled by
`OneIfBare`, which an update keeps because the main network is one of the
container's (`FirstIsOne`, `MainIsOne`).

**`SettingsProofs`**. Assumed: the crontabs and the time zone are settings,
`Nobody` is no request, and bodies are non-empty sequences of settings and
values. `InductiveInvariant`, `MemoryIsAsStored`,
`JobsAreAsStored`, for any bodies of requests. `Drafts` says what memory agrees
with inside a transaction: with what the transaction sees, not with what is
stored. `Assigned` follows a request through its body: what it has assigned is
what it would read again, and after its commit what is stored; `JobsCatchUp`
that jobs which are not as stored have a request that will make them anew.
`FirstValue` is the lemma about `next(...)` over the body: the first of the
values, which exists because the order of the indices is well-founded.

**`SessionsProofs`**. Assumed: every page is in a tab, a refresh token lives at
least twice as long as an access token. `InductiveInvariant`, and from it
`CookiesAreOfOneLogin`, `LogoutEndsSession` and, of every step, `LoginIsNeeded`,
for any numbers of tabs, requests, logins and restarts. The pair in the jar is
of one response because every response sets both cookies or none (`JarIsOld`,
`RepliesAreFresh`), and stays whole because the access token expires first.
`LogoutsAreAlone` is about three moments: while a logout is on its way, nothing
that grants cookies is; a logout that deletes nothing found no session; and
after it, whoever asks for a refresh is refused. Keys count in it: a token that
does not decode must not decode after a restart, so none is of a later key than
the present one. `RefreshRenews` is why a login is needed when it is asked for:
a refresh that brings nothing had nothing to renew (`RefusedHasNothing`) or
comes after one that has renewed everything, and a second 401 cannot follow
either of them with a refresh token in the jar.

### What the proofs found

- `VerdictStands` held under the bounds of an earlier run and was not
  inductive: with one more check and update than that run had, the two
  crossings that are excepted now leave a wrong flag for longer than the
  exception said. It now holds until a check clears them.
- `JobsFollowStored` was not true of a body that gives one setting two values,
  which no body of the run contained; one does now.
- The cases of `Verdict` overlapped, and an overlapping CASE promises nothing
  about which is taken. They are disjoint now, as the branches of the code are.
- `Calm` was first written so that one conjunct became part of the premise of
  the next, which TLC accepts and the proof does not.

**Only model-checked.** Every safety property a passing run checks is a theorem.
What is temporal beyond invariance, action properties and refinement stays with
TLC (`EveryUpdatableSettled`, `PlanIsBuilt`, `LocksAreFreed`,
`EveryRequestEnds`): liveness under fairness, ENABLED and induction over data
are out of the prover's reach.

## Not modelled

- The payload of records and results, templates and services of notifications,
  log messages: output only.
- Of the container configuration: the options that are copied without a
  condition, the environment (copied with the values of the old image), the
  working directory, images without a config, a network mode that names a
  container which is itself recreated.
- Times of checks and changes, and with them the length of a delay; a delayed
  container is one that is not selected (`Delayed` in `UpdatePlan`).
- `pause` of a container, and what docker refuses of a paused one.
- Setting a password: one file is written without a temporary copy, so a crash
  in the middle of it leaves an empty one. The exchange with the identity
  provider and the check of its token: both outcomes are possible in `Callback`.
- A late effect of the agent inside a plan: `AgentPool` and `PlanExecutor` are
  not composed, because each step of the executor would meet each late effect
  of all before it.
- `remove_all` of the clients at the end of the process, which awaits in a
  loop over a dictionary: `Restart` takes it as one step.
- Request signatures and the URL guard: predicates without state. Migrations:
  run once, before anything else.
- The stores of the web interface, which merge answers into lists; summaries
  for the dashboard and the public endpoints, which only read.
