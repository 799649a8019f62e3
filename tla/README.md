# A verification project for go-ansible

go-ansible runs Ansible playbooks: a play selects hosts from an inventory, and
the executor walks its task lists over these hosts with a number of forks,
keeps facts and registered results per host, notifies and flushes handlers,
and stops when too much has failed. This directory holds TLA+ models of its
core, the TLC runs that check them on small instances, and TLAPS proofs about
them. Definitions keep the names of the code where TLA+ allows it; the table
`map` of PROJECT.json gives the source lines every definition stands for.

## 1. Inventory

| component | state it keeps | operations | what is hard |
|---|---|---|---|
| **Play execution** `pkg/playbook/executor.go`, `executor_strategy.go` | batch, list and task position; `failedHosts`, `endedHosts`, `endPlay`; the results of each host; a semaphore and a `WaitGroup` per task | `ExecutePlay`, `executeTaskList`, `executeTaskForBatchHosts`, `executeTasksFreeStrategy`, `buildHostBatches`, `exceededMaxFailPercentage` | goroutines of a task that see each other's end_play and failures; failure controls that compare counters taken at different times; barriers between tasks and none in the free strategy |
| **Handlers** `executor_task.go` 19-299 | `pendingHandlers`, `flushMu`, and per flush `executedHandlers`, `handlerErr` | `notifyHandlers`, `flushHandlers`, `meta: flush_handlers` | handlers that notify handlers; a flush by one host while other hosts notify; failed hosts and `force_handlers` |
| **Task execution of a host** `executor_task.go` | the results of the host, `runOnce` map, `startedTasks`, `facts`, `registered` | `executeTaskEntryForHost`, blocks with rescue and always, includes, loops, `run_once`, timeouts, retries, async, delegation, debugger | what counts as failed after a rescue; a task timeout that leaves its goroutine running; who runs a `run_once` task |
| **Variables and facts** `executor.go` 733-1040, `executor_facts.go`, `executor_builtin.go`, `pkg/variable` | `hostVarsCache`, `groupsCache`, `facts`, `registered`, the fact files | `taskVarsForHost`, `invalidateHostVarsCache`, `ensureGroupsCache`, `set_fact`, `add_host`, `group_by`, fact gathering, fact cache with a timeout | caches filled without the lock their invalidation takes; precedence of variable sources |
| **Inventory** `pkg/inventory`, `pkg/cli/helpers.go` | hosts, groups, children, group variables, the connection settings of a host, `resolvedVarsCache` | parsing of INI, YAML, JSON and inline sources, `ParseSources`, `Merge`, `ApplyGroupVars`, `MatchHosts`, `FilterHosts`, `ResolveHostVars`, `AddHost`, `AddGroup` | layers that are applied in an order of sources, depths and names; a user who is filled in once, by five writers; patterns with exclusion, intersection and slices; cycles of groups; a cache computed under the read lock and written under the write lock |
| **Connections** `pkg/ssh/pool.go`, `client.go`, `local.go`, `docker.go` | the pool's clients and host locks; a client's `connected`, `client`, `lastUsed`, SFTP session | `Get`, `Remove`, `Close`, `ExecuteAll`, `newSession`, `Connect`, `getSFTPClient` | concurrent handshakes with one host; `Remove` and `Close` against a `Get` in progress; reconnecting a client other goroutines use |
| **Ad hoc execution** `pkg/adhoc` | results per host, background jobs | `Execute`, forks, background polling | forks, one failing host of many |
| **Playbook parsing** `pkg/playbook/parser.go`, `normalize.go`, `task_fields.go`, `list.go`, roles `executor_roles.go` | none between calls; the roles loaded | parse, normalise, import, role dependencies | role order and duplicates, cycles of dependencies |
| **Conditions and templates** `executor_cond.go`, `pkg/module/template*.go`, `pkg/util/truthy.go` | none, but filters share the maps and slices of the variables they are given | `evaluateWhen`, tags, loops, filters and their chains | an interpreter that searches its text for operators: precedence, quotes, parentheses, missing values; a filter that writes into its input |
| **Modules** `pkg/module` | the managed host (files, packages, users, ...) | one `Execute` per module: looks, commands, a result | a second run that changes again; a success that is not as asked; a connection lost between two commands; files shared with others; check mode; waits that time out while the host reboots |
| **Vault** `pkg/variable/vault.go`, `pkg/cli/vault.go` | encrypted files | encrypt, decrypt, rekey, edit | a rekey that fails half way |
| **Command line** `pkg/cli`, `cmd`, `pkg/config`, `pkg/callback`, `pkg/util` | settings; `ansible-pull`'s working copy | parse options, print, run | mostly input and output |

How they interact: the command line parses an inventory and a playbook and
creates one `Executor`; `Execute` calls `ExecutePlay` for each play;
`ExecutePlay` asks the inventory for the hosts, builds batches, and runs the
three task lists of each batch (`pre_tasks`; roles and `tasks`;
`post_tasks`), flushing the notified handlers after each list. A task runs in
one goroutine per host. These share, under `Executor.mu`, the failed and
ended hosts, the facts and registered results and the pending handlers; the
caches of host variables under their own locks; and the connection pool, in
which all goroutines that talk to a host share one client. A task's result
is appended to the results of its host, and everything that stops a play
(`any_errors_fatal`, `max_fail_percentage`, `hostResultHasFailure`) reads
these results.

What makes each component correct:

- *play*: a task is finished on all hosts before the next begins (linear); a
  host that failed or ended runs nothing more; no host that is still in the
  play misses a task; `any_errors_fatal` and `max_fail_percentage` stop the
  play, and the play reports it; no more goroutines than forks; it returns.
- *handlers*: a notification is answered by a run of the handler before the
  next list, once per flush; a circle of handlers ends; handlers of failed
  hosts run only when forced.
- *tasks of a host*: a rescued failure is no failure of the host, an unrescued
  one always is; `always` tasks run whatever happened; a `run_once` task runs
  at most once.
- *connections*: one usable connection per host in the pool, whoever asks
  first; none is leaked; none is used after it was replaced.
- *caches*: what a task reads is what was last written before it began.
- *results*: a failure of the module is a failure of the task unless the task
  says otherwise, and only then; what is registered and notified is what was
  reported; `no_log` hides what it should; a retry is made only when needed.
- *modules*: a success leaves what was asked for; a second run is quiet; a
  report of no change is true; a dry run changes nothing; what belongs to
  others stays.
- *inventory*: the value of a variable and the user of a host come from the
  layer that should win; a pattern means the hosts it names.
- *expressions*: a condition is read as it was written; filters keep their
  laws, and none but a recursive `combine` touches a variable.

## 2. Plan

The order is by what matters most to somebody who runs a playbook.

1. **LinearPlay** (written): the play under the linear strategy with its
   batches, failure controls, play-level meta tasks and handlers. It is the
   module everything else is about: what one host does with one entry of a
   list is *one* outcome in it, and later modules open up that outcome.
2. **ConnectionPool**, **ConnectionCache**, **SshClient** (written): the
   connections the goroutines of a task share. ConnectionCache is the abstract
   specification of a pool, ConnectionPool implements it.
3. **FreePlay** (written): `executeTasksFreeStrategy`, where hosts do not wait
   for each other; blocks with rescue and always, `run_once`, timeouts, and
   flushes run by one host while others notify, with `flushMu` as a variable.
4. **VarsCache** (written): the caches of groups and host variables, with
   `set_fact`, registered results, `clear_facts`, `add_host`, `group_by`,
   `refresh_inventory` and the implicit localhost as their writers.
5. **HostTask**, **Waiting** (written): what LinearPlay and FreePlay take as one
   outcome of a module is opened up: retries and `until`, loops, delegation,
   check mode, `async`, the debugger, `no_log`; and the modules that wait while
   the host reboots or a detached job runs.
6. **Managed** and the modules under it (written): the modules of `pkg/module`
   as functions of the host they manage, with promises common to all of them.
7. **Inventory** (written): from the sources to what a play sees of its hosts.
8. **Values**, **Conditions**, **Filters**, **Expressions** (written): the
   interpreter of conditions, loops and filters, against what is meant.
9. **HandlerQueue** (not written): an abstract specification of what is
   notified, dismissed and answered, to be implemented by LinearPlay and by
   FreePlay; then the fact cache in files with its timeout, role order, ad hoc
   execution and the rekeying of a vault.

Who uses whom: ConnectionPool implements ConnectionCache. The five modules
ManagedFiles, ManagedEntries, ManagedAccounts, ManagedServices and
ManagedTransfers extend ModuleRun (ManagedLines and ManagedTransfers extend ManagedFiles);
ManagedPromises extends all of them and says what is promised; Managed runs a task.
Conditions and Filters extend Values; Expressions asks both. A call of a
module that HostTask takes from its environment is a run of Managed or a wait
of Waiting; an entry of LinearPlay or FreePlay is a task of HostTask.

Theorems: of LinearPlay the type invariant, the bound on the goroutines, the barrier, the
failure controls and the handlers; of the pool the type invariant, the
exclusion of handshakes, that no connection leaks and that it implements ConnectionCache; of
SshClient the types, that no connection leaks and that calls heal; of FreePlay, VarsCache, HostTask and
Waiting all safety properties of their runs; of Managed its check mode, its reports of no
change, that a success is as asked, that a lost connection shows and that what others have stays (done). Then that a second
run is quiet (`SecondRunIsQuiet`) and the handlers of both plays against HandlerQueue.

## 3. The modules

### LinearPlay

One module for the goroutine of `ExecutePlay` and for the goroutines of a
task. `pc` is where the goroutine of the play is:

| `pc` | code |
|---|---|
| `batch` | the loop over `hostBatches` in `ExecutePlay` |
| `list`, `task` | `executeTaskList` is entered; the top of its loop |
| `meta`, `inline`, `spawn`, `wait` | `executeTaskForBatchHosts`: a top-level meta task, hosts one after the other, starting goroutines, `wg.Wait` |
| `taskEnd`, `after`, `listEnd` | the checks after a task, after a list, and after its flush |
| `flush` | `flushHandlers`; `ret` says for whom: a list, a meta task, or the end of the play |
| `final`, `done` | after the batches; returned |

`g[h]` is the goroutine of host h: started (it holds a token of the
semaphore), past its check of the flags, with a failure it has not marked
yet, about to give the token back. `failed`, `ended`, `endPlay`, `pending` are
`failedHosts`, `endedHosts`, `endPlay`, `pendingHandlers`; `failCount` is what
`failedTaskCount` would count, `bad` the hosts `exceededMaxFailPercentage`
would. `queue`, `executed` and `handlerErr` are locals of `flushHandlers`.
Some variables are history and are read by no guard: `ran`,
`owed`, `failPos`, and `flushFailed` except for what it says of a looped handler.

`play` holds what the code reads of the play and the executor's settings (forks, throttles,
serial, `any_errors_fatal`, `max_fail_percentage`, `force_handlers`, `--step`,
delegation, looped handlers, who notifies whom); it is chosen once, from the
constant `Plays`. An entry of a list is one outcome (`Entry`): it
may leave an unrescued failed result, return an error, notify any handlers, and through
meta tasks in blocks or includes end the host, end the play or clear a failed
host. Loading of variables, gathering facts and loading roles come before the
first batch and are not modelled, nor is a task that timed out and still runs.

### FreePlay

`pc` is the goroutine of the play: starting the hosts, flushing after the
list, after the empty `post_tasks`, at the end. `g[h]` is the goroutine of a host: at the top of its loop
(`loop`), at the `--step` prompt, waiting for the token of a throttled task, in
an entry (`entry`, `leaf`, `result`, `next`, `end`), in `flushHandlers`
(`flush`), or over (`quit`). An entry is a block: `sec[h]` and `leaf[h]` say where in it, and
`before`, `beforeBlock`, `beforeRescue` are the lengths of the results from which
`HasFailure` looks, as in the code; `failures[h]` keeps of the results those that
failed, so that an index stands for the same results. `own` tells a failed task
from a failed handler and is read by properties only, as are `owed`,
`dismissed` and `alwaysRuns`. `blockErr` and `alwaysErr` are the
errors of the same names, `tSem` the channels of `getTaskThrottleSem`,
`stepMode` the field that goroutines read and write without a lock, `late` the
goroutines a timeout has left behind: they still notify.

A flush is a second activity of whoever calls it. `flusher` holds `flushMu`;
`queue` is the round taken; a handler that fails is in the results first
(`marking`) and marks its host in a further step. A rescue is one step, though the code
looks for failures, clears the flag and marks the results one after the other:
a failure another goroutine records in between has a later index, is not
rescued in either order, and is found again at the end of the entry.
With one host or one fork there is one goroutine, which an error ends (`Inline`).

### ConnectionPool and ConnectionCache

The actions are the steps of `Get`, `Remove` and `Close` between two
acquisitions of a lock, and the two meta tasks that call the latter
(`reset_connection`, `refresh_inventory`, which replaces the pool). `p.mu` is
not a variable: it is held over more than a step only in `Remove` and `Close`,
so that `MuFree` reads it off `pc`; in the same way `CMuFree` reads the `c.mu`
of a client off the goroutine that reconnects it. `hostLocks` is a counter per
host, `gen`: an entry that is deleted and stored again is another mutex.
`at[t]` is the pool t read from `e.pool`, which may have been replaced since.
`open` are the connected clients, `orphans` a history variable: those that
were dropped by Remove or Close while a goroutine had them in hand.

ConnectionCache says what a pool that is not closed promises, without locks:
who makes a connection to a host is alone in it and does so only if there is
none, a connection stored replaces no other, and what Get gives out is the
one that is cached. `PoolIsCache` is the refinement for one pool,
the constant `Watched`: its `making` are the goroutines between their second look and
the store, its `given` what a goroutine got from this pool, and after `closed`
nothing more is promised about handshakes (see the findings).

`Executor.Close`, `Store`, `Has` and `ExecuteAll` are left out: the first ends
the process, the others are called by tests alone.

### SshClient

One client and the goroutines that got it from the pool. `client`, `connected`, `used`
(`lastUsed` is set), `sftp` are its fields, `agentOpen` says that the agent's socket in `authClosers` is
open. `pc` walks through `newSession` (session, connected, keepalive, open,
stamp, resetIdle or reset, invalidate, reconnected or final, running), through
`getSFTPClient` and the transfer (sftp, sftpRead, sftpNew, sftpReset, sftpReread, sftpRenew,
transfer, again, copying) and through `Close`. `Connect` is called from three
places and `ret` remembers which. Each critical section under `c.mu` is a
step; only `Connect` holds it over a dial. `sftpMu` is a variable because
`getSFTPClient` holds it over the dial. The network drops any connection at
any time (`Lost`). On a connection that is alive the host may refuse a session
(`OpenRefused`, `FinalRefused`), a command may run past the client's timeout (`RunFails`), a
transfer may break off (`CopyFails`), and a file may be refused because it is missing or not
permitted (`FileRefused`): the code then throws the shared SFTP session away, as it does with a dead
one, opens another and tries once more (`client.go:761`, `794`), under the feet of whoever uses it.
`disturbed` is history: during this call the network or the host failed, the file, the session or the
clock did, or another goroutine dropped what the call was using.

### VarsCache

`taskVarsForHost` gives a task its `groups`, its `group_names` and the
`hostvars` of all hosts from two caches, which the tasks of all hosts fill and
invalidate. Each goroutine runs tasks one after the other; `pc` is where it is:

| `pc` | code |
|---|---|
| `idle` | between tasks |
| `look`, `ensure`, `collect`, `again` | `buildGroupsMap`, then once more for `buildGroupNamesForHost` (`view` says which): the first look, `ensureGroupsCache` with the hosts read and the groups not yet, the second look |
| `hosts`, `fast`, `slow` | `buildHostVarsSnapshot`: listing the hosts, the look under the read lock, the one under the write lock |
| `fill`, `facts` | `getBaseHostVarsLocked` of the next host in `todo`: the inventory's part, then the facts |
| `run` | the task has its variables (`seen`) and is about to do what it does |
| `newHost`, `addHost`, `newGroup` | inside `add_host` and `group_by`, which work on the inventory they took (`inv`) also when it has been replaced |
| `dropHost`, `dropGroups`, `dropAll` | before `invalidateHostVarsCache` of one host, `invalidateGroupsCache`, and `invalidateHostVarsCache` of all |

Values are versions: `factVer[h]` counts the writes to the facts of a host,
`invVer` those to the inventory, and an entry of a cache is the pair of versions it was
made from, so that "is this stale" is a comparison. A reader holds
`groupsMu` exclusively exactly in `collect`, and `hostVarsMu` in `fill` and `facts`, which is
how `GroupsFree` and `HostVarsFree` read the locks off `pc`; every other section under
them is one step. `done` is history: the newest versions written by tasks that have
ended; `floor[t]` is what `done` was when t's task began. The versions say nothing of what
was lost in a write: `ResolveHostVarsRaw` of a host and the collection of all groups are one
reading each, although the code reads the members of a group without the inventory's lock;
what such a reading has missed belongs to a write whose invalidation is still to come.
Three writers do not invalidate: a rescue, which sets facts of its own, a reboot, which deletes those of its host
(`executor_task.go:1500`), and the implicit localhost; what they write raises no `done`. A goroutine that
fills in host variables holds the host objects it listed before it took the lock (`executor.go:999`), and
reads its own settings from them even after `refresh_inventory` has replaced the inventory: `own` and
`from` say which inventory an object is of, and an entry made from an old one is `Stale` (`overtaken`).
Where `buildGroupsMap` drops its lock and looks again (`executor.go:912`) an invalidation leaves the task without groups
(`shaken`); the test of that window (`phase32_step2_test.go:182-205`) says that this never happens, and the code
does not ensure it.
The variables a task reads of its own host, from the facts and the inventory
directly, are no cache and are left out, and so is what `getHostFacts`
reads from a fact cache in files.

### HostTask

One task, or one handler, on one host: `executeTaskForHostWithEnv` around the
body `executeTaskWithEnv`, down to the call of the module, which is the
environment and gives any of `Outcomes`, or never returns.

| `pc` | code |
|---|---|
| `begin` | before tags and a plain `when` |
| `item` | the top of the loop over the items |
| `call`, `rest` | inside `executeWithRetry`: a module runs; the delay before the next try |
| `poll` | `executeAsyncTask` asks for the goroutine of its job (`job`) |
| `ask` | the prompt of `runDebugger` |
| `judged`, `pause` | the item has its result; the delay before the next item |
| `over`, `quit`, `hung` | returned; returned with the error of the debugger; the module never returns |

A task is a record of what the code reads of it, a result one of the flags the
code sets (`Verdict`, built from `applyTaskExecutionOutcome`, the copying of the
module's answer, `applyTaskResultConditions` and `maskNoLogResult`, in that order;
`VerdictOfHandler` for the shorter path of `flushHandlers`). Of what the module says only
whether it is shown, masked or absent is kept, and the keys of its data that the
registered variable has too: what a module of the library prints as JSON may name `changed`, `failed` and `rc`, and
`mergeMap` puts them over what the executor has made of the result, for an item and for the whole
(`executor_task.go:1546`, `1563`). So `changed_when`, `failed_when` and `ignore_errors` hold for the
result and not for the registered variable of such a module, and `TellsOf` lets a key differ only where the
data names it. Left out are values of another type (a `changed` that is not a boolean, and
`results` that is no list, over which line 1548 panics). With a timeout the body is a
goroutine and `answer` may come from the timer while it runs on. `tries`, `past` and
`ranOn` are what the properties look back on; `tries` also counts the attempts.

### Waiting

The modules that wait: `wait_for` (whose loop is a script on the host),
`wait_for_connection` and `reboot` (whose loops run in the controller), `pause`, and an async job
with `poll: 0` with the script that starts it (`launcher`), its status file and
the `async_status` that asks for it. `up`, `boot`, `present` are the host, which
may go down at any time, killing what runs on it; `drops` counts connections that
break under a command. Time is `clock`: a step of a module takes none, and any
amount may pass between two steps, but no more than `MaxLag` once a step of the module is
due (`lag`), so that a deadline and the answer that races it come in either order.

### The modules of pkg/module: ModuleRun, Managed*, ManagedPromises, Managed

A module has no state of its own: it looks at the host, sends commands and
reports. ModuleRun makes that a value: a *run* is the trail of the commands that change
the host, each with the state it leaves and whether the code looks at its error
(loud) or drops it (quiet), with the verdict and what is reported as changed for
every prefix of the trail. ManagedFiles (file, copy, template, fetch), ManagedLines
(lineinfile, blockinfile, replace), ManagedEntries (authorized_key, known_hosts, cron,
sysctl, mount), ManagedAccounts (hostname, user, group), ManagedServices (apt, dnf, yum,
package, pip, service, systemd) and ManagedTransfers (git, get_url, archive, unarchive,
synchronize, tempfile, docker_container, k8s, uri, command, shell) give
each module as one operator from a host, a task and check mode to its run; a host is the part of it that
the module touches. ManagedPromises says what is promised in terms of the host alone and
never of the code, and lists, each with its line, the cases the code does not
keep (`NotAsAsked`, `ChangesUnsaid`, `NotQuiet`, `CutUnseen`, `SeenAsGone`, `NotDry`, `NotForetold`, `TakesOthers`, `AddsUnread`).

Managed is the state machine: one task runs again and again on one host, whole,
in check mode, cut after any of its commands (`CutRun`) or at its reads (`LostRead`), or with a read that failed and is
taken for an empty file (`BlindRun`). At its reads many modules drop the error and take what they could not
read for absent: `Glimpses` lists what each then sees (copy, template and fetch no file, `copy.go:416`, `469`; user and group
no account, `user.go:75`, `322`; mount no entry or nothing mounted, `mount.go:174`; authorized_key, known_hosts, cron
and sysctl an empty file). They go on, and fail at their first command whose error is looked at, if they
have one. The other modules return the error of their first read, or of their first command. `Fits` is what the modules rely on of their task and host, by kind of module: the words the code
knows, the parts a host of this kind has, and such facts as that a file is in a directory and a mount has a
source; every case of the run fits (`CasesAssumption`), and no run leaves it (`TasksAlwaysFit`). A property compares one
run, or two in a row, with the promises. What the loops over lines do is `Rewritten` and `Filtered` of ModuleRun.

### Inventory

From sources to hosts. `pc` walks through `ParseSources` (`source`: the next source is
opened, `read`: one line of an INI file, or one group of a YAML or JSON file, is
parsed, `close`: what the file gave is merged), then `LoadVarsDirs` (`dirs`), the
options of the command line (`options`) and the plays (`play`), which match patterns,
resolve variables and change the inventory with `add_host`, `group_by`, the implicit localhost and
`meta: refresh_inventory` (`again`). `doc`, `part` and `inv` are the inventories of the
file, of the directory and of the run. Two settings stand for all: `timeout`, an ordinary
variable, and `user`, which the parsers put into the host itself and which is filled
in once; the value of a setting is the place that set it, so that precedence is
visible. Where Go walks a map the model takes any order (`Orders`). `written` is history: the
memberships and children as the files state them, and what each file and directory sets for a host itself. What
`HostVarsLayered` asks of a host's variable: if anything set it for the host itself, the value is that of `host_vars`, or else the
last that sources and tasks set; if nothing did, it comes from a group of the host, or else from `all`, and is the last set there.

### Values, Conditions, Filters, Expressions

The interpreter of `when`, tags, `loop` and filters is a function from text and
variables to values. Conditions follows `evaluateWhen` in searching the text for its operators in
a fixed order; a text is a sequence of words, so that quotes, parentheses and operators can be misread
as in the code. Filters are the ones on lists and maps. Values compares by `Text`, what `%v` prints, where the
code does. Expressions asks: a condition is written from its meaning (`Written`) and
the answer compared with that meaning (`Meant`), unless it is one the search order cannot read (`Misread`: a comparison
that holds, in a quoted operand or in the condition of a choice, an operator looked for before its own, and a `not` above
any operator; `(x if x == 1 else 'b') < 2` is read as a comparison by `==`). Filters are chained, up to
`MaxFilters`, and each step is held to the law of its filter. A map in a variable or a literal is known by its
place (`Placed`), since filters hand on the map itself: a recursive `combine`, at whatever step, writes into the maps nested
in it, and with them into the variable (`Writes`, `Seen`). No other filter may change the
variable, and the whole expression must come to the same value when it is evaluated again on the changed one. Only maps
with names as keys and any values (`map[string]interface{}`) are modelled; others are copied.

## 4. The runs

Every property of a run has a mutant of the code's definitions that breaks it
(PROJECT.json, `mutants`); the mutants stand in the modules beside what they change.

| run | instance | what it shows |
|---|---|---|
| `play_batches` | 3 hosts; 2 forks, throttles 1 to 3; or batches of 1 and 2 | `LockStep`, `ForksBound`, `NoHostLeftBehind`, `AnyErrorsFatalStops`, `AnyErrorsFatalReported`, `MaxFailStops`: who runs what, and what stops or fails the play, under all interleavings |
| `play_handlers` | 2 hosts, 2 handlers that notify each other, forced, looped, delegated; fair | `HandlersSettled`: no notification lost nor left over; `PlayReturns` |
| `free_play` | 2 hosts, 2 handlers; lists of a block with a flush and a rescue, of `run_once` tasks under a throttle and `--step`, of an `end_play` under `any_errors_fatal`, of a timed task with rescue and always, with 1 or 2 forks; fair | `FailuresCount`, `NotificationsKept`, `NoHostLeftBehind`, `AlwaysRun`, `PlayReturns` |
| `host_task` | 7 families of tasks (the user's library, retries, verdicts, check mode, delegation, loops, handlers) against 8 answers of a module; 1 redo | `FailuresTold`, `FailuresMeant`, `RetriesHonest`, `ResultsAgree`, `SecretsKept`, `DryRunsAreDry` |
| `waiting` | 5 modules, waits shorter and longer than the limit of a command, delays longer than the wait, 3 boots, 2 turns of what is waited for, 1 broken connection; fair | `WaitsTell`, `JobVerdictIsReal`, `WaitEnds` |
| `managed` | 31 modules, every combination of the parameters their code branches on, on 2 to 52 states of the host, up to 3 runs | `AsAsked`, `CutsShow`, `NoChangeIsTrue`, `SecondRunIsQuiet`, `DryRunsAreDry`, `OthersStay` |
| `pool_shared` | 2 goroutines, 2 hosts, 2 pools, 2 connections; fair | `NoneLeaked`, `PoolIsCache` (the pool implements ConnectionCache), `GetReturns` |
| `client_shared` | 2 goroutines, 2 connections, 2 SFTP sessions, with and without an agent; fair | `NoConnectionLeaked`, `Heals` (a call fails only if something happened during it), `CallReturns` |
| `vars_tasks` | 2 hosts with 2 tasks each, a third host that is added, reloaded or the implicit localhost; all kinds of writes | `LaterTasksSee`: what a finished task wrote and invalidated for, a later one sees |
| `inventory` | 3 hosts, 4 groups; one or two sources of all formats, every way to set two settings in a parent, a child and a host, variable directories, options, 1 or 2 changes by plays; 27 patterns, 2 limits | `HostVarsLayered`, `PatternsMean`, `UserRises` |
| `inventory_children` | the same inventories; violation | see the finding |
| `expressions` | 1795 conditions of up to four parts over three variables, all choices of 5 tags, loops, and chains of 2 of 59 filters over 107 lists and maps of up to 3 items | `AnswersMean`, `FiltersMean` |

**Why the bounds are enough.** Three hosts give a host that runs, one that waits for a
token of two forks and one that is done, and a last batch shorter than
`serial`; a third host adds nothing to handlers, which are per host, so these runs have
two. Two handlers are the smallest circle; `failCount` is bounded by the
entries of the play (one failure per entry and handler run). In FreePlay one host flushes or fails while the other
is anywhere in its list; two entries are one that fails and one that must not be begun, and two leaves
one that notifies and one that flushes. In the pool, two goroutines are one
that shakes hands and one that waits for the lock, removes or replaces the pool; two pools
let a goroutine work on an old one; the second connection is one that is made
after one was stored and dropped. The client needs two goroutines, as every
conflict is between one that resets and one that uses what is reset, and two
connections: the one that is lost and the one that is reconnected. When a bound is reached a dial can only fail.
In VarsCache one goroutine fills a cache while the other writes and invalidates; two tasks each let
the other's second task begin, and end, while the first still fills; the third host makes
the numbers of hosts and entries differ.

In HostTask items and tries are independent but for what is carried from one to the
next, so two or three of each show it; `MaxRedos` is 1 since a second redo starts from what the
first left. In Waiting two boots are before and after, a third is a reboot nobody asked for; the turns let what is
waited for come and go once. Three runs of a module are one that is cut or blind, the one that
repairs it, and a quiet one. Two settings, a parent, a child whose name sorts before it and one whose
name sorts after it, and two sources make every pair of layers of an inventory meet. Conditions of four parts
hold every pair of nested operators; the law of a filter speaks of one step, and the second step
shows what the first has left in the variable and what it shares with it.

`MCLinearPlay.tla` holds the plays of each run; `MCConnectionPool.tla` and
`MCSshClient.tla` the instances of the connections. The type invariants of LinearPlay, FreePlay, ConnectionPool, SshClient,
VarsCache and HostTask (`TypeInv`) are proved.

**Fairness.** LinearPlay assumes weak fairness of the play's goroutine and of
each host's: the Go scheduler runs what can run, and a module call ends (a
connection has timeouts; a command that never ends is a task that never
ends, in the code too). FreePlay assumes the same of each host's walk and of each flush, and
nothing of the order in which channels and mutexes serve who waits: as the
lists are finite, no host can be overtaken for ever. The pool and the client assume strong fairness of each
goroutine's steps, not of the calls it begins: a `sync.Mutex` hands the lock
to a waiter that has waited for 1 ms, so that a goroutine that waits while
others come and go gets it in the end. No fairness is assumed of the network,
of new calls or of meta tasks. Waiting assumes that the controller goes on and that time
passes; the host owes nothing. VarsCache, HostTask, Managed, Inventory and Expressions state safety
only and assume none: in HostTask a module may hang for ever.

**Deadlock** is checked in every run but `vars_tasks`, whose goroutines stop
after `MaxTasks` tasks, and `managed`, whose task stops after `MaxRuns` runs. A returned play, a crashed process and
an answered question stutter explicitly; in the pool and the client a goroutine can always begin a further call.

## 5. What is proved

The theorems hold for any number of hosts, handlers, goroutines, pools and
connections, and for any tasks and answers of modules, from the named assumptions on the constants alone.

*LinearPlayProofs.* `TypeCorrect`. `ForksBounded`: the invariant says that `sem` is
the number of goroutines that have not returned, and is at most
`EffectiveForks(throttle)` of the current task, since a task begins when all goroutines of
the one before are gone. `FatalStops` and `FatalReported`: the position of the first failure
(`failPos`) is the present one, or the play is on its way out; what carries
this is that `failCount` exceeds `beforeTask`, and `beforePhase`, exactly when a
failure happened in this task, or list.

`HandlersAreSettled`: what is owed is pending, or in the queue of a flush
that goes on, so an empty queue and no pending handler leave nothing owed.
`MaxFailObeyed`: every failed host is one of `bad`. `EndPlayObeyed` follows from the guards
and the same invariant. `HostsInStep` and `NobodyLeftBehind`: `BarrierInv` says how many entries a
host that never failed and was not ended has a result of: all of them in the batches before this one, none in
those to come, and in this one what the place of the play's goroutine says, one more once the task was executed on
it (`PlaceOf`). So two hosts of a batch differ by one at most, and a play that returns
without an error has come past the last batch.

*FreePlayProofs.* `NotificationsAreKept`: the invariant is inductive as it stands, one
step of Next at a time: whoever notifies makes the pair pending, a round takes
all that is pending, and what leaves the queue was run or dismissed. The other theorems share the invariant `IInv`: the
types; a host not yet started has no goroutine, and one that flushes waits for it (`PlaceInv`); `sem` and `tSem` count
the goroutines that run, and those in an entry (`TokensInv`, by the cardinalities of these sets); what failed before
the current entry was answered by a rescue, or its host is marked (`ResultsInv`); results only grow, so the marks of
a block never exceed them (`MarksInv`); once the goroutines have ended, a failure is in what the play
returns, or it is of a handler in the play's own flush (`ReportInv`). `TypeCorrect` and `FailuresAreCounted`
follow from it, and `AlwaysIsRun` from `PlaceInv`, which says that as many leaves of an always section have run as the
host has passed. `HandlersAreSettled` adds that no queue outlives its flush (`SettledInv`): what is owed
and not pending at the end was dismissed. `NobodyLeftBehind` adds the reason why a host stopped (`LeftInv`),
which no later step takes back.

*HostTaskProofs.* `FailuresAreTold`, `FailuresAreMeant`, `RetriesAreHonest`, `ResultsDoAgree`,
`SecretsAreKept`, `DryRunsStayDry`: all six properties of the run, for any tasks
and any answers. What is right about one result and the tries it came from is one predicate,
`Right`; `VerdictOfTask` and `VerdictOnHandler` show it of what the code makes of an answer that stands for the
tries (`StandsFor`), and every way to end an item (an answer that settles it, tries used up, a
cancelled wait, a poll, a task left out or refused) is shown to come with such an answer (`Judging`). The
invariant then has to say only that an item begins afresh (`Starting`; the redo of the debugger does not, which is why
two properties except it), that the tries before the last settled nothing, how the module came to be run
(`RunInv`), that every result kept is `Right`, and how the results relate to what is registered, notified and
answered (`SavedInv`, `AnswerInv`).

*ConnectionPoolProofs.* `PoolInv` is inductive: the types; a closing goroutine is alone and its
pool is closed (`ClosingInv`); in a pool that is not closed the locks have their first generation, who is
between Acquire and Unlock holds the lock of its host, and no two do
(`LockInv`); a connection in hand was made by this pool (`HandInv`); who is
past its second look found no connection, and none is stored until it does (`UncachedInv`). `HandshakesApart` follows.
`NoConnectionLeaks`: the pools before the executor's are closed, and what they still hold had been dropped (`LatestInv`);
a connection that nobody dropped is about to be stored in the executor's pool, or in it already (`StoredInv`).
`PoolImplementsCache`, the refinement, follows from `PoolInv` and
`FreshInv`: a number of a connection not yet made is neither cached nor in hand. Each step of the
pool is a step of the cache or a stutter: `StartDial` is `Make`, `DialFail` is
`Fail`, `Store` is `Made`, `Hit` is `Give`, `Ask`, `StartRemove` and `StartRefresh`
forget what was given, `Remove` and `CloseClient` are `Drop`.

*ConnectionProofs, SshClient.* `TypeCorrect` and `NothingLeaked`: `c.mu` is held over a dial, so who dials is
alone, found the client not connected, and nobody resets it or connects it meanwhile
(`DialInv`); there is no open connection then for the new one to replace. `CallsHeal`: `HealInv` says what a call
relies on until it is disturbed, by its place: after `Connect` there is a client, after a
reconnect it is nil or alive, a session just opened is alive, and a retried transfer finds no SFTP session or a live
one. A refused file or session, the timeout of a command and a session thrown away by another call all
disturb the calls they reach, and only those. That nobody replaces the session meanwhile is `SftpMuInv`: who is in `getSFTPClient` holds `sftpMu`, and while it
is held none is cached.

*VarsCacheProofs.* `TypesHold`, `TasksSee` and `MapsAgree`, for any hosts and any inventories. The
invariant says that whatever a cache holds, or a goroutine is about to put into
it, is at least `done` (`HostVarsKeepUp`), and for the groups also at least what a task wrote
that has dropped the groups but not yet the host variables (`GroupsKeepUp`). A fill may read
an old version, but while it holds its lock the writer of a newer one cannot
invalidate, so cannot end and raise `done`; it raises `done` together with the
invalidation that takes the old entries away. That no version is newer than
its source is `SourceAhead`. A task begins with `floor` at `done`, which never shrinks,
so what it takes from the caches is at least that (`SeenInv`). What a goroutine holds of a replaced inventory it held
when that was replaced (`HeldInv`), which is the only way an entry comes to be `Stale`. `FillInv` carries `MapsAgree`:
one goroutine fills at a time, and base is the snapshot and what it has filled in so far.

*ConnectionProofs, Waiting.* `WaitsAreTrue` and `JobVerdictsAreTrue`. Each module is at a place of its own, and has an answer exactly
when it is over (`PlaceInv`). While `wait_for` goes on it has not seen what it waits for, and the clock never goes back behind a
deadline it has passed (`LookInv`). The boot id that was read is never newer than the host's (`BootInv`), and `Compare`
ends the wait only when the two differ. The script writes the status before and after it forks the job, so a job that
is over left `finished` or a garbled text, or the script wrote later (`ScriptInv`); `async_status` asks only
when the script is through, and once more only when the process was gone or a connection broke (`AskInv`).

*ManagedRunProofs* and *ManagedProofs*, which extends it: `TasksAlwaysFit`, `DryRunsStayDry`, `NoChangeIsReal`,
`SuccessIsAsAsked`, `CutsAreSeen` and `OthersAreLeft`, for every task and host that fit, however often it runs, for each of the 31 modules.

- What reports are worth takes three lemmas per module: a run that succeeds and reports no change left
  what the module manages alone (`Honest`), its trail in check mode is empty (`Dry`), a dry run that foretells no
  change is followed by none (`Foretells`). The two plain properties speak of one run and follow from the first two. That a dry
  run foretells the next run compares two, so the invariant carries it: after a dry run that succeeded and told of no change, the
  host is still one at which a dry run says so (`DryTold`). It is inductive because such a dry run has an empty
  trail, so the host it leaves is the one it saw.
- What runs leave takes one lemma per module (`Good`), which says three things of a trail at once. Every prefix of it
  leaves a host that the task fits (`Fitting`), so that the next run may start from any of them: this is the inductive part of the
  invariant. If the run does not fail, the end of its trail is what was asked for; and so is every earlier host from which on
  only commands are left whose errors the module drops (`Done`). A loud command needs no proof of its host, as
  losing it fails the task; a quiet one has to leave what was asked for in place. The modules that bring or edit one file share
  the stronger `Right`: their last steps (validate, move, permissions) are loud, and what is before them does not touch the file.
- What lost reads leave takes no look at what was read: with none of its commands done, a run that goes on from a wrong
  glimpse leaves the host as it was, so it is enough that it fails (`Noisy`: it has commands, and the first is loud or fails;
  `FailsSysctl`, `FailsMount`, `FailsTransfers`), or that the task is `SeenAsGone`.
- What an edit of lines does is proved of the recursive functions of the code's loops: induction on Nat as a
  statement about sets (`SetInduction`, from the well-foundedness of <), the functions opened with it (`Recursion`,
  `ListInduction`), and what `FlattenSeq`, `Rewritten` and `Filtered` keep, give and drop. On top of that stand `LinePresentIs`,
  `LineAbsentIs`, `BlockIs` (one block, with its lines, where the markers are in order), `TransformAllIs`, and for the
  files of entries `KeysRight`, `HostsRight`, `NamedRight`, `SettingsRight` and `TableRight`.
- What others have is what is left when the lines of the task are taken out (`Keep`), or the keys of other hosts
  (`HostsRest`), or what is outside the block. One lemma per module that edits a shared file (`Spares`) says that it is the same in every
  host on the trail: what is inserted, replaced or removed is not among it (`KeepInserted`, `KeepReplaced`, `KeepRemoved`,
  `KeepSplice`), taking out twice is taking out once (`KeepTwice`), a block is put where the old one was (`AroundPut`),
  and in a crontab without two comments in a row the recursive scan for named entries is a local one (`CleanHeads`). A run
  that read nothing and has nothing to add writes nothing (`BlindSpares`).

The attempts found what the run had not reached, and the run and the exceptions were extended. `file` with `state: file`
and a time to set is silent in check mode and touches the file for real (`file.go:179-183`), now in `NotForetold`. `stat` shows the
permissions of a link and not of the file behind it, so that a link with the asked mode hides a file without it (`LinkHides`). A
`lineinfile` with `backrefs` does not promise its line but the rewritten one, if any line matches. A second begin marker, or markers
within the block, survive `blockinfile` (`StrayMarker`). A `replace` whose result matches again, or matches `before` or `after`,
leaves more to replace (`Restless`). And guards of a CASE overlapped in the model (a masked static unit, a package to be
removed by apt), so that TLA+ left open which one applied.

Only model-checked: all liveness (`PlayReturns`, `GetReturns`, `CallReturns`, `WaitEnds`), which is out of the proof
system's reach. `SecondRunIsQuiet` of Managed, which needs, once more for every module, what its edits do
to a text it has itself produced. And the laws of Inventory and Expressions (`HostVarsLayered`,
`PatternsMean`, `UserRises`, `AnswersMean`, `FiltersMean`): their modules declare RECURSIVE operators (the descent into groups and into nested
values), where the provers lose SMT, so that no theorem is stated about them.

## 6. Findings

`inventory_children`: `Merge` (`inventory.go:1028`) copies hosts, variables and children of groups but not
their parents. The command line merges every source, so every group has depth 0
and `ResolveHostVarsRaw` orders the groups of a host by name alone: a variable of the parent wins over the one of the
child when its name sorts later, where a comment and a test say the child goes before its parent.

### What the properties except

The properties hold with exceptions that are written into them, each with its line. They
are what the code does today; a change that removes one lets the property be strengthened.

*Plays.* Under the free strategy a flush records the failure of a handler before it marks the host: a
block of this host that is rescued in between clears the mark, and the host is then marked although it was
rescued. A handler that reports `Failed` without an error counts as a success, a looped handler that fails does not
mark its host, and handlers do not merge `ansible_facts`.

*Tasks.* Async tasks ignore retries, `until` and check mode; the launcher of a detached job ignores the exit
code of its script, and writes the status once more after the job may have done so (1469). `until` on `rc == 0` is satisfied by a
lost connection, on "not failed" by a command that fails over SSH; a lost host behind an exhausted `until` is a plain
failure. A redo keeps unreachable, ignored, skipped, and, if it brings no result, the old number of attempts. A
`delegate_to` that names nobody fails a task before its tags and `when` are looked at. A loop without items, and a
plain task its `when` excludes, leave an older registered value. The body of a task that timed out runs on.
A module of the library that prints JSON drops its error; without JSON and with an exit code over SSH it counts as changed.

*Check mode.* Async tasks, `reboot` and handlers run for real; copy, template, lineinfile and blockinfile set permissions,
and apk, and apt, dnf and yum without names, refresh their lists, before they look at check mode.

*Connections.* A connection dropped by `Remove` or `Close` while a goroutine makes or uses it may stay open. In a closed pool
the host locks are gone, so that two goroutines can shake hands with one host. After the reconnect that
follows a failed keepalive, `newSession` reads `c.client` without looking whether another goroutine
has reset it (`client.go:525`). A reset closes the socket of the SSH agent, after which no `Connect` of
this client can authenticate (`client.go:545`). An upload or a download whose own file is refused throws away the SFTP
session that the others copy over (`client.go:762`, `795`).

*Caches.* `buildGroupsMap` fills the cache, lets go of its lock and looks again; invalidated in between, the task
gets no groups (`executor.go:912`). A snapshot of host variables counts as complete by its number of entries (`executor.go:1003`).

*Waiting.* `wait_for` takes a connection lost under its script for success, and its deadline is set before its delay; `reboot`
succeeds when the boot id cannot be read; `wait_for_connection` and `reboot` without a client
never probe; `kill -0` over a broken connection makes a job "died"; a cleanup of a running job lets it create its file again.

*Modules.* `NotAsAsked`, `ChangesUnsaid`, `NotQuiet`, `CutUnseen`, `NotDry`, `NotForetold` and `TakesOthers` in
ManagedPromises name every case with its reason, such as an unknown owner, the permissions of a link (`LinkHides`), markers that are
not those of one block (`StrayMarker`), a `replace` that matches its own result (`Restless`), `remote_src` and `get_url` with an equal
text, `version: <commit>` of a fresh clone, `state: latest`, a mounted file system with other options, static units, a
command over SSH whose exit code is not 0, an `authorized_key` that could not write its file (the command ends
in `|| true`, line 383), the tasks that want something gone and take what they could not read for gone (`SeenAsGone`), the five
modules that take a failed read for an empty file and then add an entry of their own (`AddsUnread`), and
a `cron` without a name whose job is also in the comments and lines of others (`cron.go:232`). Beside them, `service` panics
when the status is answered with no result (`service.go:35`).

*Inventory.* The user of a host is filled in once: a group variable of an earlier source beats the host's own line
of a later one. `Merge` drops the connection and become settings of hosts (`UserRises` speaks of the user alone). The second
mention of a host in an INI file is ignored; a child of a YAML group without a body is no child; `localhost` is added
to `all`; `group_by` puts a copy of the host into the group; `refresh_inventory` reads the first source only; `remote_user`
replaces the users of hosts and of the command line and stays for the plays that follow. Terms of
a pattern act from left to right; the end of a slice is exclusive.

*Expressions.* `not` in front of a comparison is misread, and so are the operators within quotes and those of a
comparison within a choice that are looked for before the comparison's own (`Misread`); `not` in front of a test without
parentheses reads the `not` as part of the name, and is not asked. `is changed`, `is not skipped` and `is not unreachable` are
unknown and false, and are not asked; an undefined operand compares as its own name (`ValueOf` is asked of variables
that are set); `is failed` looks at `rc` whatever `failed_when` said, and the
result of an unreachable host has neither failed nor succeeded, so that `Meant` takes these tests from the code. A recursive
`combine` writes into the maps nested in the variable (`template_filters.go:434`, `WritesBack`); `min` and `max` of no numbers are
the largest floats in the code and nil in the model; `reject` drops items that print alike, where `FiltersMean` asks for
items that do not; a `loop` over `dict2items` runs once with the whole list, which `LoopsMean` does not ask.

## 7. What is not modelled

- *Includes, imports and roles*: they read files and splice their lists before the tasks run; `apply` and inheritance of
  attributes are copies of fields. The order of role dependencies is a depth-first walk.
- *Fact gathering and the fact cache in files*: what VarsCache calls a write of facts stands for both.
- *Ad hoc execution*: one loop over hosts with forks, of the shape LinearPlay checks, and printing.
- *Local and container connections*: processes and their output.
- *Playbook parsing*: text to structures, without state. Of *inventory parsing* the text of a line, ranges of host names
  and dynamic scripts are left out.
- *Templates*: the syntax of text/template, dates, regular expressions, JSON, YAML and hashes.
- *Modules that only read or print* (setup, debug, assert, stat, find, slurp, getent, ping, script).
- *Vault*: cryptography over one file at a time.
- *Command line, configuration, output*: options and printing; how they build the inventory is in Inventory.
- Within modelled parts: `Executor.Close`, `Store`, `Has`, `ExecuteAll` of the connections; the cache of
  `ResolveHostVars`; a connection lost at the reads of a dry run; the links of a remote copy (`copy.go:61`, `110`), whose
  source and destination are plain files here; loading of variables before the first batch; a handler that is itself a meta task.
