# Verification of devops-agent-msk-mcp in TLA+

TLA+ models of `msk_mcp`, the MCP server that gives an agent twelve read-only
tools on Amazon MSK clusters, with the TLC runs that check them and the TLAPS
proofs about them. Paths are relative to the repository root; `X.py` without a
directory is `src/msk_mcp/X.py` or `src/msk_mcp/tools/X.py`.

1. [The system](#1-the-system)
2. [Modules](#2-modules)
3. [What the runs show](#3-what-the-runs-show)
4. [What is proved](#4-what-is-proved)
5. [Disagreements between the code and what is said of it](#5-disagreements-between-the-code-and-what-is-said-of-it)
6. [Not modelled](#6-not-modelled)
7. [Plan](#7-plan)

## 1. The system

One process, one asyncio event loop, one thread pool (the loop's default
executor), and short-lived JVM subprocesses. A request goes

    client --HTTP--> mcp library --> server.create_mcp's tool function
       --> Bouncer.run_tool     async with tool_sem: await wait_for(body, budget)
         --> tool_error_handler  exceptions of the body become error envelopes
           --> the tool's body
                 AdminClient tools: run_in_executor(None, blocking confluent_kafka call)
                 CLI tools:         CliExecutor.run(kafka-*.sh ...)
                                      async with cli_sem: spawn, wait_for(communicate),
                                      on timeout SIGTERM, 5 s, SIGKILL

| Component | State | Operations | Hard behaviours | What makes it correct |
|---|---|---|---|---|
| `Bouncer` (`concurrency.py`) | the tool semaphore | `run_tool` | admission queue; a deadline that cancels a body in any stage; CLI calls hold a tool permit while they wait for a cli permit | permits conserved, no lost wake-up, both caps kept, every waiting call answered |
| `CliExecutor` (`cli_executor.py`) | the cli semaphore; per run a subprocess and a deadline | `run`, `_terminate`, `_classify_cli_failure` | exit racing deadline, grace period racing the outer deadline, binary missing, cancellation between grant and resume | permits conserved, cap on live subprocesses, none left behind, SIGTERM escalates, every queued run ends |
| Error envelopes (`errors.py`) | none | `tool_error_handler`, `classify_kafka_error` | which exceptions pass through; classification by text | a call never raises; a code is right for its cause |
| Server assembly (`server.py`, `__main__.py`) | settings, clusters, bouncer, executor, caches | `create_mcp`, tool functions, `run_server` | a budget per tool that must exceed what it wraps | outer budget leaves room for the inner timeout and its escalation |
| AdminClient tools (`list_consumer_groups.py`, `describe_cluster.py`, `describe_topic.py`, `describe_topic_configs.py`, `describe_acls.py`, `describe_partition_reassignments.py`) | threads of the default pool | one call each | a cancelled call leaves its thread behind; the pool is a second, uncounted bound | an admitted call is answered within its budget; what it reports is what one read returned |
| Consumer group description (`describe_consumer_group.py`) | none of its own; reads a moving group three times | `describe_consumer_group` | offsets, end offsets and members of three moments; partial failures | lag is never below what was committed and known; owner and lag are of one partition |
| Offset reset planner (`compute_offset_reset_plan.py`) | none | argument validation, table parser, remediation command | re-synchronising parser on text with noise; a human runs the command later, on a group that has moved | every row printed is in the plan, none is made up; the command does what the plan says, survives the shell, and nothing but the human's run of it resets an offset |
| Log directories (`describe_log_dirs.py`) | none | CLI call, JSON extraction, stuck moves, disk errors | noise around the JSON; topic names with dashes and numbers in them | a stuck move is listed under its topic, a broken disk is listed, a filter takes in no other topic |
| Under-replicated partitions (`describe_under_replicated_partitions.py`) | none | list the topics, describe them | topics deleted between the two requests or forbidden; futures that fail, one or all; replicas that a reassignment brings in | what lags all the time is reported; what is reported is explained; the broker named is the one |
| Offsets for times (`get_offsets_for_times.py`) | none | one lookup per partition | leaders answer at different moments, retention and producers go on, timestamps out of order, failed look-ups | an offset that was found misses no message; "not found" is true; counts add up |
| Connectivity probe (`test_broker_connectivity.py`) | none | DNS/TCP/Kafka stages per broker | shared pool, stage deadlines | the stage blamed is the stage that failed, or that found no thread |
| AdminClient factory, `client.properties` (`kafka_clients.py`, `client_properties.py`) | caches by cluster; files that outlive the process | `render_all`, `get_path`, `get` | file gone after it was cached, a crash half way, `clusters.yaml` edited between two lives | a path handed out names a whole file; command line and client go to the same brokers |
| Configuration (`config.py`) | settings, the cluster registry | load, validate | what is refused at start, and what a later start finds changed | no start without whole properties for each supported cluster |
| Logging (`logging_setup.py`), health (`http/health.py`) | a context variable; none | set and reset; a constant answer | none that a model adds to | |

The components meet in three places: the two semaphores (all calls), the
event loop's deadlines (the outer one of `run_tool` and the inner ones of
`CliExecutor`), and the default thread pool (all AdminClient calls and the name
resolution of the connectivity probe).

## 2. Modules

| Module | Models | Extends / uses |
|---|---|---|
| `Deque` | removal from the middle of a queue, for the waiters of a semaphore and the jobs of the thread pool | operators only |
| `AsyncSemaphore` | `asyncio.Semaphore` of CPython 3.11 (`Dockerfile`), not in the repository: value, queue, waiters woken but not yet running; `acquire`, `release`, `_wake_up_next`, cancellation of either kind of waiter | operators only, extends `Deque` |
| `CliExecutor` | `CliExecutor.run`, `_terminate`, the subprocess and its deadlines, with callers nobody cancels | `AsyncSemaphore` |
| `BouncerSpec` | the abstract promise of `concurrency.py:11-15`: two caps, and that waiting calls are admitted and admitted ones leave | abstract |
| `ToolServer` | `Bouncer.run_tool`, the budgets of `server.py`, `tool_error_handler`, CLI calls through `CliExecutor`, AdminClient calls as bodies that may hear nothing | extends `CliExecutor`, refines `BouncerSpec` |
| `AdminPool` | the default thread pool under the AdminClient tools and the connectivity probe | extends `Deque` |
| `ConsumerGroup` | `describe_consumer_group`: a group that moves, the three reads of it, lag, owners and the rebalance flag | stands on its own |
| `PlanParser` | `_parse_plan` of `compute_offset_reset_plan` | stands on its own |
| `ResetPlan` | `compute_offset_reset_plan` around its parser: validation, the arguments, the remediation command, and the human who runs it on a group that has moved; `kafka-consumer-groups.sh` as it is used | stands on its own |
| `ShellQuote` | `_quote_for_shell` and the joined command, read back by a shell | stands on its own |
| `CliOutput` | the output of one subprocess in `CliExecutor.run` and `_terminate`: what each `communicate()` has read when a deadline cancels it, and the class of a failed command | extends `ErrorTaxonomy` |
| `ErrorTaxonomy` | the error types and the order in which `_classify_cli_failure` tries its patterns | operators only |
| `LogDirs` | `describe_log_dirs`: output with or around its JSON, names split at the last dash, stuck moves and disk errors | stands on its own |
| `ClusterAccess` | `config.py`, `client_properties.py`, `kafka_clients.py` and the start of `server.py` over the lives of a process: load, render, cache, crash, start again | stands on its own |
| `TopicReads` | `describe_partition_reassignments`, `describe_under_replicated_partitions` and the flag of `describe_topic`, on topics whose replicas fall behind, move and go | stands on its own |
| `OffsetLookup` | `get_offsets_for_times` over logs that grow and expire | stands on its own |
| `GroupListing`, `TopicConfigs`, `AclListing` | `list_consumer_groups`, `describe_topic_configs`, `describe_acls` | each on its own |
| `MCTools` | thirteen components in one instance: in each behaviour `focus` names the one that moves, and the others, which share no state with it, stand still in one of their initial states | extends the modules from `AdminPool` to here |
| `MCToolServer` | symmetry sets and a small instance for TLC; `CliExecutor` is checked directly, without symmetry, which its liveness would not allow | extends `ToolServer` |
| `AsyncSemaphoreProofs`, `CliExecutorProofs`, `ToolServerProofs`, `AdminPoolProofs`, `ConsumerGroupProofs` | theorems about the module of that name | TLAPS |
| `TextProofs` | theorems about the two modules that read a text of any length, `PlanParser` and `ShellQuote`, and the induction they need | TLAPS |
| `CliToolsProofs` | theorems about `ClusterAccess`, `CliOutput`, `ResetPlan` and `LogDirs`, and the types of the components of `MCTools` together | TLAPS |
| `AdminReadsProofs` | theorems about `TopicReads`, `OffsetLookup`, `GroupListing`, `TopicConfigs` and `AclListing` | TLAPS |

### State and actions

`CliExecutor`: `stage[c]` is the await at which the run of caller `c` stands:

| stage | in the code |
|---|---|
| `queued` | `async with self._sem` has no permit (`cli_executor.py:55`) |
| `spawning` | `await create_subprocess_exec` |
| `running` | `await wait_for(proc.communicate(), timeout)` |
| `terminating` | `_terminate`, second `wait_for`, after `proc.terminate()` |
| `killing` | `_terminate`, `communicate()` without a deadline, after `proc.kill()` |
| `ended` | returned or raised; `reply[c]` says how |

`proc[c]` is the subprocess as the operating system sees it, independent of the
run: that a run is over says nothing about its subprocess, and that is what
several properties are about. `timer[c]` is the time left of the `wait_for` the
run is in. Each action is the code from one await to the next.

`ToolServer`: `pc[c]` is where the call stands around that (`waiting` for the
tool permit, `active` in its body, `incli` in `CliExecutor.run`, `cancelling`
when `wait_for` has cancelled the body and the `CancelledError` is on its way,
`returned` when the body is over but the tool permit still held, `done`), and
`outer[c]` the time left of its budget.

`AdminPool`: `at[c]` is what a call awaits: a job of the pool (`reading`,
`resolving`, `attempting`) or a connection (`connecting`). `queue` holds the
callers whose job has no thread yet, `thread[t]` what a worker does, for whom
and how long it may still take; `for` is empty once the call has gone.
`ReadContinues` is the tool's next `run_in_executor`: most tools make one for
the request and one for each future. `saw[c]` is history: what the network was
like during the TCP stage, and `full` when time passed while the stage's look-up
found no free thread.

`ConsumerGroup`: three groups of variables, the cluster, the call and a history
that the code does not know. The cluster moves at any time: rebalances, commits,
producers, offset resets, lost log ends. The call has one action per read, so
each read sees its own moment: `DescribeGroup` (state and members), `ReadOffsets`
(one answer of the coordinator), `ReadEnd(p)` (each partition leader answers for
itself, or `EndFails(p)`), then `Assemble` makes the rows. `setBack`, `worstLag`
and `rebalanced` remember what the properties compare the answer with.

`PlanParser`: the scan of `_parse_plan`, one action per turn of its loop
(`TakeRow`, `DropToken`) and one for the header and the final sort. `i` is the
loop variable of the code. With a stream of tokens the model keeps which rows
were printed and where they start, of which the code knows nothing.

`ResetPlan`: `stage` goes from `idle` over `asked` (arguments validated, dry run not
yet made) to `planned` (the answer is out) and `applied` (the human has run the
command). The group and its partitions move in the two stages between.
`BuildArgv` is the code's one builder of both command lines; the plan is what the
dry run of the tool proposes, `outcome` what the command leaves committed.

`CliOutput`: `taken` is how far the pipe has been read, `blocks` what the running
`communicate()` holds of it; `Deadline` and `GraceEnds` throw the blocks away, as the
cancellation does, and the next `communicate()` begins where the pipe stands. `lost` is
history: how far the pipe had been read at the last of them. `await` ends in `over`, or in
`empty` at the two exits at which `_terminate` returns no output.

`ClusterAccess`: `proc` is `down`, `rendering` or `up`. `Crash` loses both caches and
the registry, not the files; `RenderFails` leaves a file in part and ends the
process. `Edit` changes `clusters.yaml`, which counts at the next start.

`TopicReads`: `turn` is the request to be made next. `told`, `topics` and `missing`
are what the three answers held, `failed` the topics whose future raised; `steady`,
`dropped` and `begun` are history.
`OffsetLookup`: each leader answers in an action of its own (`LookUp(p)` or
`LookUpFails(p)`), and `Gather` makes the rows when all have. `GroupListing`:
each broker answers or fails in an action of its own; `unmoved` is history.

### Abstractions

- *The event loop is prompt.* A clock step is not taken while a deadline that
  has come is not acted on. Deadlines that come at the same moment are acted on
  in either order, and so are a deadline and an answer.
- *Calls are slots.* A member of `Calls` serves one request after another, so
  any number of requests is modelled with finitely many at a time. A slot is
  not reused while a subprocess of its last request is alive; this bounds
  subprocesses per slot at one.
- *The order in which woken waiters resume* is free; the event loop runs
  them in the order in which they were woken. The model allows more.
- *A subprocess* exits when it likes, or never, SIGTERM or not. After SIGKILL
  it does exit. A command's exit status is `ok` or `error`; the text of the
  output and the class of the error are `CliOutput`'s matter.
- *Cancellation while a subprocess is being started*: asyncio kills and reaps
  it, so the model has none. In `running` and `terminating` the cancellation
  ends the await and nothing signals the subprocess, which stays as it is.
- *`wait_for` in CPython 3.11* returns the result it already has and drops a
  `CancelledError` that comes after it (`CancelTooLate`); in the last stage
  (`killing`) there is no `wait_for`, and the cancellation is always delivered.
- *An AdminClient call* is a body that hears from the brokers or does not; the
  thread that waits is not in these modules. `test_broker_connectivity` has
  a budget 5 s longer (`server.py`) but has no inner deadline the properties
  tell apart; it is taken for one of them.
- *`AdminPool`* counts the calls that are admitted against the tool permits; the
  semaphore and its queue are `ToolServer`'s matter. While the network is up, a look-up and
  a connection take no time (in the code: far less than 5 s); while it is down
  they fail or hang. A read takes at most `ReadTime`, an attempt at most the
  `timeout` it is given. A cancelled job leaves the queue at once; in CPython
  the worker drops it when it comes to it. The text of an attempt's error, hence
  the choice among TLS, SASL and PROTOCOL, is free. The close of the probe's
  connection, without TLS, is no step of its own.
- *`ConsumerGroup`*: a value that may be `None` is a set with at most one member.
  A coordinator tells assignments only while the group is STABLE, and takes
  offset resets only of a group without members, as Kafka does. The assignments a group may
  agree on are a parameter; that no partition has two owners is assumed of Kafka. The
  deadline of the call belongs to `ToolServer`.
- *`PlanParser`*: a token is an integer or a word (a model value); what words look
  like is of no account to the parser except in the header, which is found by
  name, and in the order of topics (`Rank`). Numbers may be topics: `int()`
  accepts them.
- *`ResetPlan`*: a command line is its strategy flag, the value and the last flag; the
  rest is the same in both. The Kafka tool clamps a target into the log and resets
  only a group without members; of one with members its table has no rows.
- *`CliOutput`*: a block is a line, given by the group of patterns it matches; one stream
  stands for stdout and stderr, which are read in the same way.
- *`ShellQuote`*: five classes of characters, those the shell tells apart; the shell is
  its rule for quotes, backslashes and blanks.
- *`LogDirs`*: a name is a sequence of the pieces between dashes. Sizes and lags are
  copied by the code and left out.
- *`ClusterAccess`*: a file is absent, partial or whole. Paths, ports, log levels and the
  values that only travel are left out.
- *`TopicReads`*: at most one reassignment of a partition at a time, to one new broker;
  a topic is there with its replicas as they were, when it is made again. The topics we
  may not describe are the same throughout. Their futures fail, and those of topics that
  are gone; beyond that any set of futures may fail, as when a broker, or the request, times
  out. All that do not fail are answered with the cluster of one moment.
- *`OffsetLookup`*: `log[p]` keeps expired messages, `first[p]` hides them. A message's
  timestamp is the producer's, so timestamps need not rise.
- *`TopicConfigs`, `AclListing`*: layers and ACLs change between two answers and an
  answer comes at once; what fails there is the envelope's matter.
- *A client that cancels its request* is a matter of the `mcp` library, which
  is not in the repository, and is not modelled.

## 3. What the runs show

| Run | Instance | Question |
|---|---|---|
| `cli_executor` | 4 callers, 2 cli permits, timeout 2, grace 1; 51 355 states | Under every interleaving of runs, exits and deadlines: are there ever more live subprocesses than permits (`FanOutCap`) or one without a run in charge (`NoOrphan`), is a signalled subprocess ever given up alive (`TermEscalates`)? Can something always be done, and does it count (`RunsProgress`)? Does a queued run end although subprocesses ignore SIGTERM for ever (`EveryRunEnds`)? |
| `server_safety` | 3 CLI calls and 1 AdminClient call, 3 tool permits, 1 cli permit, timeout 2, grace 1, margin 1; 315 925 states up to symmetry | The same with the outer deadline, which cancels a call in any stage: `PermitsConserved` and `WakeupsKept` for both tiers, `NothingKept` (a call that is over is in no queue and no section), `AnsweredMeansReaped` (an answer, a TIMEOUT envelope included, means the subprocess is gone), `PromiseSafety` (the server implements `BouncerSpec!Safety`). `CallsProgress`: as long as a call is under way something can be done without a client, a broker or a subprocess's exit, and whatever is done sets back no call that is under way. |
| `server_liveness` | 2 CLI calls and 1 AdminClient call, 2 tool permits, 1 cli permit, times 1; 24 400 states | `EveryCallAnswered`, and `PromiseSpec`: the fairness of the abstract bound is implemented too. |
| `server_envelopes`, `server_fan_out`, `server_escalation` | 2 CLI calls and 1 AdminClient call | The three disagreements of section 5: each run checks one statement of the documentation and TLC finds it violated. |
| `tools` | thirteen components, one in each behaviour; 1 194 023 states | see the next table |
| `group_rebalancing` | the instance of `tools` | Section 5: the rebalance flag. |
| `under_replicated_none` | the instance of `tools` | Section 5: futures that fail, and an answer that there is nothing. |
| `pool_full` | 2 readers, 1 probe, 2 tool permits, 3 threads, budget 2, TCP stage 1 | Section 5: a full pool is taken for a broken network. |
| `cli_output` | up to 2 lines of one kind | Section 5: output read before a deadline is lost. |
| `group_listing_errors` | the instance of `tools` | Section 5: brokers that fail to list. |

The run `tools` asks, of one component at a time:

| Component | Instance | Question |
|---|---|---|
| `PlanParser` | every table of up to 2 rows with up to 2 stray tokens in each gap, under good and bad headers | Is every row printed in the plan, once and in order, and none made up (`RowsRecovered`)? |
| `ResetPlan` | 1 partition, offsets up to 3, values -1, 0 and 2, every strategy | Does the command do what the plan said, but where the strategy refers to something that has moved (`CommandDoesThePlan`)? Do offsets of a group without members change by the human's hand alone (`OnlyHumansReset`)? |
| `ShellQuote` | 1 argument of up to 4 characters, 2 of up to 2 | Does a shell that reads the command see the arguments it was made of (`PasteRoundTrips`)? |
| `CliOutput` | up to 3 lines of four kinds | Is the text of a TIMEOUT all that was printed after what had been read at the last deadline: is nothing else lost, and nothing there twice (`OnlyReadIsLost`)? Does the line that says why a command failed decide, whatever else it printed (`CauseSurvivesNoise`)? |
| `LogDirs` | up to 2 replicas of topics `x`, `x-y` and `x-0`, 2 disks | Is every stuck move listed under its own topic, and every broken disk (`StuckMovesListed`)? |
| `ClusterAccess` | 2 clusters, registries with stubs, moves and absences, limits 0 and 1 | `PathsAreWhole`, `StartedMeansRendered`, `SameBrokers` over crashes and starts |
| `TopicReads` | 3 topics, one of them internal and one whose name begins with another's, 3 brokers, 2 changes of the cluster | Is a broker that lags all the time reported, though other topics go and their futures fail (`SteadyDropsReported`)? Is one that is reported explained (`MissingExplained`)? Is the dropper the one named (`DropperNamed`)? |
| `OffsetLookup` | 2 partitions, 2 timestamps, 3 messages, 2 changes of the logs | `ReplayMissesNothing`, `NotFoundMeansNone` |
| `GroupListing` | 2 brokers, 2 groups, 2 states | Is a group that stays as it is listed, unless its broker fails (`SteadyGroupsListed`)? |
| `TopicConfigs` | 1 notable key and 1 other, 5 layers | `OverridesShown` |
| `AclListing` | 6 ACLs of two pattern types, every filter | `AskedAclsFound` |
| `ConsumerGroup` | a partition that grows and one that stays empty, 2 members; 306 396 states | Is a lag ever reported smaller than it was between the two reads it comes from, or negative (`LagNotUnderstated`)? Does each row name just the owner of its partition while the group does not rebalance (`OwnersAreCurrent`)? |
| `AdminPool` | 2 readers, 1 probe, 2 tool permits, 2 threads, budget 2, TCP stage 1; 65 073 states | Has every awaited job a place in the pool, whatever was cancelled (`AwaitedJobsExist`)? Does the stage that the probe blames have a cause: NETWORK a network that was down or a pool that was full, anything later an endpoint that was reachable (`BlameHasCause`)? |

`ToolsTypeOK` puts together the type invariants of the eight of them that have one.

*Bounds.* More callers than permits, by two, so that a queue of two forms
behind a full section: the smallest in which a waiter can be overtaken, woken
and cancelled while another waits behind it. Two permits of a tier make a release wake one
waiter while another holder is inside; one cli permit under three tool permits
makes CLI calls fill the tool tier behind each other while an AdminClient call
waits. The times are the smallest with which inner deadline, grace period and
budget come in each order: a CLI call that enters its section at once reaches
its inner deadline first and its budget at the end of the grace period
(`Timeout + Margin` against `Timeout + Grace`, equal here as they are in the
code: 5.0 s and 5.0 s); one that waited has the budget run out in each of
`queued`, `spawning`, `running`, `terminating` and `killing`. The proofs of section 4 need
no bounds at all.

In `AdminPool` two permits and two readers beside a probe let both permits leave a thread
behind and be taken again, by a reader and the probe, in one budget. Two threads are
then both busy for nobody, and the look-up of the probe waits; `pool_full` has three, of which
two are busy for nobody and one for a call that waits. A read may take as long as the
budget (`ReadTime` is `Timeout` in both). In
`ConsumerGroup` two partitions have their ends read in either order, one failing while
the other succeeds, and two members let ownership move, be split and be nobody's. The offset
of one partition has two values: that is one commit, one production and one set-back between
two reads, in any order; the other's end read comes before, after or among them and may
fail. The properties compare lags at two moments, not distances, and the rows of two
partitions do not depend on each other. In `PlanParser` two rows make the parser resynchronise
after a row and run off the end; a gap of two tokens is longer than the window's
slack. In `TopicReads` two changes are one between each two of the three requests, or
two on one side: a drop and a deletion of the topic beside it, a move that begins and the
broker that catches up. In `OffsetLookup` two changes let one message arrive and one expire
between the answers of two leaders. In `CliOutput` three lines are one for each
`communicate()`. In `ClusterAccess` the second cluster's rendering fails after the first's is
done, and a life follows in which the file of the first is left over.

Most components of `MCTools` are calls, which end, and so does `CliOutput`: the runs of
these two modules say so (`CHECK_DEADLOCK FALSE`). No other run does.

*Fairness.* The event loop runs what is ready (weak fairness of each call's own
steps), the clock advances, and SIGKILL works. Nothing is assumed of clients,
which need not call, of brokers, which need not answer, nor of subprocesses,
which need not exit. Weak fairness is enough where the code queues
first-in-first-out; in `BouncerSpec`, which has no queue, being admitted takes
strong fairness, and the run shows that the queue implements it.

*Mutants.* Every property of a passing run is broken by a mutant of a modelled
definition, a plausible bug: a forgotten release, a wake-up not passed on, a
cancelled waiter left in the queue, a grace period without SIGKILL. They stand
next to the definitions they vary and are marked.

## 4. What is proved

For every number of calls, every pair of limits, every timeout, grace period and
margin. The only assumptions are those on the constants (`Calls` and `Threads` are finite,
limits and times are positive naturals, the margin is a natural), which
`config.py` validates or `server.py` fixes. For the parser: what the CLI prints is a table
with stray tokens between its rows, and strings are totally ordered.

- `AsyncSemaphoreProofs`: what each operation of the semaphore does to its
  permits, its waiters and its wake-ups, given a well-formed semaphore.
- `CliExecutorProofs`: `CliSafety` implies `CliTypeOK` (`CliTypesTheorem`),
  `CliPermitsConserved` (`PermitsTheorem`), `CliNoLostWakeup` (`WakeupTheorem`), `NoOrphan`
  (`NoOrphanTheorem`), `FanOutCap` (`FanOutTheorem`), `TermEscalates`
  (`EscalationTheorem`) and `RunsProgress` (`RunsProgressTheorem`). The second and third
  are what the run `server_safety` checks of both tiers (`PermitsConserved`, `WakeupsKept`),
  said of runs that nobody cancels.
- `ToolServerProofs`: `Safety` implies `TypeOK` (`ServerTypesTheorem`), `PermitsConserved`
  (`ServerPermitsTheorem`), `WakeupsKept`, `NothingKept`, `AnsweredMeansReaped`,
  `CallsProgress` (`ProgressTheorem`)
  and `Promise!Safety` (`PromiseTheorem`: the server implements `BouncerSpec`).
- `AdminPoolProofs`: `PoolSpec` implies `PoolTypeOK` (`PoolTypesTheorem`), `AwaitedJobsExist`
  (`JobsTheorem`) and `BlameHasCause` (`BlameTheorem`), for a pool of any size and reads of
  any length.
- `ConsumerGroupProofs`: `GroupSpec` implies `LagNotUnderstated` (`LagTheorem`),
  `OwnersAreCurrent` (`OwnersTheorem`) and `GroupTypeOK` (`TypesTheorem`), for any partitions,
  members and offsets, and any assignments in which no partition has two owners.
- `TextProofs`: `Spec` of `PlanParser` implies `TypeOK` (`ParserTypesTheorem`) and
  `RowsRecovered` (`RowsTheorem`), for tables of any length under the assumptions that define
  the streams; `QuoteSpec` implies `PasteRoundTrips` (`PasteTheorem`), for arguments of any
  number and length.
- `CliToolsProofs`: `AccessSpec` implies `PathsAreWhole` (`PathsTheorem`),
  `StartedMeansRendered` (`RenderedTheorem`) and `SameBrokers` (`BrokersTheorem`);
  `OutputSpec` implies `OnlyReadIsLost` (`OutputTheorem`) and `CauseSurvivesNoise`
  (`CauseTheorem`); `ResetSpec` implies `OnlyHumansReset` (`OnlyHumansTheorem`) and
  `CommandDoesThePlan` (`PlanTheorem`); `DirsSpec` implies `StuckMovesListed`
  (`StuckTheorem`). For any clusters, output, partitions, offsets and names; the
  assumptions say what the constants are. `ToolsSpec` implies
  `ToolsTypeOK` (`ToolsTypesTheorem`).
- `AdminReadsProofs`: `ReadsSpec` implies `SteadyDropsReported` (`DropsTheorem`),
  `MissingExplained` (`ExplainedTheorem`) and `DropperNamed` (`DropperTheorem`), `LookupSpec`
  `ReplayMissesNothing` (`ReplayTheorem`) and `NotFoundMeansNone` (`NotFoundTheorem`),
  `ListingSpec` `SteadyGroupsListed` (`GroupsTheorem`), `ConfigsSpec` `OverridesShown`
  (`OverridesTheorem`) and `AclsSpec` `AskedAclsFound` (`AclsTheorem`). For any finite sets of
  brokers and partitions, logs of any length and any number of changes.

*The inductive invariants.* `CliPermitsConserved` is not inductive: that a
woken waiter turns into a holder needs that it is in stage `queued` and in no
other place. `CliInv` adds that the waiters are calls in stage
`queued` and that no waiter is queued twice or both pending and woken
(`WellQueued`). With it, `NoLostWakeup` goes through each operation: a release
gives the permit to the head of the queue, and a granted waiter that goes away
passes it on. `FanOutCap` follows from
`NoOrphan` (a live subprocess is in a stage inside the section) and
conservation.

In the server `NoOrphan` is lost (section 5), the rest is kept. `ServerInv`
strengthens `CliInv` with the same facts of the tool semaphore and with
`Linked`, which ties the two tiers: a call has something of the cli tier only while it is in
`incli` or `cancelling`, and only a CLI call has. `AnsweredMeansReaped` needs
in addition `Owned`: while nobody has cancelled a call, its live subprocess has the run
in charge of it.

*Progress.* Liveness takes fairness, which the provers here do not reason about; what they can
say is all of it but the fairness. `NeverStuck`: while a call is under way, some call can go on
or the clock can, without help from outside. For a call that waits for a tool permit that is so
because no wake-up is lost: the permits are all with calls that are admitted, and each of those
has its budget running or is on its way out. It needs that a call in `waiting` is really in
the queue, which `ServerInv` has for that purpose (`Waiters(tool)` is the set `Waiting`). In
`CliExecutor` alone no budget comes to the rescue, and `AloneInv` says what takes its place: who
is `queued` waits for the semaphore, and a run that sent a signal finds its subprocess as it
left it. `StepCounts`: `StepsLeft(c)` is a natural
number that bounds the steps a call, its budget and its subprocess have still to take. A step
that starts a call leaves that of the others as it is; every other step raises none and lowers
one. So finitely many calls take finitely many steps, and stop only when all are over: a
deadline that started anew, a retry or a wake-up that goes round would break it. With the
fairness of section 3 that is `EveryRunEnds` and `EveryCallAnswered` for calls that stop
arriving; that none is overtaken for ever while new ones arrive is TLC's to show.

*The refinement.* `phaseBar` maps a call to `out`, `waiting`, `cli` or
`admitted`. A step that takes a permit maps to `Admit` or `EnterCli`, whose
guard (fewer inside than the limit) follows from conservation and the permit
being free or already on its way; an end maps to `Leave` or
`LeaveCli`; everything else stutters.

*The thread pool.* `PoolInv` adds to `AwaitedJobsExist` that a thread's job is the one its
call awaits. `StageInv`, for `BlameHasCause`: a probe in its TCP stage has seen the network as it
is, and as long as it has seen it up alone its deadline cannot come, unless its look-up has been
left in the queue (`full`). Time only passes while nothing is due, and with the network up
that leaves a probe in its TCP stage one thing to wait for: a thread, with its look-up still
queued (`LookupsWaitInQueue`, from `AwaitedJobsExist`).

*The consumer group.* `LagInv` says that for a partition whose log end is still
awaited and that was not set back, the fetched offset and the present ones
bound every lag since: `worstLag` is at most `logEndOffset - fetched`, because commits only
raise what is subtracted and producers only what it is subtracted from. When the
end is read, that bound becomes the reported lag. `OwnersInv` says that without a
rebalance since `DescribeGroup` the list in the answer is the coordinator's.

*The parser.* `ScanInv` says that the scan stands after the last row it took and
has not passed the start of the next one, and that the rows taken are the first
ones printed. A window over stray words is never a row, so the scan drops
them one by one and arrives at that start. The plan is a sorted order of the rows, which
`CHOOSE` picks: that there is one for every number of rows is shown by putting the last row in
front of the first that it is before (`InsertLast`, `SortedOrderExists`).

*Induction.* The library's induction theorems take a property as an operator, which the
provers cannot instantiate. `SetInduction` takes the *set* of the numbers that have the property
instead, and follows from the least member of their complement (`LeastMember`), which the library's fact
about well-founded relations gives. Sorting, reading a text and putting parts of a text together are proved by it.

*Quoting.* `Reads(text)` is how a shell reads a text after each of its characters, a recursive
function. `Leads(r, text, q)`: reading `text` takes the shell from `r` to `q`; texts one after
the other lead on (`LeadsOn`, `LeadsThrough`). An argument without a special character leads
through one word by itself; a quoted one through its quotes, where every
character as `_quote_for_shell` writes it, an embedded quote included, leads back to the inside
of the quotes with that character added (`EscapedReads`, `QuotedReads`). So the words a shell ends with are the arguments.

*The tools together.* In `MCTools` a step moves one component and leaves the variables of the
others alone, so each component sees one of its own steps or a stutter (`EachMoves`,
`EachComponent`), and its type invariant carries over.

*Access.* `AccessInv` adds to the properties that a process that is down has nothing in its
memory, that each supported cluster of the registry has been rendered or is still to
come, and that a cluster in either cache is a supported one of the registry in force. A crash
empties the caches, so a file left in part by an earlier life is in no cache until this
life has written it to its end.

*Output.* `BlocksAreLast`: the blocks of the running `communicate()` are what was read
last, from `lost` on, and those of the first one all that was read. A deadline that throws
blocks away therefore loses what was read by then and no more, and a command that exits in
time loses nothing.
`JudgedByAll` is what follows for the class of the failure.

*The plan.* `PlanHolds` says of each partition listed, while the human waits, that running
the command now would do what was proposed, or the history names something that spoils
it. Every move of the group keeps it: it changes a target only where it enters the history.

*The replication tools.* `LackingExplained`: a replica outside the ISR has fallen out of it or is
being brought in; a reassignment ends only when what it brings in is in the ISR, so
ending one explains nothing away. `MovesTold`: until the topics are described, what is being brought
in was told or began since; it needs `GoneAreStill`, since a topic that is made again must
not come with a reassignment nobody told. `SteadyLacks`: what counts as steady still lags when
it is described, whichever futures fail. `DropperNamed` needs no invariant but counting: pairing each partition that
another broker is missing from with the dropper is injective and not onto, so the
dropper's count is larger.

*Offsets.* `FirstStaysFirst`: an offset once found stays below every later match, because
new messages come at the end and retention only takes away. `NoneWereThere` is the
counterpart for partitions without one, with `LogsOnlyGrow`.

*The listing.* `RowsStillTrue`: what a broker told of a group that has not moved since is still so.

*Only model-checked:* liveness (`EveryRunEnds`, `EveryCallAnswered`) and the fairness of the
refinement (`PromiseSpec`, whose safety part is proved): fairness speaks of what is enabled,
which the prover does not reason about. Every invariant and every action property of a passing
run is a theorem.

## 5. Disagreements between the code and what is said of it

1. **A call whose budget is spent raises** (`server_envelopes`). `README.md:43`
   promises an error envelope "instead of raising". `run_tool` applies the
   deadline outside of `tool_error_handler`: the body gets `CancelledError`,
   which the handler does not catch, and `run_tool` raises `TimeoutError`.
2. **More subprocesses than the cap** (`server_fan_out`). A CLI call cancelled
   while its subprocess runs frees the permit and signals nobody; the next call
   starts one more subprocess.
3. **SIGTERM without SIGKILL** (`server_escalation`). The outer budget is the
   inner timeout plus 5 s and starts earlier; the grace period is 5 s and starts
   later. The outer deadline comes first, and a subprocess that ignores SIGTERM stays.

4. **`is_rebalancing` is never true** (`group_rebalancing`). `README.md:120` promises
   the flag and `README.md:113` writes the state PREPARING_REBALANCING, as
   the client library does; the code compares with spellings without the
   underscore and `-ING`.
5. **A listing that failed says "no groups"** (`group_listing_errors`). A test is named for
   a summary that mentions the brokers' errors when there are any
   (`tests/tools/test_list_consumer_groups.py:129`). `_summarize` returns before it comes to them when
   no group is left to list: if just the brokers that coordinate the groups fail,
   the summary says that there are none. `SteadyGroupsListed` is what does hold.
6. **A full thread pool is reported as a broken network** (`pool_full`). The probe's
   look-up queues behind AdminClient reads while its 5 s run. Nothing sizes the pool
   (`min(32, cpus + 4)` threads for 16 tool permits), and cancelled calls keep
   their threads. `BlameHasCause` is what does hold.
7. **Output read before a deadline is lost** (`cli_output`). `cli_executor.py:109` says that
   `_terminate` returns whatever was emitted before the process exited. The
   `communicate()` that the deadline cancels takes with it what it has read, and so does
   the one that the end of the grace period cancels: the TIMEOUT has only what came after
   (`cli_executor.py:83`, `117`). `OnlyReadIsLost` says that no more is lost than that.
8. **"No under-replicated partitions" when there was no answer** (`under_replicated_none`).
   `README.md:74` says that the tool scans all topics, and `README.md:76` excepts those that an
   ACL denies. The code skips a topic for whatever its future raises
   (`describe_under_replicated_partitions.py:85`). A request that times out fails the
   futures of all topics, and the answer is a count of 0 and a summary without a word of
   the failure. `SteadyDropsReported` is what does hold, of the topics whose own future does not fail.

Two more are no disagreement a run shows, but a reader of the properties should know of them.
`_parse_plan` calls itself robust against stray log lines (`compute_offset_reset_plan.py:199`);
a stray word before a row whose topic is a number, or a stray line with two integers, can
shift its window, and `RowsRecovered` has the proviso under which it is.
`describe_topic_configs.py:9` speaks of values other than DEFAULT_CONFIG, while line 66
takes every source with DEFAULT in its name for a default, DYNAMIC_DEFAULT_BROKER_CONFIG
included, which somebody has set for all brokers: `OverridesShown` leaves that layer out.

Under `CliExecutor` alone, as its unit tests use it, 2 and 3 cannot happen:
`cli_executor` and the proofs show it. They come from the composition.

## 6. Not modelled

- `http/health.py` returns a constant.
- `logging_setup.py`: how far the context variable with the correlation id reaches
  depends on the task structure of the `mcp` library.
- The HTTP transport, host-header protection and MCP sessions: the library's.
- `_classify_kafka_exception` and the probe's reading of an attempt's error: they search the
  wording of exceptions of a library that is not in the repository. In `AdminPool`
  the choice is free.
- `describe_cluster` copies what it reads into its answer; its reads are `AdminPool`'s.
- A request that fails as a whole in `describe_topic_configs`, `describe_acls`,
  `describe_topic` or `describe_partition_reassignments`: it becomes an envelope, as in
  `ToolServer`, and no answer. So does, in `describe_under_replicated_partitions`, a failure of
  `list_topics` or of the call of `describe_topics` itself; what its futures raise does not, and
  is modelled (`FuturesEnd`).
- Names within a line of stderr: that a name has a pattern of `_classify_cli_failure` in it
  ("iam") is not expressed, as a line belongs to one group of patterns.
- Sizes, lags and totals of `describe_log_dirs`, the other fields that are copied, and the
  wording of summaries but for what a property reads.
- Scripts, Dockerfile, deployment.

## 7. Plan

The modules planned are written. What could still be added, in the order of its worth:

1. `TopicReads` under the deadline and the thread pool of `AdminPool`: the reads of a call
   cancelled in between end nowhere, so nothing the properties say would change, but
   `ConsumerGroup` and `TopicReads` could share their cluster.
2. `ResetPlan` with `PlanParser` between the dry run and the plan, for the case in
   which the table loses a row; the properties of both hold on their own.
3. The fairness of `PromiseSpec` for any number of calls, from `CallsProgress` and the order
   of the queues, with a prover that reasons about `ENABLED`.
