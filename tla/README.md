# TLA+ verification of mem_sim

`mem_sim` is a cycle-based simulator of stacked DRAM (HBM3/HBM4, LPDDR5/6).  A
frontend submits host requests to a `MemorySystem`; the system splits them over
stacks and channels; one `Controller` per channel schedules DRAM commands, and a
`MemPhy` and a `MemoryImage` move and keep the data.  This directory holds TLA+
models of that code, the TLC configurations that check them and TLAPS proofs
about them.  Paths below are relative to the repository.

## 1. Inventory

| Component | State | Operations | Talks to |
|---|---|---|---|
| `MemorySystem` (`src/core/system.cpp`) | per-stack ingress queues, `host_submissions_`, `host_assemblies_`, two response queues, delivery mode | `try_submit`, `try_submit_maintenance`, `step`, `run`, `pop_response`, `pop_transaction_response`, `set_response_delivery_mode` | frontend above, `Controller::enqueue/tick/pop_response` below |
| `Controller` (`src/controller/controller.cpp`) | Active/Priority/Read/Write queues, `pending_`, `buffered_writes_`, `responses_`, `pending_maintenance_`, write mode, low-power flags | `enqueue`, `tick`, `pop_response` | refresh/RFM/row-policy managers, `MemPhy`, `MemoryImage` |
| `RefreshManager` (`refresh.cpp`) | per-rank deadline, batch, credit ledger, bank rotation | `reset`, `tick`, self-refresh | schedules maintenance in the controller |
| `RfmManager`, `RowPolicyEngine`, `Scheduler` | activation counters, pending closes | `on_activate`, `on_issue`, `pick` | controller |
| Command executor, bank state (`executor.cpp`, `dram/state.cpp`) | `BankState` of every bank, timing gates | `issue` | controller |
| `MemPhy` (`dram/mem_phy.cpp`) | command/read/write FIFOs, completions, training and power state | `accept_command`, `submit_data`, `tick`, `take_completion` | controller, `MemoryImage` |
| `MemoryImage` (`core/data.cpp`), backend (`core/memory_backend.cpp`) | bytes, row buffers, ECC, retention; page cache and file | read, write, activate, precharge, flush | controller, PHY |
| Address and stack mapping (`addr_map.cpp`, `stack_model.cpp`) | round-robin cursor | map, unmap | system |
| Validators (`src/validation`) | bank automaton and timing history of a trace | `check` per command | offline |
| Traffic frontend, configuration, CLI, statistics, tools | parsers and counters | | |

What is hard in this code:

* **Order.**  Reads are forwarded from a write buffer, writes are merged in it,
  two buses issue per tick, and a Behavioral PHY samples and commits later.
  Requests may overlap without being aligned.
* **Back pressure.**  A full host queue stops collection, which fills the
  controllers' response queues, which holds `pending_` and the PHY completions.
* **Waiting.**  Write mode, read/write dependencies, maintenance that closes
  banks and a PHY with short FIFOs all make requests wait for each other.
* **Tags.**  A `host_request_id` is reused by the frontend while parts of its
  last use may still travel, out of order, through several controllers.

Everything runs on one thread: the interleavings are those of requests and of
the parts of a tick, not of threads.  There is nothing to recover after a crash
except the backend file.  The properties that make each part correct: a read
returns the last write accepted before it, no request is lost or answered twice,
the write buffer and the queues name the same writes, no circular wait
(controller); whole and unique answers, tags that outlive their transactions,
bounded queues, dispatch order (system); a ledger that accounts for every
refresh deadline and reaches every bank (refresh); a legal command sequence per
bank (executor).

## 2. Modules

| Module | Models |
|---|---|
| `AtomicStore` | what a controller promises: every request takes effect when it is accepted |
| `ControllerData` | `Controller::enqueue`, `tick`, `complete_pending`, `retire_or_advance`, `pop_response` with the `MemPhy` data FIFOs and the storage bytes |
| `ControllerDataProofs`, `AtomicStoreProofs` | theorems about `ControllerData` |
| `MCControllerData` | request shapes for TLC |
| `HostPort` | the tag protocol the system promises a frontend |
| `HostInterface` | `MemorySystem`; its controllers are what `ControllerData` promises |
| `HostInterfaceProofs` | theorems about `HostInterface` |
| `MCHostInterface` | instances for TLC |
| `Refresh` | `RefreshManager`: deadlines, credit, postponement, pull-in, rotation, self-refresh |
| `Maintenance` | the maintenance path of `Controller`, on top of `Refresh`: `pending_maintenance_`, the Priority queue, control commands, low-power entry and exit |
| `MaintenanceProofs` | theorems about `Refresh` and `Maintenance`, which implements the environment that `Refresh` assumes |
| `MCMaintenance` | configurations and control sequences for TLC |
| `DramSpec` | a device: geometry, timings, the table of constraints between commands |
| `BankProtocol` | command selection, state checks, executor, timing engine, RFM, row policy of one controller |
| `TraceValidator` | `validate_command_trace()` for the commands of one stack |
| `BankTrace` | `BankProtocol` and `TraceValidator` in lock step |
| `BankProofs` | theorems about `BankTrace` |
| `MCBanks` | seven small devices |
| `MemoryBackend` | the three kinds of backend, as operators on a backend |
| `MemoryImage` | row buffers, ECC shadow, images and processes on top of a backend |
| `StorageProofs` | theorems about `MemoryBackend` and `MemoryImage` |
| `MCMemoryImage` | three lines in two rows |
| `StackMap` | `StackAddressMapper` |
| `AddressMap` | `AddressMapper::decode` with every template |
| `Traffic` | the request streams of the frontend and the splitting of requests |
| `Workloads` | what a trace and the options of a run should fulfil and the program does not check |
| `DfiTrace` | `build_dfi_trace()`, `validate_dfi_trace()` |
| `FrontendRun` | a run from stream to merged command trace, over `StackMap`, `AddressMap`, `Traffic` and `DfiTrace` |
| `FrontendProofs` | theorems about `StackMap`, `AddressMap`, `Traffic` and `FrontendRun` |
| `FrontendDataProofs` | theorems about the data of a run, and about `DfiTrace` and the DFI trace of a run |
| `MCFrontend` | thirty-two workloads |

`ControllerData`, `BankProtocol` and `Maintenance` are three views of one
controller.  Each keeps the whole of its own part and leaves the others open:
which request is next and when (`ControllerData`), what a request's data is
(`BankProtocol`), which banks are open (`Maintenance`).  `HostInterface` and
`FrontendRun` rely on a controller through what `AtomicStore` promises.

### ControllerData

A byte of data is the `controller_sequence` of the write it came from (0 for
uninitialized, -1 for zero padding), so data tells which write a read saw.
`phase` splits a tick at the points where the state matters: `idle` (the
frontend may call `enqueue` or `pop_response`), `complete` (after
`MemPhy::tick`, before `complete_pending`), `column`/`row` or `unified` (one
per `choose`/`issue`).

| Code | Action |
|---|---|
| `enqueue`, read that hits the write buffer / other read | `ForwardRead` / `EnqueueRead` |
| `enqueue`, write to a buffered address / other write | `CoalesceWrite` / `EnqueueWrite` |
| `mem_phy_->tick` | `PhyTick` |
| `complete_pending` | `CompletePending` |
| `issue` of RD/WR from the active queue / from a read or write queue | `IssueActive` / `IssueQueued` |
| `issue` of ACT/ACT1 | `Promote` |
| `choose` without a candidate, maintenance, PRE, CAS, ACT2 | `IssueOther` |

Which bank is open and which timing gate has passed is not modelled: any
eligible request may be next, and any tick may issue nothing.  This gives every
schedule the code can produce, and more.  Also abstracted: queues and
`pending_`/`responses_` are sets (their order only decides which of several
candidates is first; when the response queue is nearly full any finished entries
may leave); `retain_responses` is on, as `MemorySystem` sets it; a refused
`enqueue` changes nothing here and is no step; statistics; the tick's early
return for low-power exit is an `IssueOther`.  One data command issues per
column or unified slot, so at most one PHY write matures per tick.

### HostInterface

`phase` is `idle`, `dispatch`, `work` (the controllers' ticks) or `collect`.
`turn` is the loop index of `dispatch_stack_ingress` and `collect_responses`.

| Code | Action |
|---|---|
| `try_submit`, `try_submit_maintenance`, `run`'s `enqueue` | `TrySubmit`, `SubmitMaintenance`, `BatchSubmit` |
| `set_response_delivery_mode` and the callback setters | `SetMode` |
| `dispatch_stack_ingress` | `Dispatch`, `DispatchRefused`, `DispatchDone` |
| the controllers | `Finish` |
| `collect_responses`, `aggregate_response` | `Collect`, `CollectBlocked`, `CollectNext` |
| `pop_response`, `pop_transaction_response` | `PopResponse`, `PopTransactionResponse` |
| the end of `run_source` | `DrainAtEnd` |

A capacity of 0 means "unlimited" in the code; the models use positive
capacities.  Address mapping is the choice of stack and channel.  Data, status
other than `InvalidTransaction`, and time stamps are left out.  `generation`
is a history variable that numbers the uses of a host id.  Callbacks that call
back into the system while it collects are not modelled.

### Refresh

All ranks are reset together and share one interval, so one countdown `left`
stands for every `next_refresh_cycle`, and `passed` counts the deadlines crossed
since the last `tick()`.  `Counted` is the credit after the first loop of
`tick()`; the four ways the call may end are four actions.

| Code (`refresh.cpp`) | Action or operator |
|---|---|
| `tick`, first loop | `Clock` (time passes), `Counted`, `PullsLeft` |
| `tick`, second loop: `can_postpone` / `continue` / batch | `Postpone` / `Waits` / `Repay` |
| `tick`, pull-in loop / nothing to do, or asleep | `PullIn` / `Rest` |
| `seed_refresh_batch` | `Seed`, `BatchSize`, and `Batch` in `Maintenance` |
| `set_self_refresh` | `SetSelfRefresh` |
| a refresh command leaves the queue (`retire_or_advance`) | `Serve` |

The two cursors of a rank are one: `cursor` counts positions over all SIDs.
`owed` and `outstanding` are history variables: what the deadlines passed awake
call for, and what was handed out and is not issued.  `RefreshNext` places the
manager below any controller that issues SREFEN and SREFEX after the manager's
`tick()` of the same cycle.

### Maintenance

A tick of the controller is a walk of `phase` through `ScheduleRefresh`,
`Service`, the issue of commands and `EndTick`; the frontend acts when the
controller is idle.

| Code (`controller.cpp`) | Action |
|---|---|
| `enqueue` of a read or write, low-power part | `Submit` |
| `enqueue` of a Maintenance request | `SubmitControl` |
| `tick` up to the wake-up check | `Tick` |
| `schedule_refresh` | `ScheduleRefresh`, which calls an action of `Refresh` |
| `service_pending_maintenance` | `Service` (`ExitFirst`, `Displaced`, `Fill`) |
| `choose` and `issue` of the head of Priority | `IssueRefresh`, `IssueMRW`, `IssuePDE`, `IssuePDX`, `IssueSREFEN`, `IssueSREFEX` |
| ordinary commands that open a bank, finish an active request, hit an open row | `Activate`, `FinishActive`, `HitOpenRow` |
| no command, or one that completes nothing (PRE, CAS, ACT2) | `IssueNone` |
| `tick`, automatic low-power entry | `EndTick` |

`asleep` is both `explicit_self_refresh_active_` and `self_refresh_active_` of
the manager, which are set together.  Ordinary requests are abstracted to which
queues hold any (`work`) and whether a row is open.  `blocked` and `idleFor`
are the distances of `low_power_exit_until_` and `low_power_idle_since_` from
the clock; `idleFor` stops where no comparison can tell it from later values.
How long a command stays in the pipeline of a Behavioral PHY is left open: it
only decides whether `done()` holds at the end of a tick (`EndTick`).  Left out: bank and bus timing (a
legal command may wait any number of ticks); RFM, the row policy's own
precharges, WCK training and DVFS are in `BankProtocol`.

### BankProtocol, TraceValidator

A tick is `Advance` and one step per command bus: `Column` and `Row` on HBM,
`Unified` on LPDDR.  A gate holds the ticks that are left until it opens instead
of the cycle at which it does, so the clock is no part of the state and the
reachable states are finite without a bound on time.

| Code | Action or operator |
|---|---|
| `enqueue` (queues), `schedule_maintenance` | `Submit`, `PendingAfter`, `PrioritySpace` |
| `tick` up to the buses: deadlines, `apply_row_policy` | `Advance`, `SchedulePrecharges` |
| `choose`, `pick_urgent_act2`, `pick_best_ready_command`, `pick_priority_if`, `select_scheduled_request` | `Offers`, `Urgent`, `Candidates`, `Satisfied`, `Before` |
| `check_command_state`, `timing_ok`, `would_close_active`, edge pairing | `StateLegal`, `TimingOk`, `WouldCloseActive`, `MayPair` |
| `try_upgrade_row_command` and `issue` with the executor, `TimingEngine`, RFM, `retire_or_advance` | `IssueChosen`, by `Issue`, `IssueCommand`, `BankAfter`, `GatesAfter`, `RfmAfter`, `QueueAfter` |
| a bus without a command | `BusIdle` |
| the throw of a missed ACT2 deadline | `Throws` |

Every request goes to a line of its own (order is the subject of
`ControllerData`), power states are in `Maintenance`.  A device's workload says
which requests may arrive, in any order and at any tick, and after how many of
them which maintenance command does.

`TraceValidator` translates the validator of its own source file and shares with
the engine the device table only, as the code does.  `BankTrace` replays every command
at once, so disagreement of the two is a state, and both gate tables are
compared on every path instead of on one recorded trace.

### MemoryBackend, MemoryImage

A line has two bytes; a byte is the number of the write it came from, so the
initialised mask is `data # 0`.  `flipped` and `shadow` say where an injected
error is and whether the shadow was computed over it.  The data, `.init` and
`.meta` files change together and are one function `file`; the bit maps are
mapped by both file backends and change at once, the header only when it is
written.

| Code | Action or operator |
|---|---|
| `store`, `ensure_chunk` (lookup, victim, read), `write_chunk`, `flush`, `clear`, `initialize_or_validate_header` | `Store`, `EnsureChunk` (`Cached`, `Evict`, `ReadChunk`), `WriteChunk`, `FlushChunks` and `FlushHeader`, `Clear`, `Open` (`MemoryBackend`) |
| `activate_row`, `precharge_bank`, `precharge_all` | `ActivateRow`, `PrechargeBank`, `PrechargeAll` |
| `read`, `write` with the lazily loaded columns | `Read`, `Write` |
| `flush_storage`; `dump_binary` + `load_binary`; `load_text` | `FlushStorage`; `Reload`; `LoadText` |
| `~MemoryImage`; the process is killed; a process opens the files | `Destroyed`; `Killed`; `Start` |

### Frontend

`Traffic` makes a stream a value and its next request a relation, so that random
traffic is a choice.  A byte is a tuple that names the write it comes from.
`FrontendRun` puts it through the system.

| Code | Action |
|---|---|
| `run_source`: fetch, end of the source, `enqueue` with `target_stack`, `target_channel` | `Fetch`, `SourceEnds`, `Enqueue` |
| `step`: dispatch, the controllers, the clock | `StepBegins`, `ColumnTurn`, `RowTurn`, `Finish` |
| `collect_issued_commands` | `IssuedCommands` |
| `build_dfi_trace`, `validate_dfi_trace` | `BuildTrace`, `ValidTrace` (`DfiTrace`) |

Simplified: a command's payload is attached when it issues (the code:
`annotate_issued_data`, when the data completes); which command a controller
issues is open except for the order of requests to the same bytes, and of control
commands, which issue in the order they came, as Priority does, and close rows first
(`PrechargeForControl`; only a REFDB may close more than it needs to, for its
partner bank is not computed); one request leaves a stack's ingress queue per step; `run_source` without the final drain;
"auto" control sequences are given by their resolved name; lines of a trace, maintenance lines (`M`) included, are their parsed fields, with
the number of bytes they spell out.  Addresses stay below 2^64, where the checked arithmetic of
the mapper cannot throw.

## 3. Runs

| Run | Shows | Bounds |
|---|---|---|
| `DirectOrder` | Direct PHY, one bus: `ExactlyOnePlace`, `BufferedIffQueued`, `ReadsSeeAcceptedOrder`, `NewestValueHeld` | 4 requests, 3 bytes, masked merge, reads that straddle two transactions, response queue of 1 |
| `BehavioralOrder` | The same order through the Behavioral PHY with two buses: every step of the controller is one of `AtomicStore` or a stutter (`ImplementsAtomicStore`); `PhyMatchesPending`, `StorageMovesForward` | 3 requests, FIFOs of 1 and 2, reads of 1 cycle and writes of 2 (a read can come back first), auto-precharge gate 3 |
| `OverlapOrder` | Overlapping requests: `NoFutureData`, `ActiveWritesNeverWait`, `EveryRequestAnswered` | 4 requests, FIFOs and response queue of 1 |
| `HostReassembly` | `TagOutlivesItsTransactions`, `SubmissionAccounts`, `AnswersAreWhole`, and that every step of the system is one of `HostPort` or a stutter (`ImplementsHostPort`) | 2 host ids, 2 channels, 3 accepted transactions, all queues short, modes Disabled, HostOnly, TransactionOnly |
| `HostDispatch` | `HostQueueHolds`, `DispatchInOrder` | 2 stacks, 2 QoS classes, mode Both, maintenance and batch traffic |
| `MaintenancePath` | `LedgerConserved`, `CountersFollowCredit`, `CommandsKept`, `RefreshesRotate`, `SleepsOnlyWhenIdle`, `WakesForWork`, `CommandsServed` | 2 ranks of 2 banks, deadline every 3 ticks, Priority queue of 2, automatic self-refresh with an MRW, automatic power-down, PDE and PDX with both PHY modes |
| `StorageDurable` | `ReadsSeeWrites`, `CountersCountLines`, `FlushedFilesAreComplete`, `ErrorsAreCorrectable` | 3 lines, 2 rows, 2 chunks, a cache of 1 chunk, all three backends, 2 writes per process, 2 processes |
| `Banks` | `ValidatorAccepts`, `ActiveRowsHeld`, `Act2InTime`, `RfmWaiting`, `AllServed` | 7 devices of 3 or 4 banks: HBM with and without edge pairing, LPDDR with ACT1/ACT2, closed cap, RFM of both scopes, DVFS and WCK training; 3 requests and up to 3 maintenance commands each |
| `FrontendData` | `ReadsReturnLastWrite`, `NeverThrows`, `MergedTraceLegal`, `DfiAccepts`, `DfiFaultsSeen`, `RemainingAddsUp` | 29 workloads of up to 4 lines: one for each of the 14 commands of an `M` line between a write and a read of one address, and 15 with 2 stacks or 2 channels, both stack maps, 4 templates, masks, bursts, lines shorter and longer than a host line, control prefixes, a run that is cut off at every cycle |
| `StaleForward`, `Act2Missed`, `ChannelHash` | counterexamples, section 5 | 3 to 4 requests |

Further configurations lie beside the runs.  Each shows a counterexample that
section 5 describes, and each is checked like a run:
`tlc -config <name>.cfg <module>`.

| Configuration | Module | Property that fails |
|---|---|---|
| `OverlapReorder` | `MCControllerData` | `ReadsSeeAcceptedOrder` |
| `UnequalMerge` | `MCControllerData` | `NewestValueHeld` |
| `ModeFlip` | `MCHostInterface` | `ModeChangesWhenQuiescent` |
| `WakeTwice` | `MCMaintenance` | `ControlsServed` |
| `CreditCap` | `MCMaintenance` | `RestsWithinLimit` |
| `EccMask` | `MCMemoryImage` | `ErrorsAreCorrectable` |
| `ClosedPageHang` | `MCBanks` | `AllServed` |
| `UnevenHint` | `MCFrontend` | `RemainingAddsUp` |

A run lists the properties it is the best place for.  `ReadsSeeAcceptedOrder` and
`NewestValueHeld` hold in `BehavioralOrder` too (`ImplementsAtomicStore` says more),
`ImplementsAtomicStore` in `DirectOrder`, `NoCircularWait` in `OverlapOrder`
(`EveryRequestAnswered` says more), `CapHeld` in `Banks`, and the `TypeOK` of
`HostInterface`, `MemoryImage` and `BankTrace` in their runs; each may be added to
the configuration.

Why the bounds are enough: a violation of read/write order needs two writes and
a read of a common byte and one more request to fill a queue or to be merged; a
tag can only be mixed up by a second use, so three transactions (a use of one
and a use of two) over two channels reach every order.  Queue capacities of one
or two make every queue full.

`DirectOrder` and `BehavioralOrder` keep transactions at one size and aligned (reads
in `DirectOrder` straddle), and `BehavioralOrder` uses no masks, because outside
those limits the properties are false: section 5 says how.

In `Maintenance` the only bounds are on the deadline: it is put off while
`MaxBacklog` commands wait or a rank owes `MaxCredit` refreshes, which stands for
an interval that is long compared to the time a command waits.  A Priority queue
of two is full with one refresh of each rank, so exits meet a full queue;
`CreditCap` raises `MaxCredit` because its property is about the credit.
`WakesForWork` speaks of configurations whose frontend sends no low-power command
itself, and `CommandsServed` of the refreshes of those with no control sequence at
all, under the open-page policy: section 5 says why.

In `Banks` three requests over two banks are enough for a row hit, a row conflict
and a bank that is needed by two owners; the timings are 1 to 4 ticks, with one
of 6 or 10 (the activation window) and of 7 (`nRCDRD` after a split activation), so that
every gate is the last to open on some path.  The workloads avoid a read and a
write of one row under a closing policy, and train the WCK but not DVFS frequency
changes in a row: section 5 says why.  In `StorageDurable` a third process would
only repeat what the second finds.  In `FrontendData` the two-line traces differ
in the digit that a wrong mapping loses.

### Fairness

* `WF(Tick)`, `WF(Step)`: the simulation loop calls `tick()`/`step()` until the
  work is done, and a tick runs to its end.
* `SF(IssueData)`, for `EveryRequestAnswered` in `OverlapOrder` only: a data command
  that is admissible again and again issues some day.  The gates left out of the
  model (JEDEC timing, maintenance, training) each open again after a bounded
  time, and `choose()` always takes a candidate that is ready.  It is strong
  because a column slot comes once per tick.  `OverlapOrder` has one command bus
  and no closing policy; on the two buses of HBM a closing policy can leave a read in
  the Active queue for ever (section 5, 7), so nothing is claimed of answers there:
  `BehavioralOrder` is about safety.
* `SF(PopResponse)`, there too: somebody takes the answers, as a system with one
  controller does after every tick (`collect_responses`, then the drain of `run_source`).
* `HostInterface` is about safety only.  `collect_responses()` starts at controller 0
  every time and returns at the first full queue (system.cpp:697), so a host queue
  of one entry and traffic that never ends can keep the other channels waiting for
  ever.
* `Maintenance`: `SF(Tick)` and `WF(InTick)` as above; `SF(SubmitControl)`, since
  dispatch offers a refused control command again; `SF(IssueHead /\ Unhindered)`,
  since the head of Priority is tried in every tick and its timing gates open in
  the end, where for a refresh `would_close_active()` must also find no active
  request; under the open-page policy `SF(FinishActive)` while Priority holds a
  command, since the Active queue comes first in `choose()` and no other request
  may join it.  Under a closing policy an active request may never finish (section
  5, 7), so the last is not assumed there.
* `WF(Running)` in `BankProtocol`: the simulation loop; a command that can issue
  does, since each bus step takes the command that `choose()` picks.  No strong
  fairness is needed there: which command is next is computed, not assumed.

## 4. Proofs

`ControllerDataProofs` proves, for all queue depths, latencies, request shapes,
both PHY modes and both bus layouts (from `ConstantsAssumption` and
`NoWriteAssumption` only):

* `TypeCorrect`: `Spec => []TypeOK`;
* `BufferedAgreement`: `Spec => []BufferedIffQueued`;
* `OnePlaceAlways`: `Spec => []ExactlyOnePlace`.

The first two come from one inductive invariant, `QueueInv` = `TypeOK`,
sequence numbers below `nextSeq` in the queues, uniqueness of queued requests,
and `BufferedIffQueued`.  The types need the agreement: `RetireWrite` reads
`buffered[r.addr]`, which is an entry and not `NoWrite` only because a queued
write's address is buffered.  The agreement in turn needs that a write enters a
queue only when its address is not buffered, so that retiring it may clear the
entry.  `PlaceInv` adds where every sequence number is; each action moves one
number from one place to the next, so it is proved by one lemma per kind of move
(`AcceptIntoQueue`, `AcceptIntoPending`, `QueueToPending`,
`PendingToResponses`, `PopPlaces`).

`MaintenanceProofs` is about `Refresh` and `Maintenance`, for every number of ranks,
banks and pseudo-channels, every policy, interval and limit, every queue size,
configuration and control sequence (from `RefreshAssumption` and
`MaintenanceAssumption` only).  Of the manager alone:

* `RefreshTypeCorrect`: `RefreshSpec => []RefreshTypeOK`;
* `CountersAgree`: `RefreshSpec => []CountersFollowCredit`;
* `LedgerAlwaysConserved`: `RefreshSpec => []LedgerConserved`.

The three are inductive together (`RefreshInv`).  `Repay` may reset
`postpone_count` only because the counted credit is positive when it hands out a
batch; the ledger is stated with `Counted`, so that counting deadlines changes
nothing in it, and needs `passed = 0` when self-refresh begins or ends: a
deadline still uncounted then would be forgotten, or be counted though it was
passed asleep.  The controller provides exactly that: `ImplementsManager` is
`Spec => RefreshSpec` of `Maintenance`, by the invariant `DeadlinesCounted` (after
`schedule_refresh` no deadline is uncounted until the tick ends).  With it
`ControllerKeepsLedger` and `ControllerKeepsCounters` carry the two properties over
to the specification that `MaintenancePath` checks.

Of the two queues of maintenance commands:

* `MaintenanceTypeCorrect`: `Spec => []TypeOK`;
* `CommandsAreKept`: `Spec => []CommandsKept`;
* `RefreshesKeepRotation`: `Spec => []RefreshesRotate`;
* `SleepsIdle`: `Spec => SleepsOnlyWhenIdle`;
* `OneExitWaits`: `Spec => []OneExit`, what the comment at `Fill` says.

The queues are seen as one line, Priority and then `pending_maintenance_`.  Two lines
have the same order of a class of commands when a bijection of the places of the class
keeps position and command (`SameOrder`); it is reflexive, transitive and respects
concatenation, so that each way in which `service_pending_maintenance()` moves commands
is a chain of a few moves of pieces (`ServiceSame`).  A count and a rotation depend on
that order only (`SameCounts`, `SameRotates`).  The invariant `MaintenanceInv` adds to
the properties `EntryStands` (while the frontend submits no low-power commands, at most
one SREFEN waits, it is the automatic one, `automatic` stands for it, and there is no
work) and `OneExit`.  Neither `CommandsKept` nor the types are inductive alone: that no
more MRW commands issue than were submitted follows from the count of those on their
way, and the count from the type of the queues.

The second part of `ControllerDataProofs` goes on from `PlaceInv`.  Its theorems hold for
requests that overlap in any way, under no further assumption:

* `ActiveWritesAlwaysFree`: `Spec => []ActiveWritesNeverWait`.  A write becomes
  active only when no older read of its bytes waits, and a step never makes a
  read of bytes that was not there before, except for the one it accepts, which
  is newer (`ReadsFollow`, proved once for all actions).
* `PhyAlwaysMatches`: `Spec => []PhyMatchesPending`.  The invariant `PhyInv` adds that
  every number in a FIFO or among the completions of the PHY belongs to one
  pending entry, and that a PHY in Direct mode is empty.
* `NoReadSeesTheFuture`: `Spec => []NoFutureData`, by `OrderInv`: every byte anywhere
  is of a request that was accepted (`ValuesUsed`), a write that has reached the
  storage, or will without another check, is older than no waiting read of its
  bytes (`ReadersBefore`), and a sampled read holds only older bytes
  (`SampledBefore`).

`AtomicStoreProofs` proves what the frontend relies on, in both PHY modes, for writes
of which two to one address cover the same bytes and two to different addresses
none in common (`Aligned`; masks are allowed):

* `NewestAlwaysHeld`: `Spec => []NewestValueHeld`;
* `StorageNeverGoesBack`: `Spec => StorageMovesForward`.

For the answers a Behavioral PHY needs one hypothesis more (`Forwardable`): a read that
meets a write reads enabled bytes of that write only.  A Direct PHY needs none, so
reads may straddle transactions there:

* `ReadsAlwaysInOrder`: `Spec => []ReadsSeeAcceptedOrder`;
* `ControllerImplementsStore`: `Spec => ImplementsAtomicStore`, by the mapping `Owed`.

The constants of `DirectOrder` and `BehavioralOrder` satisfy the hypotheses
(`AlignedAssumption` of `MCControllerData`), and they are needed: `UnequalMerge`,
`OverlapReorder` and `StaleForward` are counterexamples without them.

A value goes from its entry of the write buffer through a slot of the PHY write FIFO
to the storage, and the invariant `StoreInv` follows it.  `Settled(b, v)` says that the
storage will hold `v` at `b` once the PHY has committed what it holds.  An entry has
the span of its transaction and the newest values (`EntriesAligned`, `EntriesNewest`),
the storage will hold them where no entry does (`StorageNewest`), and values never get
older on their way up (`ValuesInOrder`).  No two slots commit in one tick, because a
tick issues one data command (`SlotsInOrder`), and each belongs to a pending write,
where `has_unresolved_overlapping_write` finds it (`SlotsPending`).  The storage will
hold what every waiting read expects, because the queued writes that would change it
are newer than the read (`ReadersOwed`); once its data command is issued no slot
covers its bytes any more, and what the PHY sampled is what it expects
(`ReadersClear`).  `AnswersExpected` adds that what is answered is what was expected.
Three steps carry the proof: retiring a write, whose entry may cover a waiting read
only if the read is newer, which `ReadersOwed` excludes, or older, which
`candidate_eligible` does; issuing a read, which meets no slot; and a PHY tick, whose
commit changes nothing that is settled (`TickSettles`).

`HostInterfaceProofs` is about `HostInterface`, for every number of hosts, stacks and
channels, all queue sizes and every order in which controllers answer.  For a system
whose frontend never switches back to mode Disabled (`"Disabled" \notin SetModes`; it
may start in it) and does not call `run()` on it (`~BatchCalls`):

* `TagsOutlive`: `Spec => []TagOutlivesItsTransactions`;
* `SubmissionsAccounted`: `Spec => []SubmissionAccounts`;
* `AnswersWhole`: `Spec => []AnswersAreWhole`;
* `HostInterfaceTypes`: `Spec => []TypeOK`, with the stated bounds of every queue;
* `KeepsPortProtocol`: `Spec => ImplementsHostPort`, the refinement to `HostPort`.

The invariant `IInv` has two halves.  `FlowOK` is about requests: each is in exactly one
of the ingress queues, the controllers and their answers, at its own stack and
channel, with a sequence number of its own.  `HostInv` is about one host: what travels
is of the registered submission and of its generation (`Fit`), `completed` counts what
does not travel (`Counted`), and either something is missing and the assembly holds
what is done, or nothing is missing, the assembly is gone and the host queue holds the
one whole answer (`Staged`).  `Staged` is what the properties alone do not give: the
step that completes a submission publishes the answer from the assembly.  Most
actions concern one host, so that `HostFrame` and one lemma per kind of step
(`SubmitHost`, `CollectHost`, `PopHost`) carry the argument.  `run()` on the
same system puts transactions in that belong to no submission, and `ModeFlip` shows
what a change of the mode can do.

With no assumption, `run()` included, by the smaller invariant `QInv`:

* `HostQueueNeverOverflows`: `Spec => []HostQueueHolds`;
* `DispatchesInOrder`: `Spec => DispatchInOrder`.  An ingress queue is in the order of
  acceptance (`Ordered`), and a queue that is not empty has a best request
  (`BestExists`).

`FrontendProofs` goes from the addresses to a whole run, for every geometry, mapping
order, channel mapper, number of stacks, control sequence, trace and random or
strided stream (`SetupAssumption` gives the types of the options, and what
`parse_trace_line()`, `generate_control_sequence()`, `random_start_count()`,
`validate_spec()` and the constructor of `MemorySystem` refuse):

* the two stack maps are bijections: `EncodeUndoesDecode`, `DecodeUndoesEncode`,
  `StacksDoNotAlias`, `StripesStayTogether`.  The arguments are about quotients and
  remainders; the prover has no arithmetic for products of two variables, so what
  is needed of them is in the lemmas `Division` and `DivisionUnique`;
* `CoordinatesAreUnique`: two addresses below the volume of a stack with the same
  coordinates lie in one transaction, under every template.  `Digests` says what
  is left of an address after some of its digits are taken; every template takes
  every digit once (`TemplateNamesDigits`);
* `FrontendTypeCorrect`: the types of a run (`FrontendTyped`).  They say more than the
  width of fields: a queued transaction belongs to the stack and channel of
  its queue, its coordinates lie in the organization, the columns of an open row
  are whole lines, a stream never hands out more than it split.  Every
  turn of a controller is one of five effects (`Effect`), so that an invariant
  about command histories looks at five cases and not at the fold that computes
  the bytes.  Folds are recursive functions chosen by CHOOSE; that there is one is
  proved by induction on finite sets for `FoldSet` (`FoldExists`) and on
  naturals for `Xor` (`XorsExist`);
* `MergedTracesAreLegal`: `Spec => []MergedTraceLegal`.  The invariant `ChannelsLegal`
  is about one controller at a time: a row that is open was opened by an ACT in
  its history with no precharge of the rank since (`RowsOpened`), every column
  command was issued while its row was open (`ColumnsOpened`), and the cycles of
  a history do not decrease (`CyclesOrdered`).  Commands of one controller keep
  their order in the merge, which is what `stable_sort` must give (`MergedIsLegal`);
* `WorkloadAddsUp`: `Spec => []RemainingAddsUp`, if every setup satisfies
  `CountsLines`.  The invariant `Counted` says that the transactions handed out and
  those in `pending_` are the ones of the control commands and host lines emitted,
  and `OnCourse` where in its trace a stream stands when it has emitted that many.
  `CountsLines` has three parts.  `remaining_hint()` (traffic.cpp:883) multiplies the
  control commands and the lines of a trace that are left by the transactions of a
  host line.  A control command of a sequence is one transaction: the hint is exact
  if there are none or a line has one transaction (`WeighsControls`).  A maintenance
  line is one too, and a line that spells out its bytes has as many as those take:
  the hint is exact if every line of the trace has the transactions of a host line
  (`WeighsLines`), and `UnevenHint` shows that it must be assumed.  And the trace is
  as long as its limit (`LongEnough`);
* `RunsNeverThrow`: `Spec => []NeverThrows`, if every setup is a `SoundWorkload`.  The
  invariant `Smooth` says of the stream and the cycle of the last request that
  what comes next is not earlier (`OnTime`: through the control sequence, the
  shift behind it, the multiples of `inject_interval` and the bursts of a trace),
  that every write before the current line of the trace is remembered
  (`Recorded`), and that what waits in `pending_` can be delivered in the same
  cycle (`WaitsInOrder`).  `SoundWorkload` is what the program does not check
  of a trace before it runs: the lines are in the order of their inject cycles (`InOrder`), a
  `last_write` follows a write of the same address and stack (`Covered`), and
  addresses are in the stacks (`InReach`).  A random stream reaches all addresses
  below the capacity, and those are in a stack unless the capacity of a
  stack is no multiple of the stripe (`RandomReaches`, `AddressesLocated`).

`FrontendDataProofs` proves, on top of it, what a frontend wants of the memory:

* `ReadsGetLastWrite`: `Spec => []ReadsReturnLastWrite`, if every setup is a `SoundWorkload`
  and `Straight`: addresses are those of transactions, the channel is one of the
  coordinates (`decoded`, or a single channel), and no LPDDR efficiency mode drops a
  digit.  `ChannelHash` shows the second to be needed.  The invariant `BytesKept`
  follows each byte of each stack along its way.  A line is in the open row of its
  bank or in the backend (`View`), a column of an open row belongs to the line with
  its coordinates and a clean row says what the backend says (`InPlace`).  The line
  then becomes what the transactions in front leave of it (`Leaves`): the queue of
  its controller and behind it the ingress queue of its stack, as one sequence
  (`Path`).  Every read on that sequence is owed what those in front of it leave
  (`Owing`), and behind all of them comes the memory of the stream (`Settled`), except
  that the memory already holds a host line of which some transactions are still
  to be handed out; those are of one kind and for different lines (`OneHost`).
  Serving a transaction out of turn is sound because none in front of it is for the
  same line (`Unordered`), and because two lines never meet in a column
  (`HomesDiffer`, from `CoordinatesAreUnique`); opening and closing rows changes no
  line (`OpenLine`, `FlushLine`).
* `ValidTracesAreComplete`: a DFI trace that `validate_dfi_trace()` accepts is exactly
  what the commands ask for, whatever the commands and the events, in what it looks
  at (`LookedAt`): all of a beat, all but the data of a command event (dfi.cpp:443),
  where the code builds none.  Every event has
  its command and is what that command calls for at its beat (`Expects`), every command
  has its own event, every data command all its beats, and none is there twice: the
  validator counts the events of a command, and different beats of the right number
  leave no room for a repetition.
* `BuiltTracesAreValid`: what `build_dfi_trace()` builds is accepted, if commands have
  different keys and every read returns the bytes it expects.  Each command has its
  event and its beats at a place of their own in the concatenation (`PlacedIn`).
* `DamageIsSeen`: `Spec => []DfiFaultsSeen`, without hypotheses.  It follows from the
  first of these, from the types of a run and from the order of the merge: a
  damaged trace has an event that no command calls for, has one twice or lacks one.
  Damage to the bytes is damage to a beat: a command event with other bytes is
  accepted.
* `TracesAreAccepted`: `Spec => []DfiAccepts`, under the hypotheses of `ReadsGetLastWrite`
  and if the checks of a trace hold by what is written in it (`ChecksHold`): a check is
  for the last write, and that wrote all bytes the read covers, unmasked and to the
  same address and stack.  A masked write is remembered as it was sent, so that a
  `last_write` after it is a wrong expectation.  Two invariants are added.  `TurnsKept`: a
  controller issues at most one column and one row command in a cycle, so that stack,
  channel, cycle, kind and id tell the commands of a run apart although every
  controller numbers its own maintenance from the same start.  `Promised`: from the
  stream to the log, what is expected of a read is what is owed to it, because what
  `last_writes` remembers of a line is still in the memory of the stream (`Backed`).
  With `BytesKept` it is what the read returns.

The hypotheses about a workload are in `Workloads`, they say nothing of what a run does,
and TLC evaluates them for the workloads of `FrontendData` (`WorkloadAssumption` for all
29, `StraightAssumption` for 27 of them), so that theorem and run are about the same
thing.

`StorageProofs` proves the four invariants of `StorageDurable` for every number of
lines, chunk size, cache limit, map of lines to banks and rows, and set of setups:

* `ReadsSeeEveryWrite`: a read returns the last bytes written (`ReadsSeeWrites`);
* `CountersAreRight`: `CountersCountLines`;
* `FilesAreComplete`: after a flush the files alone hold everything
  (`FlushedFilesAreComplete`), so that `Killed` and `Start` lose nothing;
* `ErrorsCanBeFound`: `ErrorsAreCorrectable`, with the hypothesis `Correctable`: no
  injected errors, or only whole lines written and no image loaded.  `EccMask`
  shows that it is needed.

First the backend.  `EnsureIsTransparent` (loading a chunk and evicting another
changes no line), `StoreWritesOneLine` (a line reads as stored and all others as
before, whichever kind of backend and whatever the cache holds) and
`CountKeepsCounters` make a backend `Sound`: its cache is `Coherent` (chunks whole
and cached once, clean ones agree with the file), the counters count, and the
written lines are those with a version.  The code loops over columns, banks,
chunks and dumped lines; the model folds.  The fold of the community modules is
a recursive function on subsets, chosen by CHOOSE: `FoldExists` shows that there is
one, by induction on finite sets (`SubsetInduction`, from well-foundedness of <
on cardinalities), and the same induction then gives what the loop stored:
`ClosingStores` (rows), `FlushIsSound` (chunks) and `ReloadStores` (a dump).

The invariant `ImageInv` has five parts.  `Shape`: types, a sound backend, columns of
a row buffer in the row and bank they belong to.  `CleanRows`: a row that is not
dirty says what the backend says, which is why it may be dropped; a correction
made in it need not be written back, because it changes no byte that was
written.  `ContentSeen` is `ReadsSeeWrites` also between two processes.
`NothingPending`: after a flush no row and no chunk is dirty and the header
holds the counters; `load()` may evict, but what it evicts is clean then.
`ShadowsFit`: a shadow was computed over right bytes, in rows and backend alike.

`BankProofs` is about `BankTrace`, for every device of the shape that
`DeviceAssumption` gives (any number of banks, queue sizes, timings and table of
constraints), every number of requests and every arrival order:

* `RowsStayOpen`: no step closes the row that a request of the active buffer needs
  (`ActiveRowsHeld`), under the open-page policy;
* `Act2NeverLate`: no ACT2 misses its deadline (`Act2InTime`), under the open-page
  policy, and under `closed_page` where activates are not split;
* `RfmIsAsked`: a bank or rank that owes a RFM command has it queued once, and no
  count passes the threshold (`RfmWaiting`), under the open-page policy;
* `ValidatorAgrees`: the offline validator objects to no command of any trace, and
  accepts the trace when every queue is empty (`ValidatorAccepts`).

The hypothesis is `Covered`, which names what a device and its driver may be: not
`closed_page` on LPDDR, where `Act2Missed` shows the deadline missed; not
`closed_cap`, whose own precharges are model-checked only; edge pairing on a row
bus of its own; reads and writes to existing banks; maintenance as the device has it, without a RASERR
between ACT1 and ACT2 (it holds the row bus back for any number of cycles) and
without RFM commands of the frontend, which the manager would count as its own.
Five of the devices of `Banks` satisfy it, which TLC evaluates (`SomeCovered`).  The invariant `Kept` has
five parts:

* `Shape`: what each queue holds, and that only a split activate leaves a bank half
  open.  The phase of the bus is part of it, since `bus_matches()` depends on it.
* `Ownership`: the active buffer has one request per bank, and a half open bank
  has the request of its ACT1 there.  It makes the buffer large enough for every
  activate: without it `retire_or_advance()` could leave a request outside the
  buffer with its row open, where nothing protects it.
* `Deadlines`: at every half open bank the ACT2 gate opens and the row bus is free
  by the deadline, and no two half open banks have the same deadline.  `timing_ok()`
  allows one ACT1 per rank, so there may be several; they share one bus, which
  starts one per tick, and `pick_urgent_act2()` serves the one that is due before
  anything else.
* `Agreement`: what the validator keeps for itself equals what the controller and
  the bank state machine keep.  `validator.cpp` and `controller.cpp` reach those
  values along different ways, so each has its own argument: bank states after
  every command (`SameBank`), the request, row, earliest and latest tick of the
  ACT2 that a half open bank waits for (`SameActivation`), the ticks left of every
  gate of the rule table (`SameRules`), the set of banks of a dual-bank sweep and
  the tick it may go on (`SameSweep`), both ends of the WCK window (`SameWindow`),
  activation windows, the DVFS lock and the edge of a row command (`SameModes`).
  From equal values and the checks that the controller makes before a command,
  each of the validator's checks is met (`StateAgrees`, `TimingAgrees`,
  `BusAgrees`, `WindowsAgree`, `SweepAgrees`).  The check of `notAfterMax` needs
  `Deadlines` and that of the same request and row needs `Ownership`, which is why
  the parts are one invariant.
* `RfmInv`: Priority and `pending_maintenance_`, as one line, hold each command that
  `RfmManager` waits for once and no other RFM command (`Queued`), and a count at
  the threshold has its command there (`Counted`).  The count cannot pass it
  because an activate is taken from the read and write queues only while Priority
  is empty, and then `pending_maintenance_` is empty too (`Overflow`).

Only model-checked, and why:

* liveness and deadlock freedom, which are out of the prover's reach;
* `CapHeld` of `BankTrace`, whose precharges come from a sorted sequence;
* `ReadsReturnLastWrite` of `FrontendRun` for transactions that cross a line, and for the
  channel hash where no two of the requested lines share their coordinates, and
  `DfiAccepts` for the same two workloads.

## 5. Disagreements found

1. `StaleForward`: `read_forward_payload` (controller.cpp:992) overlays the write
   buffer on the storage and does not see a write that has left the buffer and is
   still in the Behavioral PHY.
2. `OverlapReorder`: `candidate_eligible` (controller.cpp:1218) does not order
   overlapping writes with different start addresses.
3. `UnequalMerge`: a shorter unmasked write to a buffered address replaces the
   whole entry (controller.cpp:247), and bytes of the older write are lost.  With
   `WriteShapes <- UnequalMaskedWrites` the same run shows a second form: a longer
   masked write (controller.cpp:256) enables the zero padding of the old entry.
4. `ModeFlip`: `try_submit` (system.cpp:506) switches the delivery mode on while
   transactions are in flight, which `set_response_delivery_mode` forbids.  Parts
   discarded before the switch are never assembled, so the passing runs start a
   system in mode Disabled only before its first submission.
5. `WakeTwice`: while a self-refresh of the frontend's control sequence lasts,
   anything else that waits makes `tick()` schedule a SREFEX of its own
   (controller.cpp:612).  The frontend's SREFEX arrives later through
   `enqueue()`, which does not look for another one as `schedule_maintenance()`
   does (controller.cpp:1995); it reaches the head of Priority outside
   self-refresh, is never legal and blocks the controller for good.  The PDX that
   `enqueue()` schedules for a request (controller.cpp:177) duplicates the
   frontend's PDX in the same way.
6. `CreditCap`: `refresh_credit_limit` is checked only when a deadline is new for
   a rank (refresh.cpp:69).  With two ranks one acts per tick, and the others are
   passed over by the `continue` of refresh.cpp:88, so their credit grows past the
   limit while work lasts.
7. `Act2Missed`: `would_close_active` (controller.cpp:1535) protects the row of an
   active request from precharges and refreshes and not from the auto-precharge of
   another request's RDA or WRA.  Under `closed_page` a write closes the row of an
   active read, which then needs a second activation whose deadline is long past,
   and `tick()` throws.  On HBM the same step leaves the read in the Active queue,
   which the row bus never looks at (controller.cpp:1108), so that it waits for
   ever: configuration `ClosedPageHang`.
8. `ChannelHash`: with `channel_mapper = xor` the channel is a hash of the line
   address (system.cpp:380) and the rest of the coordinates still comes from the
   default template, in which the channel digit is then lost: two lines that differ
   in it only share bytes of one channel's row.  `hbm.cfg:56` ships this setting.
   `round_robin` and the LPDDR efficiency modes (addr_map.cpp:112) lose a digit in
   the same way.
9. `EccMask`: `src/src/core/README.md:43` says that a shadow is refreshed after a
   write and can correct a single bit error when the line is read.  A masked write to the
   other byte of a line with an injected error computes the shadow over the wrong
   byte (data.cpp:1861), and the error can no longer be seen.  `dump_binary` and
   `load_binary` have the same effect.
10. `UnevenHint`: `request.hpp:110` says that `remaining_frontend` is the number of
   requests not yet submitted, or a lower bound.  `remaining_hint` (traffic.cpp:883)
   takes every line that is left for a full host line: an `M` line is one
   transaction, and a hex payload may be of any length (traffic.cpp:151; the lines of
   `examples/data_check.trace` have 4, 8 and 16 bytes).  Where a host line is more
   than one transaction the number may be too high or too low.

Met while modelling, and kept out of the passing runs:

* Maintenance.  Three combinations stop the controller:
  PDE while `low_power_mode = self_refresh` (the snapshot of controller.cpp:2147
  then reports self-refresh and PDX is illegal), a control command alone during
  automatic power-down (only an ordinary request wakes the controller), and
  MRW, PDE or SREFEN under the open-page policy (they wait for rows that nobody
  closes, controller.cpp:1488).  A refresh between PDE and the PDX of the frontend
  stands at the head of Priority and is refused by a Behavioral PHY
  (mem_phy.cpp:143), so the PDX behind it is not reached.
* Storage.  `~MemoryImage` flushes the backend and not the dirty rows, which only
  `flush_storage` writes back.  A correction made by a read of a clean row is lost
  when the row closes.  Reading an unwritten line of a row that is dirty allocates
  the line at write-back.  `load_text` does not look at open rows, `load_binary`
  that fails midway leaves a prefix, version numbers start again after a restart.
  `check_ecc_shadow` (data.cpp:1199) calls some single-bit errors uncorrectable:
  those at code positions with an odd number of ones (7, 11, 13, ...).  No consistency after a kill
  between flushes is promised.
* Banks.  The completion of an RDA or WRA precharges the bank in the storage
  (controller.cpp:819) although a newer row may be open there.  `PREAB` does not wait for
  `nRAS`, `nRTP` and `nWR`, and a `REFAB` may follow a `REFAB` after one cycle on
  HBM, since the table has no entry.  `closed_cap` lets `cap + 1` data
  commands use an opening.  `--init-sequence lpddr6_full` stops as in `WakeTwice`.
  A `RASERR` between ACT1 and ACT2, a `DVFS` whose training is owed when
  `WCKTRAIN` is refused, a PHY FIFO that is full at the deadline of an ACT2, and a
  WCKSYNC, whose window executor and validator compute differently, are left out
  of the workloads.
* Frontend.  An unaligned request across a stripe of two stacks is sent whole to
  the first (`W 0xF0` of 32 bytes with stripes of 256, then `R 0x100`).
  `remaining_hint` takes the control commands of a prefix for host lines too.  An
  `M PREAB` for a rank with no open row is never legal (state.cpp:30) and stays at
  the head of Priority; a `PREPB` of a closed bank is dropped there (controller.cpp:1259).  `expect=auto` on a single-line read computes the payload from
  the reader's own id.  `last_write` looks neither at byte masks nor at
  overlaps.  `prepend_control_sequence` shifts ids and not host request ids.
  The manual's form `BW 0x2000 256` of a burst is not accepted by the parser.

## 6. Not modelled, and what is left

* `StackModel` (stack_model.cpp): a passive array driven by an external bridge.
* The CLI, configuration, statistics and result files: text and formatting
  without state that outlives a call.  The Python tools: offline analysis.
* Device profiles, `jedec.cpp`: constants and their conversion from nanoseconds
  to cycles.  The models take the counts as constants.
* Retention, disturbance, power and thermal estimates of the storage, and the
  arithmetic of the SECDED code: floating-point formulas and bit tables.
* Physical addresses of repaired rows, the signal-level DFI trace, error limits of
  the validators, CSV reading.
* Callbacks that call back into a `MemorySystem` that is collecting, and the
  starvation of a lower class under `StrictPriority`, which is what that policy
  asks for.

Left to do, in this order: training and power states of
`MemPhy` as a module of their own; `BankProtocol` composed with the request order
of `ControllerData`, so that forwarding and open rows meet in one state.
