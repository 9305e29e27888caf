# DIFCVerilog in TLA+

DIFCVerilog is Icarus Verilog 0.9.6 with a security extension. `iverilog` compiles Verilog; with `-z`
it also walks the parsed design and writes the labelled signals and the flows between them; a Prolog
program, the DIFC backend, decides from these two files which signals receive labels they may not hold.
`vvp` runs compiled designs. This directory holds TLA+ models of the parts that carry this logic, the
TLC runs that check them, and TLAPS proofs. Paths below are relative to the repository.

- [1. The system](#1-the-system)
- [2. The models and the code](#2-the-models-and-the-code)
- [3. What the runs check](#3-what-the-runs-check)
- [4. What is proved](#4-what-is-proved)
- [5. Disagreements between the code and its words](#5-disagreements-between-the-code-and-its-words)
- [6. Not modelled](#6-not-modelled)
- [7. Plan](#7-plan)

## 1. The system

```
 .v files -> ivlpp -> lexor/parse.y/pform -> parsed modules --- -z ---> typecheck.cc
                                                  |                      | X_nodes.txt, X_steps.txt
                                        elaborate, netlist,              v
                                        cprop, synth, ...         difc_backend.pl -> X_main.out
                                                  |
                                        t-dll -> tgt-vvp (or another target)
                                                  | .vvp file
                                                  v
                                   vvp: compile -> schedule loop <-> threads, functors, events
                                                        ^                     |
                                                        +-- VPI callbacks <---+   vpi/ system tasks
```

| Part | State it keeps | Operations | What is hard about it |
|---|---|---|---|
| **DIFC front end** `typecheck.cc`, `sectypes.*`, `check_expr.cc`, part of `PExpr.cc` | two levels of instances still to visit; static sets of what was seen; marks in the parsed modules; the label of each declaration and of the current condition; the text of the conditions around a statement; two output files | one visit per instance: generate schemes, the node lines, gates, continuous assignments, processes, every kind of statement | the parsed modules, their marks and their labels are shared by all instances of a module; conditions are saved and restored around every kind of statement; an unimplemented construct throws out of the middle of a module |
| **DIFC backend** `difc_backend.pl` | a Prolog database of `node_state` clauses, the `inferred_label` reasons, the reports | load; inherit labels along edges until stable; rescan the steps, unioning taints, until one whole scan is quiet; report | the order of lines and clauses must not matter; several clauses can share a name; verdicts are taken only by a step that changes a taint; names are matched by underscore prefix |
| **vvp scheduler** `vvp/schedule.*` | a list of time steps with relative delays, six event lists in each, flags for `$stop` and `$finish` | `schedule_event_` and its callers, the loop of `schedule_simulate`, `run_rosync` | whatever runs schedules more, in any list and for any later time, while the step it belongs to is being drained; only differences of times are stored |
| **vvp threads** `vvp/vthread.*`, the waiting lists of `vvp/event.cc` | the threads: one stack of children, a circular list per scope, flags that say who holds a thread | `%fork`, `%join`, `%end`, `%disable`, `%wait`, `%delay`, reaping, deferred deletion | `%disable` recurses through children that may have ended, wait, be scheduled, be in the same list or be the running thread; a thread is freed on the word of its flags |
| vvp functors `vvp/vvp_net.cc`, `logic.cc`, `delay.cc`, `resolv.cc`, `udp.cc`, `vvp_island.cc` ... | input values, pending values, a "scheduled" mark | receive a value, compute, propagate, possibly later | one scheduled run stands for many inputs; pulses are cancelled; islands resolve to a fixed point |
| VPI in vvp `vvp/vpi_callback.cc`, `vpi_*.cc` | one list of callbacks per object, one per phase of the simulation | register, remove, run | callbacks register, remove and trigger callbacks while a list is being walked |
| VPI modules `vpi/` | files, queues, the state of the waveform dumpers | system tasks and functions | the dumpers write from value change callbacks, from the end of the step and from the middle of it; counters of two words; rings at their limit |
| compiler `parse.y` ... `elaborate.cc` ... `t-dll.cc`, `tgt-*` | syntax trees, the netlist | transformations that run once, in sequence | large data, little order |

They interact through files (front end → backend, compiler → vvp), through calls into the scheduler
(threads, functors, events and VPI all schedule events and are run by it), and through shared memory
inside `vvp` (a thread sits in the queue, in an event's list, in a scope's list and in its parent's stack
at once). Everything in `vvp` runs on one thread: the interleavings are those of simulated processes.
The one asynchronous event is SIGINT, which sets `schedule_stopped_flag`.

What makes each part correct, in a sentence: the front end loses no signal and no flow and invents none;
the backend's taints and verdicts are the least ones closed under the recorded flows; the scheduler runs
every event at its time, in the order of the regions; a thread that can go on is held by exactly one
queue, event or `%join`, and a deleted one by none; a functor's output ends up as the function of its
inputs; a callback runs once if it is not removed and never afterwards; a waveform file tells the values
the signals had.

`PROJECT.json` lists every component, and under `hazards` each place where the code is exposed to one of
the problems above.

## 2. The models and the code

| Module | Extends / uses | Models |
|---|---|---|
| `DifcBackend` | | `difc_backend.pl`, all of it but output wording |
| `DifcBackendProps` | `DifcBackend` | the same results as least closures, and the properties |
| `MCDifcBackend` | `DifcBackendProps` | small node and step files |
| `DifcBackend_proofs` | `DifcBackendProps`, TLAPS | eight theorems, among them that the backend computes least closures |
| `DifcFrontend` | | `typecheck.cc` from `typecheck()` down, the label objects of `sectypes.cc` |
| `DifcFrontendProps` | `DifcFrontend` | instances, signals and flows of a design by recursion over it, and the properties |
| `MCDifcFrontend` | `DifcFrontendProps` | small designs, and one with two instances of a module |
| `DifcPipeline` | `DifcFrontendProps`, instance of `DifcBackendProps` | front end, files, backend |
| `MCDifcPipeline` | `DifcPipeline`, `MCDifcFrontend` | 333 designs |
| `EventQueue` | | abstract: what `schedule.h` promises |
| `VvpSchedule` | instance of `EventQueue` | `schedule.cc`, all of it but the event types' own `run_run` |
| `VvpSchedule_proofs` | `VvpSchedule`, TLAPS | seven theorems, among them that it implements `EventQueue` |
| `VvpThread`, `MCVvpThread` | | the opcodes of `vthread.cc` that create, stop, wake or free a thread |
| `VvpThread_proofs` | `VvpThread`, TLAPS | seven theorems |
| `VvpDelay`, `MCVvpDelay` | | `delay.cc`: a delay functor that drives a module path |
| `VvpDelay_proofs` | `VvpDelay`, TLAPS | two theorems |
| `VpiCallback`, `MCVpiCallback` | | `vpi_callback.cc` and the two walks elsewhere that are like its own |
| `VpiCallback_proofs` | `VpiCallback`, TLAPS | three theorems |
| `VvpNet`, `MCVvpNet` | | fan-out chains, functors, signals with assignment and force (`vvp_net.cc`, `logic.cc`, `part.cc` ... and the opcodes that relink) |
| `VvpNet_proofs` | `VvpNet`, TLAPS | one theorem |
| `VvpIsland`, `MCVvpIsland` | | `vvp_island.cc`, `island_tran.cc` |
| `VvpIsland_proofs` | `VvpIsland`, TLAPS | two theorems |
| `QueueService` | | abstract: the queue tasks of IEEE 1364 |
| `SysQueue`, `MCSysQueue` | instance of `QueueService` | `vpi/sys_queue.c` |
| `SysDump`, `MCSysDump` | | the `$dump` tasks: `vpi/sys_vcd.c`, `sys_fst.c`, `sys_lxt.c`, `sys_lxt2.c`, `vcd_priv.c` |
| `SysDump_proofs` | `SysDump`, TLAPS | five theorems |

In every module one action is one handler or one iteration of the code's loop, named after the function
where the function has a name. An operator whose name has a suffix and whose comment starts with "Slip"
is a plausible wrong version of the definition after it; no specification uses it, `PROJECT.json` names
the property that tells the two apart.

**DifcBackend.** `node_state[n]` is the sequence of the clauses for name `n` in database order: every
lookup in the Prolog code takes the first, `retract` removes it, `assertz` appends. Bit masks are sets of
labels. A flattened name is the sequence of its parts between underscores, so the code's test that
`Scope_` is a prefix of a name is `IsPrefix`. `phase` is the goal of `main` being solved and `pos` the
line or edge it is at: `LoadLine`, then `InferEdge`/`InferSkip` (a merge restarts at the first edge), then
`propagate_logic`/`ScanQuiet` per line and `Rescan` or `PropagationComplete` per scan. Malformed lines are
one value, `Malformed`. A `pc_p=` token is a set of names; one in quotation marks is not recognised, as in
the code.

**DifcFrontend.** The recursion of a module's `typecheck` is a list of things to do (`todo`); each action
takes the first and may put what it contains in its place, so `Restore` entries bring back the conditions
after the branches of a statement. A name is a sequence of segments. A security type is an object with a
label (`basic[o]`); the objects are those of declarations, shared by the instances of a module (and by
the names of one declaration), and the constants `BOT` and `TOP`. The type of a condition is a record of
the joins `JoinType::simplify` will make, innermost first, because making them writes into the left
operand. The text of a condition is the set of names in it. The step file is a set of lines, since the
backend's result does not depend on their order. Left out: `Hypothesis`, `Invariant`, `absintp` and the
modified sets, which reach no file; notes and line numbers; the port check file. Inside two event
controls, one in the other, the code collapses the outer type in place and the model keeps it as it was;
the designs have no such nesting.

**DifcPipeline.** The steps of `DifcFrontend`, then `HandOver`, which turns what the front end recorded
into the lines the backend reads (`WrittenNode`, `WrittenStep`: the names of the conditions go into a
quoted token, which the backend does not recognise), then the steps of `DifcBackend`, whose variables are
an instance's. The properties compare the reports with the parsed design alone.

**EventQueue.** A set of pending events with absolute times and regions. `Advance` moves time to the
earliest one when nothing is left at the current time, `Promote` makes a region active when those before
it are empty. No list, no relative delay, no order inside a region.

**VvpSchedule.** `sched_list` is the list of `event_time_s` with relative delays and six lists each; a
circular list held by its last cell is a sequence. `busy` says that an event, a callback or the stop
prompt has control; while it has, it may make any of the calls of `schedule.h` (`Schedule`,
`SchedulePushed`, `ScheduleInit`, `schedule_finish`, `schedule_stop`); `Return` gives control back. `pc` is
the place in `schedule_simulate` or `run_rosync`. `due`, the absolute time asked for, is a history
variable in the event.

**VvpThread.** `thread[t]` is the `vthread_s`; `scope_next`/`scope_prev` are the circular list of each
scope, whose header cell is the scope itself; `active`, `delayed`, `waiting_list` and `del_thr` are the
queues that can hold a thread, `rest` the remainder of a chain being run. A deleted thread stays `freed`:
memory is not handed out again, so a use of it shows as `fault = "freed"`; `fault = "assert"` is an
assertion of `vthread.cc` that failed. `of_DISABLE` is spread over several steps (`DisableFirst`,
`DisableChild`, `ReturnToParent`, `ReturnToScope`, `ScopeEmpty`), one per entry to and exit from
`do_disable`; nothing else runs in between. Which opcode a running thread executes is free, within what
the code generator emits: as many `%join`s as `%fork`s before `%end`, and nothing but `%fork`s and
`%join`s between a call of another scope and its end (`Calling`). A program of `Programs` is what there is to
fork, wait for and disable. Two fields of a thread are history: `forker`, the thread that forked it, and
`line`, that one and all it descends from. The code has no such pointers, as `parent` is whatever lies above
a thread in the stack; the choice of the program and the properties need them. `reentered` is history, too:
it says that a thread has entered a block some `%disable` names while another thread was in it or one that a
`%disable` ended was not joined, or has entered a scope again from inside such a block, by an unnamed fork or
a recursive call (`Reenters`). Nothing in `vvp` or in the code generator prevents that; the lists of scopes go
wrong there, and the properties say which of them hold on.

**VvpDelay.** `list_` is the circular list of pending values of `vvp_fun_delay`, the oldest first. `recv`
deletes pulses, computes the delay of the change and appends; `run_run` takes the oldest value when its
time has come, and runs of deleted values find nothing. The functor drives a `vvp_fun_modpath`: its
sources remember when and on which edge their input changed, its run sends the value of the moment.
`queue` holds the runs of both functors in the order the scheduler keeps. `held`, the last two inputs and
since when they were there, is history. All bits of a vector must agree on the delay of a path, as the
code asserts (`delay.cc:619`).

**VpiCallback.** `callback` is the array of `__vpiCallback` cells, `first` the heads of their lists,
`stack` the C++ stack of walks and routines. A walk keeps `next` and `prev` in its frame, as the loops keep
them in local variables, while a routine registers and removes callbacks and changes values. `pc` is the
phase of the simulation, `agenda` the `sync_cb` events in the scheduler. `version` and `seen` are history.

**VvpNet.** A pointer to an input port is `<<node, port>>`; `out[n]` is the first input a node drives and
`port[p]` the next one in the chain, so that `%cassign/link`, `%force/link` and the unlinking of
`vthread.cc` and `vvp_net.cc` are what the code does to these pointers. `sending` is the recursion of
`vvp_send_vec4`; `active` the scheduler's queue of `schedule_functor` and `schedule_set_vector` events. A
signal has `bits`, the two masks, the forced value and the two links of `vvp_fun_signal4`. A statement is
the opcodes the code generator emits for it; the data opcodes before them are left out. `bound`, `held` and
`late` say what the statements ask for, and are history.

**VvpIsland.** A port has `invalue`, `outvalue` and `value`; `rings.link` is the circular list of branch
ends at one port, as `add_branch` builds it while the file is loaded. The recursion of
`push_value_through_branch` is `stack`, one frame per `island_collect_node` list. While the island sends,
its ports may receive (`Receives`), as feedback through functors outside. A driven bit is a strength and a
set of levels.

**QueueService, SysQueue.** In `QueueService` a queue is the sequence of the visits to it; statistics are
computed from the visits. `SysQueue` has the array with `head` and `elems`, the counters, the total of two
words and the long division of `sys_queue.c`; `visits` is history and only the refinement reads it.

**SysDump.** One module for the four dumpers, which are copies of each other; `format` is the one vvp was
started with, and what differs is where `format` occurs: which tables of names there are, where
`$dumplimit` goes, what `$dumpoff` does, which time marks the writer drops. The variables are the static
ones of `sys_vcd.c`; the linked list `vcd_dmp_list` and the `scheduled` flags are one set. `scan_item`
goes over what the recursion of the code comes to, in its order (`Visits`). `file` is what a reader finds: the declarations and, for each time, the value of each ident. There is one code of a
time for an ident, the last; lxt2 leaves out a value that was given before, and writes an opposite value as "turn the
bits" of the value given last (`given`), which a reader applies to the value of the time before. `phase` is the
place in the step of `schedule_simulate`: threads call tasks and change nets in `step`, the callbacks
registered for its end run in `rosync`. Whether a limit is exceeded is free once one is set. `hist`, what
the file should tell, `asked`, `late` and `file.mixed` are history. A signal is only a name of a net of one bit or more;
the values are two. The conversions `truncate_bitvec` and `gen_new_vcd_id` are operators of their own:
no action uses them, only the assumptions of `MCSysDump` and two theorems are about them.

## 3. What the runs check

| Run | Kind | Distinct states | Question |
|---|---|---|---|
| `backend_files` | pass | 657 719 | labels, taints and verdicts are exactly the closures, whatever the order of lines; what still holds when lines share a name, tokens are quoted or lines malformed; it ends |
| `pipeline` | pass | 46 817 | nodes, flows and conditions of 333 designs, and the reports the two programs together give for them; they end |
| `frontend_instances` | violation | | the second instance's continuous assignments |
| `schedule_queue` | pass | 230 236 | order and regions; `schedule.cc` implements `EventQueue`; the loop ends |
| `thread_programs` | pass | 1 165 070 | forks, joins, functions, waits, sync callbacks and disables, also of blocks entered again: asserts, no use after free, no lost thread, no leak, the stack, and that `%disable` ends what it should |
| `thread_inside` | violation | | a fork from inside a disabled block into the same block breaks an assertion |
| `delay_net` | pass | 564 755 | values, pulses and module paths, with delays and kinds of values that change: every value comes when it should |
| `callback_walk` | pass | 1 097 434 | walks whose routines add, remove and trigger callbacks; phases and times |
| `net_settle` | pass | 114 973 | four netlists with assignments and forces: chains stay exact, all outputs are current when nothing is left |
| `island_mesh` | pass | 205 980 | three islands: at rest each port shows what all connected drivers make; every run of the island ends |
| `queue_calls` | pass | 55 590 | `sys_queue.c` implements `QueueService` |
| `dump_waves` | pass | 5 715 270 | a waveform file tells what the signals were, whatever `$dump` tasks are called when; every signal asked for is declared once |

### The properties

*Backend.* `InferenceExact`, `TaintExact` and `VerdictExact` compare the imperative rescans with
`Closure`, which is defined by intersecting all closed sets, on the input files alone. They need unique
names. What blocks inheritance is what the code blocks; `InferenceExact` also says how far that is from the
comment on the pre-pass (`difc_backend.pl:135-138`): a listed name never has a label beyond the comment's rule,
and has all of it only where no flow is stopped by the capability of its own target (section 5). For any input, `ClosedAtEnd` (a quiet scan means closed), `ExcessReported` (no excess goes
unreported although only a step that changes the taint looks) and `CapabilitiesDeclared` (no clause gets
capabilities nobody declared) hold. `ReportedPathsFlow`: every printed path is a chain of recorded flows.
`Terminates`.

*Front end and pipeline.* `NodesListed`: each signal of each visited instance once, under no less than its
declared label. `FlowsRecorded`: each flow of the statement trees of an implemented module, with at least
the conditions from the innermost `if` inward. `StepsJustified`: no step without a flow, and none under a
condition that is not around the statement. `ExplicitFlowsTaint`: at the end of both programs every signal
has its own label and every explicit flow of the design has passed the whole taint of its source on.
`VerdictOnDesign`: of a design that is handled whole, exactly the names are reported that the design's own
labels reach without permission, with the boundaries of the code; no name is left out that the comment's rule
would report, and more are reported (in the run, too: with the comment's boundaries it is refuted). `Completes`.

*Scheduler.* `OneStepPerTime`: no two steps are for the same time. `OrderKept`: calls for one list and time run in the order of the calls,
pushed ones ahead and last first. `ImplementsEventQueue`: the refinement; `pending` is computed from the
lists and the sums of the delays, `now` is `schedule_time`, so an event at a wrong time refutes it.
`Ends`: the loop is left, stops included.

*Threads.* `AssertsHold`, `DeletedIsUnused`, `NoThreadLost` (a live thread is in one queue, or one event
list, or waits in `%join` for a child that has not ended, or runs: neither lost nor scheduled twice),
`NothingLeaks`, `StackInOrder` (the stack shared by children, grandchildren and siblings; `%join` takes
one of the thread's own), `DisableEndsScope`, `DisableReturns`. Any thread may fork into any block, also into one
that was disabled while a caller has not joined yet (`reentered`). `AssertsHold` and `DisableEndsScope` hold
until that happens, because after it the code breaks them (section 5); the others also after it, until the first
fault.

*Delays.* `NewestIsInput`: what will be at the output when the pending values have run is the input,
although `recv` looks at the oldest of them only. `PulsesRejected`: the output changes exactly one delay
after the input took the value and only if the input has kept it. `Settles`: the output of the delay ends
as the input, that of the module path as the output of the delay. Inputs come at any moment, also between the
moment a value is due and its run. If one does while another value is pending, or is a real (`Overtakes`),
the code may drop it (section 5): the history variable `overtaken` is then on, and until the next input that
finds nothing pending only the module path is spoken of. So the properties also say that this is the only
way to lose an input.

*Callbacks.* All hold until an inner walk frees a removed callback that an outer walk is at or has kept as its
next one, which the code does not prevent (section 5): the history variable `dangling` is then on. Every other
mixture of removals, registrations and changes in nested walks is covered.
`AssertsHold`: no walk uses a freed cell or finds its list relinked, and the mode is reset.
`HeldOnce`: every live callback is in one list, in the scheduler, or being called; nothing else is.
`ChangesSeen`: when all calls have returned, every callback has been given the latest value of what it
watches. `Served`: a callback for a time is gone once this time has run.

*Nets.* `FanoutExact`: each chain passes through the inputs declared with and linked to its node, once
each. `NetSettled`: when the present time has nothing left, every functor has sent its function of what its
inputs are driven to, and every bit of a signal shows its force, else its assignment, else its driver or
the value it kept. `Quiets`: also where functors feed themselves.

*Islands.* `MeshSettled`: "pushing values through the network until a stable state is reached", compared
with all drivers of what is connected, computed as a closure. `Rests`.

*Queue tasks.* `ImplementsService`: every status, job and statistic of every sequence of calls. The module
for TLC also checks, when it is loaded, that the division by hand is the division for all operands
(`DivisionExact`).

*Dumpers.* `DumpTells`: of every time that is over, and every ident, a reader finds the value the signal had
when the step ended, or x while dumping is off, and the file ends at the time the simulation ended. It
relates the marks, the flags, the callbacks still to run and the checkpoints in the middle of a step. Of a
signal whose change was waiting when `$dumpoff` was called it demands what the code does (section 5): while
dumping is off the file tells the value of the end of that step. Left open is what the code does not promise
or gets wrong (section 5): after the limit, while the header is not written, the step that `finish` at the
prompt breaks off, and, in lxt2, an ident whose code of a time was overwritten by an inverse (`mixed`), until
its next code that is no inverse.
`VarsDeclared`: whatever calls asked for it, by scope, depth or name, a signal is declared once, idents
are shared exactly by the names of one net of one bit, and each ident has one callback. When `MCSysDump`
is loaded it also checks that a reader gets back every vector that `truncate_bitvec` shortened and that no
shorter text would do (`VectorsKept`), and that idents differ (`IdentsDiffer`).

### The bounds

- *Backend*: names `m` (an instance), `m_x` (a signal in it), `s` (outside) and `N_L`; two labels, one of
  them public. The run takes every node file of one line per name at most with every step file of up to 3
  of the 6 edges: 3 edges make every cycle over three names and every order of a chain; and every file of
  up to 2 lines of 5, with 2 steps of 8, which include collisions of names. A third label or an additional
  name would repeat these cases: labels propagate independently of each other, except in the test for an
  allowance, where two suffice to have one allowed and one not.
- *Front end and pipeline*: designs of three levels: a top with or without a generate scheme, a middle
  module, a leaf whose process is every statement tree of nesting up to two over `if`, `case`, event control
  and block, with every kind of simple statement inside and after; and 162 designs that are handled whole,
  with labels and capabilities at every level. Excluded is what the code is known to get wrong or leaves
  open: flattened names are unambiguous, a module has at most one generate scheme and none in it, schemes
  have no genvars of their own, modules with continuous assignments have one instance (`frontend_instances`
  has two). `VerdictOnDesign` asks that joins of conditions have not changed a declared label
  (`LabelsKept`) and that no signal has a negative capability in a module without a positive one
  (`ColumnsKept`; both in section 5). Bodies of `for` and the signals of named blocks are not listed by the code.
- *Scheduler*: `MaxEvents` 3, `MaxTime` 2, `MaxStops` 1, all six lists. An insertion has steps before and
  behind it with two later times; three events give a region with two events and one event that arrives
  meanwhile. `MaxStarts` 1 keeps the run away from the second start event of one time, and start events for
  the current time are left out (`Legal`): see section 5.
- *Threads*: two programs of 4 and 5 threads, 2 of them roots, so that two unrelated threads, a child, a
  sibling and a grandchild meet in one stack, list or chain. Blocks that are disabled are entered again, from
  outside and from inside; that is where the code fails (`thread_inside`). `FORK_COUNTS` is 256, as the bit field has 8 bits; a fork of 256 is out of
  reach (section 5). One event is enough to have chains of two threads. `CHECK_DEADLOCK FALSE`: a program whose
  threads have ended, or wait for an event no one triggers, stops.
- *Delays*: two bits, three vectors that rise, fall and change in one bit, a rise slower than the fall, a
  delay that may be set to the slower one, 4 inputs and 1 other change, times up to 4 (longer than two
  delays), a path from an edge and two `ifnone` paths, one of time 0. Four inputs overtake a value, lose
  one, and come afresh.
- *Callbacks*: an array of two words, 3 callbacks for any of nine reasons, 2 changes, 1 removal, time 1.
  Two callbacks in a list and one that is added, or two and one removed, are every case of `prev` and
  `next`; two changes and a removal make walks that are nested and reap, before, at and behind the outer one.
- *Nets*: four netlists of 2 to 6 functors, 4 statements of 7 to 10, so that a bit is assigned, forced,
  released and deassigned, or two chains are relinked, in any order and with gates still waiting. Left
  out: binding what is already linked (section 5), and links that close a loop of unscheduled functors.
- *Islands*: a cycle of four switches over three ports, two of them in parallel, with weak and strong
  drivers; three switches with an enable; a vector with its two bits. Every input in every order.
- *Queue tasks*: queues of 3 (a full FIFO wraps at two places) or 1, one queue or two, 4 jobs (four waits
  of 15 need two words of 4 bits), a variable too small, a unit of ten.
- *Dumpers*: a module, an instance in it and an automatic task; two names of a one bit net and two of a
  vector; four kinds of arguments, so that a scope comes before and after one of its signals and depths
  differ; 4 calls and 3 changes at times 0 to 2. 4 calls are `$dumpvars` and off, on, off, or two of
  `$dumpvars` and two others; two changes of one net in one step and one in the next, or one on each side
  of a call, are what the `scheduled` flags tell apart. `TimeWrap`, 2^32 in the code, is not reached
  (section 5). `CHECK_DEADLOCK FALSE`: the simulation ends.

### Fairness

`FairSpec` is used only where a liveness property is checked. Backend: weak fairness of the next step, as
one Prolog thread takes it; pipeline: the same for the two programs in sequence. Scheduler: weak fairness
of `Loop`, the only thread, and the assumption that what it calls returns; nothing is assumed about
`Environment`. Threads: weak fairness of `do_disable`, the rest of an opcode that has begun. Delays: of the
scheduler's steps, not of inputs. Callbacks: of `Return` and of vvp's own steps; a routine may do anything
within the bounds before it returns. Nets: of sends, queued events and the opcodes of a statement that has
begun, not of statements. Islands: of the steps of `run_island`. No fairness is assumed for simulated
threads, events or users.

## 4. What is proved

All proofs are checked by TLAPS, for every value of the constants that the named assumptions allow.

`DifcBackend_proofs`, assumptions `PublicAssumption`, `MalformedAssumption`, `NodeFilesAssumption`,
`StepFilesAssumption` (labels contain the public one; files are sequences of well-formed or malformed
lines), any number of names, labels, lines and steps:

- `TypeCorrect`: `Spec => []TypeOK`. `TypeOK` is inductive. `GetNodeType`, `ReplaceType` and
  `PcTaintType` give the types of what the helpers return.
- `CapabilitiesNeverInvented`: `Spec => []CapabilitiesDeclared`. Inductive with `TypeOK`. Every action that
  writes the database is first described by a lemma (`LoadLineClauses`, `InferEdgeClause`, `FlowClause`):
  it stores one clause for one name, whose capabilities are those of the clause read, which is a clause of
  that name or the default without any (`GetNodeClause`); `ReplaceClauses` says what the other clauses are.
- `NoExcessUnreported`: `Spec => []ExcessReported`. Inductive with `TypeOK`. The argument: loading and
  inheritance keep taint within the basic label or leave it as it was relative to it; a flow that leaves
  the allowance writes a report for the target in the same step; reports are never withdrawn, and neither
  basic labels nor capabilities shrink in a clause. So checking in the changing step alone loses nothing,
  even when clauses share a name.
- `FixpointReached`: `Spec => []ClosedAtEnd`. The invariant is `ScanInv`: as long as the present scan has
  changed nothing, every step before `pos` is quiet. A quiet step stays quiet as long as no clause is
  written (`QuietKept`), a scan that wrote one is repeated, and the propagation ends only behind a scan that
  wrote none.
- `PathsAreRecorded`: `Spec => []ReportedPathsFlow`. The invariant is `PathInv`: the path of every clause,
  not only of the reported ones, is a chain of recorded steps that ends in the name of the clause. A step
  makes a longer chain out of the one of its source (`ChainExtended`) or starts one (`ChainOfOne`).

- `LabelsAreLeast`: `Spec => []InferenceExact`; `TaintsAreExact`: `Spec => []TaintExact`;
  `VerdictsAreExact`: `Spec => []VerdictExact` (the three properties themselves ask that no name is listed
  twice). So what the tool answers does not depend on the order of the
  lines, on restarts or on cycles, for any input of any size. The invariant is `ExactInv`, a conjunct per
  phase. While loading (`LoadInv`), a name has no clause and its line is still to come, or exactly the
  clause of its line. While inheriting (`InferInv`), each name has one clause at most, which holds what is
  declared, and only labels that the least closure has (`Holds`); every line before `pos` has nothing to
  pass on. While propagating (`PropInv`), basic labels are the closure, and a taint lies between the basic
  labels and what can reach the name (`Bounded`); each reported name exceeds its allowance, now and for ever,
  since taints only grow. Nothing holds too little at the end because a database no line can change is
  closed, and the least closure lies in every closed set (`CarriedLeast`, used in `NothingLeftToInfer` for
  labels and, on top of `FixpointReached`, in `TaintsComplete` for taints). Nothing ever holds too much
  because each merge follows an edge of the closure (`CarriedStep`); for labels this needs that the test of
  a boundary on the database agrees with the declarations (`BlocksDeclared`). The comment's rule has more
  edges and therefore no fewer labels (`CarriedMore`, `InheritedStated`). That every excess is reported is
  `NoExcessUnreported`.

`VvpSchedule_proofs`, assuming `BoundsAssumption` (the bounds are natural numbers). The first
lemmas say what `schedule_event_`, the removal of a step and the advance of time do to the
absolute times and the queues that the list with its relative delays stands for; the recursive function
`DelaySums` is reasoned about with an induction on a set of numbers (`SetInduction`).

- `TypeCorrect`: `Spec => []TypeOK`. Inductive (`TypeInv`) together with the form of the list: cells with a
  natural delay each, and when a step is worked on it is the first.
- `OneStepForEachTime`: `Spec => []OneStepPerTime`. From a delay of at least 1 in every step but the first,
  sums of delays increase strictly; what has to be shown is that an insertion between two steps splits the
  delay so that both parts are positive, and that it never makes a second step for a time.
- `EventsInOrder`: `Spec => OrderKept`, the action property. The invariant is `OrderInv`: in each list the
  events are in the order in which they were put there, those pushed to the front first, and no event is in two
  places; what was moved to the active list is older than what is still in the list it came from, except for
  the start events, of which the first stays behind; once start events are over none is left, and once the
  read-only callbacks run nothing that may write is.
- `ScheduleRefinesQueue`: as long as the null pointer of section 5 is not followed, the scheduler implements
  `EventQueue`, each step of it being a step of `EventQueue` or leaving the set of pending events, the time and
  the regions as they are. `NeverCrashes` shows that it is not followed if no more than one start event
  comes for a time (`MaxStarts <= 1`), and `ScheduleIsQueue` puts the two together:
  `MaxStarts <= 1 => (Spec => ImplementsEventQueue)`. The hypothesis is the run's, not a convenience: a second
  start event goes to the wrong list or crashes, and the property then fails.
- `NothingLeftBehind`: `MaxStarts <= 1 => (Spec => []EQ!NothingOverdue)`, what the refinement buys: time never
  passes an event in `schedule.cc`, for any number of events, times and stops. It is shown of the event queue
  (`QueueLeavesNothing`), where time moves only to the earliest event, nothing is posted into the past and a
  promotion keeps due times; no list or relative delay is in that argument.

`VvpDelay_proofs`, no assumption but those of `VvpDelay`:

- `NewestIsKept`: `Spec => []NewestIsInput`; `ShortPulsesRejected`: `Spec => PulsesRejected`; both speak of
  inputs that overtake no value that is due (`~overtaken`), as the code is wrong about the others (section 5).
  The invariant is `Shape`, the types, and `~overtaken => DelayInv`: at most two values are pending,
  and if there are two the older is due now; each has its run in the scheduler and each run its value
  (`Served`); and each stands for a value the input has held since one delay before it is due (`Traced`).
  That at most two are pending is why looking at the oldest only, as `recv` does, is enough; with inputs that
  overtake the list may have any length. A new value that finds nothing pending restores `DelayInv`.

`VvpNet_proofs`, assuming `DesignsAssumption` (an input is declared once, with one driver, as the compiler
links each input of a functor; what is linked to ports 1 and 2 of a signal is up to the statements):

- `FanoutStaysExact`: `Spec => []FanoutExact`, for every netlist and any number of statements; also with
  `Rebinding`, which the run leaves out. The invariant is `NetInv`. Its core, `Exact`, says that for each node
  there is a sequence that the pointers list and that enumerates what the node drives, that two nodes drive
  nothing in common, and that an input nobody drives leads nowhere. Disjointness is what makes unlinking
  right: the code looks for the predecessor of an input in one chain, and `Predecessor` shows that nothing
  else leads to it. `NetInv` also says that whatever is on its way, to be sent, queued or executed, is for
  inputs and signals of the design. Linking a declaration at a time (`LinkedUpTo`) and following a chain
  (`Reached`) are recursive functions; `LinkedUpToExact` and `AllReached` are inductions over them.

`VvpIsland_proofs`, assuming `MeshesAssumption` (a port has a width, a branch without a part select joins ports of one width,
the others name a part that lies in `a`) and `EnablesApart` (no enable is an end of a branch of its island):

- `IslandInvariant`: `Spec => []IslandInv`; `IslandAlwaysSettled`: `Spec => []MeshSettled`. So at rest every
  port has been sent what all the drivers connected with it make, for every mesh, cyclic or not, every order of
  its branches and of the inputs. The hypothesis is the code's: an island with an enable that is also an end is
  not run again when that changes (section 5). The invariant has five parts. `Circles`: the ends at a port are a
  circular list, while the branches are linked one after the other. `Held`: only
  ports that are ends take a value, and outside a run none has one. `Resolving`: while values are pushed, each has reached the other end of every
  enabled branch, or a frame of the recursion still has to bring it there (`Spread`, `Pending`); so with an
  empty stack the values are closed under the branches, although a push stops where it changes nothing and
  never looks back at what came later. `Bounded` is the other direction: whatever bounds all the drivers of a component
  bounds every value in it, however often a value has gone around a cycle. `Sending` and `Resting` keep the
  result while ports are sent one at a time and new inputs come. That the recursion of `Connected` finds the
  component is `ConnectedComponents`; that the values are the least there is `DrivenLeast`.

`VpiCallback_proofs`, assuming `ReasonsAssumption`, `ObjectsAssumption` and `BoundsAssumption` (the names of
objects, phases and times differ, the bounds are natural numbers):

- `CallbacksHeldOnce`: `Spec => []HeldOnce`; `WalksFindTheirLists`: `Spec => []AssertsHold`; `LatestValueSeen`:
  `Spec => []ChangesSeen`; like the properties they speak of executions in which no walk has freed the callback
  another is at or goes on with. The invariant is `~dangling => CallbackInv`. Cells are handed out in order, so every list descends, and each
  cell leads to the next older one that is in the list (`Linked`); insertion at the head and unlinking keep
  that, and the functions that follow a list reach all of it (`ChainReaches`). What a walk under way will go on
  with is what comes after the callback it is at (`WalkOk`), also for the walks that wait below on the stack:
  a removal changes only the routine of a cell, and only a walk unlinks one: if it is neither the callback an
  outer walk is at nor its next, the cell before it is not one an outer walk is at, either. A callback has the latest value of a word or
  a walk for this word is still to come by (`UpToDate`): a change pushes a walk that starts at the head, and a
  callback a walk leaves behind was just given the value of the moment. The mode in effect is that of whoever has control,
  and each walk whose routine runs has kept that of the frame below it (`ModesOk`).

`VvpThread_proofs`, assuming `ProgramsAssumption` and `ScopesAssumption` (names of scopes differ, bounds are
natural numbers), for any number of threads, scopes, events and programs:

- `ThreadsConsistent`, `AssertsAlwaysHold`, `DeletedAlwaysUnused`, `StackAlwaysInOrder`, `ThreadsNeverLost`,
  `ThreadsNeverLeak`: `Spec /\ []Countable => [](reentered \/ P)` for `ThreadInv`, `fault = "none"` (that is
  `AssertsHold`), `DeletedIsUnused`, `StackInOrder`, `NoThreadLost` and `NothingLeaks`, and
  `DisableAlwaysEndsScope`: `Spec /\ []Countable => DisableEndsScope`. Both conditions are real. Once a disabled
  block was entered again an assertion can fail (`thread_inside`) and `%disable` can miss a thread; the run
  also checks that all but these two hold on until the first fault, which is not proved. `Countable` says that no thread has more children it has not joined than `fork_count`, a field of 8 bits,
  can count; with a smaller `FORK_COUNTS` the count wraps and `StackInOrder` fails.

The invariant is `ThreadInv`. The properties alone are far from inductive, as a step of `vthread.cc` trusts
what it finds in three linked structures, and each is right only because of the other two:

- `Family` and `Reaps`: a thread descends from threads that are still there; a thread that has ended and still has
  children is one that `do_disable` is at. What was reaped has no links left and is held by a queue.
- `Stack`: `child` of a thread is its newest child, and when it has none, the newest of those forked before by
  the nearest of its ancestors that has any (`Later`, `NextIs`). That is what a `%join` pops to, and why it
  never takes another thread's child. `fork_count` is the number of children.
- `Rings`: a scope no `%disable` names has a circular list, newest first (`Ring`), in which the thread
  `do_disable` is at is missing, but its cell still points to two neighbours. `do_disable` unlinks a thread
  twice, before and in `vthread_reap`; that the second unlink does no harm is what this has to show, and it is
  true because nothing enters or leaves the list in between. The list of a disabled scope is looser (`Loose`): its
  threads were forked by one thread, so they are reaped newest first, and the header is always at the newest
  thread not turned off, or above it. Hence `of_DISABLE`, which goes on until the list is empty, misses none.
  A block that is entered again (`reentered`) breaks this: threads with different forkers meet in one such list.
- `Queued`, `Flagged`, `Joined`: no thread is in two places, `is_scheduled` and `waiting_for_event` tell which
  kind of place it is, and a thread in none waits in `%join` for its top child, which will schedule it.
- `Runs`, `Disables`: the running thread is in no queue, and the calls of `do_disable` under way are a chain of
  children from a thread of the scope.

Each action has its lemmas, a conjunct or two at a time; most of the length is in the two lists, where
reaping a thread of one scope must be shown to leave the lists of all others alone.

`SysDump_proofs`, assuming `DesignAssumption` (the scopes of a design are a forest, and a signal is in one
scope at most), `CallsAssumption` (the arguments of `$dumpvars` are a depth and scopes or signals of the design) and
`BoundsAssumption`, for each of the four formats, any design, and any calls and changes:

- `DumpDeclares`: `Spec => []VarsDeclared`. What the tables of names say between two arguments of a call is
  `Good`: the signals of each scope in the sorted table are declared, and, where the names given by
  themselves are kept, nothing else is but those; every ident has one info and the cache of idents is that of the nets
  of one bit. In the middle of an argument this is false, as scopes are in the unsorted list before their
  signals are declared and the searches see the sorted table only. The proof goes over the scopes and signals
  in the order in which `scan_item` comes to them (`Visits`, `Scanned`): `RightVisits` says that this
  sequence has each scope within the depth once, with the signals in it marked as skipped exactly if the scope was
  in the sorted table before, for which the forest is needed; `AfterVisits` says of each prefix of it what is
  declared. `DumpDeclares` has an invariant of its own (`DeclInv`), so it needs no bound on the time.
- `WavesTell`: `TimeWrap > MaxTime => (Spec => []DumpTells)`. The hypothesis is the range in which the 32 bits
  of `lxt2_wr_set_time` are enough; beyond it the property fails (section 5). The invariant is `IInv`
  (`WaveInvariant`). `Marked`: the last mark in the file is that of `vcd_cur_time`, so a test of `vcd_cur_time`
  decides rightly whether a new mark is needed. `Drawn`: while dumping is on, what the file tells now is
  the value the signal has, or the info is on `vcd_dmp_list`; while it is off, x. `Late`: those that were on the
  list when it was turned off are x until the step ends, and then have the value of its end, which
  `hist` carries on. `TellsGiven`: of an ident of lxt2 that is not mixed, what the file tells now is the value
  given last, so a code that turns the bits turns the right ones (`ToldValue`, `TurnedTime`). `Scheduled`: an info is on that list, or the header is to be
  written, exactly if the callback for it is registered for the end of the step. So when the step ends
  without callbacks the file tells every value (`Recorded`), and later writes do not change it, because they
  are at later marks. `HasFile` is needed because `$dumpoff` and
  `$dumpon` write only if there is a file, and `Marked` has to say what is true when dumping was turned off before the
  first mark was made.
- `IdentsNeverRepeat` and `VectorsReadBack`, of the two conversions for every input, where the run's module
  tries small ones: two counts have two texts, and a vector that was shortened is read back as it was, while no
  shorter end of it would be. Texts are made of the 94 characters of the code; that 7 of them are enough is
  the assertion of `gen_new_vcd_id`, and 94^7 is more than an `unsigned` counts.

Only model-checked: liveness (`Terminates`, `Completes`, `Ends`, `DisableReturns`, `Served`, `Settles`,
`Quiets`, `Rests`) and ENABLED, which the prover does not do; the comparisons with the recursive
definitions of `DifcFrontendProps`, and with them `DifcPipeline` (these modules have RECURSIVE
operators, which the prover does not accept); the refinement of `QueueService`, whose averages are a long
division; `NetSettled`, which compares with a fixpoint what is spread over chains, queued events and commands.

## 5. Disagreements between the code and its words

With a run, listed under `findings`:

1. `thread_inside`: `do_disable` unlinks a thread that is unlinked already; an assertion fails
   (`vthread.cc:1893`).
2. `frontend_instances`: the mark of a continuous assignment is shared by all instances
   (`typecheck.cc:599`).

Without a run of their own. Those marked * were seen in TLC with other constants or another instance of the
same module; those that restrict a pass run are named in section 3.

*Front end and backend*
- \* joining condition labels changes declared labels (`sectypes.cc:265`); hence `LabelsKept`.
- \* the comment on what blocks inheritance is narrower than the code (`difc_backend.pl:135-138`, "only by an
  explicit capability on the child module/instance boundary node"; "internal-variable capabilities are not
  boundary blockers"): line 203 takes every name with a capability for a boundary, and the front end lists each
  labelled signal with the capability of its module. Flows out of such a module's other names into a labelled
  signal of it are stopped, too. So `InferenceExact` with `StatedEdges` for `InferEdges`, and `VerdictOnDesign`
  with `StatedBoundaries`, are refuted; both properties state what is left of the comment's promise.
- \* a signal with a negative capability in a module without a positive one is printed with two blanks in a row
  (`typecheck.cc:315-322`). The backend splits with a separator that is also the padding
  (`difc_backend.pl:99`), so the manual of SWI-Prolog says that adjacent separators act as one: what is
  denied is read as granted. Hence `ColumnsKept`; without it `VerdictOnDesign` is refuted.
- the second generate scheme of a module, and any nested one, finds the instance in its static set and is
  skipped (`typecheck.cc:1534`).
- a nested `if` replaces the condition text around it, where `case` and event control add to it
  (`typecheck.cc:1302`).
- only the first name of a concatenation receives the flow from an output port (`sectypes.h:606`).
- pc tokens are written in quotation marks, and the backend skips tokens that do not begin with `pc_p=`
  (`difc_backend.pl:316`): implicit flows are lost between the two programs.
- two flattened names can be equal (`a_b` and `b` in `a`); the second instance is skipped.
- `typecheck.cc:1759` writes the stem of the file names in lower case; `averilog.py` and the backend use it as
  given.

*Scheduler and callbacks*
- \* the second start event of a time is linked into the active list, or a null pointer is followed
  (`schedule.cc:464`); the comment at line 391 says otherwise.
- `cbAtStartOfSimTime` for the current time puts an event into a start list the loop has passed; the step
  is deleted with it (`schedule.cc:780`).
- `$finish` in the middle of a step leaves the rest of the step to run (`schedule.cc:774`); `schedule.h:131`
  says "all remaining events abandoned".
- a removed callback of a phase is still in its list, and its null routine is called
  (`vpi_callback.cc:397`).
- \* an inner walk deletes removed callbacks while an outer walk still points at one (`vpi_callback.cc:561`);
  without `~dangling`, `AssertsHold` is refuted.

*Threads*
- \* `fork_count` has 8 bits and wraps (`vthread.cc:112`): a thread with 256 branches counts as one without
  any. With `FORK_COUNTS` 2, two branches refute `StackInOrder` and `AssertsHold`; hence `Countable`.
  `opcodes.txt:364` names no limit of `%fork`.
- \* a disabled block entered again while an old caller has not joined: a reap through stale neighbours cuts
  threads off the scope list, and `%disable` misses them (`vthread.cc:490`). Without `reentered`,
  `DisableEndsScope` is refuted.

*Delays*
- \* `list_->next` is called the "most recent event" and is the oldest; an input that comes when a value is
  due and has not run can be skipped, and a value pending behind it outlives its pulse (`delay.cc:167-171`;
  without `~overtaken`, `NewestIsInput` and `PulsesRejected` are refuted).
- the table of edges is ordered 0, 1, x, z (`delay.cc:507`) and is indexed by `vvp_bit4_t`, in which z is 2
  and x is 3 (`vvp_net.h:128`); `delay.h:26` and the code generator have the order of the table.

*Nets*
- \* `%cassign/v` and `%force/v` do not unlink the source a signal follows, and the new value goes to the
  other readers of that source (`vthread.cc:1319`; `FollowedOnly` of `MCVvpNet` with `Rebinding` refutes
  `NetSettled`); `opcodes.txt:181` says it goes "to the target variable".
- releasing a variable under a linked assignment keeps the forced value until the source changes
  (`opcodes.txt:688` says so; `late` in the model).
- releasing part of a variable after a force of another part copies bits that were never forced
  (`vvp_net.cc:2792`); deassigning part of what is not assigned breaks an assertion (`vvp_net.cc:2540`).
- `force a = b; force b = a` recurses without end.
- a gate of four inputs that are all x never runs, so its net stays z (`logic.cc:46`, and the comment at
  `vvp_net.cc:2620`).
- a flip-flop does not look at the level of its clock while it is disabled (`dff.cc:48`).

*Islands*
- \* an enable that is itself an end of a branch (`tranif1(pin, X, pin)`, the comment `island_tran.cc:95-106`)
  is tested with the value sent last, and nothing runs the island again when its value has changed.
- every enable becomes a port of the island (`draw_net_input.c:659`), and only ends of branches are sent
  anything: another reader of a net that is an enable only sees nothing.
- a port without any value takes one and does not pass it on (`island_tran.cc:155`, "does not need to be
  pushed back").

*Queue tasks*
- a signed result that is too small and has 33 to 63 bits is filled with `~(UINT32_MAX >> (size-32))`
  (`sys_queue.c:733-756`), which is not "the maximum positive value" of the comment.

*Dumpers*
- \* a signal that changed before `$dumpoff` in the same step is written after the x's, with its value, by
  `variable_cb_2`, which does not look at `dump_is_off` (`sys_vcd.c:176`; not in lxt2, whose writer drops
  it); `ieee1364-notes.txt:462-464` has `$dumpoff` leave all variables x. `DumpTells` states the value the code writes; with x for `late` it fails.
- \* `$dumpoff` of lxt2 gives the time to `lxt2_wr_set_time`, which takes 32 bits (`sys_lxt2.c:370`): from
  2^32 on the x's are at an earlier time. A `TimeWrap` within `MaxTime` refutes `DumpTells`.
- `$dumplimit` of fst before `$dumpvars` has no file to give the limit to (`sys_fst.c:461`).
- `$dumpon`, `$dumpoff` and `$dumpall` write after the limit was exceeded.
- `finish` at the prompt leaves the step, so its last changes are in no file, and if `$dumpvars` was called
  in it a VCD file has no `$enddefinitions`.
- `_vpiNexusId` is a pointer cast to `int` (`vpi_signal.cc:562`): two nodes 4 GB apart have one ident.
- \* lxt2 encodes a value relative to the last one given (`s->value`), and a second value of the same time
  overwrites the code of the first (`lxt2_write.c:1881-1998`). When a signal that is 0 changes to 1, `$dumpall`
  is called, and it changes back to 0, all in one step, what remains is one `LXT2_WR_ENC_INV`, and a reader
  finds 1. `$dumpon` can be the first writer as well. Without `mixed` `DumpTells` fails in this way.

## 6. Not modelled

- **Lexing, parsing, pform; elaboration, netlist passes, evaluation, synthesis; `t-dll` and the `tgt-*`
  generators; `ivlpp`; drivers.** Sequential transformations of large trees and texts, each running once;
  what could be stated is a reference semantics of Verilog, far from what TLC can enumerate. They and the
  file formats (`fstapi.c`, `lxt_write.c`, `lxt2_write.c`) are nine tenths of the lines of the repository, which is why the map
  covers a few per cent of them: the parts with state, order and interference are in `vvp`, the security
  front end, its backend and a few of the system tasks.
- **vvp's compile stage** (`compile.cc`, `parse.y`, `symbols.cc`, `words.cc`): builds the net once. What it
  builds is the initial state of `VvpNet`, and `VvpIsland` has the loading of its branches.
- **Arithmetic and vector functors and opcodes**: data, no control. The rest of `vthread.cc` is of this kind;
  `VvpNet` has one functor of each kind of control.
- **Of modelled parts**: removal of callbacks of a phase, start events for the current time and
  re-registration of `cbNextSimTime` from its own routine (`VpiCallback`); strengths, user-defined primitives,
  automatic scopes, puts through VPI, real values and parts received by functors (`VvpNet`); drives of
  ambiguous strength, whose resolution depends on the order (`VvpIsland`); the checks of arguments at compile
  time and the bits that fill a variable that is too small (`SysQueue`).
- **Of the dumpers**: named events, real values, array words, the lines of scopes, the formats and the
  compression of the writers, with the sections of lxt2 (each starts with all values) and its relative codes for
  vectors other than the inverse; fst's own lock at the limit (`SysDump`).
- **`$display`, files, random, SDF, tables; cadpli, libveriuser, vpi_mcd**: I/O and formats.

## 7. Plan

The models planned are written; what is left is mostly proof.

1. `SysQueue`: the array against the visits, for every length.
2. `DifcFrontendProps`: the recursive definitions as recursive functions, to bring `StepsJustified` within
   reach of the prover.

Models that could follow: array words and their ports (`array.cc`), user-defined primitives (`udp.cc`), and
the strengths of `resolv.cc`.
