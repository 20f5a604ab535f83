# Verification of libiht

libiht gives processes access to the branch-tracing hardware of Intel CPUs: the
Last Branch Record stack (LBR) and the Branch Trace Store (BTS).  This directory
holds TLA+ models of it, the TLC runs that check them and TLAPS proofs about them.

Contents: 1 Inventory, 2 The LBR model, 3 The BTS model, 4 The Linux module's life,
5 The Windows driver, 6 The debuggers, 7 Runs, 8 Findings, 9 Proofs, 10 Mutants,
11 What is not modelled, 12 Plan.

## 1 Inventory

| component | state | operations | interacts with |
|---|---|---|---|
| LBR engine, `kernel/commons/lbr.c` | list of `lbr_state` (pid, filter, saved stack), a spinlock; per core DEBUGCTL bit 0, LBR_SELECT and the stack | ioctl enable, disable, dump, config; context-switch and new-process handlers; init, exit | called by the two kernel ports, on every core |
| BTS engine, `kernel/commons/bts.c` | list of `bts_state` (pid, bits, buffer size, debug store area), its own spinlock; per core other bits of DEBUGCTL, DS_AREA | the same | the same callers; shares DEBUGCTL with the LBR engine |
| Linux module, `kernel/lkm/src/libiht_lkm.c` | proc entry, tracepoint registrations | load, unload, ioctl dispatch, tracepoints sched_switch and task_newtask | calls both engines, LBR first |
| Windows driver, `kernel/kmd/src/libiht_kmd.cpp` | device, process notification, hook | the same; termination notice does nothing | calls both engines |
| cross-platform layer, `xplat_lkm.c`, `xplat_kmd.c` | none | locks, lists, allocation, MSRs, user copies | used by the engines |
| infinity hook, `kernel/kmd/infinity_hook` | hook pointers, status flag, re-hooking thread | initialize, start, stop | calls the driver's context-switch callback |
| user libraries, `lib/lkm/src/api.c` and `lib/kmd/kmd/kmd.cpp` | one handle and one request per feature, global | enable, disable, dump, config for LBR and BTS | ioctls to the kernel |
| GDB plugin, `lib/lkm/src/libiht-gdb.py` | the last request of each feature, with its buffer | commands; rotation of the ring into time order | user library |
| WinDbg extension, `lib/kmd/kmd-ext/kmd-ext.cpp` | the same, and a flag per feature | commands, refused unless the flag fits | user library |

What is hard, and what must be right:

* *Locking.*  One spinlock protects the list, but `find_lbr_state` hands out a
  pointer after it released the lock; enable looks up and inserts in two
  sections.  Pointers must stay good while they are used, and a pid must have
  one state.
* *Cores and preemption.*  The hardware registers belong to a core, the state to
  a process that moves between cores, and requests may come from another process
  on another core.  A core must record exactly while its current process is
  traced, with that process' filter, into that process' state.
* *Family.*  New processes inherit.  Memory must have one owner, and inheritance
  must end.
* *Life cycle.*  Processes terminate, the module is unloaded while others switch
  context; on Windows a thread of the driver hooks again while the driver goes.
* *Clients.*  Debuggers keep handles, flags and requests of their own, which must
  go with the driver's table whatever fails in between.
* *BTS.*  The hardware writes to memory by itself, through pointers that the
  code frees and replaces.

`PROJECT.json` lists these hazards line by line with the properties for them.

## 2 The LBR model

| module | what it is |
|---|---|
| `Lbr` | the LBR engine with its callers, cores and scheduler; properties at its end |
| `TraceTable` | abstract specification: what `docs/usage/kernel.md` promises callers |
| `LbrTable` | the refinement mapping from `Lbr` to `TraceTable` |
| `LbrInv` | inductive invariants and the assumptions under which they hold |
| `Lbr_proofs`, `LbrTrace_proofs`, `LbrTable_proofs` | theorems: types and memory; what is recorded; the refinement |
| `MCLbr` | definitions for the TLC instances |

### State

| variables | code |
|---|---|
| `live`, `liveEntries`, `listed` | allocated `lbr_state`s, allocated entries blocks, `lbr_state_head` |
| `statePid`, `lbrSelect`, `entries`, `saved` | `config.pid`, `config.lbr_select`, `data->entries`, what the block holds |
| `run`, `lbrOn`, `hwSelect`, `stack` | per core: current process, DEBUGCTL bit, LBR_SELECT, LBR stack |
| `at`, `nxt`, `prevState`, `nextState` | per core: progress and locals of `lbr_cswitch_handler` |
| `pc`, `req`, `ptr`, `child` | per process: where it is in the kernel, its request, its local pointers |
| `real_parent` | the kernel's field, which the new-task tracepoint passes on |
| `fault` | the first use of freed memory; a behaviour stops there |

### Actions

A section under `lbr_state_lock` is one step (interrupts are off in it); the code
between two sections is a step of its own, and so is each access to DEBUGCTL
outside a section.

| action | code |
|---|---|
| `Ioctl` | `lbr_ioctl_handler` and the look-up with which each operation begins, early returns included |
| `Alloc`, `Insert` | `enable_lbr`: `create_lbr_state` and the fields; `insert_lbr_state` |
| `Check` | the test for the current process in all four operations, on a state that is on the list |
| `GetOff`, `GetRegs` | `get_lbr`: clear the bit; locked read of the registers into the state |
| `PutRegs`, `PutOn` | `put_lbr`: locked write of the registers; set the bit |
| `SetSelect`, `Copy`, `Remove` | the rest of config, dump and disable |
| `Clone`, `NewProcAlloc`, `NewProcCopy`, `NewProcInsert` | tracepoint or notification, and `lbr_newproc_handler` |
| `Exit` | a process ends; neither port does anything |
| `SwitchTo`, `SwitchFind`, `SwitchGet`, `SwitchPut` | `lbr_cswitch_handler`: two look-ups, get, put, then the switch |
| `Branch` | the processor records a branch |
| `ProcFault`, `SwitchFault` | the next access is to freed memory |

### Abstractions

* The LBR stack is the set of processes whose branches it holds; order,
  addresses, TOS and capacity are left out.  `Watched` names the processes whose
  branches are followed.
* The list is a set.  Where two states have one pid, the look-up may return
  either; the code returns the one nearer to the head.
* The state and its `lbr_data` live and die together and are one object; the
  entries block is separate, since it is what gets shared.
* The memcpy in `lbr_newproc_handler` also writes past the child's `lbr_data`.
  Only its effect on the entries pointer is modelled.
* A freed slot is reset, so that equal heaps are equal states; a freed slot may be
  allocated again.  A held pointer to a slot that was freed and allocated again
  is taken for good, which is what the code would do too.
* A user copy that fails ends the dump as a good one does; both return with the
  kernel's state unchanged.
* A filter is 0, the default 1, or 2 for any other.
* A process is one task: its pid is on one core at a time, as in Linux.  On
  Windows the threads of a process share its pid; that is left to the plan.
* `UntracedIsDark` and `FilterKept` fail when a request is about a process on another
  core; section 8 gives the instances.
* pid 0 is the idle task and, in a request, the caller (enable) or nobody.
* The kernel without preemption gives up a core in user mode and in an allocation
  (`Yields`); with `Preemptible` anywhere outside the locked sections.

## 3 The BTS model

| module | what it is |
|---|---|
| `Bts` | the BTS engine with its callers, cores and scheduler; properties at its end |
| `BtsTable` | the refinement mapping from `Bts` to `TraceTable`, with bits in place of filters |
| `BtsInv` | inductive invariants and the assumptions under which they hold |
| `Bts_proofs`, `BtsTrace_proofs` | theorems: types and memory; what is recorded, and the refinement |
| `MCBts` | definitions for the TLC instances |

Lists, scheduler and program counters are as in `Lbr`.  What differs:

| variables | code |
|---|---|
| `code`, `size` | `config.bts_config`, `config.bts_buffer_size` |
| `base`, `index`, `liveBuf` | the two pointers of the debug store area; the buffers allocated |
| `hwBits`, `dsArea` | per core: the BTS bits of DEBUGCTL, and DS_AREA |
| `fault` | the first access through a bad pointer: freed, a freed parent's (`parent`), null (`stray`), or never set |

| action | code |
|---|---|
| `Ioctl` | `bts_ioctl_handler` and the look-up of each operation |
| `Alloc`, `Insert` | `enable_bts`: `create_bts_state`, fields and buffer; `insert_bts_state` |
| `SetBits` | the first assignment of `config_bts` |
| `Check` | the test for the current process |
| `Get`, `Put` | `get_bts`, `put_bts`, each one section |
| `Free`, `Install` | `config_bts`: the size and `xfree`; `xmalloc` and the debug store area |
| `Copy`, `Remove` | the rest of dump and disable |
| `Clone`, `NewProcCreate`, `NewProcInsert` | tracepoint or notification, and `bts_newproc_handler` |
| `SwitchTo`, `SwitchFind`, `SwitchGet`, `SwitchPut` | `bts_cswitch_handler` |
| `Record` | the processor stores a branch record by itself |
| `ProcFault`, `SwitchFault` | the next access of the code is through a bad pointer |

Abstractions.  A buffer has no positions and no contents: what is modelled is whose
memory the processor reaches.  A state and its debug store area are one object.
`Wild` is the content of fields never set; `xfree` of it goes well if it happens
to be null, and any other use of it is a fault.  Three values of `bts_config`
stand for no bits, the default (branches of user mode) and all branches.  What
`put_bts` and `get_bts` do to DEBUGCTL is one step, since they hold the lock with
interrupts off; the LBR code that writes the same register is beside it in `Lkm`.
As in `Lbr` the new-task tracepoint passes `real_parent`: a process inherits from its
creator, a thread from its creator's real parent (`Parent`), which may run on another
core.  What `bts_newproc_handler` then copies, unlocked, may be freed (`ParentIsThere`,
section 8).

## 4 The Linux module's life

`Lkm` (instances: `MCLkm`; `LkmInv` and `Lkm_proofs`: invariants and theorems) has what `Lbr` and `Bts` leave out: loading and unloading,
the choice of a handler by ioctl number, and both engines on the one DEBUGCTL of
a core.  In exchange a state is reduced to the pid it stands for, and every process
traces itself.

| variables | code |
|---|---|
| `processor`, `preempt` | what cpuid and MISC_ENABLE say; the kernel's kind |
| `loader`, `unflushed` | the step of `libiht_lkm_init` or `_exit` that comes next; the cores `on_each_cpu` has yet to reach |
| `proc_entry`, `probe` | the device, the registration of `tp_sched_switch_handler` |
| `lbr_capacity`, `ready`, `table` | `lbr_capacity`; the engines whose list head is initialised; the lists |
| `debugctl`, `ds_area` | per core: which engines have their bits set; whose area is in DS_AREA |
| `run`, `at`, `next_task`, `found` | per core: current process; rest of the context-switch handler and its locals |
| `pc`, `dbgctlmsr`, `exited` | per process: rest of its ioctl; the local copy of DEBUGCTL; has it ended |

| action | code |
|---|---|
| `CreateEntry`, `RegisterTracepoints`, `LbrInit`, `BtsInit` | `libiht_lkm_init`, with `lbr_check`, `lbr_init`, `bts_check`, `bts_init` |
| `Flush` | `flush_lbr` or `flush_bts` on one core |
| `Unload`, `FreeStates`, `UnregisterTracepoints`, `RemoveEntry` | `libiht_lkm_exit`, with `bts_exit` and `lbr_exit` |
| `Rundown` | what `proc_remove` and the kernel wait for: calls in progress and handlers |
| `Ioctl` | `device_ioctl`, the engines' ioctl handlers and the first look-up |
| `Insert`, `CreateFails`, `ReadDebugctl`, `WriteDebugctl`, `CopyRecords`, `SwitchBts`, `Remove` | the steps of the operations (`Steps`) |
| `SwitchTo`, `SwitchFind`, `SwitchRegisters` | `tp_sched_switch_handler`: LBR handler, then BTS handler |
| `Exit` | a process ends; nothing in the module hears of it |

The read and the write of DEBUGCTL in `get_lbr` and `put_lbr` are two steps: they
have no lock, and a preemptible kernel may move the process to another core in
between.  That neither loses the BTS bits (`BitsExact`) is because the handler
re-establishes both engines' bits at every switch.  In the handler find and switch
are two steps per engine; the previous process' get and the next one's put are
one, as only that core sees its registers meanwhile.

The device takes every request from `proc_create` until `proc_remove`, and the code
asks neither whether an engine is there nor whether the module is coming or going.
Neither does the model; what users do is a matter of the constants, so that each
exclusion is one of an instance and can be seen in its cfg:

* `Requests`: for each engine the steps of insmod and rmmod during which requests for
  it come.  `WhenFlushed`: while the module is loaded, and for the LBR engine also while
  insmod is at the BTS engine.  `WhenLoaded`: while it is loaded only.
* `Cmds`: which ioctl numbers are sent on which machine and kind of kernel.  `AllButLate`
  has all of them and one beyond, but nobody enables an engine the machine lacks, and
  nobody disables one on a preemptible kernel: a disable that is switched out after it
  cleared the bits and before it removed its state finds them set again, and then
  removes the state.
* `AtRmmod`: what may be going on when rmmod begins: operations that are being served,
  processes alive that are traced.  rmmod itself waits for neither.

The code is wrong without any one of these exclusions: requests before an engine's list
head is set up, in its own flush or during unloading, an enable of a missing engine, a
disable on a preemptible kernel, a traced process at rmmod.  Section 8 has the property
that fails and the instance for each.  An access through a bad pointer stops the model
(`fault`).

## 5 The Windows driver

`InfinityHook` is the hook, `Kmd` the driver around it (`MCKmd`: the instance, `Kmd_proofs`:
theorems).  Two
threads: the one that runs `DriverEntry` and `DriverExit`, and `detect_routine`.  Both call
`initialize` and `start` (actions `Test` to `StartFails`, with the thread as parameter).

| variables | code |
|---|---|
| `build` | below or above `m_build_number` 18363: two ways to hook |
| `m_routine_status`, `m_call_back`, `savedClock`, `savedHalp` | globals of hook.cpp |
| `located` | does `m_GetCpuClock_ptr` point into the current trace session? |
| `clock`, `halp`, `session` | the session's GetCpuClock, the HAL's pointer, the session's state |
| `inCallback` | a core is in `self_get_cpu_clock` |
| `pc`, `timer`, `alone` | the two threads; `alone`: `initialize` is called without `start` |
| `resets`, `result`, `overlap` | history: resets by others (bounded by `MaxResets`), what `stop` returned, was the detecting thread past the test when `stop` began |
| `device`, `notify` | the device object, `create_proc_notify` |

| action | code |
|---|---|
| `Test`, `Trace`, `Locate`, `LocateFails` | `initialize`: the status test, `modify_trace_settings`, the search for the addresses |
| `Start`, `StartFails` | `start`, with the creation of the thread |
| `Loop`, `Wake`, `Check` | `detect_routine` |
| `ClearStatus`, `Restart`, `Restore` | `stop`, then the sleep of `infinity_hook_remove` |
| `Cswitch`, `CallbackEnds`, `Reset`, `Tick` | an event that is logged, its end, others resetting the session, two seconds |
| `DeviceCreate`, `NotifyCreate`, `EngineInit` | `DriverEntry` |
| `Unload`, `EngineExit`, `NotifyRemove`, `DeviceRemove` | `DriverExit` |

Every trace control and every search may fail.  Time is in units of two seconds,
and code that does not sleep ends within a unit (`Tick` waits for it): that is
the assumption under which the 10 seconds of `infinity_hook_remove` outlast the 4
seconds of the detecting thread, and under which `UnloadSafe` is meant.

What the model shows beside its properties: `UnloadSafe` needs both its exceptions
on an old build.  The result of `stop` is ignored, so that the driver goes with the
clock still hooked if the session could not be restarted; and a detecting thread
that is past the test of `m_routine_status` hooks again after `stop`.  New builds
do not hook again at all (`Looks`).  The thread compares the pointer only: a reset
between its update of the session and its `start` leaves the clock hooked and the
context-switch events off.  `stop`'s write through a clock pointer that is no longer in
the session (`located` is false) changes nothing that is modelled.  `DriverEntry` returns its failures and leaves device and
notification behind (`failed`).  `DriverExit` frees the lists while the hook still
calls the handlers, like the Linux module (section 8).

## 6 The debuggers

| module | what it is |
|---|---|
| `LbrRing` | the records of the LBR engine: ring, TOS, saved copies |
| `BtsRing` | extends it by the records of the BTS engine: buffers and index |
| `UserLib` | the two libraries' handles |
| `Debugger` | the GDB plugin and the WinDbg extension on top of both |
| `DebuggerInv`, `Debugger_proofs` | inductive invariants; theorems |
| `MCDebugger` | the instance |

A record is `<<pid, k>>`, the k-th branch of a process.  The composition has one core:
a debugger has stopped what it traces before it takes a command, so no
operation meets another core's registers (these are in `Lbr` and `Bts`).

| action | code |
|---|---|
| `Enable` | the command, `enable_lbr` or `enable_bts` of the library (`Open`), and the driver's (`EnableLbr`, `EnableBts`), which may fail |
| `Disable` | the command, the driver's `DisableLbr` or `DisableBts`, then the library's `Close` |
| `Dump` | the command; the driver's copy into the request's buffer (`DumpLbr`, `Copied`, `CopiedArea`) |
| `Switch`, `Branch` | both engines' handlers; the processor records |

`port` is "gdb" or "windbg": the plugin never tests its flags and its library opens a
descriptor at each enable and closes none; the extension tests them, and its
library closes at disable.  `PrintedIsHistory` says of the plugin that the lines with
records are the process' last branches since it was enabled, in time order, for
every capacity of the ring up to MAX_LBR_LIST_LEN: it turns a ring of MAX_LBR_LIST_LEN
whatever the capacity is, and prints entries that nobody wrote in between, but
the records come out in order.  Of the extension it says only that nothing else
is printed: `DumpLBR` omits the newest record and those above `lbr_tos`, and `DumpBTS`
prints 32.  Of the BTS records the order is the buffer's, not time.

Other observations: after a second enable the plugin cannot disable the first
process any more; a dump that fails prints the old buffer again; the Windows
library's messages take the result of `DeviceIoControl`, which is zero on failure, for
success.

## 7 Runs

The module of a run is `MC` and the part that its name begins with: `lbr_` `MCLbr`,
`bts_` `MCBts`, `lkm_` `MCLkm`, `kmd_` `MCKmd`, `debugger` `MCDebugger`.  In `MCLbr` and `MCBts` there
is one slot of memory per process; an allocation may also fail when a slot is
free (that of a BTS buffer, which the code does not check, only in `bts_tracer`).

| run | instance | properties |
|---|---|---|
| `lbr_self` | 2 cores, 2 processes tracing themselves, 4 operations, filters 0 and 2 | `TypeOK`, `NoUseAfterFree`, `TraceExact`, `TraceIsolation`, `ImplementsTable` |
| `lbr_preempt` | the same, preemptible, processes terminate | `NoUseAfterFree`, `TracedIsRecorded`, `PointerDiscipline` |
| `lbr_family` | 2 cores, 2 processes tracing themselves and a third, processes and threads created, enable and disable | `ListWellFormed`, `OneStatePerPid`, `TraceExact` |
| `lbr_tracer` | 1 core, a tracer of itself and another process, fair scheduler | `TraceExact`, `TraceIsolation`, `ImplementsTable`, `OperationsReturn`, `TracingStarts` |
| `bts_self` | 2 cores, 2 processes tracing themselves and a third, processes and threads created, 4 operations, default bits, 2 buffer sizes | `TypeOK`, `PointerDiscipline`, `RecordsInBuffers`, `BitsExact`, `BufferOwned` |
| `bts_tracer` | 2 cores, a tracer of itself and another process, a configuration unlike that of the enable, 2 sizes, buffers may be missing | `BufferOwned`, `ImplementsTable` |
| `lkm_life` | 2 cores, 2 processes tracing themselves, 3 machines, preemptible or not, `AllButLate`, `WhenFlushed`, nothing served or traced at rmmod | `TypeOK`, `NoFault`, `BitsExact`, `AreaExact` |
| `kmd_life` | both kinds of build, 2 resets by others | `TypeOK`, `UnloadSafe`, `OriginalsKept`, `HookReturns` |
| `debugger` | both debuggers, themselves and 1 process with 3 branches, rings of 2 and 3, BTS buffer of 2, 3 handles | `TypeOK`, `PrintedIsHistory`, `ReleasesItsOwn`, `HandlesOwned` |

What they show.  As long as processes trace themselves, the pointers handed out
without the lock are safe, a core records exactly while a traced process runs,
with its filter, nobody is shown the branches of another process, and the whole
is equivalent to atomic operations on a table of filters.  The same holds for a
tracer of other processes if there is one core.  A second core is where the code
and its documentation part (section 8).  On a preemptible kernel an operation may
be switched out while the LBR is stopped; a traced process still never runs its
own code unrecorded.  `TraceExact` and `TraceIsolation` are not checked there:
a disable that is switched out between `get_lbr` and `remove_lbr_state` has its
LBR restarted by the context switch.  With inheritance, uses of freed memory occur
(section 8), but the list itself never links freed memory and no pid gets two
states.

The BTS engine is safe for self-tracing processes with the default bits (`bts_self`):
processes are only recorded into allocated buffers, with the bits and the area
of their own state, although a buffer is freed and replaced in several steps and
states come and go.  It depends on the default bits: between `Free` and `Install` the
area points to freed memory, and only because no record is stored in kernel mode
nothing is written there.  `BitsExact` depends on configurations that drop no bit
(section 8 for both).  With inheritance the model goes on until a child's area is
used (`bts_inherit`) or a thread inherits from a freed state, with remote requests
until the first bad access: the register of another core keeps pointing to memory that
is freed, and a remote resize leaves a null index (section 8).  Up to there list,
buffers and table are right.  The table is so also for remote requests on two cores
(`bts_tracer`), which it is not in the LBR engine, since `get_bts` writes nothing back
into the state: a configuration that differs from the enable's is neither lost nor
undone at a switch.

The module can be loaded, used and unloaded again and again, on a machine that
has both engines, one or the other (`lkm_life`).  If users keep to section 4, nothing is
reached through a bad pointer, and the two engines do not lose each other's bits although
the LBR engine writes DEBUGCTL back without a lock.  That nothing stays behind is a
theorem under the same kind of hypotheses (section 9) and fails otherwise
(`lkm_unload`).  The
Windows driver leaves nothing behind that leads into it, with the exceptions of
section 5.  The debuggers print their process' branches and release it, with
those of section 6.

Why the bounds are enough.  The interesting interferences are between two
holders of one pointer, or between one core's handler and one operation: two
cores and two processes give each, in either engine, and in `Lkm` between one
core's flush and another's handler.  A thread that inherits from somebody else than its
creator needs three processes.  Two filters, or two configurations, tell a kept
one from a lost one and from the default; two buffer sizes make a resize.  A
second reset meets a thread that is busy with the first.  A ring of 2 in a
buffer of 3 turns with 3 branches and leaves an entry unwritten, one of 3 fills
the buffer; 3 handles are one more than the engines, so that numbers are reused
and opens fail.

Symmetry is used between cores, between memory slots and, where all processes
make the same requests, between processes; no run with a liveness property uses
it.

Fairness, and why the code justifies it:

* `Lbr` (run `lbr_tracer`): a context switch that began ends, since
  interrupts are off in it (weak fairness); every runnable process gets a core again and
  again, and a process in the kernel that does makes progress (strong fairness,
  since running and being runnable come and go).  Nothing is assumed of requests:
  no process has to make or repeat one.
* `Kmd` (`kmd_life`): both threads go on and a callback ends (weak); time passes (strong,
  since it waits for what is busy); the detecting thread's trace controls and
  searches, which it repeats every 4 seconds, do not fail for ever (strong).

`CHECK_DEADLOCK FALSE` is used where the system may stop: `lbr_family` and the `bts_` runs
end at a bad access, in `lbr_preempt` all processes may terminate, in `kmd_life` the
driver's life ends; and in the violated runs, which look for one state.

## 8 Findings

Three disagreements with what the repository says of the program are kept as runs that
TLC must find violated:

* `lbr_inherit_disable` (`NoUseAfterFree`): parent and child share one entries block.
* `bts_inherit` (`NoUninitialisedUse`): an inherited debug store area is never set, and is used.
* `lkm_unload` (`CleanUp`): unloading flushes the cores and frees the lists before it unregisters
  the tracepoints; a switch in between to a process that is still listed sets
  its bits again, and they stay when the module is gone.

The others were found with TLC in the same way.  They have no cfg here: to see one, take
the cfg of a run of the same engine, give the constants these values and check the
property.  `FilterKept` is an action property, the others are invariants.  Unless said otherwise there
are 2 cores and 2 processes, no creation, no preemption, the default bits.

| property | what happens | instance |
|---|---|---|
| `UntracedIsDark` (`Lbr`) | a process disabled while it runs on another core keeps that core's LBR on, and nothing switches it off any more | p names q in its requests, enable and disable |
| `NoUseAfterFree` (`Lbr`) | a process is disabled by another one between a handler's look-up of its state on another core and the use of it | the same |
| `FilterKept` (`Lbr`) | the filter given for a process that runs on another core is overwritten at its next context switch by what that core's register held | the same with config, filters 0 and 2 |
| `UntracedIsDark` (`Lbr`) | a process that disables itself is switched out after `get_lbr` and has its LBR restarted by the switch | 1 core, `SelfOnly`, `Preemptible` |
| `OneStatePerPid` (`Lbr`, `Bts`) | two processes enable the same one; both look it up before either inserts | both name p, enable |
| `ParentIsThere` (`Bts`) | a thread's real parent frees its state while it is copied | that of `bts_self` |
| `RecordsInBuffers` (`Bts`) | a configuration by another process frees the buffer that a core is storing to | p names q, sizes 0 and 2 |
| `NoNullUse` (`Bts`) | and it sets the index to 0, where the next record goes | the same on 1 core |
| `RecordsInBuffers` (`Bts`) | `config_bts` frees the buffer before it sleeps in the allocation of the new one; when it is switched in again with bits that ask for kernel branches, the processor stores them into the freed one | `SelfOnly`, codes 2 for enable and config, sizes 0 and 2 |
| `BitsExact` (`Bts`) | `config_bts` stores the new bits before `get_bts` clears "the bits of the state", so old bits stay set | `SelfOnly`, code 2 for config |
| `NoNullUse` (`Bts`) | a buffer that cannot be allocated is used | `SelfOnly`, `BufferFails` |
| `CleanUp` (`Lkm`) | an enable after `lbr_exit`, before the device is removed, leaves its state | 1 core, 1 process, `Requests` includes the steps of unloading |
| `NoFault` (`Lkm`) | an engine that could not be initialised is enabled | 1 core, 1 process, machine `Unknown`, ioctl 1 |
| `AreaExact` (`Lkm`) | during the flush of `bts_init` a process enables BTS and then LBR; the flush falls between `put_lbr`'s read and write of DEBUGCTL, and the BTS bits come back without an area | 1 core, `Requests` is `Usable`, ioctls 1, 2, 6, 7 |

Without a run: nothing removes the state of a process that terminates.  The branch
for it in `create_proc_notify` is empty and the Linux port has no handler.  A property
would only restate this; actions `Exit` let processes end.

## 9 Proofs

Nearly every invariant and every refinement that a passing run checks is also a theorem, for
any number of cores, processes, allocations and handles and rings of any size.  Where
the code is right under conditions only, the conditions are hypotheses about the
constants; the instances of section 7 whose runs check the property satisfy them, but for tracers of
other processes (`SelfTracing`), and each is there for a reason:

| hypothesis | meaning | without it |
|---|---|---|
| `SelfTracing` | requests name their sender, by pid or as 0 | a tracer removes a state that another core's handler is using |
| `NoZero` | and never as 0 | the look-up does not find pid 0, so that a repeated enable makes a second state |
| `NoReuse` | processes end, or new ones appear, not both (`Lbr`) | a pid is used again whose state is still on the list |
| `NoThreads` | who inherits does so from its creator | the thread's real parent frees the state that is being copied: `ParentIsThere`, section 8 |
| `NoCreation` | nobody inherits | run `lbr_inherit_disable`; run `bts_inherit` |
| `~Preemptible` | the kernel keeps a core outside of allocations | a context switch restarts what an operation has stopped |
| `DefaultBits`, `~BufferFails` | BTS requests with the default bits; buffers can be had | section 8 |
| `Orderly` | requests follow their engine's init and are over when rmmod begins, as is what is traced (`Lkm`) | null list heads; run `lkm_unload`, and section 8 |
| `EngineThere` | nobody enables an engine the machine lacks (`Lkm`) | section 8 |
| `Patient` | requests wait until their engine's init has flushed the cores (`Lkm`) | section 8 |
| `NoLateDisable` | no disable on a preemptible kernel (`Lkm`) | section 8 |
| `SleepsLonger` | the driver sleeps longer than its thread (`Kmd`) | the thread outlives the driver |

The LBR engine (`Lbr_proofs`, `LbrTrace_proofs`, `LbrTable_proofs`; invariants in `LbrInv`):

| theorem | hypotheses | result |
|---|---|---|
| `TypeCorrect` | none | `TypeOK` |
| `PointersStayGood`, `ListStaysWellFormed` | `SelfTracing` | `PointerDiscipline`, `ListWellFormed` |
| `NoFreedState` | `SelfTracing`, `NoThreads` | no use of a freed state |
| `MemorySafe` | `SelfTracing`, `NoCreation` | `NoUseAfterFree` |
| `EveryTracedRecorded` | `NoZero`, `NoReuse` | `TracedIsRecorded` |
| `ExactlyTheTraced` | `NoZero`, `NoReuse`, `~Preemptible` | `TraceExact` |
| `NobodyElsesBranches` | `NoZero`, `NoCreation`, `~Preemptible` | `TraceIsolation` |
| `Implementation` | `NoZero`, `NoReuse`, `NoThreads`, `~Preemptible` | `ImplementsTable` |

* The types are not inductive alone: that a process about to insert holds a state
  (`PrivateDefined`) is needed, since what it inserts must not be the null pointer.
* `PointerDiscipline` is the reason why the code is safe without holding the lock:
  a process holds pointers to states of its own pid only (`HeldPointers`), a state
  not yet on the list is known to its creator alone (`PrivatePointers`), a
  context-switch handler holds pointers only to the states of the two processes it
  switches between (`HandlerPointers`), and no process is in two places
  (`OnePlace`).  So whoever frees a state is its process, which runs then, and no
  handler on any core has that process' state.  Entries blocks are shared by
  inheritance; `OwnEntries` says that without it they are not.
* Where processes trace themselves a pid has one state (`InvOneState`).  That is no
  result of its own, since a second enable is excluded and only creation is left;
  the others need it.  It needs that a process in the middle of enabling itself is still
  untraced (`EnablingIsUntraced`), and that a process which is being created has one
  creator and no state before it gets one from it (`InheritingIsNew`).
* `Recorded` is the invariant behind `TracedIsRecorded`: if a core's process is traced
  and its own operation has not stopped it (`Stopped`), the bit is set.  It needs
  `HandlerKnows`: a handler that found no state did so because there is none and, on
  this core, none can appear before the switch is over.
* On a kernel without preemption an operation that stopped the LBR has the core
  until it has started it (`KeepsCore`); so the bit is off whenever it must be
  (`Dark`), and the registers hold the filter of the process (`FilterLoaded`) and its
  branches alone (`StackOwn`, `SavedOwn`).
* The refinement maps each step to a call, an effect or a return of the table, or
  to nothing.  The hard steps are the switches: they write the core's filter into
  the state, which changes no filter by `FilterLoaded`.  `FilterChosen` says that
  what an enable or a new process will insert is what was asked for.

The BTS engine (`Bts_proofs`, `BtsTrace_proofs`; `BtsInv`):

| theorem | hypotheses | result |
|---|---|---|
| `TypeCorrect` | none | `TypeOK` |
| `PointersStayGood`, `BuffersStayOwned` | `SelfTracing` | `PointerDiscipline`, `BufferOwned` |
| `Implementation` | `NoZero`, `NoThreads` | `ImplementsTable` |
| `ParentsAreThere` | `SelfTracing`, `NoThreads` | `ParentIsThere` |
| `RecordsStayInBuffers` | `SelfTracing`, `~Preemptible`, `DefaultBits`, `~BufferFails` | `RecordsInBuffers` |
| `NothingUninitialised` | `SelfTracing`, `NoCreation`, `~Preemptible`, `DefaultBits`, `~BufferFails` | no use of an unset area |
| `ExactlyTheTraced` | `NoZero`, `~Preemptible`, `DefaultBits` | `BitsExact` |

Pointers to states are as in `Lbr`; the pointer of the new-process handler is among them
only without threads (`HoldingPC`).  Buffers have an invariant of their own (`BuffersOwned`): a state that is not
being resized (`Settled`) has a buffer that nobody else has, and every buffer has such a
state.  What the processor reaches follows from `CoresFollow`: a core is dark or has
the default bits and the area of a state of its process; while the area points to
freed memory, in the middle of a resize, the process is in the kernel, where the default
bits store nothing.  The refinement needs neither of these, and no hypothesis about
preemption, bits or memory.  All of it is up to the first access through a bad pointer,
where the model stops; `RecordsStayInBuffers` and `NothingUninitialised` say when none comes.

The Linux module (`Lkm_proofs`; `LkmInv`):

| theorem | hypotheses | result |
|---|---|---|
| `TypeCorrect` | none | `TypeOK` |
| `NothingFreedIsUsed` | `Orderly`, `EngineThere` | `NoFault` |
| `NothingStaysBehind` | `Orderly`, `EngineThere` | `CleanUp` |
| `EnginesStayApart`, `StoresHaveAnArea` | `Orderly`, `EngineThere`, `Patient`, `NoLateDisable` | `BitsExact`, `AreaExact` |

* `InvModule` needs nothing of the users: `Gone` relates device, probe and what runs to the
  steps of the loader, `HeadsReady` says which lists are initialised in each.
* `Phases` relates the steps of loading and unloading to the lists and the processes;
  `StatesHeld` and `Findings` say that operations and handlers look at lists that did not
  change under them.
* `StaysFlushed`: a core that the flush of `bts_exit` or `lbr_exit` has reached keeps the bits
  off, since no operation is left to set them and no living process is traced that a
  switch could set them for.  So bits that early requests or late disables left are
  gone when the module is.
* The bits are those of an engine's process, for the LBR engine the next one already
  while the handler is at the BTS engine (`Owner`, `BitsFollow`); and the copy of DEBUGCTL that
  an operation is about to write back has the right BTS bits wherever it was read
  (`CopyExact`): it is of the same process, whose core has the same bits.

The driver's life (`Kmd_proofs`), from `HookAssumption`, for any bounds and sleeps:

* `KmdTypes` (`TypeOK`) and `KmdRestores` (`OriginalsKept`).
* `KmdUnloadsSafely`, from `SleepsLonger`: `UnloadSafe`.  The invariant `IInv` says why.
  While the driver sleeps
  and its thread has not ended, the driver has the rest of the thread's sleep and the
  difference of the two before it (`Outlasts`), since the thread does not sleep
  again once the status is cleared (`ThreadLife`); so it ends first.  It does not hook
  again if it was not past `initialize`'s test by then (`NoLateHook`), so that nothing
  leads into the driver after `stop` (`Unhooked`, with `SavedValues`), and a callback that
  still ran has ended when the first unit of the sleep is over (`Quiet`).

The debuggers (`Debugger_proofs`; `DebuggerInv`), without any hypothesis: `TypeCorrect`,
`PrintsTheHistory` (`PrintedIsHistory`), `NothingStaysTraced` (`ReleasesItsOwn`) and
`HandlesStayOwned` (`HandlesOwned`).

* A ring holds a history (`Holds`) if the slot written a records ago (`Age`) has the
  branch a before the last, for as many as there were, and no record otherwise.
  The lemma `HoldsRecord` says that a new branch in the next slot keeps this.  The invariant says it
  of every traced process' ring, which is in the registers while it runs and in its
  state else (`Current`, `RingsFollow`), of every area (`AreasFollow`), and of what a dump left in a
  buffer (`BufferHolds`, `BtsBufferHolds`).  `LineIs` and `LaterIsYounger` are why the plugin's turn
  of MAX_LBR_LIST_LEN slots keeps the order of a smaller ring.
* `Released` strengthens `ReleasesItsOwn` by the handle: what an enabled engine traces can
  be released through it.  `HandlesApart` says that no two enabled engines have one
  handle, so that no disable closes the other's.

Model-checked only: `OneStatePerPid` with inheritance (`lbr_family`), and liveness, which with
its fairness is beyond the prover (`TracingStarts`, `OperationsReturn`, `HookReturns`).  Where
a hypothesis above excludes what an instance has, that is checked there only: a tracer
of other processes (`lbr_tracer` on one core, `bts_tracer` for buffers and table).

Proved only: `CleanUp` for orderly users, which `lkm_unload` shows violated for
others; `NoFault` for requests that come in the flush of their own engine; `ParentIsThere`;
and the tables of both engines with processes created, which no run checks.

## 10 Mutants

Some definitions are preceded by a faulty variant named for its fault
(in `Lbr`, `UnlinkNothing`: `xlist_del` forgotten; `MatchesAny`: a
look-up that does not compare the pid; `AfterGetNoPut`: a dump that does not
restart the LBR; in `Lkm`, `WithLbrAlone`: the LBR code writes its bit and not the register
it read; in `InfinityHook`, `TestNothing`: no test of `m_routine_status`; in `Debugger`,
`TurnedEarly`: the ring turned by one too few; and so
on).  `PROJECT.json` pairs each property of each run with a variant that breaks it.

## 11 What is not modelled

* The search for addresses in the kernel's image (`utils.hpp`: pattern matching, section
  headers) is one step of `InfinityHook` that succeeds or fails.  Its loop ends one
  position early, and its length wraps if a section is shorter than the pattern.
* The instruction-length disassembler is vendored; that search uses it to find the
  system call table.
* The engines' lists while the Windows driver goes away: `Lkm` has the same order of
  steps for Linux.
* The threads of one Windows process, which share its pid and its state.
* The libraries' config calls, which no debugger uses, and the sizes of user
  buffers.
* Sleeping in places where a kernel must not (user copies under the spinlock,
  allocation in a tracepoint probe): a rule about the kernel's interface, not about
  orders of steps.
* Logging and the demos: no behaviour of interest.

## 12 Plan

Done: `Lbr`, `TraceTable`, their runs and theorems; `Bts`, `BtsTable`; `Lkm`, with the register
both engines share, loading, unloading and dispatch; `InfinityHook` and `Kmd`; `LbrRing`, `BtsRing`,
`UserLib` and `Debugger`; theorems.  Left:

1. Threads that share a pid (Windows) in `Lbr`.
2. A pure module for the pattern search.
3. Proofs: the refinement of `TraceTable` on one core for a tracer of other processes;
   memory safety of `Lbr` with inheritance as long as nobody disables.
