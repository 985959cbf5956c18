# The LSO script core and two of its viewer's protocols in TLA+

This directory specifies the part of the repository that runs LSL scripts
compiled to LSO, `src/indra/lscript`, and two of the concurrent components in
the viewer libraries beside it: reliable messages over UDP
(`src/indra/llmessage/llcircuit.cpp` with `message.cpp`) and worker threads
with a queue of requests (`src/indra/llcommon/llqueuedthread.cpp` with
`llthread.cpp`). It holds TLA+ modules, the configurations that check them
with TLC, and theorems with proofs for TLAPS. `PROJECT.json` maps each
definition to the lines of C++ it stands for, and lists the hazards the
properties are aimed at.

## 1. The system

The repository is a copy of a viewer's tree cut down to what the LSL compiler
and virtual machine need. Its own core is `src/indra/lscript` (about 35,000
lines); the rest is the viewer's base libraries. A script's whole state is one
buffer of 16384 bytes (`TOP_OF_MEMORY`): registers, global variables,
functions, states, then the heap (from HR up to HP) and the stack (from the top
down to SP). The script core runs in one thread. What interleaves there is the
script's own code, cut into quanta, and the host's calls between the quanta,
saving and restoring included. In the message system what interleaves is two
hosts and the network between them; in the worker thread, two threads.

| Component | State | Operations | Talks to | What is hard | Correct when |
|---|---|---|---|---|---|
| Script heap (`lscript_library/lscript_alloc.cpp`) | headers with size, type and S16 count; HP, SP, FR | `lsa_heap_add_data` (first fit, split, merge), `lsa_increase_ref_count`, `lsa_decrease_ref_count`, list construction and release | the opcodes, the stack (`set_sp`), `writeState` | in-place split and merge under held addresses; lists owning blocks; running out in the middle of a list | blocks tile the heap, stay below SP, counts are exact, a held block stays as it is, what is saved is whole |
| Script scheduler (`lscript_execute.cpp`, `runQuanta`, `runInstructions`) | registers IP, IE, CE, ER, CS, NS, SLR, FR; the event queue | `addEvent`, `setCurrentEvents`, `runQuanta`, three ways to call a handler, `nextState` | the host, the handlers, the jump tables of the image | state changes overtaking events, two ways for an event to come in, yields at any place | handlers match events, no event reaches another state, events are served in order |
| Opcode interpreter (`resumeEventHandler`, `run_*`) | IP, the stack, locals | one function per opcode | heap, scheduler, library | the loop that must be left for the timer; frames and references balanced by the compiler | interruptions are invisible to the handler; a looping handler can be stopped |
| Save, restore and reset (`writeState`, `writeEvents`, `readState`, `readEvents`, `reset`) | the saved bytes and events | as named | host's storage, scheduler, heap | registers and queue are written and read by different calls; a reset copies the image in the wrong byte order | a restored script is one that could have come to where it is; a reset one runs no wrong code |
| Script resources (`llscriptresource*.cpp`) | total and use of each pool; a consumer's pool | `request`, `release`, `setTotal`, `switchScriptResourcePools` | pools and consumers | totals shrink below use; a move is a release and a request | a pool counts its consumers' URLs |
| Message circuits (`llcircuit.cpp`, `message.cpp`) | packets waiting for an acknowledgement, packets already received, acknowledgements to send, packet ids | `sendMessage`, `processAcks`, `checkMessages`, pings, removal | the other host, callbacks of the senders | loss, reordering, retries, ids that wrap, circuits that go | each sender is told once, and of success only if the message was handled; nothing is handled twice |
| Queued threads (`llqueuedthread.cpp`, `llthread.cpp`) | the queue, the table of requests, their status and flags; pause and idle flags | add, abort, complete, wait, pause, update, shutdown; the worker's loop | main thread and worker, the derived class's `processRequest` | two locks and a condition variable; deletion while in use; shutdown by timeout | one owner per request, finished once, every request ends, the thread stops |
| Compiled image (`lscript_bytecode.cpp`) | chunks | `build` | the compiler's passes | offsets | the initial states of heap and scheduler |
| Compiler passes (`lscript_tree.cpp`, `indra.y`, `indra.l`) | syntax tree, scopes | parse, scope, type, return, stack-size and emit passes | the image | what the interpreter relies on without looking: balanced stacks, cleaned-up references | accepted programs run without internal faults |
| LSO dump, library functions, harness, fuzzer, old compile-time heap, other base libraries, build and tests | | | | the fuzzer's file order | |

## 2. The modules

| Module | Models |
|---|---|
| `LSAHeap` | the script heap |
| `RefStore` | what the heap promises: a store of counted objects (abstract) |
| `ScriptScheduler` | the event registers, the queue, state changes, quanta |
| `SaveRestore` | the scheduler with saving, loss, restoring and reset (extends it) |
| `HotLoop` | the loop of `resumeEventHandler` |
| `HandlerCode` | what a handler does when nobody interrupts it (abstract) |
| `ScriptResources` | pools and consumers of public URLs |
| `Circuit` | reliable messages between two hosts |
| `Delivery` | what a reliable message promises its sender (abstract) |
| `QueuedThread` | a worker thread, its queue and its client |
| `MCLSAHeap`, `MCScriptScheduler`, `MCSaveRestore`, `MCHotLoop`, `MCCircuit`, `MCQueuedThread` | instances for TLC |
| `LSAHeapProofs`, `ScriptSchedulerProofs`, `SaveRestoreProofs`, `HotLoopProofs`, `ScriptResourcesProofs`, `CircuitProofs`, `QueuedThreadProofs` | theorems |
| `DataLemmas` | facts on numbers, finite sets and sequences that several proofs use |

**LSAHeap.** `blk` is the heap seen through its headers: a function from the
offset of a header to its size, type and count and, for a list, the addresses
in its data. Offsets, header size (7) and data sizes (4 bytes for an integer,
4 + 4n for a list) are those of the code, because where HP must be, when a
block is split and what is left of it depend on them. `hp`, `sp` and `fr` are
registers. The loops of `lsa_heap_add_data` and `lsa_decrease_ref_count` are
taken apart into one step per iteration: `pc` is `walk` in the first, `fill`
between the elements of a list, `drop` in the loop over the elements of a list
that is released. `PlaceSplit`, `PlaceWhole` and `Advance` are the three
branches of the walk; `AddElement` and `FinishList` are `lsa_insert_data` for
a list and what follows it; `IncreaseRefCount`, `DecreaseRefCount`,
`DropList`, `DropElement` and `FinishDrop` the reference counts; `SetSP` the
stack. `held` is not in the code: it counts the references the script's stack
and variables hold, which is what the stored counts are compared with. The
client releases only what it holds and bounds itself by `MaxRefs`; it also
passes address 0, which the code's comments name as the value of a variable no
path initialised. A fault stops the model, as every later call returns at once.

**RefStore** knows addresses, counts and values only. `ImplementsStore` maps
an object to a held block; a list under release is gone from the moment
its elements start to go.

**ScriptScheduler.** A 64 bit event register is the set of its events. `code`
is the event whose handler IP stands in, 0 for IP = 0; the jump table is
counted by position as `get_event_handler_jump_position` does, and `Beyond` is
an address read past the end of a table. `pc` is `host` between quanta, `pick`
at the start of `runInstructions`, `run` in a handler, `check` where
`runQuanta` looks at yield and timer. Every branch of `runInstructions` is one
action under `Pick`. A handler is abstracted to what the scheduler sees: it is
interrupted, sleeps, changes state, returns or faults. The host (newsim's
`LLScriptData`, outside of the repository) may queue an event, raise a bit of
CE, ask for a reset, end the sleep and call `runQuanta`; it sends only events
that ER names, and raises on_rez, whose argument is in the queue, only with an
on_rez queued.

**SaveRestore** adds what happens to the script object: `Save` is `writeState`
followed by `writeEvents`, one step of the host between quanta; `Load` is a new
object that reads both back, after the old one was unloaded or lost, at any
point of a quantum; `Reset` is `reset`. `RestoredQueue` reverses the queue,
because events are written front to back and read with `push_front`. `inert`
marks a script after `reset`, which copies the image without the byte swap
that loading makes: version and registers are then misread, so that no event
is handled. Such a script has no readable size, cannot be saved, and a second
reset writes outside of the buffer, for which `Load` stands. The scheduler's
own steps are taken unchanged (`Undisturbed`).

**HotLoop.** Instructions with their opcode's byte, from `LSCRIPTOpCodes`, and
the `switch` with its enumerators, from `LSCRIPTOpCodesEnum`. `cur_ip` lives
in the loop, register `ip` is written on leaving it; `mInstructionCount` is the
code's count of instructions, which wraps at `Wrap`. `HandlerCode` is the same
code without a loop; `ImplementsCode` maps its position to `cur_ip` inside and
`ip` outside, and its count of instructions to the code's, so that an
instruction run twice is seen even when the position afterwards is right. The
two modules are the two sides of `resumeEventHandler`: for `ScriptScheduler` it
is the action `Handler`, in `HotLoop` it is spelled out.

**ScriptResources.** One action per call; `getUsedPublicURLs`, pure virtual in
the code, is the variable `urls`. What implements it takes a URL if `request`
granted one, and calls `release` when it gives one back.

**Circuit.** One host sends, the other receives and acknowledges, each with an
`LLCircuitData` for the other. Packets are ids; ids wrap at
`LL_MAX_OUT_PACKET_ID`. `SendMessage` puts a packet in `mUnackedPackets` or,
without retries, in `mFinalRetryPackets`; `ProcessAcks` is one pass of
`LLCircuit::resendUnackedPackets` over the circuit with the ping that may precede it,
where time is abstracted to the set of packets that have expired, the first
that is throttled, and whether too many bytes wait; `ReceiveAcks` is
`ackReliablePacket` for the ids of a packet, `RemoveCircuit` the end of the
sender's circuit. On the other side `DiscardDuplicate`, `HandleMessage` and
`HandlePing` are the ways a packet goes through `checkMessages`, `SendAcks`
sends what is collected, `ForgetSender` is the end of the receiver's circuit.
The network `net` delivers packets in any order and `Lose` takes any away; an
acknowledgement that is lost is one that never arrives. The sender is
protected, as `mbProtected` is by default (`message.cpp:220`): packets open no
circuit there. The receiver is not: a packet opens one. `handled`, `again`,
`overtaken` and `report` record what happened for the properties.

**QueuedThread.** A step is what one thread does between two points where it
holds no lock. `worker` and `main` say where the two threads are. The worker:
`CheckPause` and `WaitForWake` are `checkPause`, where the lock of the data is
let go before the wait on the condition, so that a signal in between is lost;
`Top`, `ProcessNextRequest`, `Complete` or `Requeue`, `CountPending` and
`SetIdle` are the loop of `run`. The client: `AddRequest` with `IncQueue`,
`AbortRequest`, `CompleteRequest`, `Pause`, `Update` with `Unpause`,
`WaitForResult` with its loop over `update`, and the steps of `shutdown` and
of the destructor. Requests are numbers in the order of the queue. `timedOut`
is not in the code: it says that `shutdown` went on without the worker.

Bodies named `<definition>_<change>`, commented "Mutant", are plausible wrong
versions of the definition that follows; substituting one must make TLC
find the property `PROJECT.json` pairs it with violated.

## 3. The runs

| Run | Distinct states | Shows |
|---|---|---|
| `heap` | 231,645 | A script with a global string and a global list: tiling, layout below the stack, exact counts, no dangling reference, held blocks untouched, a collision only if the data fits nowhere, every saved heap whole, every operation ends, and refinement of `RefStore`. |
| `scheduler` | 29,824 | Two states with state_entry, events by both ways: the properties of section 4 hold, liveness included. |
| `save` | 514,068 | The same machine saved, lost in the middle of a handler, restored and reset; one state has no state_entry and is served by the queue alone. |
| `hot_loop` | 840 | No instruction is lost, repeated or run after a fault, wherever the loop is left. |
| `resources` | 7,376 | Pools count their consumers' URLs; only a smaller total takes one over its limit. |
| `circuit` | 190,514 | Two messages and a ping, lost, reordered, resent and acknowledged while circuits come and go. |
| `queued_thread` | 152,165 | Three requests through every interleaving of the two threads, shutdown at any point. |
| `scheduler_calls`, `scheduler_cancel`, `hot_loop_while`, `circuit_twice`, `queued_shutdown` | | Counterexamples, section 6. |

Bounds, and why they are enough:

- *Heap.* 73 bytes instead of 16384, from offset 4, with a compiled string and
  a list of one element in them. Behind them is room for two or three blocks,
  and the compiled ones can be released: two neighbours to merge, a held block
  between them, and a split whose rest is too small for a header. The scalar
  sizes 4 and 12 are an integer's and a vector's; the script makes lists of two
  elements, the compiled one has one. The stack pointer takes two values (60 and
  72), one of them inside
  the heap's reach, so that each collision test happens with the walk, with a
  carved-out block and with a list after its elements. `MaxRefs` = 2 and
  `RefHalf` = 4: two holders are the least for which a release is not the
  last; the S16 range is never left (section 7). `CHECK_DEADLOCK FALSE`, as a
  heap at fault does nothing more.
- *Scheduler and save.* Two states, so that a change can go there, back, and
  be cancelled; three to five handlers; a queue of two places instead of 64,
  which the events sent fill and overflow, and which a restore can reverse;
  `TimerCheckSkip` 1. `HostEvents` (4, and 3 in `save`) bounds what the host
  sends in all: liveness is about the time after it stopped. What of a handler
  counts is unbounded: it may be interrupted, sleep and change state any
  number of times, and the script be saved, lost and reset any number of times.
- *Hot loop.* Four frames, fourteen instructions that contain each opcode class
  the switch tells apart, a backward jump taken any number of times; the count
  of instructions wraps at 3, which tells one step from none and from two.
  `CHECK_DEADLOCK FALSE`, as a script at fault does not run.
- *Resources.* Three consumers, two pools and the null pool, totals up to 3:
  enough for a pool to be over its limit while a move comes or goes.
- *Circuit.* Seven ids of which 5, 6 and 0 are used, so that they wrap inside
  the run; two messages, with no retry or one, and one ping: enough for a
  message to wait in each list while the other moves, for a resend to overtake
  its original, for a ping to forget one message and keep the other, and for
  each copy to be lost. The handler of message 0 closes its circuit.
  `CHECK_DEADLOCK FALSE`: when all is sent and answered the two hosts are
  silent.
- *Queued thread.* Three requests: one in the worker's hands, one before and
  one after it in the queue; the last has FLAG_AUTO_COMPLETE. Requeueing,
  pausing, aborting and waiting are unbounded. `CHECK_DEADLOCK FALSE`: after
  destruction nothing happens.

Fairness:

- `LSAHeap!FairSpec`: `WF(Working)`. The loops are straight C++ code; once in
  one, the next iteration is what runs.
- `ScriptScheduler!QuantumSpec` and `SaveSpec`: `WF` of `Pick` and `Check`,
  for the same reason, and of `Elapse`: time passes. Nothing is assumed of
  `Handler`: the code does not make a handler leave the loop of
  `resumeEventHandler` (`hot_loop_while`). `QuantumEnds` therefore says that
  the host gets control back again and again unless the machine stays in one
  handler's loop for ever. Nobody has to save, lose, restore or reset.
- `ScriptScheduler!FairSpec` adds `WF(runQuanta)` (the host goes on scheduling
  the script) and `SF(run_return)`: handlers return in the end. That is an
  assumption on the script, for `EventsServed` and `QueueDrains`: which
  handlers leave the loop at all is the question of `HotLoop`. It must be
  strong fairness: between two chances to return a handler is out of its code.
- `HotLoop!FairSpec`: `WF(Execute)`.
- `Circuit!FairSpec`: `WF(ResendSome)`. The host's main loop calls
  `processAcks` for ever; a packet expires in the end, and the throttle lets a
  pass come to it. The network owes nothing: it may lose every packet.
- `QueuedThread!FairSpec`: `WF` of the worker's steps and of the main thread
  inside a call, as the operating system runs both; `SF(Complete)`:
  `processRequest` returns TRUE in the end; `SF(Update)`: the main loop goes on
  calling `update`, which is what the code relies on to make a lost signal
  good.

## 4. The properties

*Heap.* `Tiling`, `HeapBelowStack`; `CountsExact`: a stored count is the number
of references there are, and the code's internal error about a negative count
cannot appear; `NoDangling`; `SavedWhole`: the bytes from HR to HP, which are
all that `writeState` saves, hold every live block and the header a walk needs
behind them; `HeldBlocksStay` (a step may never change a block that stays
held); `CollisionOnlyWhenFull`: the walk merges eagerly enough to find every
place there is; `OperationsEnd`; `ImplementsStore`.

*Scheduler.* `OnlyRegistered`: the warning about an event the script is not
registered for cannot appear; `RezHasArgument`; `HandlerMatches`;
`ExitBeforeSwitch`; `CleanSwitch`; `InOrder`; `NoIdleRound`: a round that finds
something due runs a handler or changes the state, it never leaves an event in
front of the others without serving it; `EventsServed`; `QueueDrains`.
`RezHasArgument`, `NoIdleRound` and `EventsServed` hold in `scheduler` because
no state there has both a state_exit and an on_rez handler; `scheduler_cancel`
has one and breaks the last.

*Save, restore and reset.* `RestoredSound`: nothing is raised or queued that the
restored state does not handle, and an on_rez has its argument, though
registers and queue are separate; `HandlerMatches` across saving and loading;
`ResetFailsSafe`: a reset script does nothing at all, but runs no wrong code;
`QuantumEnds`, with a queue and registers that do not fit each other: a handler
that comes out of the loop of `resumeEventHandler` again and again, but never
returns, does not keep the host waiting.

*Hot loop.* `FaultStops`, `ImplementsCode`. *Resources.* `UsedIsSum`,
`OverOnlyByTotal`.

*Circuits.* `WaitsUntilReported`: a message is in exactly one list until its
sender is told, the count beside the lists is right, and the circuit is among
those that are visited for resends; `TwiceOnlyIfOvertaken`: it takes a copy
passed on the way by its resend or by a ping to have a message handled twice
by one circuit; `ImplementsDelivery`: one report for each message, success
only for what was handled; `AllReported`.

*Queued threads.* `OneOwner`: the queue, the worker, the client or nobody has
a request; `NoUseAfterDelete`: the worker finds no deleted request on the
queue when it looks for the next one, the table, where every call of the client
looks, has none, and none is deleted while the worker processes it, unless
shutdown gave up waiting;
`FinishedOnce`: `finishRequest` is called once for each request that completes
or aborts, never for a deleted one again, and not for those that shutdown finds
queued or in progress, which are exactly the ones its warning counts
(`active`); that this contradicts what the header promises is `AlwaysFinished`
in `queued_shutdown`; `EveryRequestEnds`, if the client pauses the worker
finitely often; `QuitStops`: the signals of shutdown may be lost, the
destructor's broadcast is not.

Two things the model of the thread shows besides: a request aborted with
autocomplete after it was completed stays in the table until shutdown, and
`waitForResult` on an aborted request that is not auto-completed never returns.
No text of the code promises otherwise, so neither is a finding; the model's
client does not wait for what it aborted before the wait.

## 5. What is proved

All for every value of the constants that meets the assumptions the modules
name. Every one of these theorems is checked by TLAPS to the last leaf.

- `LSAHeapProofs` (`HeapAssumption`, `StaticsAssumption`,
  `StaticListsAssumption`: the compiled blocks lie end to end below the top of
  memory, a global list's elements are blocks of its own, and a count has room
  for every reference there may be): `TypeCorrect`, `Tiled`, `BelowStack`,
  `LaidOut`, `SavedHeapIsWhole`, `CountsAreExact`, `NothingDangles`,
  `HeldStay`, `FullWhenItCollides`, `FaultsAreTheScripts`, `NoHeapError`,
  `OperationsShrink` and `Implements`, the refinement of `RefStore`. The
  argument has five layers.
  - `IInv == TypeOK /\ Tiling /\ Layout`. Tiling is not inductive by itself:
    that a carved-out block lies in the heap needs the walk to stand on a
    header; that HP stays below SP needs each header to lie below HP, which
    fails for one header as long as a carved-out list waits for its elements,
    since its HP check comes after them. `Layout` says all that. There is one
    lemma for each shape of change of the block function (splitting, taking,
    merging, a change of counts) and one step per action.
  - `RInv`: a block in use is held by the script as often as its count says,
    or is an entry of exactly one list, or is the list being filled or
    dropped. Exact counts are not inductive by themselves: a release frees the
    right blocks only because no entry is listed twice and nothing held is
    listed.
  - `ListLengths`: how many elements of a list are still to come. The value of
    a list in the abstract store needs it.
  - `NoneBehind`: the walk has passed no place that would hold the data. Merging
    is what makes it true: a block is passed only when the one behind it is in
    use or the last.
  - `StepsLeft`: a bound on what is left of an operation. A walk ends because
    the end of the block it looks at only moves on, be it past the block or by
    a merge; a list's elements and a released list's entries run out.
  `FaultsAreTheScripts` says which checks of the code can ever fail: that for
  a collision, the bound check for address 0, and the bound check on the header
  that lsa_split_block writes behind a value, in one case: the value goes to
  the heap's first block, so near the top of memory that the header would lie
  past it (`SplitOutside`; further on the walk has compared the place with SP
  before). The compiled heap of the run `heap` leaves no room for that case. `NoHeapError` says it of
  LSRF_HEAP_ERROR alone; that it rests on `MaxRefs` lying below `RefHalf` is
  the hazard of the S16 count (`lscript_alloc.cpp:473`).
- `ScriptSchedulerProofs` (`SchedulerAssumption`): `TypeCorrect`, `Registered`,
  `ExitFirst`, `SwitchIsClean`, `ServedInOrder`, `RightHandler`, `RezServed`,
  `NoRoundIsIdle`, `FewCallsLeft`.
  `SInv` adds to the checked properties what connects them: as long as a state
  change waits, state_exit is raised or its handler was the last that was
  called (`ExitCalled`, `ExitWaits`), and IP is in a handler whenever the
  machine runs one (`RunsCode`). `RightHandler` has two conditions
  (`WellServed`): each state has a state_entry handler or handles none of the
  events the host raises in CE, and the host raises no event behind bit 31.
  `RezServed` and `NoRoundIsIdle` have one (`ExitOrRez`): no state has both a
  state_exit and an on_rez handler. `scheduler_calls` drops the two conditions
  of `RightHandler`, `scheduler_cancel` that of the others.
  The heart of `RightHandler` is that positions in a jump table are different
  for different events, a fact on cardinalities of finite sets, and that CE
  holds nothing but what is raised (`CallsRight`). `FewCallsLeft`
  counts the calls of `runInstructions` that may still return from the time
  being up to the host's next turn (`CallsLeft`), for handlers that return or
  not. It does not say that a call returns: the loop within may go on for ever,
  as `hot_loop_while` shows.
- `SaveRestoreProofs`: `ResetIsSafe`; under `ExitOrRez`, `RestoredIsSound`;
  under `WellServed`, `RestoredHandlerIsRight`; `RestoredFewCallsLeft`.
  `VInv` is the scheduler's `SInv` for a script that is not inert, the same of
  the saved image, and emptiness of an inert one; `MatchInv` is `CallsRight`
  for script and image. The queue may come back in any order: that is all the
  proofs use of it.
- `HotLoopProofs` (`LoopAssumption`): `TypeCorrect`, `NothingAfterFault` and
  `Implements`, the refinement of `HandlerCode`. `FInv`: the bottom frame is
  the handler's, there are frames exactly as long as it runs, and a fault is
  seen outside of the loop only.
- `ScriptResourcesProofs`: `CountsItsConsumers`, `WithinLimit`. `UsedIsSum` is
  stated with the cardinality of the set of URLs in a pool, so that no
  recursion over consumers is needed.
- `CircuitProofs` (`CircuitAssumption`): `TypeCorrect`, `Bookkeeping` and
  `Implements`, the refinement of `Delivery`, for ids that wrap anywhere and
  any number of messages, pings and retries. `CInv` adds that what the receiver
  remembers or acknowledges was handled, and what it may yet handle was sent.
  From `Delivery` alone follows `ToldOnceAndTruly`: a sender is told one
  result, and success only of what was handled. `TriesRunOut`: no message
  regains a try, and a pass that comes to an expired packet costs one.
  `Twice` (`TwiceOnlyIfOvertaken`) and `RememberedWhileNeeded` (`Forgotten`)
  have one condition, `FewPackets`: the ids given out lie within half of their
  range. The code takes that for granted: `checkPacketInID` tells the later of
  two ids by half the range. The inductive invariant is `TInv`. It compares
  ids by `Index`, the order they are given out in, which does not wrap, and has
  four parts: of two copies on the way the one behind is the resend, and a
  ping names a packet not younger than any that waits or follows it
  (`OnTheWay`); nothing in use is younger than the last id given out
  (`SenderWindow`), nothing remembered younger than the highest id seen
  (`ReceiverWindow`); and what is remembered no more comes no more or was
  overtaken (`Forgotten`). The last is the reason why the oldest id of a ping
  may empty the receiver's memory.
- `QueuedThreadProofs` (`RequestsAssumption`): `TypeCorrect`, `Owned`,
  `Finished`, `NotUsedAfterDelete`, `NeverLeftAsleep`, `SixStepsToTheEnd`, for
  any set of requests. `QInv` adds `Positions`: what the places of the two
  threads in their code say of the state, above all that the worker takes
  nothing off the queue any more when shutdown deletes what is left there.
  `NotAsleep` says why the destructor's broadcast, unlike shutdown's signals,
  cannot be lost: after ten seconds the worker is waiting already, or in
  `processRequest` and not going to sleep again. That rests on `StopAwaiting`:
  ten seconds are longer than what the worker does between two locks.

Only model-checked: `OperationsEnd`, `EventsServed`, `QueueDrains`,
`QuantumEnds`, `AllReported`, `EveryRequestEnds` and `QuitStops`, as liveness
under fairness is out of the prover's reach. What of them is not about fairness
is proved, but for `EveryRequestEnds`: that each step taken brings the end
nearer (`OperationsShrink`, `FewCallsLeft`, `TriesRunOut`,
`SixStepsToTheEnd`), or that each round serves something (`NoRoundIsIdle`, for
`EventsServed` and `QueueDrains`).

## 6. Where code and comments disagree

- `scheduler_calls`, in two places. state_entry is called when it is raised and
  *any* event is raised and handled (`lscript_execute.cpp:952`): in a state
  without a state_entry handler the jump table is then read at the place of
  another event, here http_response, whose handler runs as state_entry's. Then
  the set of events is cut to 32 bits (`lscript_execute.cpp:981`), so
  http_response and http_request are never found: the handler is entered again
  with IE empty, and the event stays raised.
- `scheduler_cancel` (`lscript_execute.cpp:915`). The queue is emptied before
  state_exit runs. If state_exit changes back to its own state the change is
  cancelled, but an on_rez raised in CE has lost its argument; it is looked
  for in each round, found in none, and nothing else is served.
- `hot_loop_while` (`lscript_execute.cpp:349`). The switch that leaves the
  loop compares the opcode's byte with the enumerators' ordinals. Backward
  jumps, calls, returns and library calls are never recognised; what leaves
  the loop are pushes of lists, vectors and quaternions. A `while` loop around
  `llSleep` neither sleeps nor can the timer stop it.
- `circuit_twice` (`message.cpp:598`). Duplicates are looked for among resends
  alone, so an original that its own resend overtakes is handled again. The
  comment at `llcircuit.cpp:882` says that it would take a ping delivered out
  of order for suppression to fail.
- `queued_shutdown` (`llqueuedthread.cpp:92`). The header says of
  `finishRequest` "Always called from thread after request has completed or
  aborted" (`llqueuedthread.h:122`). `shutdown` marks what is still queued or
  in progress as aborted and deletes it without that call, and a worker that
  sees QUITTING at the top of its loop leaves the queue as it is.

## 7. What is not modelled, and the plan

In the modelled components:

- *Heap.* Concatenation and comparison, which allocate and release through the
  modelled operations; lists in lists, refused before the walk. The S16 count
  keeps its width, but the client never comes near its end: `MaxRefs` lies
  below `RefHalf`.
- *Scheduler.* `removeEventType`, which nothing calls, and `runNested`.
- *Save and restore.* `writeBytecode`; bytes that `readState` refuses, which
  another build would have to write; big-endian builds, where `reset` needs no
  swap; loading into an object that already runs.
- *Interpreter.* What opcodes other than jumps, calls, returns and library
  calls do to the stack.
- *Circuits.* Unreliable messages; opening a circuit again on the sender's
  side; messages sent from the callbacks of failed ones; duplication by the
  network; the count of packets lost; message templates and bytes; a negative
  timeout, for which an acknowledged packet is reported as timed out
  (`llcircuit.cpp:218`). Assumed: the 60 seconds after which the receiver
  forgets ids from before a wrap (`llcircuit.cpp:1053`) outlast the sender's
  tries and the copies under way (`Settled`).
- *Queued threads.* `setPriority`, FLAG_ASYNC, `setFlags`, the unthreaded mode,
  `waitForResult` without auto-completion, `waitOnPending` (a loop of `update`
  until the worker is idle, `llqueuedthread.cpp:177`), handles that wrap.

Left out for good: the wording and layout of dumps and logs; the pure library
functions; the old compile-time heap, which is not compiled; build files and
the viewer's tests; and the other base libraries of the viewer (geometry,
inventory, XML, files, image and sound), which make up most of the tree and
which the script core uses for byte order, time and identifiers only.
The map therefore covers a small share of the whole tree.

Next, in this order:

1. `StackDiscipline`: what opcodes push, pop, retain and release, frames of
   calls and handlers, over `LSAHeap`'s operations. Hazards: `l == l` leaks a
   reference (`lscript_alloc.cpp:981`), `STATE` trusts SP where `RETURN`
   restores it from BP (`lscript_execute.cpp:3366`), the S16 count wraps at
   32768 references.
2. `Codegen`: labels and jumps of a handler (`lscript_bytecode.cpp:218`, where
   jumps are kept by the name of their label), the pass that prunes state
   changes in functions (`lscript_tree.cpp:8810`), stack sizes: the facts
   `StackDiscipline` and `HotLoop` assume of their code.
3. Concatenation and comparison in the heap, then the fuzzer's file pipeline.
4. In the base libraries, asynchronous and prioritised requests of
   `QueuedThread`.
5. A measure for `EveryRequestEnds`, which needs a bound on requeueing and on
   the client's pauses.
