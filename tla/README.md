# simple-dcc: a verification project

simple-dcc is the firmware of a DCC command station on an RP2350: LCC (OpenLCB)
throttles drive locos, the station turns their commands into DCC packets and
puts them on the track. It is C on FreeRTOS SMP with two cores, about ten tasks
and no dynamic memory. This project models its logic in TLA+, model-checks it
with TLC and proves the most important results with TLAPS.

`PROJECT.json` is the machine-readable side: runs, mutants, the map from
definitions to source lines, hazards, findings and theorems.

## Inventory of the system

Paths are relative to `src/src/`.

| component | state | operations | talks to |
|---|---|---|---|
| DCC engine `dcc/dcc.c` | loco table (50), reminder loop state, held e-stop flag, last throttle; one mutex | set throttle / function, ensure / forget loco, e-stop of one loco, global e-stop and its clear, POM and accessory commands, reminder pass | called by LCC, RailCom, display; sends packet pointers to the priority queue |
| packet pool `dcc/packet.c` | 80 slots with `in_use` | alloc, free, builders, encoding | every task that sends or forwards a packet |
| priority queue `queue/priority_queue.c` | binary heap of 64 pointers, owned by its task | drain the input queue (dedupe, push), pop one packet per tick, send it on | input queue (16), output queue (8) |
| wavegen `wavegen/` | PIO state machines | take a packet, feed its words to the PIO FIFO, free it; re-initialise when the RailCom setting is written | output queue, hardware |
| motor / track `motor/motor.c`, `track/track.c` | power mode of two tracks (atomic), overload timers | set power, monitor tick (overload, alert, recovery) | LCC events, service mode, display |
| service mode `servicemode/` | one job slot, ACK detector | submit a CV read or write, run it on the programming track | memory config, motor, wavegen |
| RailCom `railcom/` | cutout ring buffer, one POM read job | ISR per cutout, read job with timeout | memory config, DCC engine |
| LCC alias, node, interface `lcc/lcc_alias.c`, `lcc_node.c`, `lcc_if.c`, `lcc_task.c` | alias state per node, receive queue | tick, collision handling, dispatch | USB / CAN transports |
| LCC traction `lcc/lcc_traction.c`, `lcc_train_search.c` | controller, consist and function state per train node | speed, function, e-stop, assign / release, consist, forwarding, search | DCC engine |
| LCC datagram, memory config `lcc/lcc_datagram.c`, `lcc_memconfig.c` | reassembly slots, one deferred reply | read, write, reset, deferred CV access | service mode, RailCom, config shadow |
| LCC events, accessory `lcc/lcc_events.c`, `lcc_accessory.c` | registrations | event reports, identify | DCC engine, track power |
| glue `protocol/lcc_interface.c`, `util/nv_storage.c` | config shadow, flush timer, flash sector | config write, delayed flush, reboot, factory reset, emergency events | all of the above |
| transports `mcp2515/`, `lcc/lcc_gc.c`, `serial/` | chip buffers and flags, parser state | receive task, egress, text frames | LCC interface |
| display `display/` | a frame buffer | drawing | reads the engine and the tracks |

Tasks and FreeRTOS priorities (`main.c:165-186`): wavegen 6, priority queue 5,
track monitor 4, reminder 3, LCC 2, RailCom 2, serial 1, service mode 1,
display 1.

What is hard here:

* **concurrency**: five tasks share the packet pool and pass bare pointers on;
  the engine is called from several tasks and releases its mutex before it
  sends; power state has several writers; the RailCom ISR shares a ring;
* **ordering**: a priority queue reorders packets of one loco, so an e-stop
  overtakes older speeds and is then undone by them;
* **loss**: pool exhaustion and 10 ms queue timeouts drop packets silently, the
  reminder loop is the only repair;
* **timeouts and late answers**: service mode ACK windows, RailCom reads,
  deferred replies;
* **lost and mixed frames**: a receive queue that drops, multi-frame messages of
  several senders into one buffer, hosts that vanish;
* **restart**: a config image written to flash after a delay, by two tasks, with
  power lost anywhere.

What makes the components correct: a packet slot has exactly one owner; the
heap yields a packet of the highest priority and loses none; a loco ends at the
speed the engine stored for it; an e-stop stops; functions reach the decoder;
what the display shows is what is stored; power that was switched off stays
off; a job or a deferred request is answered exactly once; aliases are unique;
a config write is not lost.

## Modules

| module | models |
|---|---|
| `PacketPool` | who owns the slots of the packet pool, down to the pointer |
| `PriorityQueue` | what the heap promises: a bounded set with a top of the highest priority |
| `PriorityHeap` | the heap array and its sift loops, one iteration per step |
| `DccPipeline` | engine, pool, queue task and wavegen together, with packet contents |
| `Wavegen` | the words of a packet in the PIO's FIFO, while the generator is re-initialised |
| `Motor` | track power: the monitor's state machine and the power commands, with time |
| `ServiceMode` | CV operations on the programming track, against a decoder and the track monitor |
| `SvcAck` | the ACK detector's arithmetic on current samples |
| `RailcomRead` | CV reads on the main: cutout interrupt, ring, task, attempts |
| `LccAlias` | alias reservation of all local nodes in one task, and the USB host's knowledge of them |
| `Reassembly` | the receive queue and the two reassemblers (datagrams, traction commands) |
| `MemConfig` | memory configuration requests and the deferred slot shared by three tasks |
| `NvConfig` | the configuration image, its delayed save, and boots after anything |
| `Traction` | speed, functions, e-stops, consists and controllers of train nodes |
| `TrainSearch` | search events, matching, the train pool and pending answers |
| `Events` | event registrations, identify, emergency and accessory events |
| `Mcp2515` | the CAN controller's buffers, flags, interrupt pin and SPI bus, with the two tasks that use it |
| `GridConnect` | the text frames of the USB transport |
| `PacketPoolProofs`, `PriorityHeapProofs`, `DccPipelineProofs`, `MotorProofs`, `CvAccessProofs`, `ConfigurationProofs`, `LinkProofs`, `NodesProofs` | the proofs |
| `MC_PacketPool`, `MC_PriorityHeap`, `MC_NvConfig` | instances for TLC, where a `.cfg` alone is not enough |
| `MC_CvAccess`, `MC_Configuration`, `MC_Link`, `MC_Nodes` | several components of one area in one run: the variable `part` says which of them a behaviour is about, the others stay in their initial state. `part` never changes, so the state space is the sum of the components', and each property means what it means in the component's module |

The levels fit together. `DccPipeline` treats packets as values and
counts the slots in use from what is queued and in hand; that is right because
`PacketPool` shows that the slots in use are exactly the pointers queued or
held, each once (`PoolOwnership`, `InUseIsCounted`). `DccPipeline` treats the
heap as a set with a chosen top; that is right because `PriorityHeap` implements
`PriorityQueue` (`ImplementsPriorityQueue`), whose `Push` and `Pop` are the
effects `pqueue_drain` and `pqueue_pop_last` have on `heap` and `top`.
`MemConfig` assumes that an operation of service mode or RailCom ends, which
`ServiceMode` (`OperationsEnd`) and `RailcomRead` (`ReadsEnd`) show;
`ServiceMode` takes the ACK detector's verdict as possibly wrong, and `SvcAck`
says when it is right; `TrainSearch` assumes that nodes get aliases, which
`LccAlias` shows (`NodesGetAliases`).

### DccPipeline and the code

A step is what one task does between two points where another may run. A
client command (`dcc_set_throttle`, `dcc_emergency_stop`, ...) is one critical
section of the engine; it leaves a packet in the task's `hand`, which
`new_packet` (packet_alloc and the builder) and `send_packet` (xQueueSend)
carry on. Both can fail: with no slot the packet is never built, and with the
queue full for 10 ms it is freed. A reminder pass is `dcc_update`, one
`send_reminder_packets` per active loco and `dcc_update_finish`; the mutex is
held from the first to the last, also while the pass waits for queue space, so
no engine operation runs in between (`MutexFree`). `dcc_forget_loco` is two
critical sections around the sending of an e-stop.

The queue task drains its input (`pqueue_drain`), finds it empty
(`pqueue_drained`), pops (`pqueue_pop_copy`, `pqueue_pop_nothing`,
`pqueue_pop_last`) and sends (`pqueue_send`, `pqueue_send_timeout`).
`wavegen_send` puts the packet on the track; `Transmit` is the layout's side:
the last speed and function state each decoder received. A packet that is
transmitted is received; noise on the rails is not modelled.

Data is abstracted to what properties tell apart: a packet's bytes are its
operation and arguments; POM writes, CV short forms and accessory commands are
one kind of command packet (the engine keeps nothing of them); a function group
holds one function; the address form (long or short) is a property of the
address. A speed byte keeps its eight bits, with direction and the step 1 that
means e-stop. The order of the loco table is left open. LCC is the only task
that calls the engine's commands, RailCom the only one that reads CVs on the
main.

### Motor and the code

The monitor task's `motor_update` is three steps: read the state
(`motor_update`), sample the track and read the clock (`handle_..._state`), and
the critical section of `motor_transition` (`monitor_transition`). A power
command is two: `track_set_power` stores the command, `motor_set_power` is its
critical section. Between any two of these steps the other task may run, a tick
may pass (`Tick`) and a short may appear or vanish (`Load`). `MaxLag` bounds the
ticks one update may take; `hot` and `bad_for` only observe. Where the current
limit lies, and whether service mode overrides it, only decides when the track
counts as shorted, which is free to change at any time.

### Service mode and RailCom

`ServiceMode` is one step per point of `task_servicemode` where the monitor or
the user can interfere: limit, power, settle delay, idle check, one
`hw_send` per instruction, recovery delay, hold, power off. The monitor may cut
the track at any time and, after its back-off, restore it; whether it can have
done so within one of the task's delays is decided by comparing the delays with
`MIN_BACKOFF_MS`. A decoder may be put on the track or taken off between jobs,
may miss instructions, and noise may pass for an ACK: `lost` and `spurious`
count those, and the properties say how many of them a result stands.
`idle_settles` and `recheck` are the idle current guard. A CV is the set of its
bits that are 1; two bits and two attempts exercise every path of the read.

`SvcAck` keeps the detector's numbers: the ring and its running sum, which
`smooth` updates by a subtraction and an addition as the code does, peak, threshold,
times. Beside them it records the sums of all samples so far, from which a window is
the difference of two; the properties compare the detector's verdict with a
definition over these records. In `RailcomRead` a decoder's answer is the read it answers, so
`AnswerFromDecoder` and `AnswerIsCvValue` say whose answer a read took. Time
is abstract there: an unanswered attempt may time out at any poll.

### The LCC side

One task runs all of it, so each handler is one step, unless it calls code that
other tasks see in between. `LccAlias` walks the nodes one per step with
`cursor`, since frames are dispatched between ticks only; an objection counts
(`objected`) when it is dispatched during the reservation it is about, not while it
waits in the queue or when the queue dropped it. `Reassembly` has both
reassemblers; its constant `Traction` selects one, and `MC_Link` instantiates
both. Senders are external and may vanish
between frames; the queue drops what it has no room for (`dropped`).
`MemConfig` splits a request where another task can run: the slot is PENDING
before `defer` is called (`start_deferred`, `progtrack_defer`,
`cv_space_defer`), the result arrives from another task
(`lcc_memconfig_complete`) and the LCC task's next pass answers
(`lcc_memconfig_flush_deferred`). `log` keeps, per request, its acknowledgement,
its replies and the CVs it wrote. `Traction` follows nested calls of consists
with the sequence `calls`; `holder` and `believes` are the throttles' side. Its constant
`Mixes` lists mixes of requests (operations, consist flags, how many), of which a
behaviour has one: all of them at once would be too many states for TLC, and the proofs
hold for any mixes, one with everything in it included.

The xor of `lcc_alias_seed` is written as the sum of its twelve places, and the loop of
`lcc_train_search_address` as its six digits: no recursion stands between them and a proof.

`NvConfig` keeps nine offsets of the image: each one a decision of the code
depends on, and one byte of the user name. A copy under way meets a change of the
image at one point; more than one change during one copy is met by each of them
in turn. After `xTimerChangePeriod` the timer keeps its 100 ms period; with time
left out this makes no difference. A flush that fails is not retried until the next
write or Update Complete, which `UnsavedIsSaved` allows for (`failed`).

`Mcp2515` has a step for each side of the chip select. The passing run assumes
that accesses do not overlap (`Overlap = FALSE`), which the code does not
ensure (see the gaps below). `Events` numbers accessory events by
their low bits, so that ranges and their encodings are the code's.
`GridConnect` treats a hex digit as its value and keeps the parser's states byte
by byte; identifiers and data are shorter than eight.

`Wavegen` splits `wavegen_reinit` into disable, free, init, set and enable. The
state machine takes a count from the first word it pulls and asks for that many
more; a data word read as a count asks for one of `BogusCounts`.

## Runs

| run | bounds | checks |
|---|---|---|
| `pool` | 5 slots, queues and heap of 2, symmetry | ownership of every slot; the slots in use are counted by the queues |
| `heap` | capacity 7 (three full levels), 8 packets, 3 priorities | order, pointers, implementation of `PriorityQueue` |
| `pipeline` | 1 loco, 2 speeds (step 1 among them), pool 4, input 1, heap 2, output 1, 3 commands, 1 timeout, RailCom on | no duplicate in the heap; no moving packet in a sender's hand while the e-stop is held; the display's copy of the speed |
| `converge` | 1 loco, 2 commands, 1 timeout, fair | the loco settles at its stored speed; the pipeline never blocks |
| `functions` | 1 loco, 1 group, 2 commands, fair | function state reaches the decoder |
| `motor` | windows scaled to 1, 4, 5, backoff 2 to 6, monitor late by up to 2 ticks, 3 power commands, fair | off wins; a short is cut in time; a brief one does not trip; power comes back |
| `cv_access` (638,000 states) | as below | |
| – `svc` | 2 bits, 2 attempts, the code's delays, 2 jobs, 2 spurious ACKs, fair | `ServiceModeIsTrue`: reported values and "no loco" are true, power and limit; operations end (`AccessesEnd`) |
| – `ack` | window of 2, widths 2 to 3, 3 levels, 2 periods, 3 baseline and 7 samples in all | `AcksAreRecognised`: an ACK is a pulse of the right width, noise is none, none is cut off |
| – `railcom` | 2 CVs of a short address and 1 of a long one, ring of 2, indices modulo 4, 2 copies, 2 attempts, 2 reads, fair | `ReadsDoNotMix`: ring order, exclusive reads, answers of the right decoder; reads end (`AccessesEnd`) |
| – `wavegen` | FIFO of 4, packets of 1 to 3 words, 3 packets, 2 re-initialisations, fair | `FramedUnlessTorn`; sends end (`AccessesEnd`) |
| `configuration` (628,000 states) | as below | |
| – `requests` | 24 requests at the edges of the spaces, any 3 of them, fair | `RequestsAreServed`: slot and job agree, one reply each, exact writes; accepted is answered (`RequestsComplete`) |
| – `image` | 3 old images (empty and two versions), 3 writes that cover limits, pins and names in part, 2 requests, 1 failure, 1 loss of power, fair | `ImageIsUsable`: usable boots, migrations once, hardware follows; unsaved is saved (`RequestsComplete`) |
| `link` (454,000 states) | as below | |
| – `mcp2515` | 4 frames in (one standard), 3 out, fair | `FramesAreTrue`: received once, sent or dropped; what is latched is received (`FramesGetThrough`) |
| – `gridconnect` | 3 frames (none, full and too much data), 4 sent, each cut anywhere | `FramesAreTrue`: only sent frames, recovery within one frame |
| – `datagram`, `traction` | messages of 3, 4 and 1 frames into a buffer of 3, queue of 3, one sender that vanishes, fair | `MessagesAreWhole`: of one sender and whole; a persistent sender is heard (`FramesGetThrough`) |
| `lcc_nodes` (309,000 states) | as below | |
| – `alias` | station and one train, queue of 1, 2 wait ticks, 2 retries, 3 frames of others, fair | `AliasesAreSound`: reservations, objections dispatched in time, the host's knowledge; every node gets an alias (`NodesAnswer`) |
| – `search` | 9 searches, 4 node ids, pool of 3, 4 requests, fair | `SearchesFindTrains`: one train per address, found by it; owed answers are given (`NodesAnswer`) |
| – `trains`, mix 1 | 3 local and 1 remote train, tables of 2, functions 0 and 69, 3 requests | `ConsistsObey`: slaves follow, engine and node agree, e-stop bit |
| – `trains`, mix 2 | the same, attaching, detaching and e-stops only, 4 requests | `ConsistsObey`: tables are sets, a command is obeyed once, also in cycles |
| – `trains`, mix 3 | 3 trains, 2 throttles, 2 aliases, throttles' requests only, 5 of them | `ControllersAreTold`: losers, and only they, are told |
| – `events` | 2 outputs (the last one of the range), 1 aspect, 2 reports | `EventsAreTrue`: replies are true, claimed ranges are consumed, reports act |
| `held`, `nv_lost_write` | smaller than the passing runs | the findings below |

The queues are shorter than in the code, so that full queues, an exhausted pool
and timeouts happen within a few steps; each depth is at least 1, which is
where a full and an empty queue differ. The pool of `pipeline` (4) is smaller
than queues, heap and hands together, as in the code (80 against 16 + 64 + 8
and the hands), so exhaustion happens with everything queued. Three commands
are enough for a throttle, an e-stop and a third command that interferes; the
reminder loop runs without a bound. The theorems remove the bounds for the
safety properties.

`motor` keeps the order of the code's windows where it matters (alert window
below backoff below timeout below fault window, and a backoff that doubles into
its limit). Its bound on the time a shorted track is powered is tight: with
`MaxLag` 2 TLC finds a behaviour one tick below it.

`MaxCommands` bounds client commands and `MaxTimeouts` queue timeouts. For the
liveness runs the first is also the assumption: a loco settles *once the
commands stop*. Timeouts must be bounded there: if every send timed out for
ever nothing would arrive.

**Fairness.** Every task is an endless loop of a preemptive scheduler, so each
has weak fairness: reminder, queue, wavegen, monitor, and a sender or power
command that has begun; so has the passing of time. The client has none. Two actions of the queue task need strong fairness, because
another task can disable them in between: `pqueue_drained` (the input queue is
seen empty) and `pqueue_pop_copy` (a slot is free). The queue task has priority
5 against 3 and 2 of its senders, runs every tick and drains in microseconds,
while the reminder task sleeps 5 ms between passes; a sender cannot refill the
queue between every two of its looks. The heap is not fair between packets of equal
priority, so `FunctionsConverge` assumes that the track empties the heap again
and again. `converge` has one loco, for which it is not needed. A full loco
table is not reached there or in `pipeline`; the theorem `DisplayAgrees` covers it.

On the LCC side the fair actions are the tasks too: the LCC task's tick,
dispatch, pass and nested steps; the service mode, RailCom, timer and MCP2515
tasks. What other nodes and users do has no fairness, except in `Reassembly`:
`NotLockedOut` is about a sender that keeps trying. RailCom's attempt may find
its packet not sent for ever unless the pool has a slot again and again: strong
fairness of `poll_send(TRUE) \/ poll_finish(TRUE)`, justified by
`PipelineFlows`. In `Mcp2515` the two tasks compete for the SPI bus with equal
priority under time slicing: strong fairness of each `cs_low`.

The four runs with a `part` bound the requests, so some of their behaviours end:
they say `CHECK_DEADLOCK FALSE`. That no task stops where it should not is what
their liveness properties say (`AccessesEnd`, `RequestsComplete`,
`FramesGetThrough`, `NodesAnswer`). The fairness of a run is that of
its components' `FairSpec`, each while its component is the one that runs.

The properties of these four runs are conjunctions of the components' own, one
for what must never happen in a component and one, over an area, for what must
happen; every conjunct has a mutant that breaks it.

## Findings

* **`held`.** `dcc.h:80-81` promises that the global e-stop "broadcasts e-stop,
  then holds every loco stopped until dcc_clear_emergency_stop_all". A throttle
  packet or reminder already queued has a lower priority than the broadcast, so
  it is transmitted after it and the loco moves again until the next held
  reminder reaches it. `HeldSendersAreStill` is the part of the promise that
  does hold: no sender adds a moving packet once the e-stop is held.
* **`nv_lost_write`.** `lcc_interface.c:187-188`: writes "mark dirty and kick the
  flash flush timer". A write between the flush's copy of the image and its
  store of "clean" is marked clean by the flush that did not save it; when its
  own timer fires nothing is written, and the write is lost at the next power-off.

## Gaps seen while modelling

The modules also state properties that a comment of the code promises and the
model, which follows the code, does not have. They are no part of a run. To see
one, check it with the constants named here.

| property | what the code says, and what happens |
|---|---|
| `DccPipeline!StoppedLocosStayStopped` | `dcc.h:76-77`: "the reminder loop doesn't start it again". A reminder of the old speed, overtaken in the heap by the emergency packet, does, until the next one. |
| `ServiceMode!TripMeansShort` | `servicemode.c:141-142`: "anything but ON/ALERT while we hold the track powered means a short". The monitor restores the track after 40 ms, before the task looks again. |
| `RailcomRead!AnswerIsCvValue` (two CVs of a long address) | `railcom.h:34-35`: "`value` is the CV's value". A cutout is matched by the packet's first word, which for a long address lacks the CV's low byte: a late copy of the previous read answers the next one. |
| `RailcomRead!EarlyOnlyAfterChannel2` | `pom_read.h:19-21`: an attempt "gives up early once every copy has come back with channel 2 data". Cutouts with channel 1 only are counted too. |
| `Wavegen!StartsWithCount` | `wavegen.pio:6`: "8-bit byte count followed by data bytes". A re-initialisation between two words leaves the rest of a packet to be read as one. |
| `NvConfig!DefaultsSurvive` | `lcc_interface.c:350`: "Synchronous flush before reboot so the defaults survive." A timer flush under way can clear the mark, or program the old image, after the reset. |
| `LccAlias!OneCidInFlight` (three nodes) | `lcc_alias.c:77`: "Only one node at a time can hold the CID-in-flight slot." A node that used up its retries stays in CONFLICT and unlocks the slot on every tick, also when another node holds it. |
| `LccAlias!AliasesRouteToOwner` (trains 1000 and 5097) | `lcc_node.h:74-76`: frames "don't get mis-routed". Local nodes do not hear each other, so two trains whose ids give one seed confirm the same alias. |
| `LccAlias!HostKnowsAliases` with `QuickReplug = TRUE` | `lcc_task.c:39-40`: "the host picks up aliases that were claimed before it was listening". The edge is sampled once per tick; a quick replug is not seen. |
| `TrainSearch!EverySearchAnswered` | `lcc_train_search.h:11-12`: every matching train replies. A train without an alias remembers one event; a second search replaces it. |
| `TrainSearch!AnswersMatch` | `lcc_train_search.c:134-135`: "DCC long/short filtering". The allocator finds trains by number alone and lets a short one answer for the long. |
| `TrainSearch!RawAddressInId` | `lcc_train_search.c:213-215`: "the raw address lives in the low 14 bits". Searches give 16-bit addresses. |
| `Traction!EstopBitIsTrue` with `NaN` among the speeds | `lcc_traction.c:307-308`: "The status E-Stop bit means an estop is in effect". A speed of NaN is an e-stop to the engine and clears the bit. |
| `Mcp2515!RxDataNotifies` | `mcp2515.h:58`: the task is "notified when RX data becomes available". TX0IF is enabled and never cleared, so after the first transmission the pin has no more edges; `LatchedIsReceived` shows that the 100 ms poll saves it. |
| `Mcp2515!ExclusiveSpi` with `Overlap = TRUE` | `lcc_if.c:88-90`: egress has "exclusive access" to its hardware. The receive task uses the same SPI bus without a lock. |
| `Events!StateWasSent` | `lcc_accessory.h:12`: each report becomes a packet. With the packet pool empty it does not, and the state says it did. |

## Proofs

All for every value of the constants, from the assumptions the modules state:

* depths, counts and bounds are naturals, the pool is finite, addresses are not 0, a
  speed step is a byte; the least backoff is at most the largest, and the
  overcurrent timeout is not 0;
* `ServiceMode`: a CV has at least one bit and is tried at least once. `RailcomRead`:
  a read is an address and a CV from 1 to 1024, and "no data" and "no value" are
  none; the ring's size divides the range of its counters and is less than it, as
  with a power of two and an unsigned counter;
* `SvcAck`: a window has at least one sample, and time passes between two samples.
  Readings are any naturals, so the sums are unbounded; the code's fit in 32 bits. Times
  count from the start of listening; the code subtracts 32-bit microseconds, which is the
  same for as long as a service mode operation lasts;
* `NvConfig`: a write is bytes from some offset of the configuration or the name
  space, and an old image is any array of bytes. `MemConfig`: an address and a count
  are naturals, the data at most 64 bytes, as a datagram has them;
* `LccAlias`: the receive queue has room for a frame, waits and retries are not 0, and
  the retry counter's range is beyond the retries; ids are four numbers of 12 bits.
  `MC_Nodes` adds that the aliases a node tries one after the other, at most as many
  as other nodes' frames make it try (`MaxRemote`), are 12-bit numbers, not 0 and
  distinct (`CandidatesAssumption`). TLC evaluates it for the run's ids. It holds of every
  id up to `MaxRemote` = 90: the shift register of `lcc_alias_next` passes at least 91
  aliases before it repeats one. Beyond, a node may try a refused alias again;
* `TrainSearch`: a query has six digits of four bits. `Traction`: speeds and functions are
  naturals (`NaN` is the gap above), and nobody's name stands for nobody. `Events`: the
  tables have room for the registrations the station makes (five and three), addresses
  have 11 bits and aspects 8;
* `GridConnect`: an identifier has a fixed number of hex digits of which the first
  is 0 or 1 (29 bits), and data are bytes, of any number. `Mcp2515`, `Reassembly`:
  sizes and lengths are naturals, and a buffer, a queue or a message is not empty.

The modules with a `part` are proved about as they are checked: an inductive
invariant for each component, which the steps of the others leave alone.

* `PacketPoolProofs`: `TypeCorrect` and `Ownership`. The inductive invariant is
  `TypeOK /\ PoolOwnership`: that a popped pointer is in no other place needs
  the disjointness of all places, and that a freed slot is nowhere else needs it
  too. The lemmas say what appending, taking the head and moving a pointer
  between a hand and a queue do to the sets of places. `Counted` adds cardinalities:
  the places are disjoint and each queue has no pointer twice, so their sizes add up
  to the number of slots in use.
* `PriorityHeapProofs`: `TypeCorrect`, `PointersKept`, `Order` and `Refinement`.
  `HeapOrder` is stated for the middle of a loop: one place may be out of order, and
  the children of that place are bounded by its parent (`Bridged`), which is what
  makes it inductive. `Dominance` (the root is the largest) follows by taking a
  least counterexample. The refinement maps `pqueue_push` and `pqueue_pop` to
  `Push` and `Pop` and the loops to stuttering: `Top` says where the running
  loop will leave the next packet out.
* `DccPipelineProofs`: `TypeCorrect`, whose strengthening `TInv` says which task
  has a packet in hand at which point and that the top is in the heap;
  `HeldIsStill`, which needs that the RailCom task never has a throttle packet
  and that the reminder task's hand is empty when the e-stop takes the mutex;
  `NoDuplicates`, which needs the top in the heap, since the packet that stays
  for its repeats replaces the top; `DisplayAgrees`, whose strengthening
  `DisplayInv` says that what is shown of a loco that has left the table, or is
  between its e-stop and its removal, is speed 0 – a re-created entry starts at
  0.
* `MotorProofs`: `OffWins`, from the fact that the monitor only asks for
  transitions between states other than OFF and that the compare-and-swap fails
  once the state is OFF or ON again; `Sustained`, an action property, whose
  invariant `AlertInv` relates the time in alert to the time since the last clear
  sample, except in the update that is about to end the alert; `TypeCorrect`;
  `CutOff`, the timeout and three updates, whose `HotInv` bounds the time powered and shorted at every point of the
  monitor's update: by the lag of one update before it has seen the short, by the
  time in alert and one lag after. With a timeout of 0 the bound would be missed by
  the update that first enters the alert, hence the assumption.
* `CvAccessProofs`, about `MC_CvAccess`. `Framing`: as long as the stream was not
  torn, the words in the FIFO, the one the state machine wants next and the one the
  sender writes next follow each other (`Stream`, `InOrder`). `ServiceMode`: what the
  service mode task has found so far (`BitsSoFar`) agrees with the decoder unless an
  ACK was lost or spurious, and each point of its program has the power and the limit
  it needs (`Powered`). `Unmixed`: the ring between interrupt and task holds, from
  tail to head modulo the counters' range, what was pushed and not yet popped
  (`Ring`, with lemmas about remainders), a read's owner and the busy flag agree
  (`OneRead`), and a cutout matched by the first word of a packet comes from that
  decoder; of a long address the first word does not tell the CV, so there the value may
  be that of another. `TypeCorrect`. `Acknowledged`, for the ACK detector: the running sum is that
  of the last samples, through the fill-up of a short baseline too (`Averaged`), the
  baseline's peak bounds every window it filled (`Baseline`) and the threshold is no
  lower; while it listens, `above` and `above_since` tell the one rise under way (`Armed`,
  `OneRise`), so the fall it sees ends a pulse of that width and no other pulse ends
  there.
* `ConfigurationProofs`, about `MC_Configuration`. `ImageCorrect`: whatever bytes the
  flash has, `load_config` makes an image the station can run on (`LoadUsable`); the
  hardware follows it except between the steps of a write that touches its fields
  (`Hardware`, `Stage`). `RequestsServed`: `MemInv` says that the deferred slot, the
  job under way and the unanswered request of the log are one (`Held`, `Open`), how far
  the write loop is (`Loop`), and of every request logged what it was answered and
  which CVs it wrote (`Answered`, `Exact`). `TypeCorrect`.
* `LinkProofs`, about `MC_Link`. `FramesTrue`: for the CAN driver, that a flagged frame
  is not yet handed over and the two buffers differ (`Buffers`, `HandedOver`), and
  that TXB0, the frame in hand, the sent and the dropped ones share no frame
  (`Accounted`); for the text parser, `OnWire`: the rest of the wire is the frame sent
  without its first p characters, and the parser has kept step with them or waits,
  lost to a broken frame, for a ':' that only the next frame has. `MessagesWhole`: of a
  sender that lost no frame, the queue holds consecutive frames of its present
  attempt (`InRow`), so the one that arrives next either goes on with what the buffer
  holds or starts anew (`Collected`). One proof serves both reassemblers: the steps of
  the datagram and of the traction code are shown to be among the six of `Handled`.
  `TypeCorrect`. `FramesTrue` also holds with `Overlap = TRUE`, but the model does not
  say what an SPI access interrupted by another does; it speaks for a driver whose
  accesses do not overlap.

* `NodesProofs`, about `MC_Nodes`. `AllInv` is the conjunction of an invariant for each
  component.
  - Aliases (`AliasInv`): `Reservations` and, without `QuickReplug`, `Aliased`. The mutex and
    the nodes' states say the same (`Serialized`). That no claimed alias is one
    against which a frame was dispatched during its reservation is not inductive: a node that goes on after a conflict could come back to
    an alias that was refused before. `Tried` says where it is in its sequence of candidates,
    that every refused alias is an earlier one of it (or the present one, while the conflict
    is not yet handled), and that it has got no further than the frames of others have made
    it.
  - Search (`SearchInv`): `Searched`. The pool's addresses differ and its ids are made from
    them; the lemmas take the digits of an address apart and put them together again
    (`Decode1` to `Decode5`), for the search event of a 16-bit address to decode to that address.
  - Traction (`DriveInv`): `Consists` and `Controllers`. Consist tables are sets without the train itself
    (`TablesOK`); node and engine agree (`AllAgree`). Between a command and the last call it
    causes, `CallsInv` says of every slot of the led train's table whether its command waits in the
    queue, was obeyed, or is not wanted, and that queued commands are for different trains,
    each not reached yet (`CallsAre`, `SlotsAre`): that is why a cycle of consists ends after
    one round. `Controlled` says, of a throttle that believes it has a train, that the train
    has that throttle for its owner, under an alias the throttle holds.
    Lemmas about `Rank` and `Nth` show that the slots are visited once each, in order.
  - Events (`EventInv`): `EventsTrue`. `InEffect` relates the stored states to the last report of each set
    of opposite reports; `ReportIs` says of every report which range or registration its number
    is in, and only it; `SpanSizes` computes what a Range Identified stands for. A reply is
    true of the reports so far (`ReplyTrue`), and stays so until the next report, which
    clears the replies.
  - `TypeCorrect`.

Only model-checked:

* liveness (out of reach of the prover) and the two violations;
* `HostKnowsAliases` of a host that reconnects unnoticed (`QuickReplug = TRUE`) is
  neither: it is violated, as the gaps say.

## Plan

1. done: `PacketPool`, `PriorityQueue`, `PriorityHeap`, `DccPipeline`, `Motor` and
   their proofs.
2. done: `ServiceMode`, `SvcAck`, `RailcomRead`, `LccAlias`, `MemConfig`, `NvConfig`,
   `Reassembly`, `Traction`, `TrainSearch`, `Events`, `Mcp2515`, `GridConnect`,
   `Wavegen`, model-checked.
3. done: the proofs about `MC_CvAccess`, `MC_Configuration`, `MC_Link` and `MC_Nodes`.
4. open: an SPI access interrupted by another (the one hazard without a property), and the
   order of the loco table in the engine.

## Not modelled

* Display: reads state and draws it. SNIP and PIP: constant replies.
* `lcc_float16.c`: floating point; its result is an input of `Traction`.
* The PIO programs' bit timing, the MCP2515's bit-timing registers, the 4-of-8 code
  of RailCom and the packet encoding's bits: what they carry is modelled, not how.
* Startup: its queue depths, priorities and initial load appear as constants,
  fairness and initial states.
* Memory ordering: atomics are sequentially consistent here, as the code's are
  where it matters, and plain loads and stores between tasks are single steps.
