# A verification of CMCS on BMv2

CMCS shares a switch port among virtual networks (VNs): a P4 program marks each
packet green (within its VN's guaranteed bandwidth) or yellow, and a traffic
manager written into BMv2's `simple_switch` serves guaranteed credit first and
shares what is left by weighted deficit round robin, behind a leaky-bucket rate
limit. Python scripts start an emulated network of such switches and program them
over P4Runtime. This directory holds TLA+ models of that code, configurations that
model-check them with TLC, and theorems about them checked by TLAPS.

Paths below are relative to `src/`; `BMP` is `behavioral-model-patches`, `U` is
`my_project/utils`.

## 1. The system

| Component | State | Operations | Hard behaviour |
|---|---|---|---|
| **Traffic manager**: `QueueingLogicVN`, `BMP/include/bm/bm_sim/queueing.h:513-1175` | per port: one deque per VN, three levels of counters, GB credit, deficit, active set, two ring cursors, a cached decision, a leaky bucket; per worker: registered ports, pointer, size, condition variable | `push_front`, `pop_back`, `set_*capacity*`, `set_rate*`, `size` | many producers, one blocking consumer per worker, timed waits on a bucket, decisions deferred across wake-ups, an active set from which idle VNs are swept, limits changed while threads sleep |
| **Color marker**: `my_project/color_markers.p4` | `LCT_reg`, `X_reg`: 64 leaky buckets, one per (VN, port) | the ingress control | packets out of stamp order, wrap of 48-bit products, "0 = never written", buckets sharing an index |
| **SimpleSwitch**: `BMP/targets/simple_switch/simple_switch.cpp` | input buffer (two priorities), egress buffers (the traffic manager), output buffer, mirroring sessions, four kinds of threads | `receive_`, ingress (clone, resubmit, multicast, drop), `enqueue`, egress (clone, drop, recirculate), transmit, shutdown | blocking bounded buffers between threads, notify_one with several producers, sentinels at shutdown |
| **P4Runtime client**: `U/p4runtime_lib/switch.py`, `simple_controller.py` | per connection: request stream, dispatcher thread, its flag, a queue per kind of message; the list of all connections; at the switch: pipeline, tables, primary | arbitration, pipeline configuration, table, group and clone writes, shutdown, `program_switch` | waiting on a queue another thread fills, streams that break, a half-written configuration, a thread stopped while it holds a message |
| **P4Runtime encoding**: `U/p4runtime_lib/helper.py`, `convert.py` | none | validation, building of entries, encoding of values | two's complement at the ends of a width, values of the wrong length, lookups by name or alias |
| **PTF tests**: `my_project/ptf/basic_fwd.py` | the connections, the switch they share | `setUp`, six tests, `tearDown` | isolation without clean-up |
| **Mininet and exercise runner**: `U/run_exercise.py`, `U/p4runtime_switch.py`, `U/p4_mininet.py` | port and id counters of the switch classes, switch objects and processes, loaders | read a topology, construct and start switches, configure hosts and switches, CLI, stop | ports tested early and bound late, processes that die or hang during start-up, loaders nobody waits for |
| **p4app runner**: `U/p4apprunner.py`, `U/mininet/` | stage, exit codes, hosts' commands and signals, routes | manifest, compile, backends, routes, commands, stop | exit statuses passed on through shells, a command that ends while it is being signalled |
| **gRPC runner and data-plane service**: `BMP/targets/simple_switch_grpc/switch_runner.cpp` | packet-id translation, active stream, port status, notification flags | `PacketStream`, `my_transmit_fn`, `SetPortOperStatus`, `NotificationsCapture` | not modelled, see section 6 |
| **Thrift server**: `BMP/targets/simple_switch/thrift/` | none | delegates the setters | - |
| **Experiment harness, plots, traffic scripts**: `my_project/test/`, `send.py`, `receive.py` | measurements | run tools, analyse, draw | not modelled, see section 6 |

How they interact. In the switch, a receiver thread calls `receive_`, which stamps
the packet and puts it into the input buffer; the ingress thread runs the marker on
it and calls `enqueue`, which clamps the VN id and calls `push_front`; an egress
thread loops on `pop_back`, runs egress and fills the output buffer; the transmit
thread empties it. Thrift threads call the setters of the traffic manager at any
time. All methods of the traffic manager hold its one mutex throughout; `pop_back`
gives it up only inside its two condition-variable waits.

Outside it, `run_exercise` builds a network whose switches are processes of their
own, starts a CLI loader for some and calls `program_switch` for others. That opens
a connection, whose dispatcher thread reads what the switch sends while the main
thread writes. `p4apprunner` runs a script that builds such a network, in a child
process whose exit status is all it learns. The PTF tests use the client without a
network.

What makes each correct:

* traffic manager: packets of a VN leave in order, none accepted is lost; a VN
  with packets is always reachable by the scheduler and is served; guaranteed
  credit goes before sharing; debts, credits at re-entry and the bucket are
  bounded; nobody sleeps on work or past its release; a deferred decision is charged
  once; ports of a worker take turns;
* marker: over every window of time no more green than the guarantee allows, and
  no less than it promises; VNs do not disturb each other's buckets;
* SimpleSwitch: no deadlock between the buffers, order kept, shutdown ends;
* client and encoding: a switch holds what its configuration says, in the
  configuration's values, and nothing else; whatever fails, the connection is
  closed; the main thread only waits for what comes;
* PTF tests: each finds the switch as if it were the first;
* runners: commands and entries reach the switch they are for; start-up notices
  what failed, in bounded time; exit codes tell; no command outlives the network;
  routes lead to their destination.

`PROJECT.json` lists the hazards line by line, each with the properties about it.

## 2. Modules

| Module | Models |
|---|---|
| `LogicalQueue` | one port of the traffic manager as a record and the pure operators `push_front` and `pop_back` apply to it: crediting, capacity test, activation, idle sweep, the two phases of `select_vn`, bucket, dequeue, ageing |
| `TrafficManager` | the state machine: all methods as actions, worker threads with their waits, control plane, clock; its properties |
| `VNFifo` | the abstract promise: one bounded FIFO per port and VN |
| `MCTrafficManager` | values for the TLC runs |
| `LogicalQueue_proofs`, `TrafficManager_proofs` | lemmas about the operators; theorems of the traffic manager, the refinement of `VNFifo` included |
| `ColorMarker` | `receive_`'s stamp, `MyIngress`, and `enqueue`'s clamp |
| `MarkerWindow` | `ColorMarker` with history variables, and the two guarantees stated with them |
| `MCColorMarker`, `ColorMarker_proofs` | values for TLC; theorems of the marker |
| `SwitchPipeline` | the threads of `simple_switch` and the buffers between them, cloning and replication, mirroring sessions, the destructor; the traffic manager appears as what `VNFifo` promises |
| `MCSwitchPipeline` | values for TLC |
| `SwitchPipeline_proofs` | theorems of the pipeline: types, wake-ups, no deadlock, order |
| `Encoding` | `convert.py`: which values can be encoded, and their bytes |
| `P4InfoHelper` | `helper.py` and the checks of `simple_controller.py`: entries of a configuration as P4Runtime entities |
| `BasicFwdTests` | the tests of `basic_fwd.py`: entries, packets, expectations, and `ipv4_lpm` as they see it |
| `P4RuntimeClient` | main thread, dispatcher threads and (external) servers |
| `MCP4RuntimeClient`, `P4RuntimeClient_proofs` | values for TLC; theorems of the encoding, the client and the tests |
| `MininetNet` | switch classes, port counters, start-up checks, processes, stop |
| `ExerciseRunner` | `run_exercise.py` on top of it |
| `AppTopology` | links, shortest paths and routes of a p4app network |
| `P4App` | `p4apprunner.py` and its scripts on top of `MininetNet` |
| `NetworkScripts` | both runners, one at a time: what is run and what is proved about |
| `AppTopology_proofs` | what `ShortestPath` finds, for any links |
| `MCNetworkScripts`, `NetworkScripts_proofs` | values for TLC; theorems of the runners |
| `Recursion_proofs` | induction over numbers and functions by recursion, for the other proofs |

A definition commented "Mutant:" stands before the definition it distorts. No
specification uses it; it is there so that each property can be shown to fail
when the code has the bug the comment names (`PROJECT.json`, "mutants").

### Traffic manager: state and actions against the code

`lq[p]` is `LogicalQueueInfo` with its `VNQueueInfo` entries and deques;
field names are the code's. Time points occur in the code only in differences
with `now`, so the record holds ages (`lct_age` for `LCT`, `empty_for` for
`empty_since`) that saturate where no comparison can tell them from larger ones:
`empty_for` at the idle timeout, `lct_age` at `MaxAge`, by which every draining
bucket is empty (assumed of the rates in `TMAssumption`). A packet is its color
and size. The sentinel that stops a worker is an ordinary item of color 0
(`push_front` is called without a color priority) and size 0.

An action is a stretch of code between two points where the mutex is free:

| Action | Code |
|---|---|
| `Push` | `push_front`: green credit first, capacity test, activation, deque, counters, `notify_one` |
| `WaitForPacket` | `pop_back` up to `wait(lock)` on an empty worker |
| `Pop` | `pop_back` from the lock to its return: ports scanned from `worker_rr_ptr`, each non-empty one decided (sweep, selection, caching), the first whose bucket admits it served |
| `Sleep` | the scan that finds every bucket blocked, and `wait_until` the earliest release time |
| `TimeOut`, `SpuriousWakeup` | the returns of the two waits |
| `SetVNCapacity` ... `SetRateForAll` | the five setters; those with a port id may create its record |
| `Tick` | the clock |

`select_vn`'s loops become the element the loop stops at: `NextInRing` for the
scan, `Replenishments` for the number of rounds Phase 2 needs (at most `MaxSize`:
a debt is below one packet and a round adds at least one byte; that such a round
exists is lemma `ReplenishmentsExist`). With rate 0 the wake-up computation
divides by zero and casts the result to an integer: undefined behaviour, modelled
as a choice between a time in the past and one that never comes.

### Marker: state and actions against the code

`Receive` is `receive_`'s `get_ts` (the packet is then on its way through the
input buffer), `Mark` is the ingress thread's run of `MyIngress` and the clamp of
`enqueue`. Receivers (the data-plane receiver and the CPU port's thread) stamp
before they queue, so the order in which packets are marked is not the order of
their stamps. Registers are 48-bit signed (`Wrap`); bucket indices are computed
in 8 bits. The tables are constants: `Route`, `Class` and `Rate` per flow, with
what `topo/s1-runtime.json` installs as `MarkerAssumption` (a classified flow has
a route, ports and VNs are below 8, flows of a VN have one rate).
`HorizonAssumption` excludes the wrap of 48-bit products: at 10 Mbit/s an idle time of
163 days.

`MarkerWindow` adds `start` (an arbitrary instant, fixed), `since[b]` (bits
marked green from then on) and `greenAt[b]`; no action reads them, they only let
the guarantees be stated.

### Pipeline: state and actions against the code

A thread is a record with its place `at` and, for the ingress and egress threads,
`todo`: the pushes its packet still has to make, in the order of the code. A
pop and the P4 program's verdict start a plan; every push is a step of its own,
since other threads run between them. The P4 program is a set of verdicts (clone
into which VN; forward, drop, multicast, resubmit; output, drop, recirculate).
`PushNormal` / `FinishReceive`, `IngressPop` / `IngressBegin`, `EgressStep` /
`EgressNotify` and `StopIngress` / `StopIngressNotify` are the two halves of an
`InputBuffer` call, before and after the unlock that precedes `notify_one`.
A notification wakes one waiter if there is one; every wait may also return
without one (`SpuriousWakeup`). The egress buffers are `egress_buffers[p][v]`,
bounded FIFOs an egress thread takes from in any order, which is what `VNFifo`
says of the traffic manager; `bm::Queue` (the output buffer) is atomic and
blocks when full or empty. The destructor's calls are `StopIngress` to `Join`.
`hops` and `copy` tell a packet sent round, or a replica, from the packet that
was received; `latest` is a history variable.

### P4Runtime client: state and actions against the code

A main thread has a sequence of jobs, each a `program_switch` or a PTF test, and
opens one connection per job: connection `c` is that of the `c`-th job. `main.at`
is its place, in the order of the code:

| Action | Code |
|---|---|
| `ConnectProgram`, `SetUp` | reading the files, `SwitchConnection.__init__` (channel, dispatcher thread, stream) |
| `Arbitrate`, `GetArbitration` | the two halves of `MasterArbitrationUpdate`: the request, and the blocking `get` on the dispatcher's queue |
| `SetPipeline` | `SetForwardingPipelineConfig`, which empties the tables |
| `WriteEntry`, `WritesDone` | one round of `program_switch`'s loops or one entry of a test: validation, building, INSERT or MODIFY |
| `Verify` | the packets of a test against what it expects of them |
| `Close`, `Stop` | the two statements of `shutdown`, between which other threads run; over its own connection for a program (`finally`), over all there ever were for a test (`tearDown`) |
| `DispatchReceive`, `DispatchPut`, `DispatchEnd` | `StreamDispatcher.run`: take a message and look at the flag, queue it, end with the stream |
| `ServerArbitrate`, `ServerEnds`, `ServerSends`, `StreamFails` | external: one primary per election id, end of a stream with its requests, messages unasked, a connection that breaks |

Any call may fail (`CallFails`), and a build that the code would raise on
(`CanBuild`) raises (`Raise`): the job goes on to its shutdown, except that
unittest calls no `tearDown` after a failed `setUp`. The tables of a switch hold
entities with encoded values, built by the operators of `P4InfoHelper` from entries that
are well or badly formed. MAC and IP addresses are sequences of bytes; text that
`encode` takes for already encoded is refused, by its length or by the protobuf
field. `late` is a history variable.

### Runners: state and actions against the code

`script` is what is run, a record chosen at the start: an exercise with its
topology or a p4app package with its manifest. `net` is the place of the main
thread: `construct` (the constructors, in which ports and ids are handed out),
`start`, `alive`, `port` (start-up of the switch `net.at`: launch, is it alive, does
anybody listen), `up`, then what the script does with the network, and `stop`. The three
switch classes have an action each in every phase, since their checks differ. A
process is external: it opens its ports one by one (`Bind`) and ends if one is taken;
it may crash, hang, or lose a race for its port to somebody else (`Faults`). `owner`
says who listens on each port of the host.

`ExerciseRunner` goes from `parse` over `up`, and for each switch `program`
(starting a loader, not waiting for it) and `p4runtime` (`program_switch`), to the
CLI. `Load` is the loader, at whatever time it gets to connect. `program_switch` is
one step there and the module `P4RuntimeClient` otherwise: it ends as that one
does, well, with a printed error or with an exception, or never, when nobody is there to
answer the arbitration.

`P4App` adds `app.stage`: `manifest`, `before`, `compile`, `after`, `backend`, then
`script` or `external`, then `exit` with `app.rc`. Children end with a code or by a
signal, and `ExitStatuses` is what `WEXITSTATUS` of `os.system` makes of that. A
multiswitch script adds routes (`ControllerRoute`), launches its hosts' commands,
waits for those with `wait`, and interrupts, probes, terminates and collects the others
(`LaunchCommand` to `AllCollected`). A command is one of five behaviours: it ends
well, fails, or ends when interrupted, when terminated, or never.
`AppTopology` has what a list of links makes of a network: which of a host's links counts,
the shortest paths without hosts on the way (`Paths`, the recursion of `_recPath`: which
path it returns depends on the order of a Python set, so it is any of the shortest
ones of those its calls may return), routes. `Within` is the reference it is held
against, the nodes at most so many hops away.

## 3. Runs

| Run | Instance | Question |
|---|---|---|
| `TM_core` | 1 port, 2 VNs of weights 1 and 2, capacity 2, packets green/2 bytes and yellow/1 byte | counters, active set, cached decision, credits and wake-ups are consistent; guarantee before sharing; a deferred decision stands |
| `TM_ports` | 2 ports on one worker, 1 VN, rate 5 bits per tick | rotation over ports, length of sleeps |
| `TM_control` | capacities {1,2} and rates {0,8} changed at any time; two VNs, each with room for two packets that can be told apart (the sentinel and a yellow one) | packets of a VN leave in arrival order, whatever the setters do, and setters discard nothing (refinement of `VNFifo`); the level stays bounded |
| `TM_live` | as `TM_core` with capacity 1, fair workers | service of credited VNs; service of all VNs when no credit is in use |
| `TM_rate_zero` | as `TM_ports`, rate lowered from 5 to 0 | **violated**: rate 0 blocks a filled bucket for good instead of lifting the limit |
| `CM_marker` | 2 receivers, 5 flows (2 VNs on 2 ports, unclassified, unrouted, not IPv4), packets of 1 and 2 bytes, 3 microseconds | both guarantees over every window, independence of buckets |
| `PL_flow` | 1 receiver, 2 packets, 2 egress threads, every buffer of one place; all verdicts; a mirroring session that comes and goes | capacities; whatever packets ask for, the switch empties |
| `PL_stop` | 2 receivers (2 packets and 1), input buffer of one place, resubmission, destruction at any moment, output buffer with room for all packets | order, wake-ups, the destructor returns |
| `PL_shutdown` | 3 packets, output buffer of one place | **violated**: an egress thread blocks behind the output sentinel and is never joined |
| `P4R_program` | 2 switches, up to 3 jobs: good configurations, 14 that go wrong in as many ways, the six tests in sequences; 2 unasked messages, 1 fault | tables hold what the configuration says, values are exact, connections are closed and released, tests are isolated, arbitration and programs end |
| `NET_start` | 13 exercises and 19 packages of up to 3 switches, 3 polls, 1 fault | commands reach their switch, start-up is decided, exit codes tell, commands are reaped, routes lead, `p4apprunner` ends |
| `EX_ports` | 2 switches, a non-gRPC target, switches with programs of their own | **violated**: two switches get Thrift port 9090 |

Bounds and why they are enough. Two VNs make every relation between VNs
(precedence, sharing, a ring with a neighbour), two packet sizes make overdraft
and debt (a one-byte deficit serving a two-byte packet), two queue slots give
full, partly full and empty queues with a decision pending, two ports on one worker
a rotation with a blocked and a ready port. In `TM_control` two different packets fill a
deque, so one that is served from the wrong end shows, and a capacity goes from 2 to 1
while two are queued; capacity 0, which refuses every packet like a full queue does, is left
to the theorem (`TrafficManagerIsVNFifo` holds for all capacities). `Tau = 0` makes every packet fill the
bucket, so blocking and deferral occur all the time; rate 8 drains one byte per
tick, rate 5 does not divide packet sizes, so the truncation of the wake-up
time shows. `MaxCredit` and `MaxDeficit` stop *arrivals* while a credit or deficit is
above them (they grow without limit in the code: a credit by arrivals that are
dropped, a deficit while others hold the link); no other action is restricted, and
the theorems hold without bounds. For the marker, three microseconds hold a
packet, the drain of it and stamps out of order; the colliding pair of flows of
`MCColorMarker` has equal VN + port sums. The receivers are interchangeable and
the only symmetry set. In the pipeline, buffers of one place are full most of the
time, which is where its hazards are; two packets fill one of them with a third
push under way (replicas and clones count); one hop makes a resubmission meet a
recirculated packet in a full queue. A program could clone clones and send packets
round for ever; `MayAsk` bounds both, without it `Drains` is false of the program, not
of the switch.

In `P4R_program` two jobs are enough for what one leaves to the next: a pipeline over
another's tables, a stream not ended yet, a list of connections with an old one in
it; the third makes a `tearDown` with several of them. One fault at every possible call
and one broken stream at every possible moment are what a single cause can do.
Two unasked messages put one into the queue and one into the thread's hand when
`stop` comes. `NET_start` has each kind of switch, of backend and of command, and of
what can be wrong with a topology or manifest; a second switch whose ports follow the
first's, so that a process may take its neighbour's; a fault at every moment; three
polls, so that start-up ends at the first, at the last and by the timeout; three hosts
with commands (`MaxHosts`), two for the loops that interrupt and collect them and one for the
loop that waits, in either order. Its ring
of three switches has two shortest paths between hosts, and a host at two switches
one of which is nearer.

Deadlock is checked in the runs of the traffic manager and the marker. A pipeline
whose packets are used up, or which is destroyed, does stop, and so does a script
that ends.

Fairness. Traffic manager (`TM_live`): egress threads run `while (1)` around `pop_back`
until shutdown, and time passes: weak fairness of each worker's own step and of
`Tick`. Its enabling condition is written out (`CanStep`). Nothing obliges anyone
to push, to call a setter, or a wait to return without reason. `GuaranteeServed`
and `SharingServed` carry their conditions because the code promises no
more: sharing is suspended while credit is in use. Pipeline: each thread's own
steps are weakly fair: they are enabled until taken, and a C++ thread that is
neither waiting nor finished runs. `Receive`, `Shutdown`, `SetMirroring` and
`SpuriousWakeup` are under no fairness. P4Runtime client: the main thread, each
dispatcher and each server's handling of a stream are threads of their own, weakly
fair; a server need not send anything else, and nothing has to fail.
Runners: the script's main thread, the processes that do not hang (`Bind`), and the
commands that may end (`CommandEnds`) are weakly fair; loaders, faults and signals from
outside are not. Signals to a host's command are taken to reach it: `pkill -P` finds
the children of the command's shell, so this holds as long as the shell waits for
its command. A shell that became its command (`exec`, or a shell that does so for the last
command by itself) has no child and is never signalled: such a command is "ok"
or "fails" if it ends by itself, and otherwise "immune", whatever it would do on a signal,
and then the script waits for ever, which the premise of `AppEnds` rules out. `ProgramsEnd` and `AppEnds` say in their premises what they need:
no fault, a switch for each job, commands that end by themselves or by SIGTERM.

## 4. Theorems

For all values of the constants that satisfy `LQAssumption` and `TMAssumption`
(any number of ports, VNs and workers, any weights, sizes, capacities and rates);
`MarkerAssumption` and `HorizonAssumption`; `PipelineAssumption` (any receivers,
egress threads, ports, sessions, verdicts and capacities of at least one);
`ProgramsAssumption` and `BoundsAssumption` (any sequences of jobs with any entries,
unasked messages and number of faults), with `P4InfoAssumption` (in a P4Info, which the
compiler writes, a name stands for one action and, in an action, for one parameter, of
at least one bit; a number is an integer) and
`TestsAssumption` (a test's packets go where it expects in the table that the test itself
writes: a statement about the values of each test alone); or `ScriptsAssumption`,
`NetBoundsAssumption`, `HostsAssumption` and `LinksAssumption` (any scripts, number of
polls, of faults and of hosts with commands; any links with a switch at one end at
least, as `AppTopo` asserts):

| Theorem | Result |
|---|---|
| *`TrafficManager_proofs`* | |
| `TypeCorrect` | `Spec => []TypeOK` |
| `CountersAlwaysAgree` | three levels of counters agree with the deques |
| `ActiveSetAlwaysSound` | a backlogged VN is in the active set, once; re-entry starts from zero; idle stamps are read only when set (each a theorem of its own in the module) |
| `PendingAlwaysBacklogged` | a cached decision has a packet |
| `OverdraftAlwaysBounded`, `LevelAlwaysBounded` | debts, bucket |
| `WakeupsNeverLost` | a worker in an untimed wait has nothing to send |
| `NeverOversleeps` | a worker in a timed wait wakes in time, if setters pass no rate but the default one |
| `DeferredDecisionsStand` | no step charges a counter while a decision is deferred |
| `GuaranteeAlwaysFirst` | no sharing while a backlogged VN has credit |
| `PortsTakeTurns` | a ready port comes before the one served last |
| `TrafficManagerIsVNFifo` | `Spec => ImplementsVNFifo`, the refinement |
| *`ColorMarker_proofs`* | |
| `TypeCorrect`, `HandoffAlwaysInRange` | registers, VN ids |
| `BucketsAlwaysIndependent` | only its own VN and port change a bucket |
| `GreenAlwaysWithinGuarantee`, `NeverLockedOut` | the two guarantees |
| *`SwitchPipeline_proofs`* | |
| `TypeCorrect` | plans and capacities |
| `WakeupsNeverLost` | `Spec => []NoLostWakeup` of the input buffer |
| `NeverDeadlocked` | the threads all wait, none told to stop, only when the switch is empty |
| `AlwaysInOrder` | order from `receive_` to the wire |
| *`P4RuntimeClient_proofs`* | |
| `NumbersExact` | `encodeNum` gives the bytes of every number that fits a width, and they read back as that number |
| `TypeCorrect` | jobs, connections, messages, switches |
| `AtMostOneAlwaysLate` | one message at most is queued after `stop()` |
| `FinallyAlwaysClosed` | a `program_switch` that is over is closed |
| `TablesAlwaysConfigured` | tables are a prefix of the configuration, all of it after success |
| `ValuesAlwaysExact` | the parameters in a table are exactly the configuration's values |
| `TestsAlwaysIsolated` | no test fails on what another left behind |
| `ArbitrationAlwaysComes` | a main thread that waits for its arbitration is being answered, unless its stream ended after a fault or at a switch that an earlier connection was opened to |
| *`AppTopology_proofs`* | |
| `PathsLead` | between connected nodes a path is found; each found is a shortest one and passes no host |
| *`NetworkScripts_proofs`* | |
| `TypeCorrect` | scripts, networks, processes, commands, codes |
| `IdentitiesAlwaysUnique` | no two switches share a device id or a gRPC port |
| `GrpcPortAlwaysOwn` | a started switch's gRPC port is its own or free, never another switch's, whatever fails; a stranger's only after a fault |
| `CommandsAlwaysArrive` | commands and entries end in no other switch |
| `ExitCodesAlwaysTell` | what an exit code of 0 means |
| `CommandsAlwaysReaped` | each command ended and collected once before the network stops |
| `RoutesAlwaysLead` | each route's next switch is a neighbour nearer the destination, its address that of one of the destination's links (the address the destination keeps only if it is at one switch); at the CLI connected hosts have one |

The argument for the traffic manager. `LQInv` in `LogicalQueue_proofs` gathers
what a port's record must satisfy; each operator of `LogicalQueue` has a lemma that
it preserves `LQInv` and says what it does to the counters. None of the listed
properties is inductive alone: that a cached decision has a packet needs the
counters to match the deques and all backlogged VNs to be active; that the sweep
may not evict a VN with a packet needs the stamps; that Phase 2 ends needs the
debt bound. `Inv` in `TrafficManager_proofs` adds the workers' counters, that a
worker owns its ports, that an unregistered port is still new, and `NoLostWakeup`;
it has one lemma per action, and the theorems follow from it. The refinement
(end of `TrafficManager_proofs`) uses the same invariant: a push is an `Accept` or a stutter, a pop
a `Deliver`, both waits a `Block`, a setter a `Resize`. `PortsTakeTurns` rests on
`RingInv`: a worker has every port registered once, and its pointer is right behind
the port it served last or has started over at the first. `NeverOversleeps` rests on `SleepInv`: each non-empty port of a sleeping
worker stays blocked until the worker's wake-up time: time brings both nearer at
the same pace, and a push to a sleeping worker wakes it. It needs the
bucket's rate to be the one the sleep was computed with: a raised rate is the one
case in which the code does oversleep, since `set_rate` (`queueing.h:883`) notifies
nobody.

The argument for the marker. `WindowInv` says the registers carry the history:
`LCT` is the stamp of the last green packet, and everything marked since
`start` is still in the level or has drained between `start` and that stamp
(`Carried`). A packet with an older stamp lowers `LCT` and raises the level
by the same amount, which is why order does not matter (`GreenCarries`).

The argument for the pipeline. `NoLostWakeup` is not inductive: a free place of
the input buffer is safe only because there are at least as many receivers on the way
to push as it takes, so `WakeInv` counts them: while a receiver is blocked and the
ingress thread has no notification to make, the receivers about to push are at
least as many as the free places (`LoServed`); with the other two
condition variables one witness is enough. `NeverDeadlocked` is the part of `Drains` that
needs no fairness: if every thread waits (`Halted`), no buffer can be what one of them
waits for. It needs `ServingInv`, that before the destructor has stored its first
sentinel no buffer holds one, so no thread has ended. The transmit thread
waits only on an empty output buffer, so no egress thread waits for room in it; each port
belongs to an egress thread, so the queues are empty; no notification is under way, so
by `NoLostWakeup` the input buffer is empty and nobody waits to fill it. `AlwaysInOrder` looks at one flow, a
receiver's packets to one port and VN. They may be in seven places: the receiver,
`queue_lo`, the ingress thread, one egress queue, an egress thread, the output buffer,
the transmit thread. `FlowInv` has a mark between any two neighbours, with
smaller numbers on the side of the wire; a step moves a packet past one mark,
which takes its number. Two facts carry it (`Shape`): a packet that is neither copied nor
sent round is the last push of its plan, so a thread holds at most one of a
flow, and only the one egress thread of a port holds packets of that port. The
mutant `AnyPort` breaks the second.

The argument for the P4Runtime client. `AtMostOneLate` needs `LateInv`: while the flag
is up, and also while a message is in a dispatcher's hand, nothing has been late, so
the one put after `stop()` is the first. `FinallyClosed` needs `ClosedInv`: connections
are opened one job after the other, so the last of the list is the job's own, and
between the two halves of `shutdown` its request stream is closed or has ended. A
sentinel is consumed only with the stream. `TablesAreConfigured` needs `TablesInv`:
while a job writes, its switch runs its pipeline and has exactly the entries before
`main.next`; no other job writes meanwhile, and `ConfiguredNext` says that INSERT
of a key that is not there and MODIFY of a default make the next prefix of this one.
So a table holds `Configured(job, n)` whatever it held before, and that is all
`TestsAlwaysIsolated` needs: what a test verifies is the table it would have written alone.
`ValuesAlwaysExact` needs `NumbersExact`, which rests on two lemmas about
bytes: a number below `256^n` is what its `n` bytes read as (`BigEndian`, by induction on
`n`), and of a width's two halves the upper one reads back as the negative numbers
(`TwosComplement`). `ArbitrationAlwaysComes` is the part of `ArbitrationAnswered` that needs
no fairness. `WaitInv` says how far the question has come: a request to arbitrate is at the
head of its stream and its connection not yet primary (`PrimaryInv`), so it is
answered or refused; a refusal means another primary, whose stream is
open and, by `ClosedInv`, was opened earlier. Both exceptions are real: nothing
wakes the main thread when its stream ends.

The argument for the runners. The `i`-th switch's ports are the counters' first values
plus `i - 1` (`ObjectInv`; with one class of switches, for Thrift ports), so no two
switches share one, and whoever owns a port is a constructed switch with that port, or a
stranger (`ProcessInv`). A gRPC port was free when its switch was constructed,
and only a fault gives it to a stranger. `CommandsReachTheirSwitch` follows, since a
loader or client reaches the owner of a port of its switch. Exit codes rest on
`VerdictInv`: no failed compilation gets past stage `after`, and the runner has a
child's status only when it exits. `CommandsReaped` rests on `ReapInv`: `Collected` says
by the place in the three loops which hosts' commands have been waited for, and there
are exactly as many return codes.

The argument for the routes. `_recPath` calls itself with one more visited node each
time, so the nodes left (`Left`) decrease, and induction on their number shows that `Paths`
is a function satisfying its own equation (`PathsRecursive`) and that what it finds
are paths (`PathsArePaths`). That they are shortest (`PathsShortest`) is a second induction,
on hops: it has to cope with the visited nodes, which rule out nothing that is nearer the
destination. `RoutesInv` carries the rest: each route was added for a path between its
hosts, and the CLI opens when no pair is left.

Induction over data needs a form the provers accept: they cannot instantiate a theorem
about an operator. `Recursion_proofs` states induction for a *set* of numbers and the
existence of recursive functions for a *function* from numbers to steps.

Model-checked only: liveness under fairness (`GuaranteeServed`, `SharingServed`, `Drains`,
`ShutdownEnds`, `StreamsReleased`, `ArbitrationAnswered`, `ProgramsEnd`, `StartDecided`,
`AppEnds`), which needs `ENABLED` and is out of the prover's reach. All other properties of
the passing runs are theorems.

## 5. Disagreements between text and code

Shown by runs, quoted in `PROJECT.json`: `TM_rate_zero`, `PL_shutdown`, `EX_ports`
(section 3).

Met while modelling, without a run of their own. Where the code is modelled, the model
does what the code does.

* `color_markers.p4:9-10,119-120`: the level is compared with tau after adding the
  packet's bits; line 254 compares it before.
* `queueing.h:883`: `set_rate` does not wake a worker that sleeps on the old rate.
* `basic_fwd.py:58`: every connection has election id 1 and `tearDown` does not wait
  for the old stream's end; when the next `setUp`'s arbitration is first, it
  is refused and waits for ever. A `setUp` that raises leaves its connection open
  until the next `tearDown`.
* `U/mininet/single_switch_mininet.py:103-104`, `U/mininet/appcontroller.py:28-34`: a `str`
  passed to `communicate` of a binary pipe raises `TypeError` in Python 3, so
  neither configuration nor entries are ever written; and without `--switch-config`
  the former opens `False`, which is standard input.
* `run_exercise.py:363-364` says the initial configuration is loaded, also after an
  invalid one and while loaders still run.
* `U/mininet/appcontroller.py`: the routes to a host on several switches use its first
  link's address, the host keeps its last link's. `RoutesLead` therefore says only
  of hosts at one switch that the route's address is the one the host keeps.
* `U/p4runtime_switch.py:59`: the gRPC port is tested when the switch is constructed and bound
  when its process starts. A stranger that binds it in between is a fault of the model
  (`OtherBinds`) and is taken for the switch; `GrpcPortIsOwn` allows it.
* `U/p4_mininet.py:73`: the error message for a Thrift port in use names
  `self.grpc_port`, which does not exist.
* `U/p4apprunner.py:39`: a child killed by a signal may read as exit code 0.
  `U/mininet/multi_switch_mininet.py`: a background command that the runner itself ends by
  SIGINT counts as failed (130); `pkill -P` signals the children of the command's shell,
  so a command the shell was replaced by gets no signal and, if it does not end by itself,
  is waited for without end (section 3, fairness); an exception or `exit(1)` leaves the network running; the name `h1` is
  replaced inside `h10` too.
* `simple_controller.py:52-56`: `main` calls `program_switch` without `runtime_json`.
* `README.md:133,148` name the option `--slice-weights`, `main.cpp:93` parses
  `--vn-weights`.

## 6. Not modelled, and why

* **Upstream schedulers** `QueueingLogic`, `QueueingLogicRL`: nothing in this
  repository instantiates them.
* **Thrift server**: one call of a setter per handler; the setters are actions of
  `TrafficManager`.
* **gRPC runner and data-plane service**: its state is read by no modelled part, and
  PI, the server behind it, is not in the repository, so what it promises to its
  callers would be invented. Three of its statements deserve a second look all the same:
  `switch_runner.cpp:133` holds the mutex over a call that may block, `:142` stores
  the id translation after injecting the packet and never removes it, and `:363`
  suppresses notifications until a swap is completed or cancelled. Likewise
  `simple_switch.cpp:249` increments a static packet id from two threads without a
  lock; the transmit function gets that id.
* **Marker and traffic manager composed**: the interface is small (VN, color, size) and
  is modelled on both sides; `HandoffInRange` is proved of the marker's, any packet
  of any color is allowed on the scheduler's. What guaranteed bandwidth the two give
  together depends on times in microseconds on one side and on bits per second of a
  shared link on the other, and the state space of the product is out of TLC's reach
  at bounds where a guarantee can be told from its absence.
* **Beyond the marker's assumptions**: the wrap of 48-bit products (at 10 Mbit/s an idle
  time of 163 days) and ports or VNs above 7 (`color_markers.p4:232,251`).
* **Green credit as a 32-bit integer** (`queueing.h:570`): unbounded in the model.
* **SimpleSwitch**: configuration swap, learning digests, queueing metadata.
* **P4Runtime client**: `PacketIn`, `PacketOut`, `IdleTimeoutNotification`,
  `DeleteTableEntry` and the reads, which nothing in the repository calls, the
  `dry_run` branches, which nothing takes, and `GrpcRequestLogger`.
* **Runners**: interfaces, MAC and ARP set-up, command lines, log and pcap files.
* **Experiment harness, plots, traffic scripts**: sequential programs around external
  tools, without shared state; the water filling of `analyze_results.py` works on
  floating-point rates.
