# Verification of LF-Req_Resp_Abstraction

The repository collects designs of a request/response abstraction for Lingua
Franca (LF) programs: requests are issued by one reactor, answered later and in
parts by others, and matched with their issuer's context when they come back.
This directory models the parts that carry that logic in TLA+, checks them with
TLC on small instances, and proves with TLAPS, for all values of the constants, the
safety of the core and that the other parts implement their abstract
specifications.

1. [Inventory](#1-inventory): components, state, operations, interactions, what is hard
2. [Modules](#2-modules-and-the-code-they-model)
3. [Runs](#3-runs-what-they-show-and-their-bounds)
4. [Properties](#4-properties)
5. [Fairness](#5-fairness)
6. [Proofs](#6-proofs)
7. [What is not modelled](#7-what-is-not-modelled-and-why)
8. [Plan](#8-plan)

## 1. Inventory

### The running program: req_rsp_mock over req_rsp_layer

`req_rsp_mock/src/base.lf` is the one program of the repository that exercises
the abstraction end to end. A **client** asks for batches of disk blocks, a
**dispatcher** splits each batch into one sub-request per block, a **worker**
emulates a disk.

    client --batch_request--> dispatcher --workstream_req--> worker
    client <--workstream_response-- dispatcher <--workstream_rsp-- worker
    client <--batch_response------- dispatcher

| Component | State | Operations | Correct if |
|---|---|---|---|
| client (`base.lf` 35-129, `defs.c` 7-44, 98-175) | `ref_counter`, `terminate`, the queue of its output port: unanswered requests with the bitmask of missing blocks | `sch_ref`: issue a request, book the next; `workstream_rsp`: clear one bit; `batch_response`: retire the request, stop the program after the last one was issued | a request is retired once, complete, in order; the program stops |
| dispatcher (`base.lf` 131-208, `defs.c` 177-282) | queue of requests (with a second copy of the bitmask), queue of waiting sub-requests, queue of sub-requests at the worker | `batch_request`: split; `storage_req_trigger`: send one sub-request, re-arm; `workstream_rsp`: clear the bit, forward it, answer when none is left | the three queues and the bitmasks stay in step; the trigger is armed while anything waits |
| worker (`base.lf` 210-274, `defs.c` 46-96) | queue of tasks, one `fetch_page` event per task | `task`: queue and start a read; `fetch_page`: answer | each task is answered once |
| request/response layer (`req_rsp_layer/translation.h`) | connectors: one queue per port and scheduler, a link between two connectors | `connector_process_input`, `connector_process_scheduler`: find the connector of a port, call its handler with the right queues, arm the scheduler | no wake-up is lost or doubled |
| queue (`utils/queue.c`) | linked list, size, statistics, next id | `p_enqueue`, `enqueue`, `pop`, `pop_by_id`, `peek`, `peek_by_id`, `get_inc_next_event_id` | sorted, no id twice, nothing lost, true statistics |
| map (`utils/map.c`) | open-addressing table with tombstones, two counters | `insert`, `erase`, `find`, resizing | it is a map |
| LF runtime (external) | tag, event queue, present ports, stop tag | `lf_schedule`, `lf_set`, `lf_request_stop`, tag advance | - |

The reactors interact through ports (a value is present for the rest of the
current tag), each reactor with itself through logical actions (an event at a
later tag), and the two connectors inside the dispatcher through each other's
queues, handed to the handlers by the layer. There is one worker thread
(`workers: 1`), so reactions do not run concurrently. What is hard is what the
*logical* time interleaves: several requests and many reads are under way at
once, events of one action that end at the same time pile up in microsteps, two
reactors keep copies of one bitmask with messages in between, the scheduler's
trigger must be armed exactly while its queue is not empty, and the stop tag
cuts off whatever is queued behind it.

### The other parts

| Component | State | Operations | Correct if | Status |
|---|---|---|---|---|
| `RequestResponse/` (C++ target): `ContextManager`, `AddService`, `MultiplyService`, `MACService` and clients | context by uid; requests delayed at random | attach a context to a request, give it back with the response; two services in sequence | each response meets the context of its own request, whatever the order of the answers | modelled, but for two examples that are parts of it |
| `RequestResponse/`: `proposed.lf`, `tentative_design.lf`, `alt_tentative_design.lf` | - | design sketches that do not compile | - | not modelled |
| `CGenericsProposal/src/CxtMgr.lf`: `Manager` | ten slots, tagged with the time of issue | take a slot, free it with the response | no request is dropped or answered twice | modelled |
| `CGenericsProposal/src/ContainedBank.lf`: `A`, `B`, `Wire` | two output counters | send a number a second through a bank of ports, convert and delay it | a value leaves on the channel on which it was sent, and none is lost | modelled |
| `CGenericsBank.lf`, `CGenerics.lf`, `Contained.lf`, ... : other Wires | - | the same with the Wire elsewhere, or with one port in place of a bank | - | not modelled: without the bank there are no counters, and with it the Wire is the same |
| `CGenericsProposal/lib` | - | arithmetic conversions | - | not modelled |
| `lf_contained_reactor_bug/`: cache with a contained storage | `fetch` toggle, requests in flight | answer every other request directly, the rest through the storage | every request is answered; no response is dropped at a shared tag | modelled; the version that passes pointers has the same control |
| `complex-view-model/` | - | reactors with empty reactions | - | not modelled |
| `tracing/include/core/utils/impl/`: `hashmap.h`, `pointer_hashmap.h` | a table of fixed capacity with a boundary entry | `put`, `get` | it is a table, whatever keys collide, up to its capacity | modelled |
| `tracing/include`, the rest | - | copies of the runtime's headers: declarations, and macros such as `lf_set` | - | partly: what the modelled programs use |
| `tracing/src` | - | a stateless relay | - | not modelled |

The hazards of this code, each at its line, are listed in `PROJECT.json`; section
4 says which property is aimed at which.

## 2. Modules and the code they model

| Module | Models | Remarks |
|---|---|---|
| `IdQueue` | the queues of `utils/queue.c` as their users see them | operators on functions from ids to entries; justified by `EventQueue` |
| `LFRuntime` | the runtime under `base.lf` (external) | tags, events, microsteps, reaction order, stop tag |
| `Client`, `Dispatcher`, `Worker` | the three reactors and their handlers in `defs.c` | one action per reaction; handler and layer code inlined where it changes state |
| `ReqRspMock` | the main reactor: composition, `Spec`, properties, inductive invariant | |
| `ReqRspService` | abstract specification: what the client is promised | no dispatcher, worker, queue or time |
| `ReqRspMock_proofs` | theorems about `ReqRspMock` | |
| `EventQueue` | `utils/queue.c` itself, with list, size, statistics | |
| `IdQueueSpec` | abstract specification of a queue, from the operators of `IdQueue` | |
| `HashMap` | `utils/map.c` | |
| `MapSpec` | abstract specification of a map | |
| `SuperdenseTime` | the tags of the C runtime (external), used by `LFRuntime` and `CxtMgr` | |
| `CxtMgr` | `CGenericsProposal/src/CxtMgr.lf`: client, manager and service | time included: the timer, the random delays, the timeout |
| `CxtMgr_proofs` | theorems about `CxtMgr` | |
| `ContextManager` | `request_response.hh` and `ContextManager.lf` | one definition for the three managers of `MAC.lf` |
| `Arithmetic` | `AddService.lf`, `MultiplyService.lf` and the `MACService` of `MAC.lf` | |
| `CppRuntime` | the C++ runtime under `MAC.lf` (external) | an action has one value at a tag |
| `MAC` | the client and the main reactor of `MAC.lf` | |
| `ContainedCache` | `lf_contained_reactor_bug/src/obj_passing_okay.lf` | |
| `PointerMap` | `hashmap.h` as `pointer_hashmap.h` instantiates it | a search that passes the boundary starts again once |
| `TableSpec` | abstract specification of a table of at most `Capacity` keys | that the key is there is a precondition of `get`, as `hashmap.h` says |
| `ContainedBank` | `ContainedBank.lf`, with `lf_set` as the macro of `core/reactor.h` | time included: the timer, the post delay, the latency |
| `MAC_proofs`, `ContainedCache_proofs`, `EventQueue_proofs`, `HashMap_proofs`, `PointerMap_proofs`, `ContainedBank_proofs` | theorems about the modules they are named for | |
| `CallService` | abstract specification: calls that are answered once, with their own context and result; or, when lossy, given up | what `CxtMgr`, `MAC` and `ContainedCache` each implement |
| `MCReqRspMock`, `MCEventQueue`, `MCHashMap`, `MCCxtMgr`, `MCMAC`, `MCContainedCache`, `MCPointerMap`, `MCContainedBank` | TLC instances | constants are in the `.cfg` files |

**State.** Each variable stands for a field: `clientOut` for `output.queue` of
the client's connector, `reqQ` for `input.queue` of the dispatcher's connector
towards the client, `schQ` and `diskQ` for `scheduler_inst.queue` and
`output.queue` of its connector towards the worker, `taskQ` for `input.queue` of
the worker's. A bitmask is the set of its bits; `lbn` and `len` are the numbers
of those bits. Fields that nothing reads but a log line are left out.

**Actions.** A reaction is one action: `client_sch_ref`, `client_workstream_rsp`,
`client_batch_response`, `dispatcher_batch_request`,
`dispatcher_storage_req_trigger`, `dispatcher_workstream_rsp`, `worker_task`,
`worker_fetch_page`. With one worker thread and no blocking calls a reaction runs
to its end before the next starts. Handlers are operators of the C functions'
names. A missing NULL test is modelled: dereferencing an entry that is not there
sets `crashed`, after which nothing runs.

**Time.** `LFRuntime` runs the triggered reactions of a tag in the one order that
the connections of `base.lf` impose, then advances to the least tag in the event
queue. `lf_schedule` gives an event the first microstep that no event of the same
action has at that time. `lf_request_stop` makes the next microstep the last
tag. Draws of `rand_r` (request length, wait) are nondeterministic.

**Ids** are counted modulo `IdMod`, 2^32 in the code.

Operators whose comment says "mutant" are faulty variants used to see that each
property can fail; no specification uses them.

## 3. Runs, what they show and their bounds

| Run | Constants | Question |
|---|---|---|
| `mock_overlap` | 4 requests of 1-3 blocks, waits of 1-2, read time 2 | reads take longer than the shortest wait, so two requests are under way and answers of different requests meet at one tag: is everything accounted for, does every step bring the end nearer, and does the program implement `ReqRspService`? |
| `mock_burst` | `min_interval` 0, read time 1 | requests arrive in consecutive microsteps while sub-requests of earlier ones still wait in the scheduler's queue: is the trigger armed, are answers in order, does the program end? |
| `mock_wrap` | the timing of `base.lf` (waits of 1-5 intervals, read time of one); `IdMod` 7, up to 12 sub-requests | ids wrap around while fewer than `IdMod` sub-requests are under way: is everything still accounted for? what is lost when the program stops on the first answer after the last request? |
| `queue` | 3 ids, 3 nodes, 4 entries, times 0-2; `p_enqueue` only, or `enqueue` as well | is the list, with colliding and wrapping ids, the queue that the connectors use; and is anything lost when unsorted entries meet walks that assume sorting? |
| `manager` | 3 slots, a call every 2, delays of 2-5, timeout 12 | answers overtake each other and all slots are taken at times: is each call answered once, with its own context, and none dropped? |
| `mac` | 4 calls, one every 2, delays of 2-5 twice | products and sums overtake each other and meet at one tag: do contexts and results stay with their calls, and what is lost? |
| `cache` | 1, 4, 5 or 6 requests, one every 2, storage delays of 1-7 | storages that answer before the next request, together with it, or after several: what is lost, and does the program end? |
| `pointer_map` | keys 8, 16, 17, 24 in a table of 3 | searches pass the boundary, the table fills up, and a full one is asked about a key it does not have: is it a table? |
| `pointer_map_absent` | the same | does `get` crash when the key is not there? It does not: see section 4 |
| `contained_bank` | banks of 1, 2, 3, 5, 7, 9; timer 3, post 1 or 4, latency 1-8 | do the Wire's counter and A's keep step when several values are under way, how long does A stay in its bank, and is a value lost until then? |
| `contained_bank_set` | the same | does `lf_set` set the port it marks? It does not: see section 4 |
| `map_grow` | 5 colliding keys, table of 3 that grows to 6, threshold 17/20 | probing over tombstones, their reuse, one rebuild |

Bounds and why they are enough to be interesting:

- `TotalRefs` 4 (10 in the code), `MaxLen` 3 (10 in the code). Two requests
  overlap already with 2; with 4 a request is issued while an earlier one waits,
  another is at the disk and another was answered. Three blocks distinguish the
  first, a middle and the last block. The theorems remove both bounds.
- `IdMod` 16 in the first two runs is more than the 12 sub-requests, so no id
  is handed out twice; 7 in `mock_wrap` makes ids wrap. Time is not bounded: it
  ends with the last request's answer.
- `MaxNodes`, `MaxEntries`, `MaxTime` bound the run `queue` in the guards of the
  enqueue actions and of `Tick`. Three nodes have a head, a middle and an end.
- `MaxSize` bounds the table of `map_grow` in the guard of `insert`. The keys are
  multiples of 8, like pointers, and collide both in the table of 3 and in that
  of 6. `DEF_MAP_SIZE` is 5 in the code; 3 fills up with fewer keys.

- `manager`: the code has 10 slots and delays of up to 4.99 periods; three slots
  and 2.5 periods fill the slots as the code's ten never are, and the timeout cuts
  off calls that are pending. The theorems remove the bounds.
- `mac`: the program runs for ever, so `Calls` stops the model's timer; the delays
  of the two stages make up to five calls overlap in the code, and all four here.
- `cache`: the parameters of the reactors are chosen in `Init`; the delays cover
  the code's (less than the rate), multiples of the rate (the response meets a
  request) and others; the last request is fetched when `max_refs` is odd.

- `pointer_map`: 8 and 17 share the last entry, the others the first two, so that
  probe sequences overlap across the boundary; a fourth key makes the table overflow.
- `contained_bank`: a width is a multiple of three or not, and is passed on the
  first call (1, 2) or after up to three; a latency of 8 keeps three values in the Wire.
  The model ends where a counter leaves its bank, as that is undefined in C.

Deadlock is checked in every run but those of `PointerMap` and `ContainedBank`,
where a program that crashed or is undefined has no next state. Programs that end,
and the bounded models of those that do not, stutter then (`Ended`).

## 4. Properties

Of `ReqRspMock`:

- `TypeOK`: typing, and at most one value per port and action.
- `NoCrash`: no lookup whose result is dereferenced untested fails
  (`defs.c` 111, 248, 249).
- `BlockAccounting`: the dispatcher's bitmask of a request is the set of blocks
  that have exactly one sub-request under way; none outlives its request.
- `DiskAccounting`: a sub-request at the worker is in exactly one place there
  (request port, task queue with one `fetch_page` event, response port).
- `TriggerArmed`: the trigger is armed once exactly while sub-requests wait
  (`translation.h` 231 and 271).
- `ClientDispatcherAgree`: the two copies of each bitmask agree up to the
  messages present at this tag.
- `AnswersComplete` (action property): a request leaves the client's queue only
  with an empty bitmask, so the "BITMASK not ZERO" branch is dead.
- `AnswersInOrder` (action property): requests are answered in order of issue,
  although no code compares them.
- `AnswersInOneRead`: no request is outstanding longer than one read.
- `LosesAtMostOne`: with the default timing at most the last request is lost
  when the program stops. It does not hold when reads take longer than the
  shortest wait; that is why the run uses the timing of `base.lf`.
- `Terminates`: the program reaches its stop tag.
- `NearsEnd` (action property): every step lowers `StepsLeft`, which adds up what the
  requests to come, the sub-requests that wait, the events, the values present and the
  stop can still cause. A trigger re-armed on an empty queue would break it.
- `ImplementsService`: the client's view implements `ReqRspService`, liveness
  included. The mapping reads `issued` from `ref_counter`, `outstanding` from the
  client's queue and `phase` from the stop state.

Of `EventQueue`: `NothingLost` (size,
list and counts of entries taken and served agree), `Sorted`, `LittlesLaw` (the
sum of service times that `display` averages is the number of queued entries
summed over time), `StatsBracket` (minimum and maximum), `ImplementsIdQueue` (the
list implements the queue that the reactor modules use, call by call and result
by result, which justifies `IdQueue`). `Sorted`, `LittlesLaw` and
`ImplementsIdQueue` are about users of `p_enqueue` (`Prioritised`), as all users in the repository
are: `enqueue` appends without stamping the entry.

Of `HashMap`: `CountsAgree`, `LoadBound` (so an insertion always finds a slot
without a live entry), `Findable` (every live entry is on its key's probe path),
`ImplementsMap`.

Of `CxtMgr`: `SlotsMatch` (the slots in use are those of the requests in the
service, so "Pending requests not found" is never reached), `NeverFull` ("Maximum
number of pending requests exceeded" is never reached), `AnswersInTime`, and
`ImplementsCalls`: the manager implements `CallService` without losses. The
mapping reads `open` from the port to the manager, the slots in use and the port
back, so it says which calls are open without asking the service.

Of `MAC`: `ContextsMatch` relates every message on a port or in the event queue to
the buffer where its context will be looked up, and to what the call it belongs to
is to have computed so far; `AnswersInTime`; `LosesOnlyOnCollision` (action
property) and `ImplementsService`: the whole implements the lossy `CallService`.
The C++ runtime keeps one value of an action at a tag, so a service that is to
answer two requests at the same time forgets the earlier one, and the client never
hears of that call. Nothing in the repository says otherwise.

Of `ContainedCache`: `AllAnswered` for a storage that is faster than the requests
come, as the one of 1 ms is; `Terminates`, `LosesOnlyOnCollision` and
`ImplementsService` (lossy) for all.

Of `PointerMap`: `Reachable` (a key has one entry, where the search for it ends)
and `ImplementsTable`. A precondition of `get` in `hashmap.h` is that the key is in
the table; `TableSpec` says what is returned then, and of another key what the code
does: a full table dereferences NULL, and one that is not full returns whatever
the empty entry holds where the search ended. The comments at `get`
(`pointer_hashmap.h` 25: "This will segfault if the entry is not in the hashmap",
`hashmap.h` 134: "Crash the program if the key cannot be found") say that it crashes in
both cases. `CrashesOnMissing` states them; the run `pointer_map_absent` violates it with
a `get` on an empty table, and `PROJECT.json` records the divergence as a finding.

Of `ContainedBank`: `InStep` relates the channel of a value on A's bank, on the
Wire's input and on its output to how many were drawn and printed, although the
Wire counts without looking at its input. `NoneLost` says how far A gets: its counter,
which is never reset, leaves the bank, but only after a value for every three ports, and
until then each value sent is in one place on its way to B, or was printed. What the
values are is another matter. `lf_set` is a macro that evaluates its first argument three
times, so `lf_set(Aout[self->counter++], rand())` stores into one port, marks the next
one as present and looks at the token of a third; `SetsTheOutput`, which states what
`api/set.h` says of `lf_set`, is violated at the first number drawn (run
`contained_bank_set`). The values that travel are therefore those of ports that nobody set.

## 5. Fairness

`Spec` of `ReqRspMock` has `WF_vars(Next)` and nothing else: the runtime's single
thread goes on as long as it has a reaction to run or an event to pop. With
`fast: true` it does not wait for physical time. No fairness is assumed of any
single action; at every state of the model the reaction to run is determined, and
only the drawn lengths and waits are open. `ReqRspService` has the corresponding
weak fairness. `ContainedCache` has `WF_vars(Next)` for the same reason. `CxtMgr` and `MAC`
assume no fairness: that answers come in time is stated as a bound on the logical
time at which a call is still open, which is a safety property. The queue and the map have no liveness: their functions run to the
end when called.

## 6. Proofs

`ReqRspMock_proofs` proves, for every `TotalRefs`, `MaxLen`, `MinInterval`,
`MaxFactor`, `ReadTime` and `IdMod` allowed by the assumptions of the modules:

| Theorem | Statement |
|---|---|
| `Inductive` | `NoWrap` implies `Spec => []IInv` |
| `TypeCorrect` | ... `[]TypeOK` |
| `NeverCrashes` | ... `[]NoCrash` |
| `BlocksAccountedFor` | ... `[]BlockAccounting` |
| `ReadsAccountedFor` | ... `[]DiskAccounting` |
| `SchedulerArmed` | ... `[]TriggerArmed` |
| `Agreement` | ... `[]ClientDispatcherAgree` |
| `CompleteAnswers` | ... `AnswersComplete` |
| `TimesRight` | ... `[](IInv /\ TInv)` |
| `AnsweredInTime` | ... `[]AnswersInOneRead` |
| `LastOneLost` | ... `[]LosesAtMostOne`, if also `0 < MinInterval` and `ReadTime <= MinInterval` |
| `OrderRight` | ... `[]OInv` |
| `OrderKept` | ... `AnswersInOrder` |
| `Refinement` | ... the safety part of `ImplementsService` |
| `GoesOn` | ... `[]NeverStuck` |
| `ComesToAnEnd` | ... `[](StepsLeft \in Nat)` and `NearsEnd` |

**Assumption.** `NoWrap` says that there are fewer blocks in all than ids, so
that no id is handed out twice. The code has no such guard; it relies on 2^32
being large (100 blocks at most with the default parameters). Without it a
refused `p_enqueue` loses a sub-request as soon as `IdMod` of them are under way.
`mock_wrap` checks that ids may wrap as long as that does not happen.

**Argument.** None of the six invariants is inductive alone. `NoCrash` needs
`DiskAccounting` (the answered id is in `diskQ`) and `BlockAccounting` (its parent
is in `reqQ`); `DiskAccounting` needs that a new sub-request's id is fresh;
`ClientDispatcherAgree` needs to know which ports can carry values together.
`IInv` is their conjunction with

- `PortsFollow`: a port carries a value only when the reactions before its writer
  have run, so at most one hand-over is under way per link;
- `SchRefOnce`: one request at a time is booked, and only while more are due,
  which bounds the ids;
- `RequestMask`: a request on the wire asks for blocks from the first on;
- `IdsFresh`: the next ids exceed all ids in use, and stay below the total number
  of blocks (with `NoWrap`: below `IdMod`);
- `EventsDistinct`: no two events of one action are due at the same tag, so
  nothing is overwritten when a tag is entered.

The proof has one lemma per action, and under it one step per conjunct the action
can disturb. Facts about data come first: every nonempty set of naturals has a
least element (so that the head of a queue exists), `FreeMicro` returns a free
microstep (a pigeonhole argument on the finite event queue), what scheduling one
event does to the event queue, and what `WithSubRequests` adds to the scheduler's
queue (`Rank` numbers the blocks of a request from 0).

`TimesRight` to `Refinement` are about time and order, and need two more invariants. `TInv`
says where everything is in time, whatever the stop does:

- `Later`: no event is due at a tag that has passed;
- `Punctual`: sub-requests reach the worker at the time of issue of their request
  (the trigger re-arms itself with delay 0), reads end `ReadTime` after it, and so does
  the request;
- `Spaced`: requests are issued at least `MinInterval` apart, the booked one included;
- `Closing`: a stop is requested after the last issue, and nothing runs after the end.

`AnswersInOneRead` follows from `Punctual`, because a request is on the wire, has a
sub-request somewhere, or is being answered. `LosesAtMostOne` follows from `OneLeft`,
its form for a stop that has been requested: when a request is answered one read after its issue,
only one other can have been issued since. Both are inductive only with `IInv`.

`OInv` says that nothing is overtaken: sub-requests are numbered in the order of their
requests (`ByParent`), those sent to the worker have lower numbers than those that wait and
the one that comes back is the lowest (`InSequence`), reads end in the order of
their numbers (`ReadsInOrder`), and the reads that end at one time leave no microstep of
it free between them (`Piles`), so that a new one, which gets the first free microstep,
comes last; hence the request on the wire is the last and the one answered the first
(`EndsOfQueue`). At a later time `Piles` counts from microstep 0, at the current time, where reads
that take no time end, from the microstep after the current one; so the order is kept for every
`ReadTime`, 0 included.

`GoesOn` and `ComesToAnEnd` are what termination consists of but for the fairness of the
scheduler. `NeverStuck` says that until the end some reaction is the first that is triggered
(`SomeTurn`), or nothing is present and some event is the first that is due (`FirstEvent`,
`SomeEvent`), or a stop is. It needs `StillToCome` (the next request is booked as long as one is due, and
after the last one a request is unanswered until a response has requested the stop) and, from
`IInv`, that an unanswered request has sub-requests and each of them a trigger, an event or a
value. `StepsLeft` is the variant: a request to come counts for its blocks and its event, a
sub-request in the scheduler's queue for 15 steps, an event for 7, a value for what its
reaction can cause. Every action has a lemma that says it gets smaller. With weak fairness
of `Next`, a program that can always go on and whose variant falls with every step reaches
`stop = "done"`; that last inference needs `ENABLED`, and is left to the runs' `Terminates`.

`CxtMgr_proofs` proves, for all numbers of slots, periods, delays and timeouts:

| Theorem | Statement |
|---|---|
| `Inductive` | `Spec => []IInv` |
| `TypeCorrect`, `Matched`, `Timely` | `Spec => []TypeOK`, `[]SlotsMatch`, `[]AnswersInTime` |
| `NoneDropped` | `FastEnough` implies `Spec => []NeverFull` |
| `Refinement` | `FastEnough` implies `Spec => ImplementsCalls` |

`IInv` adds to the three invariants that ports carry values only after their
writers ran (`PortsFollow`), that the timer fires at multiples of the period and a
request leaves the client at such a tag (`Clock`), that every request is tagged with
the firing it was issued at (`Tagged`: so the tag identifies the request, which is
what the manager relies on), that a request on the way is in no slot (`Fresh`), and
that events are in the future and not too late (`Deadlines`). It holds whether or not
requests are dropped. `FastEnough`, `MaxDelay < Slots * Period`, is 499 ms against
1000 ms in the code. `NoneDropped` is a pigeonhole argument: with all slots taken,
the distances of their requests to the one that is just arriving would be `Slots`
different numbers between 1 and `Slots - 1`. `Refinement` shows that the initial
states map to initial states of `CallService`, and that every step issues a call,
answers an open one, or changes nothing there.

`MAC_proofs` proves, for every period, range of delays and number of calls,
`TypeCorrect`, `Matched` (`ContextsMatch`), `Timely` (`AnswersInTime`),
`LosesOnlyCollisions` and `Refinement`: to the client the three managers and the two
services are the lossy `CallService`. The inductive invariant says, besides types
(`Base`), that the managers' buffers have contexts only for ids handed out so far
(`Buffers`), that the next ids are in use nowhere (`Fresh`), that each port carries a
value only after all that comes before it was handled (`Ordered`), what the values on
ports and in events belong to and by when they are there (`OnPorts`, `InEvents`), and
that a call is in one place at a time (`Unique`). For the refinement each step is shown to be silent or to issue,
answer or give up one call; a step gives up a call exactly when an event that it
schedules takes the place of another one of the same action at the same tag.

`ContainedCache_proofs` proves `TypeCorrect`, `AnswersAll`, `LosesOnlyCollisions` and
`Refinement` for every rate, delay and number of requests. Its invariant adds to the
typing (`Base`) the order of the reactions of a tag (`Ordered`), when the storage's
events are due in terms of their requests (`Timed`), that a request is in one place
(`Unique`), and what has been answered once the stop was requested (`Stopping`).
`AnswersAll` follows because a storage that is faster than the rate is empty when the
next request comes. `GoesOn` and `ComesToAnEnd` are as for `ReqRspMock`: `StillToCome` says that after
the last request something is open until the program stops, since only a response that meets a
request is lost and that request stays open; a request counts for 12 steps in
`StepsLeft`, an event for 5. So the program ends whatever the delays, also when it loses requests.

`EventQueue_proofs` proves `TypeCorrect` and `KeepsAll` for the whole interface of
`queue.h`, and `StaysSorted`, `StatsRight` and `Refinement`, whose properties are about
users of `p_enqueue` alone (`Prioritised`). `StatsRight` needs `Past`: the extremes
were met no later than now. `Refinement` is the justification of `IdQueue`: a call on
the list has the result and the effect of the operator of the same name on a
function from ids to entries, wherever in the list the entry is.

`LittlesLawHolds` (with the same condition) says that the service times and the time
spent by the waiting entries always add up to the area under the curve of the size. The waiting time is
a recursive sum over the list, so the lemmas first show that the function its recursion
describes exists (`SumsExist`), then what an insertion, a removal and the passing of
time do to it wherever in the list they happen (`LinkedTotal`, `UnlinkedTotal`, `LaterTotal`).

`HashMap_proofs` proves, for all keys, hashes, thresholds, growth factors and initial sizes,
and with no bound on the size that the table grows to:

| Theorem | Statement |
|---|---|
| `Inductive` | `Spec => []IInv` |
| `CountsRight`, `KeysFindable` | `Spec => []CountsAgree`, `[]Findable` |
| `LoadBounded` | `Den <= InitSize * Num` implies `Spec => []LoadBound` |
| `Refinement` | `Spec => ImplementsMap` |

`IInv` says that the table is no smaller than at first and `Right`: the counters count, and the
search for the key of an entry ends at that entry, which makes keys unique. `Search` and
`SearchEnds` say where a probe stops, `UnusedSlot` that there is a slot to stop at, `InsertPlace`
where a new key goes (the first tombstone that was passed, else the unused slot at the
end), `StaysReached` that filling that slot hides no other key, and `EraseEffect` that a
tombstone hides none either. A resize inserts the live entries one after another into
an empty table: `RebuiltSteps` shows that the function which its recursion describes
exists, and `RebuiltRight` goes through the slots and carries that the new table is
right and holds the entries met so far. `LoadBounded` assumes that one entry does not exceed
the threshold of the initial table, since the code resizes before an insertion, by the
number of entries then in the table: `LoadBound` is false of a table of one slot with a
threshold of one half. `base.lf` makes tables of 5 slots with a threshold of 0.85.

`PointerMap_proofs` proves `TypeCorrect`, `KeysReachable` and `Refinement` for tables
of every capacity. `TypeOK /\ Reachable` is inductive: the argument is about
what a search sees after one entry was filled, once for a search that ends before
the boundary and once for one that passes it, and a pigeonhole argument for the table
that is full when a search finds neither the key nor an empty entry.

`ContainedBank_proofs` proves `TypeCorrect`, `CountersInStep` and `ValuesKept` (`NoneLost`)
for banks of every width and for all times. The invariant adds where values are between
A and B (`BanksTypeOK`, `InOrder`), that as many were printed or are under way as were
drawn (`Counted`), and what the two counters are in terms of these numbers
(`Counters`): the Wire's is three times the number of values that it handled, and returns
to 0 with the value that fills its bank exactly, after which A can send no more.
`Counted` rests on `Due`: the Wire's events are at different times, so none
replaces another, as the latest of them is due before the one that it makes next.

**Induction.** The induction theorems of the prover's library take an operator as a parameter
and cannot be used. Where an argument goes through a list or a table it is bounded by
its length; the statement is then written as a set of numbers, and `UpTo` (a set that holds
0, and `n + 1` with every `n` below `N`, holds all numbers up to `N`) follows from the least
element of its complement.

**Only model-checked.** Liveness: `Terminates` of `ReqRspMock` and of `ContainedCache`, and the
liveness part of each `ImplementsService` that has one; `GoesOn` and `ComesToAnEnd` prove for both
programs what these rest on. Every other property of every passing run is
stated by a theorem.

## 7. What is not modelled, and why

- Memory: allocation and `free`. Each entry is freed where it leaves its last
  queue; the model shows that it is in one queue at a time.
- `lbn`: every request starts at `_lbn`, which stays 0; blocks are numbered from
  the start of their request. The shift `1 << n` is defined for the ten blocks a
  request may have.
- `PRIORITY_ENQUEUE`'s test that an entry starts with its id: true of all the
  structs of `defs.h` by their layout.
- The lookup of a connector by port: the startup reactions insert every port
  before any other reaction runs, and `ImplementsMap` says that it is found.
- `acc_rtt`, `finished_refs`, `sub_block_size` and other state that is never
  read; log output; `display`.
- The runtime's other policies (`workers` > 1, physical time, minimum spacing):
  not used by `base.lf`.
- The request/response designs (`proposed.lf`, `tentative_design.lf`,
  `alt_tentative_design.lf`): their syntax is not the language's, and the reactions
  have no bodies to translate.
- `Add.lf` and `AddWithContext.lf`: parts of what `MAC.lf` does, with the same
  services and manager.
- The other Wires of `CGenericsProposal/src`: the Wire of `ContainedBank` between the
  two reactors, or with one port; `convertor.c` consists of single expressions.
- The cache that passes pointers (`ptr_passing_fails.lf`): its reactors have the control
  of those that pass values, so `ContainedCache` holds of it as far as requests and
  responses go. `request_t*` is a token type whose element is a `request_t`, so
  `lf_schedule_copy` copies what it should. The failure the file is named for lies in the
  reference counts of the runtime's tokens, whose code is not in the repository.
- `complex-view-model` (reactions with empty bodies), `tracing/src` (a relay without state),
  `utils/utils.h` (log macros).
- The headers in `tracing/include`. They are most of the C lines of the repository
  and, but for the hash map and the macro `lf_set`, they are declarations, comments and
  licences of a runtime whose code is elsewhere: there is no state change in them to
  model. This is why the lines that the map of `PROJECT.json` names are a small share
  of all lines, although every program of the repository with state and control of its
  own is modelled.

## 8. Plan

Done: the core, its abstract specification, its inductive invariant; the two
utilities and the pointer hash map, each against an abstract specification; the
managers of `CxtMgr.lf` and `RequestResponse/` and the contained cache against one
abstract `CallService`; the banked Wire; a run in which ids wrap; the proofs of
section 6.

Left, in the order of what they would add:

1. `NoWrap`, weakened to what `mock_wrap` checks: ids may wrap as long as fewer than `IdMod`
   sub-requests are under way. The order of the ids, on which `IdsFresh` and `OInv` rest,
   would become one relative to the oldest id in use.
2. More than one worker thread under `base.lf`: the repository's programs set
   `workers: 1`, and nothing in the reactors is shared.
