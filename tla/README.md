# Verification of the GR-ROSE Azure IoT Hub client

The repository is the firmware of a GR-ROSE board (Renesas RX65N with an ESP
Wi-Fi module): an optical mouse that reports to Azure IoT Hub, over wired
Ethernet or over Wi-Fi.  It runs on the real-time kernel TOPPERS/HRP3 as a
handful of tasks; most of its 650 000 lines are vendored (the kernel, lwIP,
wolfSSL, zlib, TinyUSB, NT-Shell, the Azure IoT SDK).  What was written for this
firmware, and what these modules are about, is the glue: the port of lwIP to the
kernel, the sockets over the AT commands of the Wi-Fi module, the Ethernet
driver, the adapters of the Azure SDK and the application.  The share of the
repository's lines that `PROJECT.json` maps is therefore below one percent,
although most of the glue that has state of its own is modelled.

This directory holds TLA+ modules of that glue, TLC configurations that check
them on small instances, and proofs checked by TLAPS that hold for every value
of the constants.  `PROJECT.json` ties every definition to the lines it models.

    tlc -config SysMbox.cfg MCSysMbox.tla               (one run)
    tlapm SysMboxProofs.tla                             (one module of proofs)

## 1. Inventory

### Tasks

| Task | Priority (smaller runs first) | Runs |
|---|---|---|
| MAIN | 4 | `main_task`: start-up, then `esp_at_task`, which reads the serial port of the Wi-Fi module and parses its lines |
| NTSHELL | 5 | the shell; `iothub_client_run` and everything the Azure SDK does, its sockets included, runs inside its commands |
| LWIP | 6, lowered to 11 | created by `sys_thread_new`: `tcpip_thread` and lwIP's applications |
| IF_RX65N | 7 | the Ethernet driver's receiving half |
| USB, HID | lowest | TinyUSB and the mouse |

Interrupt handlers: Ethernet, serial ports, USB, the mouse's two encoder pins, a
cyclic handler of the Ethernet driver.  Preemption is by priority; kernel calls
are atomic.

### Components

| Component | Source | State | Operations | Hard because |
|---|---|---|---|---|
| lwIP mailboxes | `app_iothub_client/lwip/lwip.c` 240-444 | ring, `first`, `last`, `wait_send`, three binary kernel semaphores | post, trypost, fetch (with timeout), tryfetch, new, free | tasks meet between unlock and wait; binary semaphores lose signals; timeouts race posts |
| lwIP semaphores | same, 446-508 | two pools with an `act` flag per slot, the kernel's counts | new, free, wait, signal | creation is unlocked; a slot is reused with the count it has |
| lwIP critical regions | same, 510-536 | `lwip_thread`, `lwip_count`, one semaphore | protect, unprotect | nesting; the owner is read without a lock |
| lwIP tasks | same, 114-237 | `Sys_Thread[]`, `use_task_num` | `sys_thread_new`, `lwip_task` | the limit is tested outside the lock |
| kernel semaphores | `hrp3_wo_tecs/kernel/semaphore.c` | count, queue by priority | `sig_sem`, `wai_sem`, `twai_sem` | hand-over, timeouts |
| ESP-AT sockets | `app_iothub_client/src/esp_at_socket.c` | five connections (`used`, `state`, ring), `DTQ_ESP_AT`, parser state, `esp_state` | create, connect, send, receive, close, destroy; `esp_at_rx_handler` | command and reply are matched by their kind only; unsolicited lines; two tasks write `state`; timeouts |
| receive rings | same, 647-674 and 726-745 | `rx_buff`, `rx_pos_w`, `rx_pos_r` | store a byte, read bytes | two tasks, no lock |
| module start-up | same, 1465-1593 | `esp_state`, `wifi_state`, the time | `prepare_esp_at` | resumes after failures, retries, loops on time |
| AT parser | same, 324-688, 747-1405 | `parse_state`, `string`, `params` | one character at a time | cleared and stale parameters, limits |
| socketio over ESP-AT | `azure_iot_sdk/c-utility/adapters/socketio_esp_at.c`, `tlsio_esp_at.c` | `io_state`, list of pending sends | open, close, send, dowork, destroy | callbacks inside loops, failure half-way |
| Ethernet driver | `app_iothub_client/lwip/if_rx65n.c`, `ether_phy.c` | two descriptor rings, link state, a counting semaphore | output, input, interrupt, link | shared with the EDMAC; lost starts |
| AT console | `app_iothub_client/src/main.c` | the serial ring `rx_queue`, `rx_mode` | `esp_at_task`, shell commands | partial consumption; a shell command writes to the port in use |
| IoT Hub client | `app_iothub_client/src/client.c`, `code.c` | five message slots, twin and quit flags | send loop, callbacks | slots reused before confirmation |
| environment commands | `app_iothub_client/src/envcmd.c` | proxy, connection string, `use_wifi` | set/clear | hand-written parser |
| mouse | `app_iothub_client/tinyusb/*.c` | `int8_t` deltas, telemetry | `hid_task`, encoder interrupts | read-modify-write against interrupts |
| TOPPERS adapters | `azure_iot_sdk/c-utility/adapters/*_toppers.c` | - | tick counter, platform; locks and threads are compiled out | units |

How they interact: the Azure SDK polls (`DoWork`) its socketio from the shell's
task; the socketio calls either lwIP's sockets (mailboxes, semaphores and regions
below them) or the ESP-AT sockets, chosen by `use_wifi`.  An ESP-AT call writes a
command to the serial port and waits on `DTQ_ESP_AT` for a reply kind, which MAIN
puts there after parsing a line; MAIN also writes the connections' `state` and
rings.  The Ethernet driver posts frames to `tcpip_thread`'s mailbox and frees
buffers under lwIP's critical regions.

### What makes each component correct

- Mailbox: bounded FIFO; nothing lost or overwritten; no task sleeps for ever
  beside work it could do; the mutex comes back on every path.
- Pools: no semaphore handed out twice, everything returned, the initial count
  is the documented one.
- Regions: exclusive among all tasks, re-enterable, released by the last exit.
- ESP-AT sockets: `state` agrees with the module; a reported send was
  transmitted; commands never become payload; data reaches the connection it is
  for; calls return.
- Ring: FIFO, losses counted, also against preemption in the middle of a read.
- Ethernet driver: both rings are queues; no received frame is left beside a
  sleeping task; no transmit request is missed; the link is negotiated in the end
  (section 4 says where the code falls short).
- socketio: what it accepts goes out once and in order and is answered; the
  socket is called only while there is one; an error is reported once.
- IoT Hub loop: a handle is destroyed once and none is left; the twin's latest
  value is reported; "quit" ends the loop.
- Not modelled yet: the parser reads what the module wrote, no encoder step is
  lost.

## 2. Modules

| Module | Models | Uses |
|---|---|---|
| `ToppersSem` | `sig_sem`, `wai_sem`, the end of `twai_sem` | - |
| `MboxFifo` | abstract: bounded queue between posters and fetchers | - |
| `SysMbox` | the four mailbox calls, a kernel call per action | `ToppersSem`, refines `MboxFifo` |
| `SysMboxProofs` | theorems | `SysMbox` |
| `Monitor` | abstract: a monitor a task may enter again | - |
| `SysProt`, `SysProtProofs` | critical regions | `ToppersSem`, refines `Monitor` |
| `SysSemPool`, `SysSemPoolProofs` | the two semaphore pools, `sys_sem_*`, `sys_mbox_new/free` | - |
| `AtModem` | external: what the ESP firmware answers | - |
| `EspAtSocket`, `EspAtSocketProofs` | application calls and MAIN's parsing | extends `AtModem` |
| `LossyFifo` | abstract: a queue that counts what it has no room for | - |
| `AtRxRing`, `AtRxRingProofs` | a connection's receive buffer, store by store | refines `LossyFifo` |
| `FrameQueue` | abstract: frames handed over once and in order, dropped only while others wait | - |
| `IfRx65n`, `IfRx65nProofs` | the Ethernet driver, its interrupts and the EDMAC | refines `FrameQueue` |
| `SendPipe` | abstract: the sending half of an xio | - |
| `XioEspAt`, `XioEspAtProofs` | the socketio over ESP-AT and the callbacks of its user | refines `SendPipe` |
| `IotHubClient`, `IotHubClientProofs` | the telemetry loop and the SDK's callbacks | - |
| `MC*` | priorities and names for TLC | |

**Kernel semaphores.** `semcnt` and `wait_queue` are the control block's count
and queue; the queue is a set because all tasks of the same priority are FIFO in
the kernel and the model allows any of the highest ones (`FirstWaiters`): a
superset of the kernel's choices.  A blocked task stays at its program point and
is in `wait_queue`; `sig_sem` takes it out, handing the token over.

**SysMbox.** An action is one kernel call with the computation next to it.
`first` and `last` only grow, as in the code; the ring index is `Slot`.  A
message is `<<poster, number>>`.  `op` tells which of the calls a task is in, so
one set of actions serves the calls that share their code line by line.

**SysProt.** Tasks in `Sys_Thread` (`LwipTasks`) and others (`OtherTasks`), for
which `search_thread` returns NULL.  The test of `lwip_thread`, the wait, the
assignment and the release are separate actions.

**SysSemPool.** Finding a free slot (`Scan`) and marking it (`Claim`) are
separate, as in `sys_sem_new`; a count of an unused slot stays.  `sys_sem_free`
marks the slot free at once, whatever its count and whoever waits.

**AtModem and EspAtSocket.** Texts on the serial line are records.  `line` is
what the module has sent and MAIN has not parsed; `Parse` is the completion of a
line, with the assignment to `state` and the parser's loss of the link id;
`PassOn` is `tsnd_dtq` with its 20 ms limit.  An application call is a chain of
actions: entry test, mark, clear of the queue, write, one per reply.  `"no_set"`
as a reply is a timeout.  Connect runs `prepare_esp_at` (`op = "prepare"`): `esp`
is `esp_state`, with the five settings from `ATE0` to `AT+CIPDINFO` as one and the
two commands for the time as one; a pass starts over when the Wi-Fi is not up,
after a busy reply (with `AT+RST`) and for the time.  `MaxPreps` bounds the
commands written before the last pass begins.  The calls come in the order `socketio_esp_at.c` makes
them (connect; send, receive; close and destroy; destroy after a failed
connect).  History variables: `gen` numbers the connections made, `acked` and
`sent` the payloads reported and transmitted, `stray` remembers a store through
a freed buffer, `forgotten` the links that were open when the module restarted.

**AtRxRing.** Bytes are numbered.  The reader's test, copy and the stores of
`rx_pos_r` are separate; MAIN has the higher priority, so a byte it stores is one
action.  C lets the compiler make one or two stores of
`rx_pos_r++; if (...) rx_pos_r = 0;`: `SplitWrap` chooses.  Between two stores
MAIN compares with a position outside the buffer: a byte that finds the buffer
full is then stored and makes the positions equal.  `LossyFifo` names this
`Overrun` and forbids it when the wrap is one store.

**IfRx65n.** The two descriptor rings are arrays of `ract`/`tact` bits and frame
numbers; the EDMAC's side (`rr`, `rdpos`, `tr`, `tdpos`, `fifo`) is external.  An
action of the task or of the sender lies between two accesses to what another
party changes; the interrupt handler is one action.  `left` remembers whether the
task's last turn ended early.  `RX` chooses the branch of `phy_is_link`: GCC does
not define `__RX`, and then the function is always true.  The cyclic handler is
created without `TA_STA` (`if_rx65n.cfg:58`) and started by nobody, so it is no
action.  The EDMAC finds a descriptor inactive and clears its request bit in two
steps (`rstop`, `tstop`), because no text of the repository says that it is one;
the driver reads the bit and writes it if it was 0, also in two.  `rmissed` and
`tmissed` remember that it read 1 in between.  Only the causes in `EESIPR`
interrupt (`Enabled`); a change of the link is seen with the next of them.  The
frames in `Empty` are stored with `RFL` 0.  Frames fit one buffer; register
set-up, the PHY's serial bits and `over_flow` (written only) are left out.

**XioEspAt.** One socketio over its life: open, send, dowork, close, destroy.
Messages are numbered; `pending` is `pending_io_list`, `wire` the last message
that went out, `told` the number of `on_send_complete` calls.  The places in
`pc` are the callbacks inside `retrieve_data` and `send_queued_data`; at each of
them the user may send, close or do nothing, as `mqtt_client.c` does.  The socket
takes a message, takes nothing or fails; `socket` and `opens` are numbers, 0 is
NULL.  `tlsio_esp_at.c` is the same code on a TLS socket.

**IotHubClient.** The turns of `iothub_client_run`'s loop with `iterator`,
`msgPos` and the slots of `messages`; handles are numbers.  `awaited` pairs the
handle the SDK holds with the slot it was given as context.  The SDK (external)
confirms in any order inside `DoWork` and completes everything in `Destroy`, and
calls the twin, report and "quit" callbacks when it likes.

Operators marked `faulty` are the mutants: what a plausible slip would make of a
definition.  No specification uses them.

## 3. Runs

| Run | Instance | Checks | Shows |
|---|---|---|---|
| `mbox` | 3 posters (one with `trypost`), 1 fetcher with all three calls, 3 priorities, room for 2, 2 calls each | 5 invariants, `ImplementsFairFifo`, `PostReturns` | lwIP's traffic: FIFO, nobody forgotten, every post returns, every message fetched |
| `prot_lwip` | 3 LWIP tasks, 2 priorities, nesting 2, 3 calls | `OwnerExact`, refinement of `Monitor`, `ProtectReturns` | regions are correct among LWIP tasks |
| `prot_other` | 1 LWIP task, 1 other | `RegionsExclusive` violated | see findings |
| `pool_one` | 1 task, 5 + 2 slots | `PoolExact`, `LocksRestored` | pools are exact across exhaustion |
| `pool_two` | 2 tasks, 5 + 2 slots | `SemsDistinct` violated | see findings |
| `esp_quiet` | 1 link, 4 connections, 3 sends, peers act between calls | type, `CommandsStayCommands`, `OwnData`, `NoError`, `SendSound` | commands and replies stay in step over reuse and failures; a send reported was transmitted |
| `esp_slow` | 1 link, 2 connections, 2 sends, 1 line unasked, 2 commands before the last pass of `prepare_esp_at`, module busy or late, peers act any time | `ConnectedReal`, `SendBacked`, `CallReturns` | what survives unsolicited lines, timeouts and the module's restart; send, close and the rest of connect return |
| `esp_links` | 2 links, quiet peers | `NoError` violated | see findings |
| `ring` | 4 slots, 12 bytes, wrap in two stores | `ImplementsFifo`, `InOrder` | the ring is a lossy FIFO that reads in order; uncounted losses only in the middle of the wrap |
| `rx65n_rings` | 2 + 2 descriptors, 3 frames each way, the third received with `RFL` 0, 1 change of the cable | 4 invariants, `ImplementsQueue`, `SentInOrder`, `FrameRead` | frames go through once and in order; neither the task nor the EDMAC stops beside work, but for the exceptions the properties name |
| `xio` | 3 opens, 4 sends, 3 pieces of data, 2 tries | `LiveSocket`, `ImplementsPipe`, `ReportedOnce`, `SendSettles`, `DoWorkReturns` | sends go out once, in order, and are answered, whatever callbacks do |
| `hub` | 2 slots, 4 messages, 2 changes of the twin | `DestroyedOnce`, `NothingLeft`, `TwinSettles`, `QuitEnds` | what reusing a slot costs, and nothing else; reports and quit get through |

The runs' `about` in `PROJECT.json` says it in a sentence, and each property of a
passing run has a mutant there that TLC finds with the same configuration.

### Bounds

`MaxCalls`, `MaxNest`, `MaxGen`, `MaxSends`, `MaxPreps`, `MaxBytes` and
`MaxUnsolicited` bound counters; `TxMax` and `LineMax` bound the serial line.  They let the
interesting cases happen: three posters and room for two make two of them sleep
on a semaphore that counts to one while the third is between unlock and wait; the
ring of 4 wraps three times; four connections on one entry (two when the module
is slow) reuse it after success, failure and a late reply; two commands before the
last pass of `prepare_esp_at` let a busy reply lead to the reset, and the pass
after it run through or fail; the second link of `esp_links` needs none
(`MaxPreps` 0: with a module in time `prepare_esp_at` has nothing to write).  The
reply queue of two (four in the code) is filled by late replies and one line
unasked, by four of them in `esp_quiet`.

`rx65n_rings` uses the driver's own ring sizes (2 and 2) and one frame more, so
that a ring fills while the FIFO holds one; a cable change in between reaches
every point of the link's states.  In `xio` (`RETRIES` 2 for 10) the retries run
out; four messages over three opens leave some pending across a close.  In `hub`
`MESSAGE_COUNT` 2 (5 in the code) lets the third message meet the first still
waiting; `PERIOD` 2 and `FIRST` 1 stand for the turns between messages, and at
least one turn in `PERIOD` sends none, as in the code; `DOWORK_LOOP_NUM` is 1.

Deadlock is not checked (`CHECK_DEADLOCK FALSE`) because with bounded
calls every system comes to rest; a task that waits in vain is the subject of
`NoStrandedPoster`, `NoSleepingFetcher` and the liveness properties.

### Assumptions about the environment

- `Quiet`: peers send and close only while no call is in progress and what came
  in was parsed.  The properties checked under it are false otherwise, in the
  code as in the model: a reply says neither its command nor its link, so a
  `+IPD` in the middle of a send is taken for the answer, the send gives up while
  the module waits for payload, and the next command is transmitted to the peer.
  `NoError` needs no such assumption: it speaks of the time before a peer acts.
- `Prompt`: the module answers within the timeouts and is never busy, and the
  network's time is never an hour old, so that after the first connect
  `prepare_esp_at` only clears the queue.  Every run begins after that first
  start-up (`esp = "done"`).
- One creator in `pool_one` and in the proofs about the pools; `pool_two` is about
  two.  One fetching task per mailbox.
- The sender of the driver is one task at a time: lwIP outputs from
  `tcpip_thread`.  The EDMAC works on as long as its request bit is set.
- The user of a socketio calls it from its own task, `DoWork` is never nested, and
  does not send after it destroyed it.
- The Azure SDK calls each confirmation once, and all that are left in `Destroy`.
- Two links: `state` of every link but 0 is wrong (`esp_links`), so the other
  runs use one.

### Fairness

A ready task runs: the kernel runs the ready task of highest priority and every
task blocks in the end, hence weak fairness for each task's steps.  `FairSpec` of
`SysMbox` has the fetching tasks call again, as `tcpip_thread`'s loop does.  No fairness is given to starting
calls, timeouts or peers.  `EspAtSocket!FairSpec` is fair to the calling task, to
MAIN and to the module's executing of commands; that a timeout fires when nothing
comes is part of the calling task's steps.  `CallReturns` speaks of a connect from
the end of `prepare_esp_at` on: no fairness makes that function return (see the
limits below).

`IfRx65n!FairSpec` is weakly fair to the EDMAC, the interrupt handler, the
driver's task, the sender and the end of auto-negotiation, never to frames or to
the cable.  `XioEspAt!FairSpec` is fair to the loops of `dowork` and to its being
called, which `IoTHubDeviceClient_LL_DoWork` does in every turn; not to the user.
`IotHubClient!FairSpec` is fair to the loop itself and, inside `Destroy`, to the
callbacks the SDK makes before it returns; confirmations in `DoWork` may never
come.

## 4. Findings

1. `esp_links`, code bug, `esp_at_socket.c:431`.  The parser clears `params` when
   it recognises `CONNECT` or `CLOSED` and with it the link id read before; every
   connection other than 0 never becomes connected, and link 0 is disturbed.
2. `prot_other`, code bug, `lwip.c:515`.  A task outside `Sys_Thread` compares
   NULL with NULL and enters the region without the semaphore.  The Ethernet
   driver's task and the shell do so.
3. `pool_two`, code bug, `lwip.c:465`.  Two tasks in `sys_sem_new` both see a slot
   free before either marks it, and get the same semaphore; `sys.h:183` says
   "Creates a new semaphore".

### Limits of the code

Nothing checked here claims otherwise, so these are not findings; where a
property needs an exception for one, the property names it.

- A semaphore starts with the count its slot was left with (`lwip.c:466`), although
  `sys.h:185` has the argument specify the initial state; no run is about it.  The
  slots a half-failed `sys_mbox_new` took are not given back (`PoolExact` counts
  them as given up).
- `link_pre = !link_now` (`if_rx65n.c:560`) asks for another try at the
  negotiation; an interrupt that changes `link_now` before the next test makes the
  two equal, and the task sleeps with the interface down until another change.
  `ECSIPR` enables the link change (`if_rx65n.c:205`), but `EESIPR` (209) does not
  enable the source it comes through: the change is seen only with another cause.
- A frame that finds the EDMAC about to stop is not started (`if_rx65n.c:412`,
  484): it waits for the next call or the next frame (`tmissed`, `rmissed`).
- `prepare_esp_at` has two loops without a limit: the time again while the local
  clock is an hour ahead (`esp_at_socket.c:1575`), and the reset after every busy
  reply (1585).  "ready" leaves connections marked connected that the module has
  forgotten (1350; `forgotten` in `ConnectedReal`).
- With two tasks in `sys_arch_mbox_fetch` and two messages posted in a row,
  `not_empty` is signalled for the first only.  `first` and `last` are `int` and
  never reduced: after 2^31 messages the index is negative (`lwip.c:358`).
- A slot of `messages` is reused whether or not its message was confirmed; the
  confirmation then destroys the newer handle, and the newer one's destroys it
  again (`client.c:446`, `reused` in `DestroyedOnce`).  `mouseState` is freed
  before `Destroy` calls back with it (`client.c:505`).
- A user who closes a socketio in `on_bytes_received`, as `mqtt_client.c:476` does
  on a bad packet, leaves a NULL socket for the rest of the loop (`inloop` in
  `LiveSocket`).  Close keeps the pending list for the next open, destroy tells
  nobody, and the branch for a partial send (`socketio_esp_at.c:234-239`) is never
  taken.
- A received frame waits for the next one when there was no pbuf, or when the task
  wrote `link_now` over the handler's value; a descriptor with `RFL` 0 is never
  given back and holds up all that follow (443-446; `NoForgottenFrame`).
- `SendSound` is false for a module that is late beyond the timeouts and for peers
  that act during the calls: a `CIPSEND` read after its call gave up makes the next
  call's `CIPSEND` the payload, whose `OK` and `SEND OK` then let that call report
  success (`esp_at_socket.c:1720-1740`).  TLC finds it at bounds beyond those of
  `esp_slow`; what remains is `SendBacked`: never more reports than transmissions.
- With GCC `phy_is_link` is always true: a lost link is not noticed.
- The test of `envcmd.c:92` is never true; `tickcounter_toppers.c:97` adds
  the kernel's microseconds to a count of milliseconds.

## 5. Proofs

All statements are for every value of the constants that satisfies the named
assumptions (`MboxAssumption`, `ProtAssumption`, `ModemAssumption`,
`SocketAssumption`, `RingAssumption`, `PoolAssumption`, `DriverAssumption`,
`XioAssumption`, `ClientAssumption`), which TLC evaluates in every run.

**SysMboxProofs** (any sets of tasks, priorities, call mixes).  `WaiEffect` and
`SigEffect` state pointwise what a kernel call does to counts and queues.
`TypeInv` adds to the types where each task can be (`Roles`), who can be queued
where (`QueuesOK`) and `WaitSendExact`, which by a counting argument makes
`wait_send - 1` a natural number (`CountSafety`).  On it rest `MutexSafety` (a
free mutex has no owner and no queue; a token or one owner), `BoundsSafety`,
`StrandSafety` and `SleepSafety` (with one fetching task, as lwIP has).
`StrandSafety` needs the strengthening `StrandInv`: it speaks also of posters that
have decided to sleep and have not yet called the kernel.
`Refinement` maps every step to a step or a stutter of `MboxFifo`; it assumes
the code's size 128, because the prover's arithmetic on `%` needs a literal.

**SysProtProofs** (`Closed`: only tasks in `Sys_Thread` enter).  `Inductive` says
which combinations of `lwip_thread`, `lwip_count`, the semaphore and the tasks'
points occur; `ProtSafety`, `OwnerSafety` and `ProtRefines` follow.

**EspAtSocketProofs.**  `Typing` for any number of links and any behaviour of
module and peers.  `ConnectedSafety` for one link: `ConnectedReal` is strengthened
by `LinesTrue`, which says of every line on its way which state the module was in
when it sent it: a CONNECT not followed by CLOSED means a link that is open, or
was when the module restarted (`Known`).

`CallsSucceed`, `NoCommandSent`, `DataSafety`, `SendSafety` and `RepliesCome` need
to know where the text of a call or each of its replies is: on the serial line,
parsed, or in the data queue.  `Protocol` says it for every place of every call,
together with the link's true state; `Unread`, `One` and `Two` name the cases.
`InStep` proves that it holds (with what it implies, `QInv`) as long as
the peers act between the calls or have not acted yet (`Steady`), for one link, a
module in time and a queue of at least two replies; the code's has four.  In the
type invariant `Undisturbed` says that `prepare_esp_at` then has nothing to write,
and `PrepKeeps` that it stays so.  That no
reply is ever missing (`RepliesCome`) follows: a call under these assumptions does
not run into its timeout.

`BackedSafety` has no assumptions at all.  A `SEND OK` is counted wherever it is
(`Owed`: lines, the reply MAIN holds, the queue), and reported payloads and these
together are no more than the texts transmitted (`Backed`).  That holds only if
no text is transmitted twice, for `sent` is a set: `Distinct` says so, and
`Unwritten`, that a call's next text is none of those written before, which the
numbers of connections, sends and settings give.

**AtRxRingProofs.**  For either compilation of the wrap: `Typing`; `Refinement`
of `LossyFifo`; `OrderSafety`.  `Content` is the cyclic interval from `Front`, the
slot the reader takes next, and `DistFacts`, `DistSteps` and `OffsetFacts` are its
arithmetic without `%`.  `StoreAppends`, `AdvanceTakes`, `OverrunEmpties` and
`WrapKeeps` say what each step does to it; `Compared` says that MAIN's comparison
fails to see a full buffer only between the two stores.  `ReaderOK` carries what
the reader saw across MAIN's interruptions.  `OrderSafety` follows from the
refinement: the bytes of the queue ascend (`Ascending`), and only its head is
read.

**SysSemPoolProofs** (`OneUser`: one task creates).  The slots in use are
partitioned into those given up, the semaphores, the mailboxes' and those of the
mailbox being made or deleted (`Partition` in `SlotsOK`); every step moves a slot
from one part to another (`ExactSafety`), and a mutex stands at 1 but while its own mailbox is
deleted (`LocksOK`).  That `sys_sem_new`'s loop finds the first free slot is
`FirstIn`, from the well-foundedness of the naturals.

**IfRx65nProofs** (any ring sizes and traffic, either `RX`; `ForgottenSafety` from
two receive descriptors on).  The active transmit descriptors follow the EDMAC's
position without a gap and hold the frames not sent yet (`TxInv`: `TransmitSafety`,
`SentSafety`); the filled receive descriptors follow `rx_read` without a gap
(`RxInv`: `StopSafety`, `Refinement`).  `TxStops` and `RxStops` say when the EDMAC
can be about to stop beside a frame: only if the driver has yet to read its request
bit, or has missed it.  `FrameInv` counts tokens against frames
while the cable has not been touched: a turn for the link takes one and gives one
back until the link is negotiated (`Tokens`).  `NegInv` extends
`NegotiationGoesOn` to a turn that reads frames, in which the handler may announce
a change the task has already tested for.

**XioEspAtProofs.**  `pending` is always a run of consecutive numbers that ends
with `accepted` (`Run` in `ListOK`), and a loop goes on only while the xio is open,
a callback closed it or nothing is left to do (`SocketOK`); `SocketSafety`,
`ReportSafety` and `Refinement` follow.

**IotHubClientProofs.**  `Owned`: while no slot was reused, what is live is
refused or awaited, each awaited handle once and in its own slot.
`DestroySafety` and `LeakSafety` follow.

Only model-checked: liveness (`PostReturns`, the fairness in `ImplementsFairFifo`,
`ProtectReturns`, `CallReturns`, `FrameRead`, `SendSettles`, `DoWorkReturns`,
`TwinSettles`, `QuitEnds`), which TLAPS does not reach.  Every other property of a
passing run is a theorem.  Proved only, with no run of their own: `MboxBounds`,
`ReplyOnTheWay`, the safety half of `MboxFifo` and the type invariants of all
modules but `SysMbox`, `EspAtSocket` and `AtRxRing`.

## 6. Not modelled, and the plan

Not modelled at all: vendored code, register and pin access, printing, the
console's commands, and `lock_toppers.c`/`threadapi_toppers.c`, which are compiled
out; the start-up of `main_thread` and `tcpip_thread`, which are made one after the
other; in the client the methods (LED, servo), the serializer and provisioning.
`XioEspAt` is not composed with `EspAtSocket`: it assumes of the socket only that
a call returns with what it took, which `CallReturns`, `SendSound` and
`SendBacked` are about.

Left, in this order:

1. `AtParser`: the parser by character classes over bounded lines, against a
   reference reading of a line; which response kinds and parameters survive.
2. `HidTask`: the `int8_t` deltas between the task and the encoder interrupts.
3. `AtConsole`: the serial ring refining a FIFO; echo modes.
4. `ProxyParse`: `set_proxy` against a reference reading of a URL.
