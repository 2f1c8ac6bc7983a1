# A TLA+ model of zephyr-runtime-ble

`zephyr-runtime-ble` is a BLE runtime for Zephyr whose RAM exists only while BLE
is loaded. A C glue file creates and joins a BLE thread; the thread is a Rust
static library that brings up MPSL, Nordic's SoftDevice Controller and
`trouble-host` on the Zephyr heap, runs one big future until it is told to
unload, frees everything and exits. Applications talk to it from other threads
through lock-free one-element cells, and from callbacks on the BLE thread.

This directory specifies that in TLA+, checks it with TLC and proves part of it
with TLAPS. `PROJECT.json` lists the runs, the source lines of each definition,
the hazards, the disagreements found between code and documentation, and the
mutants that show that each property can fail.

## 1. Inventory

| Component | State | Operations | Talks to |
|---|---|---|---|
| Lifecycle (`glue/glue.c`, `lib.rs` `runtime_ble_run`, `chip/*.rs` `run`, `radio.rs` `serve_session`/`serve_central`) | `runtime_loaded`, `runtime_stack`, `runtime_load_sem`, `UNLOAD_REQ`, `LOAD_STATUS`, heap boxes, IRQ lines | `runtime_ble_init/load/unload/load_status`, the thread's bring-up, service and teardown | application threads, executor |
| Executor and clock (`radio.rs` `block_on`, `ZephyrDriver`; `glue.c` `runtime_sem`, `runtime_timer`) | the binary semaphore, the timer queue, the alarm | poll, park, wake, `schedule_wake`, `runtime_alarm_fired` | interrupts, every future |
| Notification slot (`lib.rs` `queue_tx`; `radio.rs` `connection_task`, `tx`) | `SEND_REQ/BUF/CHR/KIND/LEN` | send, notify, indicate; the transmit loop | application threads, GATT |
| L2CAP (`radio.rs` `l2cap_*`; `lib.rs`) | `L2CAP_SEND_*`, `L2CAP_DISCONNECT_REQ`, the channel | send, disconnect, accept/create, pump | application threads, callbacks, links |
| Link control (`lib.rs` `link_cmd`; `radio.rs` `link_control*`) | `LINK_CMD` and its argument words | PHY, data length, connection parameters, frame space, rate, security, reads | application threads, links |
| Bonds (`radio.rs` `restore_bonds`, `store_bond`, `bond_admin_loop`) | slot map, `BOND_CMD`, `BOND_INDEX`; the host's table; the app's storage | restore, store, enumerate, delete, delete all | host events, app callbacks |
| Central (`radio.rs` `central_loop`, `wait_idle_cmd`, `run_scan`, `client_session`; `lib.rs` client functions) | `CENTRAL_CMD` and its arguments, the link, the remembered CCCDs | connect, scan, discover, read, write, subscribe, disconnect | application threads, host |
| Serve loop and GATT server (`radio.rs` `serve`, `advertise_*`, `connection_task`) | place in the loop, link, the request in hand | advertise, accept, reply to ATT requests, report events | host, callbacks |
| Attribute table (`radio.rs` `build_gatt`; `lib.rs` `runtime_ble_char_index`) | table, handles, flat indices | build, look up | GATT server, slot |
| Advertising payload (`radio.rs` `advertising_parts*`, `build_adv_payload*`) | none | build from the configuration | serve loop |
| Configuration (`lib.rs` `runtime_ble_init`) | `CONFIG` | check, copy | everything |

What makes it hard: an application thread and the BLE thread interleave between
any two atomic accesses; nothing but flags separates one session, one link or one
channel from the next; every wait of the BLE thread is also a place where a
`select` may drop the future that waits; the executor has one semaphore and, in
effect, one timer for everything; `load()` gives up on a timeout while the thread
it waited for goes on.

What makes each part correct: the lifecycle leaks nothing and every call returns; the executor
loses no wake-up; each cell hands over whole messages, once, to the session, link or channel they
were meant for; the slot map, the storage and the host's bonds agree; the device comes back to
advertising, and the application hears, under the index it knows, of what a central has written.
The properties in the modules say this precisely, and each names the text of the repository it
comes from.

## 2. Modules

**`Lifecycle`** — the application thread's `load`/`unload` (variables `op`, `cpc`)
and the BLE thread (`tpc`), statement group by statement group. `BleInit`,
`LoadPrepare`, `LoadCreate`, `LoadTake`, `LoadTimeout`, `LoadRead`, `SignalUnload`, `Wake`,
`Join`, `JoinTimeout` are glue.c; `Enter` ... `GiveLoadDone` are bring-up, each with its
failure; `BuildGatt`, `Poll`, `OtherEnd`, `Unpark` the service; `FreeGatt`,
`DropStack`, `FreeSession` the teardown; `TimerFires`, `OtherWake` the interrupts.
Time is abstract: the variable `slow`, chosen in `Init` and then fixed, holds what may
outlast the 3 s that `load()` waits for the answer and the 1 s of the join after them:
`"start"`, the thread first runs after the 3 s; `"bringup"`, bring-up ends after the 3 s but
within the 1 s; `"overrun"`, bring-up ends after both; `"exit"`, leaving takes longer than the
1 s. The join expires wherever the thread then is (`JoinTimeout`), and `load()` returns over a
thread that lives: with its stack freed and its interrupt lines masked. The next `load()` resets
the semaphores (`LoadPrepare`) while that thread still runs and may answer, and creates its own
(`LoadCreate`). To create a thread over a living one is undefined in Zephyr; the model has the
mildest outcome, that the old thread is gone and what it allocated and enabled stays.
Sessions follow one another without bound.

**`Executor`** — `block_on` polling timer by timer (`PollTimer`, `PollEvent`), the
queue merged to one entry because all wakers are equal, the alarm, the semaphore.
Times are what remains of a deadline, so the state space is finite and time is
not bounded. `AlarmFor` has the conversion of `u64::MAX` to a delay of 0.

**`TxMailbox`** — the abstract one-message mailbox that the send slots promise to
be. **`TxSlot`** — `queue_tx` and the transmit loop with one step per shared
access, links, sessions, and the client write that shares the buffer in the dual
role. Whether the role is `dual` is chosen in `Init`. `MailboxSpec` says that a session
of one role implements `TxMailbox` under the mapping "the slot holds the cell while
`SEND_REQ` is set".

**`L2capSlot`** — the channel's loop (`rpc`), the host's channel (`open`), the link
(`acl`), what the app believes (`appOpen`), the SDU slot and the disconnect flag.
`Init` chooses the `role` (which end opens the channel) and the `sender`: the
application's threads, or `on_l2cap_data` on the BLE thread. The constant `Eager` lets
calls overlap the opening of a channel. It also implements `TxMailbox`.

**`LinkControl`** — one request function at a time per caller, each argument word
stored by a step of its own, and the swap and loads of `link_control_once`. A command that
waits for the host (`Awaited`) can be dropped there with its future: by the end of the link
(`LinkDown`), and on a central link by any event of the connection (`EventWins`). The
words hold tokens that tell calls apart. `Init` chooses the `role` of the link; the
constant `Patience` says when a caller calls again: at any time, when the slot is free,
or when the last command is done. The defaults and range checks of the arguments are
left out.

**`BondStore`** — the slot map, the app's storage behind `on_bond_load` and
`on_bond_store`, the host's bond table and the admin commands. The BLE thread does
not await anything in these functions, so each is one step, except that a caller
may run between the two reads of a delete. `Init` chooses the `habits` of a behaviour:
`hurried` callers that delete again before `on_bond_deleted`, and `late` pairing events
that wait in the host behind a command. The history `holed` records that the map once
was other than slots 0, 1, ... in order, and `asked` the accepted deletes, at most
`MaxAsked` = 2 of them open at a time: one in `BOND_CMD`, one taken out of it.

**`CentralLoop`** — the client functions' way into `CENTRAL_CMD`, one step per shared
word (`StoreWord`, `Check`, `StoreHandle`, `StoreCmd`), and `central_loop` (`pc`): `Idle` is
a turn of `wait_idle_cmd`, `Scan` one of `run_scan`, `Pump` one of `client_session`; each
swaps the command out, `LoadWord` loads its arguments one by one, and `HostAnswers` and
`Status` complete it. `ConnectFails`, `LinkEnds`, `UnloadSeen`, `UnloadSeenOutside` and
`RunnerEnds` are the ways in which a wait is cut short. Words hold the token of the call
that wrote them. The histories `mine` (for whom the waiting command is, and whether its
link or session has ended since) and `found` (what was reported on this link) serve the
properties. `Init` chooses the role, whether `config.peer_address` is set, and whether a PSM
is, which moves the `wait_unload` of a link.

**`GattTable`** — operators, no state: the characteristics, the handles they get, the
attributes a central may write, `Callback`, the event loop's way from a handle to a
callback and an index, and `CharIndex`, the application's way from a UUID to an index.
**`AdvPayload`** — operators again: the length of an advertising payload or that there is
none, from the lengths of its parts; `FitsLegacy` and `FitsExt` say the same without saying
how. **`ServeLoop`** extends both: `serve` with its awaits (`accept` list, `setup`,
`periodic`, `advertising`, `retry`), the connection's event loop (`Write`, `ReplySent`,
`Report`), the table's values (`table`) and the value last reported to the application
through each callback (`told`). `lost` remembers the writes that were not both applied and
reported, and `app` what the application was told of the link; an unload that drops the link in
the outermost select leaves it believing in one (`SessionEnds`), until the next session. `Init`
chooses one of twelve configurations.

A value that `Init` chooses and no step changes makes one run answer the question for
each of its values; properties that hold for some of them only say so (`~dual`,
`Timely`, `"late" \notin habits`, `~Shared`, `CanAdvertise`).

The eight machines are checked apart. They meet in these assumptions, each of which
is another module's property: a parked executor is woken for every timer and event
(`SleepIsSafe`, `TimersHandled`), which is the fairness of the loops in the other
modules; a session ends when asked (`CallsReturn`, `UnloadEnds`); a session starts by
clearing `UNLOAD_REQ` and `SEND_REQ` (`Enter`, `SessionStart`, the same lines).

## 3. Runs

All bounds but `MaxAsked` are in the `.cfg` files and are small sets, not counters: sessions,
links, channels and messages may follow each other without limit in every run.

| Run | Question | Bounds, and why they are enough |
|---|---|---|
| `lifecycle` | If the thread starts in the 3 s and is gone within the 1 s after them: is everything freed, and does the stack outlive the thread? If only bring-up ends within these 4 s: does every call return, does `load()` report its own session, is an unload request kept? | One application thread (the header asks for no more); all failures of bring-up; all sixteen values of `slow`, the retry over a living thread included |
| `executor` | Is a wake-up ever lost? | Two timers and delays 1 and 3: deadlines merge, pass in either order, and outlive a session |
| `tx_slot` | Does the slot implement the mailbox? What survives when a client write shares the buffer? | One caller; three messages: NUS notification, too long indication, unknown characteristic; both values of `dual` |
| `l2cap_slot` | Do SDUs and disconnects stay with their channel? | One sender, an SDU that fits and one that does not; both roles and both senders |
| `link_control` | Does a request run with its own arguments? | One caller that waits for the previous command, two tokens; commands with one, four, seven and no words; two of them share words; both roles |
| `bond_store` | Do map, storage and host agree? | Three peers for two slots (eviction, and deletes that leave a hole), two keys (re-pairing); all habits |
| `central` | Does a command run with its own arguments, on its own link, and is it answered? Does an unload get through whatever the loop waits for? | One caller, which calls again when the arguments of its last command have been loaded (`Hasty = FALSE`); two peers that keep a CCCD in different places; seven commands: one for each branch of the three loops, with an address, the scan words, a payload, a handle and nothing as arguments; a store of three that repeated discoveries fill; the central role with a PSM, and the dual role with a `peer_address` |
| `serve` | Does the device come back to advertising, and does the application know what is in the table? | Twelve configurations: the built-in service and three services (one of them empty) with a CCCD, a descriptor and a writable characteristic; payloads at the limits of 31 and 255 bytes, one byte below and above; legacy, extended, directed, periodic, without connections; two values |

Deadlock is checked in every run.

The violation runs each check one sentence of the documentation:

| Run | What the code does |
|---|---|
| `lifecycle_slow_start` | A thread first scheduled after `load()` has timed out and set `UNLOAD_REQ` clears it, and serves on when `load()` has returned and freed its stack |
| `l2cap_eager` | An SDU sent from `on_l2cap_connected` is accepted and wiped |
| `bond_store_hole` | A hole puts two peers in one slot, later one peer in two; delete-all then leaves the second |
| `central_store` | Repeated discoveries fill the store with duplicates, and a characteristic that was reported is not tracked, although there is room for as many |

Where a passing run restricts the application or a property restricts the behaviours it speaks of
(`Patience = "done"`, `Hasty = FALSE`, `Eager = FALSE`, `~dual`, `Timely`, `AnswersInTime`,
`~holed`, a peripheral link in `CarriedOut`), a violation run or the list below says what happens
without the restriction; together they say under which discipline the code keeps its promise.

### Other behaviour worth knowing

The models contain these behaviours too. No run of the project singles them out;
each can be seen by asking TLC for the state or step it describes.

* `NO_MEM` and `TIMEOUT` are returned by `load()` but never stored in `LOAD_STATUS`, so
  `runtime_ble_load_status()` answers for an earlier load (`LoadReturnsAtOnce`,
  `LoadTimeout`).
* The poll that `unload()`'s wake causes does not look at `UNLOAD_REQ`, only
  `wait_unload`'s 50 ms timer does (`Poll`).
* A bring-up longer than the 3 s and the 1 s (`"overrun"`) goes on after `load()` has returned
  TIMEOUT: on a freed stack, and on to a controller enabled with its interrupt lines masked
  (`JoinTimeout`, then `BuildSdc`). The thread leaves when it comes to serve, and nobody waits
  for that; a `load()` before it creates its own thread over this one.
* A thread that a failed `load()` left in bring-up may publish its status and give the
  semaphore when the next `load()` has reset it and not yet created its own thread
  (`LoadPrepare`, `GiveLoadDone`, `LoadCreate`); `LoadTake` then takes that for the answer of
  a session that has not answered. `ReadsOwnAnswer` without its condition fails so.
* On a central link any event of the connection wins the select around `link_control_once`
  (radio.rs:2089) and drops a command that waits for the host: an RSSI or PHY that was asked
  for is never reported, although the link stays (`EventWins`) and runtime_ble.h:537 says
  "result arrives via on_rssi". `CarriedOut` excepts these commands; a peripheral's loop
  (radio.rs:1167) does not drop them.
* `load()` returns OK before the attribute table is built. If that fails the session ends
  at once (`BuildGatt`), although runtime_ble.h:480 says that `load()` "Blocks until bring-up
  completes"; the next `unload()` cleans up.
* The host's runner returns on an error of the controller. In the central role that ends
  the session (`OtherEnd`, `RunnerEnds`) while `load()` goes on returning OK at once; in the
  other roles the session goes on without a host.
* Two threads in `queue_tx` may both find the slot free and then write over each other
  (`QueueCheck` with two `Producers`).
* A new session clears `SEND_REQ`, a new connection does not: a message queued for a
  central that has gone goes to the next one (`Connect`).
* While a send of the channel's pump waits for credits it does not look at the
  disconnect flag (`PumpSend`; hence the condition of `DisconnectHonoured`).
* When the link is lost, its select drops the channel's future before it calls
  `on_l2cap_disconnected` (`LinkEnds`).
* The end of the channel ends a central's whole connection (`RecvEnds`).
* An SDU of 512 bytes is accepted and cut to `VALUE_LEN` (`PumpLen`).
* In the dual role `runtime_ble_client_write()` and `queue_tx` share `SEND_BUF` and `SEND_LEN`
  (lib.rs:509: "a session is one role only"): each replaces what the other has waiting,
  `queue_tx` even where it finds its own slot free (`CentralWrite`, `Notify`).
* A refused link request has already replaced the argument words of the request that
  waits (`StoreWord` before `Check`, with `Patience = "any"`), and a link command is taken
  before its words are loaded, so that a call in between replaces them (`"slot"`). The same
  holds of the client functions (`Hasty = TRUE`).
* A client command that finds the loop idle or scanning, and a `connect` or `scan_start`
  that finds it on a link, is accepted with OK and dropped without `on_client_status`
  (`Idle`, `Scan`, `Pump`). So is one whose link ends while it is carried out.
* `CENTRAL_CMD` is reset neither with the link nor with the session. What waits is dropped by
  the next idle turn (`NotOnLaterLink`), except that a session with a `peer_address` goes
  straight to its first link, which takes a command left from the session before.
* `config.peer_address` is connected to once: when that fails or the link ends, the
  application has to connect, and no callback tells it of a failure (`Top`, `ConnectFails`).
* A discovery reports OK although the characteristics of a service could not be read
  (`Findings`).
* A subscription to a characteristic that is not remembered writes to `h + 1` (`Target`).
* An unload that is seen by the outermost select drops a link without `on_disconnected`
  (`UnloadSeenOutside`, `SessionEnds`); in an inner one the callback comes. The application
  then believes in a link that is gone (`LinkKnown`).
* A link or a session that ends while a command of `link_control_once` waits for the host
  leaves the command taken out and not finished (`LinkDown`).
* A write is in the table before its reply is sent and reported after; a link that is
  dropped in between, for an unload or the end of an L2CAP channel, leaves a value the
  application has not heard of (`Dropped`). A write that `accept()` cannot reply to is
  reported although it is not in the table (`WriteRefused`). `lost` has both.
* A payload that does not fit is found out after `load()` has returned OK: the device tries
  again every second and never advertises (`HasPayload`). A legacy payload shortens the
  name, an extended one does not.
* `LINK_CMD` outlives its link, and `BOND_CMD` its session (`LinkDown`, `Unload`).
* A second bond delete changes the slot of the first (`Request` while
  `admin = "delete"`, with the habit `hurried`).
* A pairing event that waits in the host while a bond is deleted stores it again
  (`HandleEvent`, with the habit `late`).

### Fairness

`Lifecycle`: weak fairness of a call in progress (`load()`'s timed join ends, one way or the
other), of the BLE thread and of `wait_unload`'s timer. `CallsReturn` is stated where
`AnswersInTime`: after a `load()` that returned over a thread in bring-up nothing is promised.
Zephyr schedules a ready thread of the BLE thread's priority eventually unless higher ones never
sleep; a started `k_timer` expires. Nothing obliges the application to call. `OtherEnd` and other
wakes are not fair. `Executor`: the thread, the alarm interrupt and time. `TxSlot`, `LinkControl`:
the loop, its timer and the host's answer (the host answers a command of a live link or the link
ends). `L2capSlot`: the loop and its timer; the completion of a send is not fair, since it waits
for the peer's credits, and `DisconnectHonoured` is conditional on it. `BondStore` has only safety
properties. `CentralLoop`: the loop, its timers and the host's answers (`Host`), but not a peer
that is to be found: `Connected`, `ConnectFails` and an unasked `LinkEnds` are not fair. Strong
fairness of what a select polls beside the loop (`UnloadSeen`, `UnloadSeenOutside`, the end of a
link after `disconnect()`): they are enabled whenever the loop awaits, which it does again and
again, and their timers and events do not depend on it. `ServeLoop`: the loop and its timer;
strong fairness of the host's success at each thing it is asked, without which "advertises again"
cannot be said of a controller that always refuses.

## 4. Proofs

TLAPS proves, for every value of the constants:

* **`LifecycleProofs`**: `TypeCorrect` for any `slow`. The other theorems assume of time what
  their properties do. Where `AnswersInTime` (bring-up, late or not, ends before the join of a
  failed `load()` does; leaving may take any time) `ReportsOwnSession` and `RequestKept`. Their
  inductive invariant `IInv` gives the meaning of a given semaphore by what has been published
  (`OutcomeInv`, `Answered`) and by where thread and call can be together (`CallInv`): a thread
  that a failed `load()` leaves behind has answered, so nothing raises the semaphore between its
  reset and the next thread. Where `Timely` (the thread is also gone when that join ends)
  `StackSafe`, `AllReturned` and `RadioSafe`, by `SInv`: whether the heap is empty when the
  thread exits depends on what was allocated at each place (`HeapInv`, `SdcInv`), and nobody
  returns or begins over a living thread (`GlueInv`). Neither assumption can be dropped:
  `lifecycle_slow_start` is the counterexample to what a failed `load()` leaves behind, and the
  list of section 3 has those of a longer bring-up.
* **`ExecutorProofs`**: `TypeCorrect` and `NoLostWakeUp`, for any set of timers and
  delays. The inductive invariant says that the alarm is never later than the
  queue's entry (`AlarmInv`) and that a timer already visited by the current poll
  is covered by the entry or by a pending wake (`PollInv`).
* **`TxSlotProofs`**: `TypeCorrect` for any callers. With one caller
  (`OneCaller`, an assumption of each theorem) `OwnSession` for either role, and
  `NotOverwritten` and `ImplementsMailbox`, whose properties speak of sessions of one
  role (`NoOverwrite`, which no run checks apart because `MailboxSpec` implies what it says of
  the flag). The invariant relates the
  caller's place to the flag and the words already written (`CallerInv`), the loop's
  place to its copies (`LoopInv`) and the flag to the session (`SessionInv`). Both
  restrictions are necessary: two callers both pass `QueueCheck`, and in the dual role a
  client write passes it too. `LeavesAsAsked` needs neither: `SentAsAsked` is inductive by what
  `Mode` returns (`ModeFits`).
* **`CentralLoopProofs`**: `NeverOnLaterLink`, for any commands, peers and roles and for an
  application that calls at any time (`Hasty` or not). The invariant follows the waiting
  command: it has a past only while the loop is between the end of a link and its next idle
  turn (`WaitInv`), except at the start of a session with a `peer_address` (`AutoInv`); what was
  taken out keeps that (`JobInv`). The property alone is not inductive, since it says
  nothing of a command that still waits. `RunsAsAskedAlways`, for a patient application
  (`~Hasty`, an assumption of the theorem): while a call is going on nothing waits and nothing is
  loaded (`CallInv`), so from its first store to the loop's last load the words of a command
  hold its token (`HeldInv`), but for the payload that a dual session's notification
  overwrites (`Dirty`). What the loop loads is the handle or a word the function stored
  (`LoadsOf`). `TypeCorrect` and `SubscribesRight`, again for an application that calls at any
  time: where the loop is, and what it loads for, decide whether there is a link
  (`PlaceInv`); `connect()` gets a peer even when its words are written anew while they are
  loaded, since only addresses are ever written there (`AddrInv`); and the store is empty
  without a link and holds all that was reported on this one until it is full (`StoreInv`,
  kept by every discovery: `PushKeeps`).
* **`BondStoreProofs`**: every safety property of `BondStore`, for any peers, keys and
  callers and 1 to 4 slots: `TypeCorrect`, `MatchesMap`, `IsCurrent`, `KeepsBond`, `DeleteAll` and
  `DeletesAsked`. Restoring, `retain` and delete-all are loops over slots and entries; what one
  turn keeps (`RestoreSlotKeeps`, `DeleteSlotKeeps`) the loop keeps (`RestoredGives`,
  `RetainKeeps`, `DeletedGives`). The invariant says that until a delete leaves a hole the map
  is dense, no peer has two bonds and map and storage name the same ones (`BondInv`): only then
  is the slot that `store_bond` numbers a new entry by a free one, and a full map one with
  every slot in it. `EventInv` says that the host's event brings the host's key, and
  `AskedInv` that an accepted delete is in `BOND_CMD` or in hand, with `BOND_INDEX` still its
  slot if callers wait for `on_bond_deleted`.
* **`LinkControlProofs`**: `TypeCorrect` and `ExecutesAsAskedAlways` for one caller that waits
  until its last command was loaded (`Patient`), by the same argument; `WordsOf` says that the
  loop loads the words that each command stores, in another order for two of them.
* **`L2capSlotProofs`**: `NoStray`, for any callers at any time, and `SentOnOwn`, for any
  number of callers that keep out of the opening of a channel (`~Eager`; `l2cap_eager` is the
  counterexample without it). While a channel is served the application knows of it, so
  whatever raises a flag after its reset was said to this channel (`ChannelInv`); while the
  flags are reset nobody is in a call (`OpeningInv`). With one caller `TypeCorrect` and
  `SlotIsMailbox`, by an invariant like that of `TxSlot`.
* **`ServeLoopProofs`**: `TypeCorrect`, for any configurations and values; with it
  `LinkKnown`: on a link the application knows of it, and believes in one that has gone only
  after an unload. `CountsAlike`: for
  any number of services, characteristics and descriptors, an attribute that a central writes
  is reported by one callback and index, its own, which are those that the application
  finds by UUID (`Indexed`). The service of a characteristic and the handles before it grow
  along the table (`ServiceGrows`, `SizesGrow`), so two characteristics share no handle
  (`HandlesApart`), nor do two attributes (`OneHandle`), and the search by handle finds the
  one that was written (`CallbackGives`). It is assumed that no two characteristics of a
  configuration have one UUID (`Distinct`; the search by UUID can find only the first) and
  that `usize::MAX` is no index (`IndexAssumption`; services and characteristics are
  counted in a byte each). `AppKnows` follows for any such configurations; its invariant
  (`KnowInv`) excuses one attribute more than the property, the one whose callback is next.
  `PayloadWhenFits`: for any configuration the builders give a payload, and serve goes on to
  advertise, if and only if what is configured fits, which is what `AdvertisesAgain` rests on.

Loops over data are recursive functions. The library's induction theorems take an operator
and cannot be used; its theorem about least elements (`WFMin`) takes a set, and gives
induction over the numbers up to `N` (`UpTo`) and that a step function can be repeated `N`
times (`Recursion`), from which the lemmas about loops follow. `ServeLoopProofs` and
`BondStoreProofs` each state the two, since their modules' variables keep them apart.

Only model-checked: all liveness (`CallsReturn`, `TimersHandled`, `EventsHandled`,
`AcceptedIsTaken`, `DisconnectHonoured`, `ClosedIsReported`, `CarriedOut`, `Honoured`,
`UnloadEnds`, `AdvertisesAgain`), which the prover does not handle under fairness.

## 5. Not modelled

* Sequentially consistent memory is assumed. The code uses acquire and release on
  every flag, on single-core parts; what the model keeps is every interleaving of the
  accesses. A torn copy of a buffer is one step.
* A second application thread in `Lifecycle`: the header offers no locking and
  nothing claims it.
* The data of advertising beyond its lengths, of ATT values and of configuration; the
  board files, Kconfig and examples. The nRF52 back end has the control flow of the nRF54L
  one.
* Of the attribute table: permissions (a write that the host refuses never becomes an
  event), attributes that cannot be written, and the capacity `ATT_MAX`, which `trouble_host`
  checks. Of the central role: scan reports, incoming notifications and the confirmation of
  indications, which change no state of `radio.rs`; the limit of 8 services.
* `ServeLoop` takes a link to start without subscriptions, and `accept()` to fail before it
  writes; both are properties of `trouble_host`.
* MPSL, the controller and `trouble-host` are external: only the events and errors
  that `radio.rs` handles appear. Among them the host's runner: in the peripheral role
  it is joined with the serve loop (radio.rs:638), so its end alone does not end the
  session; `OtherEnd` lets the session end at any poll, which covers all roles.
* Whether the controller accepts that periodic advertising is enabled again after every
  connection (radio.rs:2482): the host's success is assumed to be possible each time.

## 6. Plan

Done: the lifecycle, the executor, the four cells a peripheral session uses, bonds, the
central role, the serve loop with the attribute table and the advertising payload; proofs
of every safety property that the runs check.

The project keeps its runs few: a run of a later module may take the place of a
violation run above, whose finding then moves to the list of other behaviour.

Next, in this order:

1. Two links in one dual session for `L2capSlot` and `LinkControl`.
2. `BondBlob`: `serialize_bond` and `deserialize_bond` over bounded fields, the legacy
   version included; invalid blobs in `BondStore`.
3. The capacity of the attribute table, and `ServeLoop` with `TxSlot`: a notification against
   the subscription of its link.
