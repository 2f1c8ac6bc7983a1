------------------------------ MODULE Lifecycle ------------------------------
(***************************************************************************)
(* The dynamic life of one BLE session: runtime_ble_load() and             *)
(* runtime_ble_unload() on an application thread (glue/glue.c), and the    *)
(* BLE thread they create, which brings MPSL, the SoftDevice Controller    *)
(* and the host up on the heap, serves until it is told to unload, frees   *)
(* everything and exits (rust/src/lib.rs runtime_ble_run, rust/src/chip/   *)
(* nrf54l.rs run, rust/src/radio.rs serve_session).                        *)
(*                                                                         *)
(* The two threads share UNLOAD_REQ, LOAD_STATUS, the binary semaphores    *)
(* runtime_sem and runtime_load_sem, and the thread's dynamic stack.       *)
(* Sessions may follow one another without bound; no variable counts them. *)
(***************************************************************************)
EXTENDS Naturals, FiniteSets

VARIABLES
  config,      \* CONFIG is Some: runtime_ble_init() accepted a configuration
  loaded,      \* runtime_loaded
  stack,       \* runtime_stack points to an allocated stack
  irqs,        \* the MPSL/SDC interrupt lines are enabled
  unloadReq,   \* UNLOAD_REQ
  loadStatus,  \* LOAD_STATUS
  wakeSem,     \* runtime_sem, on which block_on parks
  loadSem,     \* runtime_load_sem, the bring-up handshake
  op,          \* the call the application thread is in: "load" or "unload"
  cpc,         \* where in that call it is
  status,      \* the local `status` of runtime_ble_load()
  result,      \* what the latest runtime_ble_load() returned
  tpc,         \* where the BLE thread is; "dead" before creation and after exit
  outcome,     \* the status this session's bring-up ends with
  heap,        \* the session objects allocated on the Zephyr heap
  sdcOn,       \* the SoftDevice Controller is enabled
  timer,       \* wait_unload's 50 ms timer: "off", "armed" or "expired"
  slow         \* what may outlast the timeouts of runtime_ble_load(), the 3 s for
               \* the answer and the 1 s of the join after them; fixed for a behaviour:
               \*   "start"    the BLE thread's first instruction comes after the 3 s
               \*   "bringup"  bring-up ends after the 3 s, but within the 1 s
               \*   "overrun"  bring-up ends after the 3 s and the 1 s
               \*   "exit"     bring-up is over, and leaving takes more than the 1 s

callerVars  == <<op, cpc, status, result>>
glueVars    == <<loaded, stack, irqs>>
sessionVars == <<outcome, heap, sdcOn, timer>>
vars == <<config, loaded, stack, irqs, unloadReq, loadStatus, wakeSem, loadSem,
          op, cpc, status, result, tpc, outcome, heap, sdcOn, timer, slow>>

Phases  == {"start", "bringup", "overrun", "exit"}
Status  == {"OK", "INVALID", "NO_MEM", "MPSL", "SDC", "TIMEOUT", "PENDING"}
Objects == {"mpsl", "rng", "mem", "res", "gatt"}

\* Places of the BLE thread, in the order it goes through them.
Bringup  == {"entered", "mpsl", "alloc", "sdc", "host", "publish", "give"}
Serving  == {"gatt", "poll", "parked"}
Teardown == {"free_gatt", "drop_stack", "free_session"}
Places   == {"dead", "created"} \cup Bringup \cup Serving \cup Teardown

Init ==
  /\ config = FALSE /\ loaded = FALSE /\ stack = FALSE /\ irqs = FALSE
  /\ unloadReq = FALSE /\ loadStatus = "PENDING"
  /\ wakeSem = 0 /\ loadSem = 0
  /\ op = "load" /\ cpc = "idle" /\ status = "PENDING" /\ result = "PENDING"
  /\ tpc = "dead" /\ outcome = "PENDING" /\ heap = {} /\ sdcOn = FALSE
  /\ timer = "off"
  /\ slow \in SUBSET Phases

(***************************************************************************)
(* The application thread.                                                 *)
(***************************************************************************)

\* runtime_ble_init(): range checks pass and CONFIG is set. A rejected
\* configuration changes nothing. The API asks for it before a load.
BleInit ==
  /\ cpc = "idle" /\ ~loaded
  /\ config' = TRUE
  /\ UNCHANGED <<glueVars, unloadReq, loadStatus, wakeSem, loadSem,
                 callerVars, tpc, sessionVars, slow>>

\* runtime_ble_load(): already loaded, or no memory for the thread's stack.
LoadReturnsAtOnce ==
  /\ cpc = "idle"
  /\ \/ loaded  /\ result' = "OK"
     \/ ~loaded /\ result' = "NO_MEM"
  /\ op' = "load"
  /\ UNCHANGED <<config, glueVars, unloadReq, loadStatus, wakeSem, loadSem,
                 cpc, status, tpc, sessionVars, slow>>

\* Mutant: the semaphores are not reset.
LoadPrepareNoReset ==
  /\ cpc = "idle" /\ ~loaded
  /\ stack' = TRUE /\ irqs' = TRUE
  /\ op' = "load" /\ cpc' = "create"
  /\ UNCHANGED <<config, loaded, unloadReq, loadStatus, wakeSem, loadSem,
                 status, result, tpc, sessionVars, slow>>

\* The stack is allocated, both semaphores are reset and the interrupt lines are
\* enabled. A thread that an earlier load() left alive may still run here, and
\* may answer between the reset and the creation of the new thread.
LoadPrepare ==
  /\ cpc = "idle" /\ ~loaded
  /\ stack' = TRUE /\ irqs' = TRUE
  /\ wakeSem' = 0 /\ loadSem' = 0
  /\ op' = "load" /\ cpc' = "create"
  /\ UNCHANGED <<config, loaded, unloadReq, loadStatus, status, result, tpc,
                 sessionVars, slow>>

\* k_thread_create. Over a thread that still lives this is undefined in Zephyr;
\* of what may come of it the model has the mildest: there is one struct
\* k_thread, so the earlier thread is gone, and what it had allocated and
\* enabled stays.
LoadCreate ==
  /\ cpc = "create"
  /\ tpc' = "created" /\ outcome' = "PENDING"
  /\ cpc' = "wait" /\ status' = "TIMEOUT"
  /\ UNCHANGED <<config, glueVars, unloadReq, loadStatus, wakeSem, loadSem, op,
                 result, heap, sdcOn, timer, slow>>

\* k_sem_take(&runtime_load_sem, 3 s) succeeds.
LoadTake ==
  /\ cpc = "wait" /\ loadSem = 1
  /\ loadSem' = 0
  /\ cpc' = "read"
  /\ UNCHANGED <<config, glueVars, unloadReq, loadStatus, wakeSem, op,
                 status, result, tpc, sessionVars, slow>>

\* The 3 s pass first: the thread has not started, or is still in bring-up.
LoadTimeout ==
  /\ cpc = "wait" /\ loadSem = 0
  /\ \/ tpc = "created"  /\ "start" \in slow
     \/ tpc \in Bringup  /\ slow \cap {"bringup", "overrun"} # {}
  /\ cpc' = "signal"
  /\ UNCHANGED <<config, glueVars, unloadReq, loadStatus, wakeSem, loadSem,
                 op, status, result, tpc, sessionVars, slow>>

\* status = runtime_ble_load_status(); on OK the load is over.
LoadRead ==
  /\ cpc = "read"
  /\ status' = loadStatus
  /\ \/ /\ loadStatus = "OK"
        /\ loaded' = TRUE /\ result' = "OK" /\ cpc' = "idle"
     \/ /\ loadStatus # "OK"
        /\ cpc' = "signal"
        /\ UNCHANGED <<loaded, result>>
  /\ UNCHANGED <<config, stack, irqs, unloadReq, loadStatus, wakeSem,
                 loadSem, op, tpc, sessionVars, slow>>

\* runtime_ble_unload() without a session returns at once; with one it goes on
\* to signal it.
UnloadStart ==
  /\ cpc = "idle" /\ loaded
  /\ op' = "unload" /\ cpc' = "signal"
  /\ UNCHANGED <<config, glueVars, unloadReq, loadStatus, wakeSem, loadSem,
                 status, result, tpc, sessionVars, slow>>

\* runtime_ble_signal_unload(), from unload() or from a failed load().
SignalUnload ==
  /\ cpc = "signal"
  /\ unloadReq' = TRUE
  /\ cpc' = "wake"
  /\ UNCHANGED <<config, glueVars, loadStatus, wakeSem, loadSem, op, status,
                 result, tpc, sessionVars, slow>>

\* runtime_ble_wake(): k_sem_give on a semaphore whose limit is 1.
Wake ==
  /\ cpc = "wake"
  /\ wakeSem' = 1
  /\ cpc' = "join"
  /\ UNCHANGED <<config, glueVars, unloadReq, loadStatus, loadSem, op,
                 status, result, tpc, sessionVars, slow>>

\* What both calls do after k_thread_join: interrupts off, stack freed.
Release ==
  /\ irqs' = FALSE /\ stack' = FALSE
  /\ cpc' = "idle"
  /\ \/ op = "unload" /\ loaded' = FALSE /\ UNCHANGED result
     \/ op = "load" /\ result' = status /\ UNCHANGED loaded
  /\ UNCHANGED <<config, unloadReq, loadStatus, wakeSem, loadSem, op, status,
                 tpc, sessionVars, slow>>

\* Mutant: the thread is not waited for.
JoinNone ==
  /\ cpc = "join"
  /\ Release

\* k_thread_join returns because the thread has exited.
Join ==
  /\ cpc = "join" /\ tpc = "dead"
  /\ Release

\* The failed load() joins for 1 s only and does not look at the answer. The
\* second passes wherever the thread is, in bring-up too, if it has not exited
\* by then; and it always does if the thread is serving and UNLOAD_REQ is not
\* set, for then nothing makes it leave.
JoinTimeout ==
  /\ cpc = "join" /\ op = "load" /\ tpc # "dead"
  /\ \/ slow \cap {"start", "overrun"} # {}
     \/ "exit" \in slow /\ tpc \notin {"created"} \cup Bringup
     \/ tpc \in Serving /\ ~unloadReq
  /\ Release

(***************************************************************************)
(* The BLE thread.                                                         *)
(***************************************************************************)

\* runtime_entry -> runtime_ble_run: UNLOAD_REQ is cleared.
Enter ==
  /\ tpc = "created"
  /\ unloadReq' = FALSE
  /\ tpc' = "entered"
  /\ UNCHANGED <<config, glueVars, loadStatus, wakeSem, loadSem, callerVars,
                 sessionVars, slow>>

\* radio::run: signal_load_pending, then give up if there is no configuration.
LoadPending ==
  /\ tpc = "entered"
  /\ loadStatus' = "PENDING"
  /\ \/ config  /\ tpc' = "mpsl" /\ UNCHANGED outcome
     \/ ~config /\ tpc' = "publish" /\ outcome' = "INVALID"
  /\ UNCHANGED <<config, glueVars, unloadReq, wakeSem, loadSem, callerVars,
                 heap, sdcOn, timer, slow>>

\* MultiprotocolServiceLayer::new, boxed on success.
NewMpsl ==
  /\ tpc = "mpsl"
  /\ \/ heap' = heap \cup {"mpsl"} /\ tpc' = "alloc" /\ UNCHANGED outcome
     \/ outcome' = "MPSL" /\ tpc' = "publish" /\ UNCHANGED heap
  /\ UNCHANGED <<config, glueVars, unloadReq, loadStatus, wakeSem, loadSem,
                 callerVars, sdcOn, timer, slow>>

\* The random generator and the controller's memory pool are boxed.
AllocRngMem ==
  /\ tpc = "alloc"
  /\ heap' = heap \cup {"rng", "mem"}
  /\ tpc' = "sdc"
  /\ UNCHANGED <<config, glueVars, unloadReq, loadStatus, wakeSem, loadSem,
                 callerVars, outcome, sdcOn, timer, slow>>

\* Mutant: MPSL is forgotten on the error path.
BuildSdcLeak ==
  /\ tpc = "sdc"
  /\ \/ sdcOn' = TRUE /\ tpc' = "host" /\ UNCHANGED <<outcome, heap>>
     \/ /\ heap' = heap \ {"mem", "rng"}
        /\ outcome' = "SDC" /\ tpc' = "publish" /\ UNCHANGED sdcOn
  /\ UNCHANGED <<config, glueVars, unloadReq, loadStatus, wakeSem, loadSem,
                 callerVars, timer, slow>>

\* build_sdc: on failure mem, rng and mpsl are freed before the result is
\* published.
BuildSdc ==
  /\ tpc = "sdc"
  /\ \/ sdcOn' = TRUE /\ tpc' = "host" /\ UNCHANGED <<outcome, heap>>
     \/ /\ heap' = heap \ {"mem", "rng", "mpsl"}
        /\ outcome' = "SDC" /\ tpc' = "publish" /\ UNCHANGED sdcOn
  /\ UNCHANGED <<config, glueVars, unloadReq, loadStatus, wakeSem, loadSem,
                 callerVars, timer, slow>>

\* The host resources are boxed and the host stack is built over the controller.
BuildHost ==
  /\ tpc = "host"
  /\ heap' = heap \cup {"res"}
  /\ outcome' = "OK" /\ tpc' = "publish"
  /\ UNCHANGED <<config, glueVars, unloadReq, loadStatus, wakeSem, loadSem,
                 callerVars, sdcOn, timer, slow>>

\* signal_load_done, first half: LOAD_STATUS is stored.
PublishStatus ==
  /\ tpc = "publish"
  /\ loadStatus' = outcome
  /\ tpc' = "give"
  /\ UNCHANGED <<config, glueVars, unloadReq, wakeSem, loadSem, callerVars,
                 sessionVars, slow>>

\* signal_load_done, second half: runtime_load_sem is given. After a failure
\* the thread returns; after OK it goes on to serve.
GiveLoadDone ==
  /\ tpc = "give"
  /\ loadSem' = 1
  /\ tpc' = IF outcome = "OK" THEN "gatt" ELSE "dead"
  /\ UNCHANGED <<config, glueVars, unloadReq, loadStatus, wakeSem,
                 callerVars, sessionVars, slow>>

\* Mutant: the request flag is cleared where the session starts to serve.
BuildGattClearsRequest ==
  /\ tpc = "gatt"
  /\ heap' = heap \cup {"gatt"} /\ tpc' = "poll" /\ timer' = "expired"
  /\ unloadReq' = FALSE
  /\ UNCHANGED <<config, glueVars, loadStatus, wakeSem, loadSem, callerVars,
                 outcome, sdcOn, slow>>

\* serve_session builds the attribute table and starts block_on, or returns if
\* the table cannot be built; serve_central (the other role) has no table.
BuildGatt ==
  /\ tpc = "gatt"
  /\ \/ heap' = heap \cup {"gatt"} /\ tpc' = "poll" /\ timer' = "expired"
     \/ UNCHANGED heap /\ tpc' = "poll" /\ timer' = "expired"
     \/ tpc' = "drop_stack" /\ UNCHANGED <<heap, timer>>
  /\ UNCHANGED <<config, glueVars, unloadReq, loadStatus, wakeSem, loadSem,
                 callerVars, outcome, sdcOn, slow>>

\* Mutant: wait_unload looks once and does not sleep again.
PollOnce ==
  /\ tpc = "poll"
  /\ \/ /\ timer = "expired" /\ unloadReq
        /\ tpc' = "free_gatt" /\ timer' = "off"
     \/ /\ timer = "expired" /\ ~unloadReq
        /\ tpc' = "parked" /\ timer' = "off"
     \/ /\ timer = "off"
        /\ tpc' = "parked" /\ UNCHANGED timer
  /\ UNCHANGED <<config, glueVars, unloadReq, loadStatus, wakeSem, loadSem,
                 callerVars, outcome, heap, sdcOn, slow>>

\* block_on polls the session future. wait_unload looks at UNLOAD_REQ only when
\* its timer has expired (its first poll counts as that); otherwise the poll
\* leaves it waiting.
Poll ==
  /\ tpc = "poll"
  /\ \/ /\ timer = "expired" /\ unloadReq
        /\ tpc' = "free_gatt" /\ timer' = "off"
     \/ /\ timer = "expired" /\ ~unloadReq
        /\ tpc' = "parked" /\ timer' = "armed"
     \/ /\ timer = "armed"
        /\ tpc' = "parked" /\ UNCHANGED timer
  /\ UNCHANGED <<config, glueVars, unloadReq, loadStatus, wakeSem, loadSem,
                 callerVars, outcome, heap, sdcOn, slow>>

\* The session future completes without wait_unload: the central's host runner
\* stops on an error of the controller, or bond_admin_loop or an idle
\* central_loop has seen UNLOAD_REQ on a timer of its own.
OtherEnd ==
  /\ tpc = "poll"
  /\ tpc' = "free_gatt" /\ timer' = "off"
  /\ UNCHANGED <<config, glueVars, unloadReq, loadStatus, wakeSem, loadSem,
                 callerVars, outcome, heap, sdcOn, slow>>

\* block_on: runtime_ble_wait() takes the semaphore.
Unpark ==
  /\ tpc = "parked" /\ wakeSem = 1
  /\ wakeSem' = 0
  /\ tpc' = "poll"
  /\ UNCHANGED <<config, glueVars, unloadReq, loadStatus, loadSem,
                 callerVars, sessionVars, slow>>

\* serve_session's teardown: server, handles, then the value buffers.
FreeGatt ==
  /\ tpc = "free_gatt"
  /\ heap' = heap \ {"gatt"}
  /\ tpc' = "drop_stack"
  /\ UNCHANGED <<config, glueVars, unloadReq, loadStatus, wakeSem, loadSem,
                 callerVars, outcome, sdcOn, timer, slow>>

\* Mutant: the controller's memory goes before the controller.
DropStackLate ==
  /\ tpc = "drop_stack"
  /\ heap' = heap \ {"res", "mem"}
  /\ tpc' = "free_session"
  /\ UNCHANGED <<config, glueVars, unloadReq, loadStatus, wakeSem, loadSem,
                 callerVars, outcome, sdcOn, timer, slow>>

\* drop(stack): SoftdeviceController's Drop calls sdc_disable.
DropStack ==
  /\ tpc = "drop_stack"
  /\ sdcOn' = FALSE
  /\ tpc' = "free_session"
  /\ UNCHANGED <<config, glueVars, unloadReq, loadStatus, wakeSem, loadSem,
                 callerVars, outcome, heap, timer, slow>>

\* The host resources, the pool, the generator and MPSL are reclaimed, run()
\* returns and the thread exits.
FreeSession ==
  /\ tpc = "free_session"
  /\ heap' = heap \ {"res", "mem", "rng", "mpsl"}
  /\ tpc' = "dead"
  /\ UNCHANGED <<config, glueVars, unloadReq, loadStatus, wakeSem, loadSem,
                 callerVars, outcome, sdcOn, timer, slow>>

(***************************************************************************)
(* Interrupts.                                                             *)
(***************************************************************************)

\* Mutant: the semaphore counts instead of saturating at 1.
TimerFiresCounting ==
  /\ timer = "armed"
  /\ timer' = "expired"
  /\ wakeSem' = wakeSem + 1
  /\ UNCHANGED <<config, glueVars, unloadReq, loadStatus, loadSem,
                 callerVars, tpc, outcome, heap, sdcOn, slow>>

\* The alarm interrupt: wait_unload's timer expires and wakes the executor.
TimerFires ==
  /\ timer = "armed"
  /\ timer' = "expired"
  /\ wakeSem' = 1
  /\ UNCHANGED <<config, glueVars, unloadReq, loadStatus, loadSem,
                 callerVars, tpc, outcome, heap, sdcOn, slow>>

\* Any other wake: a controller interrupt, another timer, or the alarm of a
\* timer whose session is gone (the driver's queue outlives the session). They
\* all use the one waker, which gives runtime_sem.
OtherWake ==
  /\ wakeSem = 0
  /\ wakeSem' = 1
  /\ UNCHANGED <<config, glueVars, unloadReq, loadStatus, loadSem,
                 callerVars, tpc, sessionVars, slow>>
-----------------------------------------------------------------------------
InCall == LoadCreate \/ LoadTake \/ LoadTimeout \/ LoadRead \/ SignalUnload \/ Wake \/ Join
          \/ JoinTimeout

Caller == BleInit \/ LoadReturnsAtOnce \/ LoadPrepare \/ UnloadStart \/ InCall

ThreadProgress ==
  \/ Enter \/ LoadPending \/ NewMpsl \/ AllocRngMem \/ BuildSdc \/ BuildHost
  \/ PublishStatus \/ GiveLoadDone \/ BuildGatt \/ Poll \/ Unpark
  \/ FreeGatt \/ DropStack \/ FreeSession

Interrupt == TimerFires \/ OtherWake

Next == Caller \/ ThreadProgress \/ OtherEnd \/ Interrupt

Spec == Init /\ [][Next]_vars

\* A runnable thread is eventually scheduled, a call in progress goes on, and an
\* armed timer eventually fires. Nothing obliges the application to call.
Fairness ==
  WF_vars(InCall) /\ WF_vars(ThreadProgress) /\ WF_vars(TimerFires)

FairSpec == Spec /\ Fairness
-----------------------------------------------------------------------------
FlagsOK ==
  /\ config \in BOOLEAN /\ loaded \in BOOLEAN /\ stack \in BOOLEAN
  /\ irqs \in BOOLEAN /\ unloadReq \in BOOLEAN /\ sdcOn \in BOOLEAN

ValuesOK ==
  /\ loadStatus \in Status /\ status \in Status /\ result \in Status
  /\ outcome \in Status
  /\ wakeSem \in {0, 1} /\ loadSem \in {0, 1}
  /\ op \in {"load", "unload"}
  /\ cpc \in {"idle", "create", "wait", "read", "signal", "wake", "join"}
  /\ tpc \in Places
  /\ heap \subseteq Objects
  /\ timer \in {"off", "armed", "expired"}
  /\ slow \subseteq Phases

\* Every variable is in its set; the semaphores never exceed their limit of 1
\* (k_sem_init in runtime_glue_init) and the heap holds only session objects.
TypeOK == FlagsOK /\ ValuesOK

\* Bring-up ends before the 1 s join of a failed load() does.
AnswersInTime == slow \cap {"start", "overrun"} = {}

\* The BLE thread starts within load()'s 3 s, and it is gone when the 1 s of a
\* failed load()'s join is over, bring-up included: its 4 s may be used up to the
\* last, not more.
Timely == AnswersInTime /\ "exit" \notin slow

\* k_thread_stack_free comes after the thread's exit: while everything stays within
\* the 3 s and the 1 s, the BLE thread has its stack as long as it exists, also
\* after load() has given up waiting for its answer.
StackOutlivesThread == Timely /\ tpc # "dead" => stack

\* "On failure the partial session is torn down" (runtime_ble.h:483): once load()
\* has failed or unload() has returned there is no thread, no stack, no heap
\* object, no running controller and no enabled interrupt line.
CleanWhenUnloaded ==
  cpc = "idle" /\ ~loaded =>
    tpc = "dead" /\ ~stack /\ heap = {} /\ ~sdcOn /\ ~irqs

\* "all BLE RAM returns to the Zephyr heap" (runtime_ble.h:491) whenever the
\* thread starts and leaves in time: after every failure of bring-up, and after
\* an answer that comes while load() has given up and is joining.
NothingLeftBehind == Timely => CleanWhenUnloaded

\* The controller is never enabled without MPSL, its random generator and its
\* memory pool, nor while its interrupt lines are masked: bring-up and teardown
\* go through these in opposite orders, on two threads.
RadioHasItsResources ==
  Timely /\ sdcOn => {"mpsl", "rng", "mem"} \subseteq heap /\ irqs

\* The status that load() reads after the handshake is the one its own session
\* published.
ReadsOwnAnswer == cpc = "read" => loadStatus = outcome /\ outcome # "PENDING"

\* An answer that came while an earlier load() was already joining is not taken for
\* this session's, and only a session that came up is ever marked loaded. It is
\* enough that bring-up ends in time: leaving may take as long as it likes.
LoadReportsOwnSession ==
  AnswersInTime => ReadsOwnAnswer /\ (loaded => outcome = "OK")

\* Once unload() has set UNLOAD_REQ nothing clears it before the join: the
\* clearing at the start of runtime_ble_run belongs to the past by then.
UnloadRequestKept ==
  AnswersInTime /\ op = "unload" /\ cpc \in {"wake", "join"} => unloadReq

\* Every load() and every unload() returns, the ones that wait for ever on the
\* join included, if bring-up ends in time: the BLE thread notices the request
\* and leaves.  A session of the central role has bond_admin_loop in the place
\* of wait_unload, which differs in the length of its sleep.
CallsReturn == AnswersInTime => (cpc # "idle" ~> cpc = "idle")

\* "On failure the partial session is torn down", of the session that comes up
\* after load() has given up: it is not left serving without a request to leave.
FailedSessionLeaves == cpc = "idle" /\ ~loaded /\ tpc \in Serving => unloadReq
=============================================================================
