-------------------------- MODULE LifecycleProofs --------------------------
(***************************************************************************)
(* Proofs about Lifecycle.  The type invariant holds whatever is slow.     *)
(* IInv says how the call, the BLE thread and what it published go         *)
(* together; it is inductive if bring-up ends before the 1 s join of a     *)
(* failed load() does (AnswersInTime), however long leaving takes.  SInv   *)
(* adds what is allocated and enabled, at each place of the thread and of  *)
(* the call; it needs that leaving ends before the join too (Timely).      *)
(* Neither holds if it takes longer: the run lifecycle_slow_start shows a  *)
(* session that goes on after load() has given up on it.                   *)
(***************************************************************************)
EXTENDS Lifecycle, TLAPS

Session == {"mpsl", "rng", "mem", "res"}

\* Where the thread is when it has nothing more to answer.
Over == {"dead"} \cup Serving \cup Teardown

\* What bring-up has concluded and published.
OutcomeInv ==
  /\ tpc \in {"created", "entered", "mpsl", "alloc", "sdc", "host"}
       => outcome = "PENDING"
  /\ tpc \in {"publish", "give"} => outcome # "PENDING"
  /\ tpc \in Serving \cup Teardown => outcome = "OK"
  /\ tpc \in {"give"} \cup Serving \cup Teardown => loadStatus = outcome

\* The bring-up has been answered: what a taken or given runtime_load_sem means
\* while load() waits for it.
Answered ==
  /\ outcome # "PENDING" /\ loadStatus = outcome
  /\ tpc \in Over
  /\ outcome # "OK" => tpc = "dead"

\* How the call and the thread go together. A thread that a failed load() left
\* behind has answered, so that nothing raises runtime_load_sem after the reset.
CallInv ==
  /\ cpc \in {"idle", "create"} => tpc \in Over
  /\ cpc = "create" => loadSem = 0
  /\ cpc \in {"create", "wait", "read"} => op = "load"
  /\ cpc # "idle" => (op = "unload" <=> loaded)
  /\ loaded => outcome = "OK" /\ tpc \in Over
  /\ cpc = "wait" /\ loadSem = 1 => Answered
  /\ cpc = "read" => Answered
  /\ cpc \in {"signal", "wake", "join"} => tpc # "created"
  /\ cpc \in {"wake", "join"} => unloadReq

IInv == TypeOK /\ OutcomeInv /\ CallInv

\* What the session has allocated, by place.
HeapInv ==
  /\ tpc \in {"dead", "created", "entered", "mpsl"} => heap = {}
  /\ tpc = "alloc" => heap = {"mpsl"}
  /\ tpc \in {"sdc", "host"} => heap = {"mpsl", "rng", "mem"}
  /\ tpc \in {"publish", "give"} /\ outcome = "OK" => heap = Session
  /\ tpc \in {"publish", "give"} /\ outcome # "OK" => heap = {}
  /\ tpc \in {"gatt", "drop_stack", "free_session"} => heap = Session
  /\ tpc \in {"poll", "parked", "free_gatt"} =>
       heap = Session \/ heap = Session \cup {"gatt"}

\* Where the controller runs.
SdcInv ==
  sdcOn <=> \/ tpc \in {"host", "drop_stack", "free_gatt"} \cup Serving
            \/ tpc \in {"publish", "give"} /\ outcome = "OK"

\* What the glue holds for the thread, and that no call returns or begins over
\* a thread that lives without being loaded.
GlueInv ==
  /\ cpc = "idle" /\ ~loaded => tpc = "dead" /\ ~stack /\ ~irqs
  /\ cpc = "create" => tpc = "dead"
  /\ cpc # "idle" \/ loaded => stack /\ irqs

SInv == HeapInv /\ SdcInv /\ GlueInv
-----------------------------------------------------------------------------
\* What is slow stays so.
LEMMA SlownessFixed == ASSUME [Next]_vars PROVE slow' = slow
<1>1. CASE Caller
  BY <1>1 DEF Caller, BleInit, LoadReturnsAtOnce, LoadPrepare, LoadCreate, UnloadStart,
              InCall, LoadTake, LoadTimeout, LoadRead, SignalUnload, Wake, Join,
              JoinTimeout, Release
<1>2. CASE ThreadProgress \/ OtherEnd
  BY <1>2 DEF ThreadProgress, Enter, LoadPending, NewMpsl, AllocRngMem, BuildSdc,
              BuildHost, PublishStatus, GiveLoadDone, BuildGatt, Poll, Unpark,
              FreeGatt, DropStack, FreeSession, OtherEnd
<1>3. CASE Interrupt
  BY <1>3 DEF Interrupt, TimerFires, OtherWake
<1> QED
  BY <1>1, <1>2, <1>3 DEF Next, vars

(***************************************************************************)
(* Type correctness: every variable stays in its set; in particular the    *)
(* two semaphores saturate at 1 and the session's objects are the five the *)
(* code allocates (glue.c, radio.rs).                                      *)
(***************************************************************************)
THEOREM TypeCorrect == Spec => []TypeOK
<1>1. Init => TypeOK
  BY DEF Init, TypeOK, FlagsOK, ValuesOK, Status, Places, Phases
<1>2. TypeOK /\ [Next]_vars => TypeOK'
  <2> SUFFICES ASSUME TypeOK, [Next]_vars PROVE TypeOK'
    OBVIOUS
  <2> USE DEF TypeOK, Status, Objects, Places, Bringup, Serving, Teardown,
              callerVars, glueVars, sessionVars
  <2>1. CASE BleInit
    <3>1. FlagsOK'
      BY <2>1, Zenon DEF BleInit, FlagsOK
    <3>2. ValuesOK'
      BY <2>1 DEF BleInit, ValuesOK
    <3> QED
      BY <3>1, <3>2
  <2>2. CASE LoadReturnsAtOnce
    <3>1. FlagsOK'
      BY <2>2, Zenon DEF LoadReturnsAtOnce, FlagsOK
    <3>2. ValuesOK'
      BY <2>2 DEF LoadReturnsAtOnce, ValuesOK
    <3> QED
      BY <3>1, <3>2
  <2>3. CASE LoadPrepare
    <3>1. FlagsOK'
      BY <2>3, Zenon DEF LoadPrepare, FlagsOK
    <3>2. ValuesOK'
      BY <2>3 DEF LoadPrepare, ValuesOK
    <3> QED
      BY <3>1, <3>2
  <2>4. CASE LoadCreate
    <3>1. FlagsOK'
      BY <2>4, Zenon DEF LoadCreate, FlagsOK
    <3>2. ValuesOK'
      BY <2>4 DEF LoadCreate, ValuesOK
    <3> QED
      BY <3>1, <3>2
  <2>5. CASE UnloadStart
    <3>1. FlagsOK'
      BY <2>5, Zenon DEF UnloadStart, FlagsOK
    <3>2. ValuesOK'
      BY <2>5 DEF UnloadStart, ValuesOK
    <3> QED
      BY <3>1, <3>2
  <2>6. CASE LoadTake
    <3>1. FlagsOK'
      BY <2>6, Zenon DEF LoadTake, FlagsOK
    <3>2. ValuesOK'
      BY <2>6 DEF LoadTake, ValuesOK
    <3> QED
      BY <3>1, <3>2
  <2>7. CASE LoadTimeout
    <3>1. FlagsOK'
      BY <2>7, Zenon DEF LoadTimeout, FlagsOK
    <3>2. ValuesOK'
      BY <2>7 DEF LoadTimeout, ValuesOK
    <3> QED
      BY <3>1, <3>2
  <2>8. CASE LoadRead
    <3>1. FlagsOK'
      BY <2>8, Zenon DEF LoadRead, FlagsOK
    <3>2. ValuesOK'
      BY <2>8 DEF LoadRead, ValuesOK
    <3> QED
      BY <3>1, <3>2
  <2>9. CASE SignalUnload
    <3>1. FlagsOK'
      BY <2>9, Zenon DEF SignalUnload, FlagsOK
    <3>2. ValuesOK'
      BY <2>9 DEF SignalUnload, ValuesOK
    <3> QED
      BY <3>1, <3>2
  <2>10. CASE Wake
    <3>1. FlagsOK'
      BY <2>10, Zenon DEF Wake, FlagsOK
    <3>2. ValuesOK'
      BY <2>10 DEF Wake, ValuesOK
    <3> QED
      BY <3>1, <3>2
  <2>11. CASE Join
    <3>1. FlagsOK'
      BY <2>11, Zenon DEF Join, Release, FlagsOK
    <3>2. ValuesOK'
      BY <2>11 DEF Join, Release, ValuesOK
    <3> QED
      BY <3>1, <3>2
  <2>12. CASE JoinTimeout
    <3>1. FlagsOK'
      BY <2>12, Zenon DEF JoinTimeout, Release, FlagsOK
    <3>2. ValuesOK'
      BY <2>12 DEF JoinTimeout, Release, ValuesOK
    <3> QED
      BY <3>1, <3>2
  <2>13. CASE Enter
    <3>1. FlagsOK'
      BY <2>13, Zenon DEF Enter, FlagsOK
    <3>2. ValuesOK'
      BY <2>13 DEF Enter, ValuesOK
    <3> QED
      BY <3>1, <3>2
  <2>14. CASE LoadPending
    <3>1. FlagsOK'
      BY <2>14, Zenon DEF LoadPending, FlagsOK
    <3>2. ValuesOK'
      BY <2>14 DEF LoadPending, ValuesOK
    <3> QED
      BY <3>1, <3>2
  <2>15. CASE NewMpsl
    <3>1. FlagsOK'
      BY <2>15, Zenon DEF NewMpsl, FlagsOK
    <3>2. heap' \subseteq Objects
      BY <2>15 DEF NewMpsl, ValuesOK
    <3>3. outcome' \in Status /\ tpc' \in Places /\ timer' \in {"off", "armed", "expired"}
      BY <2>15 DEF NewMpsl, ValuesOK
    <3> QED
      BY <2>15, <3>1, <3>2, <3>3 DEF NewMpsl, ValuesOK
  <2>16. CASE AllocRngMem
    <3>1. FlagsOK'
      BY <2>16, Zenon DEF AllocRngMem, FlagsOK
    <3>2. ValuesOK'
      BY <2>16 DEF AllocRngMem, ValuesOK
    <3> QED
      BY <3>1, <3>2
  <2>17. CASE BuildSdc
    <3>1. FlagsOK'
      BY <2>17, Zenon DEF BuildSdc, FlagsOK
    <3>2. heap' \subseteq Objects
      BY <2>17 DEF BuildSdc, ValuesOK
    <3>3. outcome' \in Status /\ tpc' \in Places /\ timer' \in {"off", "armed", "expired"}
      BY <2>17 DEF BuildSdc, ValuesOK
    <3> QED
      BY <2>17, <3>1, <3>2, <3>3 DEF BuildSdc, ValuesOK
  <2>18. CASE BuildHost
    <3>1. FlagsOK'
      BY <2>18, Zenon DEF BuildHost, FlagsOK
    <3>2. ValuesOK'
      BY <2>18 DEF BuildHost, ValuesOK
    <3> QED
      BY <3>1, <3>2
  <2>19. CASE PublishStatus
    <3>1. FlagsOK'
      BY <2>19, Zenon DEF PublishStatus, FlagsOK
    <3>2. ValuesOK'
      BY <2>19 DEF PublishStatus, ValuesOK
    <3> QED
      BY <3>1, <3>2
  <2>20. CASE GiveLoadDone
    <3>1. FlagsOK'
      BY <2>20, Zenon DEF GiveLoadDone, FlagsOK
    <3>2. ValuesOK'
      BY <2>20 DEF GiveLoadDone, ValuesOK
    <3> QED
      BY <3>1, <3>2
  <2>21. CASE BuildGatt
    <3>1. FlagsOK'
      BY <2>21, Zenon DEF BuildGatt, FlagsOK
    <3>2. heap' \subseteq Objects
      BY <2>21 DEF BuildGatt, ValuesOK
    <3>3. outcome' \in Status /\ tpc' \in Places /\ timer' \in {"off", "armed", "expired"}
      BY <2>21 DEF BuildGatt, ValuesOK
    <3> QED
      BY <2>21, <3>1, <3>2, <3>3 DEF BuildGatt, ValuesOK
  <2>22. CASE Poll
    <3>1. FlagsOK'
      BY <2>22, Zenon DEF Poll, FlagsOK
    <3>2. ValuesOK'
      BY <2>22 DEF Poll, ValuesOK
    <3> QED
      BY <3>1, <3>2
  <2>23. CASE Unpark
    <3>1. FlagsOK'
      BY <2>23, Zenon DEF Unpark, FlagsOK
    <3>2. ValuesOK'
      BY <2>23 DEF Unpark, ValuesOK
    <3> QED
      BY <3>1, <3>2
  <2>24. CASE FreeGatt
    <3>1. FlagsOK'
      BY <2>24, Zenon DEF FreeGatt, FlagsOK
    <3>2. ValuesOK'
      BY <2>24 DEF FreeGatt, ValuesOK
    <3> QED
      BY <3>1, <3>2
  <2>25. CASE DropStack
    <3>1. FlagsOK'
      BY <2>25, Zenon DEF DropStack, FlagsOK
    <3>2. ValuesOK'
      BY <2>25 DEF DropStack, ValuesOK
    <3> QED
      BY <3>1, <3>2
  <2>26. CASE FreeSession
    <3>1. FlagsOK'
      BY <2>26, Zenon DEF FreeSession, FlagsOK
    <3>2. ValuesOK'
      BY <2>26 DEF FreeSession, ValuesOK
    <3> QED
      BY <3>1, <3>2
  <2>27. CASE OtherEnd
    <3>1. FlagsOK'
      BY <2>27, Zenon DEF OtherEnd, FlagsOK
    <3>2. ValuesOK'
      BY <2>27 DEF OtherEnd, ValuesOK
    <3> QED
      BY <3>1, <3>2
  <2>28. CASE TimerFires
    <3>1. FlagsOK'
      BY <2>28, Zenon DEF TimerFires, FlagsOK
    <3>2. ValuesOK'
      BY <2>28 DEF TimerFires, ValuesOK
    <3> QED
      BY <3>1, <3>2
  <2>29. CASE OtherWake
    <3>1. FlagsOK'
      BY <2>29, Zenon DEF OtherWake, FlagsOK
    <3>2. ValuesOK'
      BY <2>29 DEF OtherWake, ValuesOK
    <3> QED
      BY <3>1, <3>2
  <2>30. CASE UNCHANGED vars
    BY <2>30 DEF vars, FlagsOK, ValuesOK
  <2> QED
    BY <2>1, <2>2, <2>3, <2>4, <2>5, <2>6, <2>7, <2>8, <2>9, <2>10, <2>11, <2>12,
     <2>13, <2>14, <2>15, <2>16, <2>17, <2>18, <2>19, <2>20, <2>21, <2>22, <2>23, <2>24,
     <2>25, <2>26, <2>27, <2>28, <2>29, <2>30
       DEF Next, Caller, InCall, ThreadProgress, Interrupt
<1> QED
  BY <1>1, <1>2, PTL DEF Spec

(***************************************************************************)
(* IInv is inductive when bring-up ends in time, SInv when leaving does too.*)
(***************************************************************************)
LEMMA InitIInv == Init => IInv /\ SInv
  BY DEF Init, IInv, SInv, TypeOK, FlagsOK, ValuesOK, HeapInv, SdcInv, GlueInv, OutcomeInv, CallInv,
         Status, Places, Phases, Over, Serving, Teardown

LEMMA StepIInv ==
  ASSUME AnswersInTime, IInv, [Next]_vars, TypeOK'
  PROVE  IInv'
<1> USE DEF IInv, TypeOK, FlagsOK, ValuesOK, Status, Places, Bringup, Serving, Teardown
<1> USE DEF callerVars, glueVars, sessionVars, Over
<1>1. CASE BleInit
  <2>1. OutcomeInv'
    BY <1>1 DEF BleInit, OutcomeInv, CallInv
  <2>2. CallInv'
    BY <1>1 DEF BleInit, CallInv, Answered, OutcomeInv
  <2> QED
    BY <2>1, <2>2
<1>2. CASE LoadReturnsAtOnce
  <2>1. OutcomeInv'
    BY <1>2 DEF LoadReturnsAtOnce, OutcomeInv, CallInv
  <2>2. CallInv'
    BY <1>2 DEF LoadReturnsAtOnce, CallInv, Answered, OutcomeInv
  <2> QED
    BY <2>1, <2>2
<1>3. CASE LoadPrepare
  <2>1. OutcomeInv'
    BY <1>3 DEF LoadPrepare, OutcomeInv, CallInv
  <2>2. CallInv'
    BY <1>3 DEF LoadPrepare, CallInv, Answered, OutcomeInv
  <2> QED
    BY <2>1, <2>2
<1>4. CASE LoadCreate
  <2>1. OutcomeInv'
    BY <1>4 DEF LoadCreate, OutcomeInv, CallInv
  <2>2. CallInv'
    BY <1>4 DEF LoadCreate, CallInv, Answered, OutcomeInv
  <2> QED
    BY <2>1, <2>2
<1>5. CASE UnloadStart
  <2>1. OutcomeInv'
    BY <1>5 DEF UnloadStart, OutcomeInv, CallInv
  <2>2. CallInv'
    BY <1>5 DEF UnloadStart, CallInv, Answered, OutcomeInv
  <2> QED
    BY <2>1, <2>2
<1>6. CASE LoadTake
  <2>1. OutcomeInv'
    BY <1>6 DEF LoadTake, OutcomeInv, CallInv
  <2>2. CallInv'
    BY <1>6 DEF LoadTake, CallInv, Answered, OutcomeInv
  <2> QED
    BY <2>1, <2>2
<1>7. CASE LoadTimeout
  <2>1. OutcomeInv'
    BY <1>7 DEF LoadTimeout, AnswersInTime, OutcomeInv, CallInv
  <2>2. CallInv'
    BY <1>7 DEF LoadTimeout, AnswersInTime, CallInv, Answered, OutcomeInv
  <2> QED
    BY <2>1, <2>2
<1>8. CASE LoadRead
  <2>1. OutcomeInv'
    BY <1>8 DEF LoadRead, OutcomeInv, CallInv
  <2>2. CallInv'
    BY <1>8 DEF LoadRead, CallInv, Answered, OutcomeInv
  <2> QED
    BY <2>1, <2>2
<1>9. CASE SignalUnload
  <2>1. OutcomeInv'
    BY <1>9 DEF SignalUnload, OutcomeInv, CallInv
  <2>2. CallInv'
    BY <1>9 DEF SignalUnload, CallInv, Answered, OutcomeInv
  <2> QED
    BY <2>1, <2>2
<1>10. CASE Wake
  <2>1. OutcomeInv'
    BY <1>10 DEF Wake, OutcomeInv, CallInv
  <2>2. CallInv'
    BY <1>10 DEF Wake, CallInv, Answered, OutcomeInv
  <2> QED
    BY <2>1, <2>2
<1>11. CASE Join
  <2>1. OutcomeInv'
    BY <1>11 DEF Join, Release, OutcomeInv, CallInv
  <2>2. CallInv'
    BY <1>11 DEF Join, Release, CallInv, Answered, OutcomeInv
  <2> QED
    BY <2>1, <2>2
<1>12. CASE JoinTimeout
  <2>1. OutcomeInv'
    BY <1>12 DEF JoinTimeout, Release, AnswersInTime, OutcomeInv, CallInv
  <2>2. CallInv'
    BY <1>12 DEF JoinTimeout, Release, AnswersInTime, CallInv, Answered, OutcomeInv
  <2> QED
    BY <2>1, <2>2
<1>13. CASE Enter
  <2>1. OutcomeInv'
    BY <1>13 DEF Enter, OutcomeInv, CallInv
  <2>2. CallInv'
    BY <1>13 DEF Enter, CallInv, Answered, OutcomeInv
  <2> QED
    BY <2>1, <2>2
<1>14. CASE LoadPending
  <2>1. OutcomeInv'
    BY <1>14 DEF LoadPending, OutcomeInv, CallInv
  <2>2. CallInv'
    BY <1>14 DEF LoadPending, CallInv, Answered, OutcomeInv
  <2> QED
    BY <2>1, <2>2
<1>15. CASE NewMpsl
  <2>1. OutcomeInv'
    BY <1>15 DEF NewMpsl, OutcomeInv, CallInv
  <2>2. CallInv'
    BY <1>15 DEF NewMpsl, CallInv, Answered, OutcomeInv
  <2> QED
    BY <2>1, <2>2
<1>16. CASE AllocRngMem
  <2>1. OutcomeInv'
    BY <1>16 DEF AllocRngMem, OutcomeInv, CallInv
  <2>2. CallInv'
    BY <1>16 DEF AllocRngMem, CallInv, Answered, OutcomeInv
  <2> QED
    BY <2>1, <2>2
<1>17. CASE BuildSdc
  <2>1. OutcomeInv'
    BY <1>17 DEF BuildSdc, OutcomeInv, CallInv
  <2>2. CallInv'
    BY <1>17 DEF BuildSdc, CallInv, Answered, OutcomeInv
  <2> QED
    BY <2>1, <2>2
<1>18. CASE BuildHost
  <2>1. OutcomeInv'
    BY <1>18 DEF BuildHost, OutcomeInv, CallInv
  <2>2. CallInv'
    BY <1>18 DEF BuildHost, CallInv, Answered, OutcomeInv
  <2> QED
    BY <2>1, <2>2
<1>19. CASE PublishStatus
  <2>1. OutcomeInv'
    BY <1>19 DEF PublishStatus, OutcomeInv, CallInv
  <2>2. CallInv'
    BY <1>19 DEF PublishStatus, CallInv, Answered, OutcomeInv
  <2> QED
    BY <2>1, <2>2
<1>20. CASE GiveLoadDone
  <2>1. OutcomeInv'
    BY <1>20 DEF GiveLoadDone, OutcomeInv, CallInv
  <2>2. CallInv'
    BY <1>20 DEF GiveLoadDone, CallInv, Answered, OutcomeInv
  <2> QED
    BY <2>1, <2>2
<1>21. CASE BuildGatt
  <2>1. OutcomeInv'
    BY <1>21 DEF BuildGatt, OutcomeInv, CallInv
  <2>2. CallInv'
    BY <1>21 DEF BuildGatt, CallInv, Answered, OutcomeInv
  <2> QED
    BY <2>1, <2>2
<1>22. CASE Poll
  <2>1. OutcomeInv'
    BY <1>22 DEF Poll, OutcomeInv, CallInv
  <2>2. CallInv'
    BY <1>22 DEF Poll, CallInv, Answered, OutcomeInv
  <2> QED
    BY <2>1, <2>2
<1>23. CASE Unpark
  <2>1. OutcomeInv'
    BY <1>23 DEF Unpark, OutcomeInv, CallInv
  <2>2. CallInv'
    BY <1>23 DEF Unpark, CallInv, Answered, OutcomeInv
  <2> QED
    BY <2>1, <2>2
<1>24. CASE FreeGatt
  <2>1. OutcomeInv'
    BY <1>24 DEF FreeGatt, OutcomeInv, CallInv
  <2>2. CallInv'
    BY <1>24 DEF FreeGatt, CallInv, Answered, OutcomeInv
  <2> QED
    BY <2>1, <2>2
<1>25. CASE DropStack
  <2>1. OutcomeInv'
    BY <1>25 DEF DropStack, OutcomeInv, CallInv
  <2>2. CallInv'
    BY <1>25 DEF DropStack, CallInv, Answered, OutcomeInv
  <2> QED
    BY <2>1, <2>2
<1>26. CASE FreeSession
  <2>1. OutcomeInv'
    BY <1>26 DEF FreeSession, OutcomeInv, CallInv
  <2>2. CallInv'
    BY <1>26 DEF FreeSession, CallInv, Answered, OutcomeInv
  <2> QED
    BY <2>1, <2>2
<1>27. CASE OtherEnd
  <2>1. OutcomeInv'
    BY <1>27 DEF OtherEnd, OutcomeInv, CallInv
  <2>2. CallInv'
    BY <1>27 DEF OtherEnd, CallInv, Answered, OutcomeInv
  <2> QED
    BY <2>1, <2>2
<1>28. CASE TimerFires
  <2>1. OutcomeInv'
    BY <1>28 DEF TimerFires, OutcomeInv, CallInv
  <2>2. CallInv'
    BY <1>28 DEF TimerFires, CallInv, Answered, OutcomeInv
  <2> QED
    BY <2>1, <2>2
<1>29. CASE OtherWake
  <2>1. OutcomeInv'
    BY <1>29 DEF OtherWake, OutcomeInv, CallInv
  <2>2. CallInv'
    BY <1>29 DEF OtherWake, CallInv, Answered, OutcomeInv
  <2> QED
    BY <2>1, <2>2
<1>30. CASE UNCHANGED vars
  BY <1>30 DEF vars, OutcomeInv, CallInv, Answered
<1> QED
  BY <1>1, <1>2, <1>3, <1>4, <1>5, <1>6, <1>7, <1>8, <1>9, <1>10, <1>11, <1>12,
   <1>13, <1>14, <1>15, <1>16, <1>17, <1>18, <1>19, <1>20, <1>21, <1>22, <1>23, <1>24,
   <1>25, <1>26, <1>27, <1>28, <1>29, <1>30
     DEF Next, Caller, InCall, ThreadProgress, Interrupt

LEMMA StepSInv ==
  ASSUME Timely, IInv, SInv, [Next]_vars
  PROVE  SInv'
<1> USE DEF SInv, IInv, TypeOK, FlagsOK, ValuesOK, Places, Bringup, Serving, Teardown
<1> USE DEF callerVars, glueVars, sessionVars, Over
<1>1. CASE BleInit
  <2>1. HeapInv'
    BY <1>1 DEF BleInit, HeapInv, Session, OutcomeInv, GlueInv
  <2>2. SdcInv'
    BY <1>1 DEF BleInit, SdcInv, OutcomeInv, GlueInv
  <2>3. GlueInv'
    BY <1>1 DEF BleInit, GlueInv, CallInv, Answered, OutcomeInv
  <2> QED
    BY <2>1, <2>2, <2>3
<1>2. CASE LoadReturnsAtOnce
  <2>1. HeapInv'
    BY <1>2 DEF LoadReturnsAtOnce, HeapInv, Session, OutcomeInv, GlueInv
  <2>2. SdcInv'
    BY <1>2 DEF LoadReturnsAtOnce, SdcInv, OutcomeInv, GlueInv
  <2>3. GlueInv'
    BY <1>2 DEF LoadReturnsAtOnce, GlueInv, CallInv, Answered, OutcomeInv
  <2> QED
    BY <2>1, <2>2, <2>3
<1>3. CASE LoadPrepare
  <2>1. HeapInv'
    BY <1>3 DEF LoadPrepare, HeapInv, Session, OutcomeInv, GlueInv
  <2>2. SdcInv'
    BY <1>3 DEF LoadPrepare, SdcInv, OutcomeInv, GlueInv
  <2>3. GlueInv'
    BY <1>3 DEF LoadPrepare, GlueInv, CallInv, Answered, OutcomeInv
  <2> QED
    BY <2>1, <2>2, <2>3
<1>4. CASE LoadCreate
  <2>1. HeapInv'
    BY <1>4 DEF LoadCreate, HeapInv, Session, OutcomeInv, GlueInv
  <2>2. SdcInv'
    BY <1>4 DEF LoadCreate, SdcInv, OutcomeInv, GlueInv
  <2>3. GlueInv'
    BY <1>4 DEF LoadCreate, GlueInv, CallInv, Answered, OutcomeInv
  <2> QED
    BY <2>1, <2>2, <2>3
<1>5. CASE UnloadStart
  <2>1. HeapInv'
    BY <1>5 DEF UnloadStart, HeapInv, Session, OutcomeInv, GlueInv
  <2>2. SdcInv'
    BY <1>5 DEF UnloadStart, SdcInv, OutcomeInv, GlueInv
  <2>3. GlueInv'
    BY <1>5 DEF UnloadStart, GlueInv, CallInv, Answered, OutcomeInv
  <2> QED
    BY <2>1, <2>2, <2>3
<1>6. CASE LoadTake
  <2>1. HeapInv'
    BY <1>6 DEF LoadTake, HeapInv, Session, OutcomeInv, GlueInv
  <2>2. SdcInv'
    BY <1>6 DEF LoadTake, SdcInv, OutcomeInv, GlueInv
  <2>3. GlueInv'
    BY <1>6 DEF LoadTake, GlueInv, CallInv, Answered, OutcomeInv
  <2> QED
    BY <2>1, <2>2, <2>3
<1>7. CASE LoadTimeout
  <2>1. HeapInv'
    BY <1>7 DEF LoadTimeout, Timely, AnswersInTime, HeapInv, Session, OutcomeInv, GlueInv
  <2>2. SdcInv'
    BY <1>7 DEF LoadTimeout, Timely, AnswersInTime, SdcInv, OutcomeInv, GlueInv
  <2>3. GlueInv'
    BY <1>7 DEF LoadTimeout, Timely, AnswersInTime, GlueInv, CallInv, Answered, OutcomeInv
  <2> QED
    BY <2>1, <2>2, <2>3
<1>8. CASE LoadRead
  <2>1. HeapInv'
    BY <1>8 DEF LoadRead, HeapInv, Session, OutcomeInv, GlueInv
  <2>2. SdcInv'
    BY <1>8 DEF LoadRead, SdcInv, OutcomeInv, GlueInv
  <2>3. GlueInv'
    BY <1>8 DEF LoadRead, GlueInv, CallInv, Answered, OutcomeInv
  <2> QED
    BY <2>1, <2>2, <2>3
<1>9. CASE SignalUnload
  <2>1. HeapInv'
    BY <1>9 DEF SignalUnload, HeapInv, Session, OutcomeInv, GlueInv
  <2>2. SdcInv'
    BY <1>9 DEF SignalUnload, SdcInv, OutcomeInv, GlueInv
  <2>3. GlueInv'
    BY <1>9 DEF SignalUnload, GlueInv, CallInv, Answered, OutcomeInv
  <2> QED
    BY <2>1, <2>2, <2>3
<1>10. CASE Wake
  <2>1. HeapInv'
    BY <1>10 DEF Wake, HeapInv, Session, OutcomeInv, GlueInv
  <2>2. SdcInv'
    BY <1>10 DEF Wake, SdcInv, OutcomeInv, GlueInv
  <2>3. GlueInv'
    BY <1>10 DEF Wake, GlueInv, CallInv, Answered, OutcomeInv
  <2> QED
    BY <2>1, <2>2, <2>3
<1>11. CASE Join
  <2>1. HeapInv'
    BY <1>11 DEF Join, Release, HeapInv, Session, OutcomeInv, GlueInv
  <2>2. SdcInv'
    BY <1>11 DEF Join, Release, SdcInv, OutcomeInv, GlueInv
  <2>3. GlueInv'
    BY <1>11 DEF Join, Release, GlueInv, CallInv, Answered, OutcomeInv
  <2> QED
    BY <2>1, <2>2, <2>3
<1>12. CASE JoinTimeout
  <2>1. HeapInv'
    BY <1>12 DEF JoinTimeout, Release, Timely, AnswersInTime, HeapInv, Session, OutcomeInv, GlueInv
  <2>2. SdcInv'
    BY <1>12 DEF JoinTimeout, Release, Timely, AnswersInTime, SdcInv, OutcomeInv, GlueInv
  <2>3. GlueInv'
    BY <1>12 DEF JoinTimeout, Release, Timely, AnswersInTime, GlueInv, CallInv, Answered, OutcomeInv
  <2> QED
    BY <2>1, <2>2, <2>3
<1>13. CASE Enter
  <2>1. HeapInv'
    BY <1>13 DEF Enter, HeapInv, Session, OutcomeInv, GlueInv
  <2>2. SdcInv'
    BY <1>13 DEF Enter, SdcInv, OutcomeInv, GlueInv
  <2>3. GlueInv'
    BY <1>13 DEF Enter, GlueInv, CallInv, Answered, OutcomeInv
  <2> QED
    BY <2>1, <2>2, <2>3
<1>14. CASE LoadPending
  <2>1. HeapInv'
    BY <1>14 DEF LoadPending, HeapInv, Session, OutcomeInv, GlueInv
  <2>2. SdcInv'
    BY <1>14 DEF LoadPending, SdcInv, OutcomeInv, GlueInv
  <2>3. GlueInv'
    BY <1>14 DEF LoadPending, GlueInv, CallInv, Answered, OutcomeInv
  <2> QED
    BY <2>1, <2>2, <2>3
<1>15. CASE NewMpsl
  <2>1. HeapInv'
    BY <1>15 DEF NewMpsl, HeapInv, Session, OutcomeInv, GlueInv
  <2>2. SdcInv'
    BY <1>15 DEF NewMpsl, SdcInv, OutcomeInv, GlueInv
  <2>3. GlueInv'
    BY <1>15 DEF NewMpsl, GlueInv, CallInv, Answered, OutcomeInv
  <2> QED
    BY <2>1, <2>2, <2>3
<1>16. CASE AllocRngMem
  <2>1. HeapInv'
    BY <1>16 DEF AllocRngMem, HeapInv, Session, OutcomeInv, GlueInv
  <2>2. SdcInv'
    BY <1>16 DEF AllocRngMem, SdcInv, OutcomeInv, GlueInv
  <2>3. GlueInv'
    BY <1>16 DEF AllocRngMem, GlueInv, CallInv, Answered, OutcomeInv
  <2> QED
    BY <2>1, <2>2, <2>3
<1>17. CASE BuildSdc
  <2>1. HeapInv'
    BY <1>17 DEF BuildSdc, HeapInv, Session, OutcomeInv, GlueInv
  <2>2. SdcInv'
    BY <1>17 DEF BuildSdc, SdcInv, OutcomeInv, GlueInv
  <2>3. GlueInv'
    BY <1>17 DEF BuildSdc, GlueInv, CallInv, Answered, OutcomeInv
  <2> QED
    BY <2>1, <2>2, <2>3
<1>18. CASE BuildHost
  <2>1. HeapInv'
    BY <1>18 DEF BuildHost, HeapInv, Session, OutcomeInv, GlueInv
  <2>2. SdcInv'
    BY <1>18 DEF BuildHost, SdcInv, OutcomeInv, GlueInv
  <2>3. GlueInv'
    BY <1>18 DEF BuildHost, GlueInv, CallInv, Answered, OutcomeInv
  <2> QED
    BY <2>1, <2>2, <2>3
<1>19. CASE PublishStatus
  <2>1. HeapInv'
    BY <1>19 DEF PublishStatus, HeapInv, Session, OutcomeInv, GlueInv
  <2>2. SdcInv'
    BY <1>19 DEF PublishStatus, SdcInv, OutcomeInv, GlueInv
  <2>3. GlueInv'
    BY <1>19 DEF PublishStatus, GlueInv, CallInv, Answered, OutcomeInv
  <2> QED
    BY <2>1, <2>2, <2>3
<1>20. CASE GiveLoadDone
  <2>1. HeapInv'
    BY <1>20 DEF GiveLoadDone, HeapInv, Session, OutcomeInv, GlueInv
  <2>2. SdcInv'
    BY <1>20 DEF GiveLoadDone, SdcInv, OutcomeInv, GlueInv
  <2>3. GlueInv'
    BY <1>20 DEF GiveLoadDone, GlueInv, CallInv, Answered, OutcomeInv
  <2> QED
    BY <2>1, <2>2, <2>3
<1>21. CASE BuildGatt
  <2>1. HeapInv'
    BY <1>21 DEF BuildGatt, HeapInv, Session, OutcomeInv, GlueInv
  <2>2. SdcInv'
    BY <1>21 DEF BuildGatt, SdcInv, OutcomeInv, GlueInv
  <2>3. GlueInv'
    BY <1>21 DEF BuildGatt, GlueInv, CallInv, Answered, OutcomeInv
  <2> QED
    BY <2>1, <2>2, <2>3
<1>22. CASE Poll
  <2>1. HeapInv'
    BY <1>22 DEF Poll, HeapInv, Session, OutcomeInv, GlueInv
  <2>2. SdcInv'
    BY <1>22 DEF Poll, SdcInv, OutcomeInv, GlueInv
  <2>3. GlueInv'
    BY <1>22 DEF Poll, GlueInv, CallInv, Answered, OutcomeInv
  <2> QED
    BY <2>1, <2>2, <2>3
<1>23. CASE Unpark
  <2>1. HeapInv'
    BY <1>23 DEF Unpark, HeapInv, Session, OutcomeInv, GlueInv
  <2>2. SdcInv'
    BY <1>23 DEF Unpark, SdcInv, OutcomeInv, GlueInv
  <2>3. GlueInv'
    BY <1>23 DEF Unpark, GlueInv, CallInv, Answered, OutcomeInv
  <2> QED
    BY <2>1, <2>2, <2>3
<1>24. CASE FreeGatt
  <2>1. HeapInv'
    BY <1>24 DEF FreeGatt, HeapInv, Session, OutcomeInv, GlueInv
  <2>2. SdcInv'
    BY <1>24 DEF FreeGatt, SdcInv, OutcomeInv, GlueInv
  <2>3. GlueInv'
    BY <1>24 DEF FreeGatt, GlueInv, CallInv, Answered, OutcomeInv
  <2> QED
    BY <2>1, <2>2, <2>3
<1>25. CASE DropStack
  <2>1. HeapInv'
    BY <1>25 DEF DropStack, HeapInv, Session, OutcomeInv, GlueInv
  <2>2. SdcInv'
    BY <1>25 DEF DropStack, SdcInv, OutcomeInv, GlueInv
  <2>3. GlueInv'
    BY <1>25 DEF DropStack, GlueInv, CallInv, Answered, OutcomeInv
  <2> QED
    BY <2>1, <2>2, <2>3
<1>26. CASE FreeSession
  <2>1. HeapInv'
    BY <1>26 DEF FreeSession, HeapInv, Session, OutcomeInv, GlueInv
  <2>2. SdcInv'
    BY <1>26 DEF FreeSession, SdcInv, OutcomeInv, GlueInv
  <2>3. GlueInv'
    BY <1>26 DEF FreeSession, GlueInv, CallInv, Answered, OutcomeInv
  <2> QED
    BY <2>1, <2>2, <2>3
<1>27. CASE OtherEnd
  <2>1. HeapInv'
    BY <1>27 DEF OtherEnd, HeapInv, Session, OutcomeInv, GlueInv
  <2>2. SdcInv'
    BY <1>27 DEF OtherEnd, SdcInv, OutcomeInv, GlueInv
  <2>3. GlueInv'
    BY <1>27 DEF OtherEnd, GlueInv, CallInv, Answered, OutcomeInv
  <2> QED
    BY <2>1, <2>2, <2>3
<1>28. CASE TimerFires
  <2>1. HeapInv'
    BY <1>28 DEF TimerFires, HeapInv, Session, OutcomeInv, GlueInv
  <2>2. SdcInv'
    BY <1>28 DEF TimerFires, SdcInv, OutcomeInv, GlueInv
  <2>3. GlueInv'
    BY <1>28 DEF TimerFires, GlueInv, CallInv, Answered, OutcomeInv
  <2> QED
    BY <2>1, <2>2, <2>3
<1>29. CASE OtherWake
  <2>1. HeapInv'
    BY <1>29 DEF OtherWake, HeapInv, Session, OutcomeInv, GlueInv
  <2>2. SdcInv'
    BY <1>29 DEF OtherWake, SdcInv, OutcomeInv, GlueInv
  <2>3. GlueInv'
    BY <1>29 DEF OtherWake, GlueInv, CallInv, Answered, OutcomeInv
  <2> QED
    BY <2>1, <2>2, <2>3
<1>30. CASE UNCHANGED vars
  BY <1>30 DEF vars, HeapInv, SdcInv, GlueInv, Session
<1> QED
  BY <1>1, <1>2, <1>3, <1>4, <1>5, <1>6, <1>7, <1>8, <1>9, <1>10, <1>11, <1>12,
   <1>13, <1>14, <1>15, <1>16, <1>17, <1>18, <1>19, <1>20, <1>21, <1>22, <1>23, <1>24,
   <1>25, <1>26, <1>27, <1>28, <1>29, <1>30
     DEF Next, Caller, InCall, ThreadProgress, Interrupt

(***************************************************************************)
(* What load(), unload() and the thread know of each other holds throughout*)
(* if bring-up ends in time.                                               *)
(***************************************************************************)
THEOREM Inductive == Spec => [](AnswersInTime => IInv)
<1>1. Init => (AnswersInTime => IInv)
  BY InitIInv
<1>2. TypeOK' /\ (AnswersInTime => IInv) /\ [Next]_vars => (AnswersInTime => IInv)'
  <2> SUFFICES ASSUME TypeOK', AnswersInTime => IInv, [Next]_vars, AnswersInTime' PROVE IInv'
    OBVIOUS
  <2>1. AnswersInTime
    BY SlownessFixed DEF AnswersInTime
  <2> QED
    BY <2>1, StepIInv
<1> QED
  BY <1>1, <1>2, TypeCorrect, PTL DEF Spec

(***************************************************************************)
(* So does what the session and load() hold for the thread, when leaving   *)
(* ends in time too.                                                       *)
(***************************************************************************)
THEOREM SessionInductive == Spec => [](Timely => IInv /\ SInv)
<1>1. Init => (Timely => SInv)
  BY InitIInv
<1>2. (AnswersInTime => IInv) /\ (Timely => SInv) /\ [Next]_vars => (Timely => SInv)'
  <2> SUFFICES ASSUME AnswersInTime => IInv, Timely => SInv, [Next]_vars, Timely' PROVE SInv'
    OBVIOUS
  <2>1. Timely
    BY SlownessFixed DEF Timely, AnswersInTime
  <2> QED
    BY <2>1, StepSInv DEF Timely
<1>3. (AnswersInTime => IInv) /\ (Timely => SInv) => (Timely => IInv /\ SInv)
  BY DEF Timely
<1> QED
  BY <1>1, <1>2, <1>3, Inductive, PTL DEF Spec

(***************************************************************************)
(* If the thread starts within load()'s 3 s and is gone within the 1 s of  *)
(* the join after them, it never runs on a freed stack: k_thread_stack_free*)
(* in load() and unload() comes after its exit. Beyond that it may not.    *)
(***************************************************************************)
THEOREM StackSafe == Spec => []StackOutlivesThread
<1>1. (Timely => IInv /\ SInv) => StackOutlivesThread
  BY DEF SInv, GlueInv, StackOutlivesThread
<1> QED
  BY <1>1, SessionInductive, PTL

(***************************************************************************)
(* Within the same 3 s and 1 s, a failed load() and a finished unload()    *)
(* leave nothing behind: no thread, stack, heap object, enabled controller *)
(* or interrupt line.                                                      *)
(***************************************************************************)
THEOREM AllReturned == Spec => []NothingLeftBehind
<1>1. (Timely => IInv /\ SInv) => NothingLeftBehind
  BY DEF SInv, GlueInv, HeapInv, SdcInv, Serving, CleanWhenUnloaded, NothingLeftBehind
<1> QED
  BY <1>1, SessionInductive, PTL

(***************************************************************************)
(* Within the same 3 s and 1 s, the controller runs only while MPSL, the   *)
(* generator and its memory pool are allocated and its interrupt lines are *)
(* enabled.                                                                *)
(***************************************************************************)
THEOREM RadioSafe == Spec => []RadioHasItsResources
<1>1. (Timely => IInv /\ SInv) => RadioHasItsResources
  <2> SUFFICES ASSUME SInv, sdcOn PROVE {"mpsl", "rng", "mem"} \subseteq heap /\ irqs
    BY DEF RadioHasItsResources
  <2>1. tpc # "dead"
    BY DEF SInv, SdcInv, Serving
  <2>2. irqs
    BY <2>1 DEF SInv, GlueInv
  <2>3. {"mpsl", "rng", "mem"} \subseteq heap
    BY DEF SInv, SdcInv, HeapInv, Session, Serving
  <2> QED
    BY <2>2, <2>3
<1> QED
  BY <1>1, SessionInductive, PTL

(***************************************************************************)
(* If bring-up ends within the 3 s and the 1 s, load() reports the status  *)
(* of the session it created, even over a thread that an earlier load()    *)
(* left on its way out, and only a session whose bring-up ended in OK is   *)
(* marked loaded.                                                          *)
(***************************************************************************)
THEOREM ReportsOwnSession == Spec => []LoadReportsOwnSession
<1>1. (AnswersInTime => IInv) => LoadReportsOwnSession
  BY DEF IInv, CallInv, Answered, LoadReportsOwnSession, ReadsOwnAnswer
<1> QED
  BY <1>1, Inductive, PTL

(***************************************************************************)
(* Under the same assumption the unload request is not lost between        *)
(* unload()'s store and its join.                                          *)
(***************************************************************************)
THEOREM RequestKept == Spec => []UnloadRequestKept
<1>1. (AnswersInTime => IInv) => UnloadRequestKept
  BY DEF IInv, CallInv, UnloadRequestKept
<1> QED
  BY <1>1, Inductive, PTL
=============================================================================
