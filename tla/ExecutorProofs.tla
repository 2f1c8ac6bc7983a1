--------------------------- MODULE ExecutorProofs ---------------------------
(***************************************************************************)
(* Proofs about Executor, for any set of timers and any delays: the BLE    *)
(* thread never sleeps past a deadline or over an unhandled event, with    *)
(* one queue entry and one binary semaphore for all of them.               *)
(***************************************************************************)
EXTENDS Executor, TLAPS

\* The alarm comes no later than the queue's entry.
AlarmInv == queue # Never => alarm <= queue

\* What the poll has passed is covered by the queue's entry, or another poll is
\* already asked for.
PollInv ==
  /\ pc = "park" => todo = {} /\ ~evTodo
  /\ pc # "off" =>
       \/ sem = 1
       \/ /\ \A t \in Timers \ todo : queue <= due[t]
          /\ ~evTodo => ~event

WakeInv == TypeOK /\ AlarmInv /\ PollInv
-----------------------------------------------------------------------------
LEMMA ProgrammeType ==
  ASSUME TypeOK, NEW q \in Times, Programme(q)
  PROVE  queue' \in Times /\ alarm' \in Times /\ sem' \in {0, 1}
  BY DelayAssumption DEF TypeOK, Programme, AlarmFor, Times

LEMMA ScheduleType ==
  ASSUME TypeOK, NEW at \in Times, ScheduleWake(at)
  PROVE  queue' \in Times /\ alarm' \in Times /\ sem' \in {0, 1}
  BY ProgrammeType DEF TypeOK, ScheduleWake

\* A scheduled deadline is covered by the queue afterwards, and the queue's
\* entry never moves back.
LEMMA ScheduleCovers ==
  ASSUME TypeOK, AlarmInv, NEW at \in Times, at # 0, ScheduleWake(at)
  PROVE  /\ AlarmInv'
         /\ queue' <= at /\ queue' <= queue /\ sem' = sem
  BY DelayAssumption
     DEF TypeOK, AlarmInv, ScheduleWake, Programme, AlarmFor, Times

(***************************************************************************)
(* Type correctness; runtime_sem stays binary.                             *)
(***************************************************************************)
LEMMA InitType == Init => TypeOK
<1>1. Init => evTodo \in BOOLEAN /\ event \in BOOLEAN
  BY Zenon DEF Init
<1>2. Init => /\ pc \in {"off", "poll", "park"} /\ todo \subseteq Timers
              /\ due \in [Timers -> Times]
              /\ queue \in Times /\ alarm \in Times /\ sem \in {0, 1}
  BY DelayAssumption DEF Init, Times
<1> QED
  BY <1>1, <1>2 DEF TypeOK

LEMMA StepType == ASSUME TypeOK, [Next]_vars PROVE TypeOK'
<1> USE DelayAssumption DEF TypeOK, Times
<1>1. CASE Start
  BY <1>1 DEF Start
<1>2. ASSUME NEW t \in Timers, PollTimer(t) PROVE TypeOK'
  <2>1. due' \in [Timers -> Times]
    BY <1>2 DEF PollTimer
  <2>2. queue' \in Times /\ alarm' \in Times /\ sem' \in {0, 1}
    <3>1. PICK at \in Times : ScheduleWake(at)
      BY <1>2 DEF PollTimer
    <3> QED
      BY <3>1, ScheduleType
  <2> QED
    BY <1>2, <2>1, <2>2 DEF PollTimer
<1>3. CASE PollEvent
  <2>1. evTodo' \in BOOLEAN /\ event' \in BOOLEAN
    BY <1>3, Zenon DEF PollEvent
  <2>2. todo' \subseteq Timers /\ due' \in [Timers -> Times]
    BY <1>3 DEF PollEvent
  <2>3. UNCHANGED <<pc, queue, alarm, sem>>
    BY <1>3, Zenon DEF PollEvent
  <2> QED
    BY <2>1, <2>2, <2>3
<1>4. CASE Park
  BY <1>4 DEF Park
<1>5. CASE Unpark
  BY <1>5 DEF Unpark
<1>6. CASE Finish
  <2>1. evTodo' \in BOOLEAN /\ event' \in BOOLEAN
    BY <1>6, Zenon DEF Finish
  <2>2. pc' \in {"off", "poll", "park"} /\ todo' \subseteq Timers
        /\ due' \in [Timers -> Times] /\ UNCHANGED <<queue, alarm, sem>>
    BY <1>6 DEF Finish
  <2> QED
    BY <2>1, <2>2
<1>7. CASE AlarmFires
  BY <1>7, ProgrammeType DEF AlarmFires
<1>8. CASE Interrupt
  BY <1>8 DEF Interrupt
<1>9. CASE Tick
  <2>1. \A x \in Times : Less(x) \in Times
    BY DEF Less
  <2> QED
    BY <1>9, <2>1 DEF Tick
<1>10. CASE UNCHANGED vars
  BY <1>10 DEF vars
<1> QED
  BY <1>1, <1>2, <1>3, <1>4, <1>5, <1>6, <1>7, <1>8, <1>9, <1>10
     DEF Next, BlockOn

THEOREM TypeCorrect == Spec => []TypeOK
  BY InitType, StepType, PTL DEF Spec

(***************************************************************************)
(* WakeInv is inductive.                                                   *)
(***************************************************************************)
LEMMA InitWake == Init => WakeInv
  BY InitType DEF Init, WakeInv, AlarmInv, PollInv

LEMMA StepWake == ASSUME WakeInv, [Next]_vars, TypeOK' PROVE WakeInv'
<1> USE DelayAssumption DEF TypeOK, Times, WakeInv
<1>1. CASE Start
  BY <1>1 DEF Start, AlarmInv, PollInv
<1>2. ASSUME NEW t \in Timers, PollTimer(t) PROVE WakeInv'
  <2>1. PICK at \in Times : at # 0 /\ due' = [due EXCEPT ![t] = at]
                            /\ ScheduleWake(at)
    <3>1. CASE due[t] = 0
      <4>1. PICK d \in Delays \cup {Never} :
              due' = [due EXCEPT ![t] = d] /\ ScheduleWake(d)
        BY <1>2, <3>1 DEF PollTimer
      <4>2. d \in Times /\ d # 0
        BY DEF Times
      <4> QED
        BY <4>1, <4>2
    <3>2. CASE due[t] > 0
      <4>1. due' = due /\ ScheduleWake(due[t])
        BY <1>2, <3>2 DEF PollTimer
      <4>2. due' = [due EXCEPT ![t] = due[t]] /\ due[t] \in Times /\ due[t] # 0
        BY <3>2, <4>1
      <4> QED
        BY <4>1, <4>2
    <3> QED
      BY <3>1, <3>2
  <2>2. AlarmInv' /\ queue' <= at /\ queue' <= queue /\ sem' = sem
    BY <2>1, ScheduleCovers
  <2>3. \A u \in Timers \ todo' : queue <= due[u] => queue' <= due'[u]
    BY <2>1, <2>2
  <2>4. due'[t] = at
    BY <2>1
  <2>5. pc = "poll" /\ UNCHANGED <<pc, evTodo, event>> /\ todo' = todo \ {t}
    BY <1>2 DEF PollTimer
  <2>6. PollInv'
    <3>1. CASE sem = 1
      BY <2>2, <2>5, <3>1 DEF PollInv
    <3>2. CASE sem # 1
      <4>1. \A u \in Timers \ todo' : queue' <= due'[u]
        BY <2>2, <2>3, <2>4, <2>5, <3>2 DEF PollInv
      <4> QED
        BY <2>5, <3>2, <4>1 DEF PollInv
    <3> QED
      BY <3>1, <3>2
  <2> QED
    BY <2>2, <2>6
<1>3. CASE PollEvent
  <2>1. pc = "poll" /\ ~event' /\ UNCHANGED <<pc, queue, alarm, sem>>
    BY <1>3, Zenon DEF PollEvent
  <2>2. \A t \in Timers \ todo' : t \notin todo /\ due'[t] \in {due[t], Never}
    BY <1>3 DEF PollEvent
  <2>3. AlarmInv'
    BY <2>1 DEF AlarmInv
  <2>4. PollInv'
    BY <2>1, <2>2 DEF PollInv
  <2> QED
    BY <2>3, <2>4
<1>4. CASE Park
  BY <1>4 DEF Park, AlarmInv, PollInv
<1>5. CASE Unpark
  BY <1>5 DEF Unpark, AlarmInv, PollInv
<1>6. CASE Finish
  BY <1>6 DEF Finish, AlarmInv, PollInv
<1>7. CASE AlarmFires
  BY <1>7 DEF AlarmFires, Programme, AlarmFor, AlarmInv, PollInv
<1>8. CASE Interrupt
  BY <1>8 DEF Interrupt, AlarmInv, PollInv
<1>9. CASE Tick
  <2>1. \A x, y \in Times : x <= y => Less(x) <= Less(y)
    BY DEF Less
  <2>2. queue' = Less(queue) /\ alarm' = Less(alarm) /\ sem' = sem
        /\ pc' = pc /\ todo' = todo /\ evTodo' = evTodo /\ event' = event
        /\ \A t \in Timers : due'[t] = Less(due[t])
    BY <1>9 DEF Tick
  <2>3. AlarmInv'
    BY <2>1, <2>2 DEF AlarmInv, Less
  <2>4. \A t \in Timers : queue <= due[t] => queue' <= due'[t]
    BY <2>1, <2>2
  <2>5. PollInv'
    BY <2>2, <2>4 DEF PollInv
  <2> QED
    BY <2>3, <2>5
<1>10. CASE UNCHANGED vars
  BY <1>10 DEF vars, AlarmInv, PollInv
<1> QED
  BY <1>1, <1>2, <1>3, <1>4, <1>5, <1>6, <1>7, <1>8, <1>9, <1>10
     DEF Next, BlockOn

(***************************************************************************)
(* No lost wake-up: parked with the semaphore empty, the thread has no     *)
(* event to handle and the alarm precedes every deadline it waits for.     *)
(***************************************************************************)
THEOREM NoLostWakeUp == Spec => []SleepIsSafe
<1>1. TypeOK' /\ WakeInv /\ [Next]_vars => WakeInv'
  BY StepWake
<1>2. WakeInv => SleepIsSafe
  <2> SUFFICES ASSUME WakeInv, pc = "park", sem = 0
               PROVE  ~event /\ \A t \in Timers : due[t] # Never => alarm <= due[t]
    BY DEF SleepIsSafe
  <2>1. ~event /\ \A t \in Timers : queue <= due[t]
    BY DEF WakeInv, PollInv
  <2> QED
    BY <2>1, DelayAssumption DEF WakeInv, TypeOK, Times, AlarmInv
<1> QED
  BY <1>1, <1>2, InitWake, TypeCorrect, PTL DEF Spec
=============================================================================
