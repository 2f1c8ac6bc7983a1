------------------------------ MODULE Executor ------------------------------
(***************************************************************************)
(* The one-future executor of the BLE thread and the clock it sleeps on:   *)
(* block_on, the ZephyrDriver time driver and the alarm interrupt          *)
(* (rust/src/radio.rs), over runtime_sem and runtime_timer (glue/glue.c).  *)
(*                                                                         *)
(* Every waker of a session is the same waker (null data, one vtable), so  *)
(* the driver's timer queue merges all timers into at most one entry, the  *)
(* earliest deadline asked for.  Deadlines are kept as the milliseconds    *)
(* that remain, 0 once they have passed, which leaves time unbounded.      *)
(***************************************************************************)
EXTENDS Naturals

CONSTANTS
  Timers,  \* the Timer::after futures of the session's loops
  Delays,  \* the delays they ask for, in ms
  Never    \* u64::MAX, the expiration of an empty queue

ASSUME DelayAssumption == Never \in Nat \ {0} /\ Delays \subseteq 1 .. (Never - 1)

VARIABLES
  pc,     \* block_on: "off" (no session), "poll" or "park"
  todo,   \* the timers the current poll has still to visit
  evTodo, \* the current poll has still to look at the event
  due,    \* what remains of each timer; Never: not waited for
  event,  \* a controller event waits to be handled
  queue,  \* what remains of the driver queue's one entry; Never: empty
  alarm,  \* what remains of runtime_timer; Never: stopped
  sem     \* runtime_sem

vars == <<pc, todo, evTodo, due, event, queue, alarm, sem>>

Init ==
  /\ pc = "off" /\ todo = {} /\ evTodo = FALSE
  /\ due = [t \in Timers |-> Never] /\ event = FALSE
  /\ queue = Never /\ alarm = Never /\ sem = 0

\* runtime_alarm_set(at): an empty queue's u64::MAX is -1 as int64_t, so the
\* delay is negative and clamped to 0: the alarm then fires again at once.
AlarmFor(next) == IF next = Never THEN 0 ELSE next

\* Mutant: the alarm is programmed only if the queue was empty before.
ProgrammeOnlyFirst(q) ==
  IF q = 0
  THEN sem' = 1 /\ queue' = Never /\ alarm' = 0
  ELSE queue' = q /\ alarm' = (IF queue = Never THEN q ELSE alarm) /\ UNCHANGED sem

\* Queue::next_expiration followed by runtime_alarm_set, in one critical
\* section: an entry that has expired is removed and its waker called.
Programme(q) ==
  IF q = 0
  THEN sem' = 1 /\ queue' = Never /\ alarm' = AlarmFor(Never)
  ELSE queue' = q /\ alarm' = AlarmFor(q) /\ UNCHANGED sem

\* schedule_wake(at): only a deadline before the queued one changes anything.
ScheduleWake(at) ==
  IF at < queue THEN Programme(at) ELSE UNCHANGED <<queue, alarm, sem>>

(***************************************************************************)
(* The BLE thread: block_on.                                               *)
(***************************************************************************)

\* runtime_ble_load() resets runtime_sem and creates the thread. The queue and
\* the alarm are static: what the previous session left is still in them.
Start ==
  /\ pc = "off"
  /\ pc' = "poll" /\ todo' = Timers /\ evTodo' = TRUE
  /\ due' = [t \in Timers |-> 0]
  /\ sem' = 0
  /\ UNCHANGED <<event, queue, alarm>>

\* Mutant: a timer that is still running is not scheduled again.
PollTimerOnce(t) ==
  /\ pc = "poll" /\ t \in todo
  /\ todo' = todo \ {t}
  /\ \/ /\ due[t] = 0
        /\ \E d \in Delays \cup {Never} :
             due' = [due EXCEPT ![t] = d] /\ ScheduleWake(d)
     \/ due[t] > 0 /\ UNCHANGED <<due, queue, alarm, sem>>
  /\ UNCHANGED <<pc, evTodo, event>>

\* The poll reaches the loop that waits for timer t. An expired timer lets the
\* loop run on to its next Timer::after (or end); a running one is scheduled
\* again, as is every timer at every poll.
PollTimer(t) ==
  /\ pc = "poll" /\ t \in todo
  /\ todo' = todo \ {t}
  /\ \/ /\ due[t] = 0
        /\ \E d \in Delays \cup {Never} :
             due' = [due EXCEPT ![t] = d] /\ ScheduleWake(d)
     \/ due[t] > 0 /\ UNCHANGED due /\ ScheduleWake(due[t])
  /\ UNCHANGED <<pc, evTodo, event>>

\* The poll reaches the futures driven by the controller (mpsl.run, the host
\* runner) and handles what has arrived. A link that comes or goes starts loops,
\* which the same poll then reaches, and drops others with their timers.
PollEvent ==
  /\ pc = "poll" /\ evTodo
  /\ evTodo' = FALSE /\ event' = FALSE
  /\ \E started, dropped \in SUBSET Timers :
       /\ started \cap dropped = {}
       /\ due' = [t \in Timers |-> IF t \in started THEN 0
                                   ELSE IF t \in dropped THEN Never ELSE due[t]]
       /\ todo' = todo \cup started
  /\ UNCHANGED <<pc, queue, alarm, sem>>

\* Poll::Pending: the thread goes on to runtime_ble_wait.
Park ==
  /\ pc = "poll" /\ todo = {} /\ ~evTodo
  /\ pc' = "park"
  /\ UNCHANGED <<todo, evTodo, due, event, queue, alarm, sem>>

\* k_sem_take returns and the whole future is polled again.
Unpark ==
  /\ pc = "park" /\ sem = 1
  /\ sem' = 0
  /\ pc' = "poll" /\ todo' = Timers /\ evTodo' = TRUE
  /\ UNCHANGED <<due, event, queue, alarm>>

\* Poll::Ready: the session's timers are dropped; the queue entry they made is
\* not.
Finish ==
  /\ pc = "poll"
  /\ pc' = "off" /\ todo' = {} /\ evTodo' = FALSE
  /\ due' = [t \in Timers |-> Never]
  /\ UNCHANGED <<event, queue, alarm, sem>>

(***************************************************************************)
(* Interrupts and time.                                                    *)
(***************************************************************************)

\* runtime_timer expires: runtime_alarm_fired.
AlarmFires ==
  /\ alarm = 0
  /\ Programme(queue)
  /\ UNCHANGED <<pc, todo, evTodo, due, event>>

\* Mutant: the interrupt records the event and does not wake the executor.
InterruptSilent ==
  /\ pc # "off" /\ ~event
  /\ event' = TRUE
  /\ UNCHANGED <<pc, todo, evTodo, due, queue, alarm, sem>>

\* Mutant: the semaphore counts.
InterruptCounting ==
  /\ pc # "off" /\ ~event
  /\ event' = TRUE
  /\ sem' = sem + 1
  /\ UNCHANGED <<pc, todo, evTodo, due, queue, alarm>>

\* A radio interrupt records its event and calls the waker.
Interrupt ==
  /\ pc # "off" /\ ~event
  /\ event' = TRUE
  /\ sem' = 1
  /\ UNCHANGED <<pc, todo, evTodo, due, queue, alarm>>

Less(x) == IF x = 0 \/ x = Never THEN x ELSE x - 1

Tick ==
  /\ due' = [t \in Timers |-> Less(due[t])]
  /\ queue' = Less(queue) /\ alarm' = Less(alarm)
  /\ UNCHANGED <<pc, todo, evTodo, event, sem>>
-----------------------------------------------------------------------------
BlockOn == (\E t \in Timers : PollTimer(t)) \/ PollEvent \/ Park \/ Unpark

Next == Start \/ BlockOn \/ Finish \/ AlarmFires \/ Interrupt \/ Tick

Spec == Init /\ [][Next]_vars

\* The BLE thread gets the processor, the alarm interrupt is taken, time passes.
FairSpec == Spec /\ WF_vars(BlockOn) /\ WF_vars(AlarmFires) /\ WF_vars(Tick)
-----------------------------------------------------------------------------
Times == 0 .. Never

\* Every variable is in its set; runtime_sem never exceeds its limit of 1.
TypeOK ==
  /\ pc \in {"off", "poll", "park"}
  /\ todo \subseteq Timers
  /\ evTodo \in BOOLEAN /\ event \in BOOLEAN
  /\ due \in [Timers -> Times]
  /\ queue \in Times /\ alarm \in Times /\ sem \in {0, 1}

\* "give saturates -> one re-poll catches all" (glue.c:52): while the thread is
\* parked with nothing to wake it, no event is unhandled, and for each timer it
\* waits for the alarm is programmed no later than the timer's deadline, though
\* the queue has one entry for all of them and may hold an entry of the
\* previous session.
SleepIsSafe ==
  pc = "park" /\ sem = 0 =>
    /\ ~event
    /\ \A t \in Timers : due[t] # Never => alarm <= due[t]

\* An expired timer is noticed: its loop runs on, or the session ends.
TimersHandled == \A t \in Timers : due[t] = 0 ~> due[t] # 0

\* An event of the controller is handled, or the session ends.
EventsHandled == event ~> (~event \/ pc = "off")
=============================================================================
