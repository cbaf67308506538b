------------------------------ MODULE LoopTask ------------------------------
(***************************************************************************)
(* The task that runs the sketch (cores/esp8266/core_esp8266_main.cpp and  *)
(* delay() of core_esp8266_wiring.cpp), with the functions it runs between *)
(* and after the turns of loop(): Schedule and Recurrent.                  *)
(*                                                                         *)
(* The sketch is one continuation.  It gives the processor back when it    *)
(* yields and goes on when an event of the task's queue, which holds one,  *)
(* is taken.  User code is loop(), a scheduled function and a recurrent    *)
(* one; each may yield, delay and schedule functions.  A yield runs the    *)
(* recurrent functions before it returns to its caller, and one of those   *)
(* may yield again: sleeps is the stack of the yields that have not        *)
(* returned.                                                               *)
(***************************************************************************)
EXTENDS Schedule

CONSTANT MaxFns          \* bound of the model: recurrent functions ever scheduled

VARIABLES
    list, rLast, fence, active, count, cancelled,     \* Recurrent's
    phase,       \* between turns "idle", "loop", then "scheduled" and "recurrent" in loop_end
    event,       \* an event is in the queue
    timer,       \* delay_timer is armed
    sleeps,      \* the yields in progress, the first one outermost
    state        \* of the continuation: "asleep", "resumed" in a yield, or "running"

R == INSTANCE Recurrent

recurrent == <<list, rLast, fence, active, count, cancelled>>
task      == <<phase, event, timer, sleeps, state>>
taskVars  == <<vars, recurrent, task>>

-----------------------------------------------------------------------------

\* The code that runs is the user's.
InLoop      == phase = "loop" /\ active = <<>>
InScheduled == phase = "scheduled" /\ pc = "run" /\ active = <<>>
InRecurrent == R!At("run")
UserCode    == state = "running" /\ (InLoop \/ InScheduled \/ InRecurrent)

\* schedule_function, wherever it is called from
Schedules == ScheduleFunction /\ UNCHANGED <<recurrent, task>>

\* schedule_recurrent_function_us, which is not for interrupts
SchedulesRecurrent ==
    R!ScheduleRecurrent /\ UNCHANGED <<vars, task>>

\* esp_schedule, called from a callback or an interrupt: ets_post of a second
\* event fails.
Posts ==
    /\ ~event /\ event' = TRUE
    /\ UNCHANGED <<vars, recurrent, phase, timer, sleeps, state>>

\* delay_end
TimerFires ==
    /\ timer /\ timer' = FALSE /\ event' = TRUE
    /\ UNCHANGED <<vars, recurrent, phase, sleeps, state>>

Sleep(kind) ==
    /\ state' = "asleep" /\ sleeps' = Append(sleeps, kind)
    /\ UNCHANGED <<vars, recurrent, phase>>

\* Mutant: cont_yield without esp_schedule.
Yields_Unscheduled == UserCode /\ Sleep("yield") /\ UNCHANGED <<event, timer>>

\* yield, and delay(0)
Yields == UserCode /\ Sleep("yield") /\ event' = TRUE /\ UNCHANGED timer

\* delay(ms): the timer is one for all delays; arming it again moves it.
Delays == UserCode /\ Sleep("delay") /\ timer' = TRUE /\ UNCHANGED event

\* yieldNow, in either kind of pass: the event is posted, and no recurrent
\* functions are run at the return.
PassYields ==
    /\ state = "running"
    /\ (phase = "scheduled" /\ pc = "test" /\ active = <<>>) \/ R!At("item") \/ R!At("over")
    /\ Sleep("pass") /\ event' = TRUE /\ UNCHANGED timer

\* Back from the innermost yield; after delay(ms) the timer is disarmed.
Return ==
    /\ timer' = IF Last(sleeps) = "delay" THEN FALSE ELSE timer
    /\ sleeps' = Front(sleeps) /\ state' = "running"

\* loop_task takes the event; cont_run goes on where cont_yield was called, or
\* begins loop_wrapper.
RunTask ==
    /\ event /\ event' = FALSE
    /\ \/ /\ state = "asleep" /\ Last(sleeps) = "pass"
          /\ Return /\ UNCHANGED phase
       \/ /\ state = "asleep" /\ Last(sleeps) # "pass"
          /\ state' = "resumed" /\ UNCHANGED <<phase, timer, sleeps>>
       \/ /\ phase = "idle"
          /\ phase' = "loop" /\ UNCHANGED <<timer, sleeps, state>>
    /\ UNCHANGED <<vars, recurrent>>

\* run_scheduled_recurrent_functions in esp_yield_within_cont: a pass begins, or
\* there is nothing to run, or one is running.
Resume ==
    /\ state = "resumed"
    /\ \/ R!Enter /\ state' = "running" /\ UNCHANGED <<timer, sleeps>>
       \/ R!EnterReturns /\ Return
    /\ UNCHANGED <<vars, phase, event>>

\* The steps of a pass, of a function called by it those that return
RecurrentStep ==
    /\ state = "running" /\ (R!Begin \/ R!Call \/ R!Skip)
    /\ UNCHANGED <<vars, task>>
RecurrentReturns ==
    /\ state = "running" /\ (R!Keep \/ R!Cancel)
    /\ UNCHANGED <<vars, task>>

\* loop_wrapper ends with esp_schedule.
TurnEnds == phase' = "idle" /\ event' = TRUE

\* The end of a pass: of the one in a yield, which returns, or in loop_end.
RecurrentEnds ==
    /\ state = "running" /\ R!Leave
    /\ IF sleeps # <<>>
       THEN Return /\ UNCHANGED <<phase, event>>
       ELSE TurnEnds /\ UNCHANGED <<timer, sleeps, state>>
    /\ UNCHANGED vars

\* loop() returns, and loop_end runs the scheduled functions,
LoopReturns ==
    /\ state = "running" /\ InLoop /\ PassBegin
    /\ phase' = "scheduled"
    /\ UNCHANGED <<recurrent, event, timer, sleeps, state>>
ScheduledStep ==
    /\ state = "running" /\ phase = "scheduled" /\ active = <<>> /\ RunFirst
    /\ UNCHANGED <<recurrent, task>>
ScheduledReturns ==
    /\ state = "running" /\ phase = "scheduled" /\ active = <<>> /\ Recycle
    /\ UNCHANGED <<recurrent, task>>

\* and then the recurrent ones.
ScheduledEnds ==
    /\ state = "running" /\ phase = "scheduled" /\ active = <<>> /\ PassEnd
    /\ phase' = "recurrent"
    /\ UNCHANGED <<recurrent, event, timer, sleeps, state>>
LoopEnd ==
    /\ state = "running" /\ phase = "recurrent" /\ active = <<>>
    /\ \/ R!Enter /\ UNCHANGED <<phase, event>>
       \/ R!EnterReturns /\ TurnEnds
    /\ UNCHANGED <<vars, timer, sleeps, state>>

-----------------------------------------------------------------------------

\* init_done has posted the first event.
TaskInit ==
    /\ Init /\ R!Init
    /\ phase = "idle" /\ event = TRUE /\ timer = FALSE /\ sleeps = <<>> /\ state = "running"

Steps == Resume \/ RecurrentStep \/ RecurrentEnds \/ ScheduledStep \/ ScheduledEnds \/ LoopEnd

TaskNext ==
    \/ Schedules \/ SchedulesRecurrent \/ Posts \/ TimerFires
    \/ Yields \/ Delays \/ PassYields
    \/ RunTask \/ Steps
    \/ LoopReturns \/ ScheduledReturns \/ RecurrentReturns

\* The event is taken, the timer fires, the code between two calls of user code
\* goes on, and user code returns, however often it has yielded before.
TaskFairness ==
    /\ WF_taskVars(RunTask) /\ WF_taskVars(TimerFires) /\ SF_taskVars(Steps)
    /\ SF_taskVars(LoopReturns) /\ SF_taskVars(ScheduledReturns) /\ SF_taskVars(RecurrentReturns)

TaskSpec == TaskInit /\ [][TaskNext]_taskVars /\ TaskFairness

-----------------------------------------------------------------------------
(* Properties.  Those of Schedule hold as they stand there.                *)

\* No recurrent function is lost from the list or stays in it after it has
\* returned false, although passes are interleaved with yields, with the
\* scheduled functions and with the functions they add (Schedule.cpp:88-116,
\* 194-221).
ListIsWhole == R!ListIsWhole

\* No pass follows a pointer to a deleted item, although the function it runs
\* may yield or delay, which would begin a pass inside it (Schedule.cpp:170-181,
\* core_esp8266_main.cpp:109-113).
NoItemIsDangling == R!NoItemIsDangling

\* A pass calls no function twice and none that was added during it, however
\* often its functions yield (Schedule.cpp:184-190).
OncePerPass == R!OncePerPass

\* Every recurrent function is looked at again and again: the fence is open
\* after every pass, and every turn of loop() makes one (Schedule.cpp:232).
EveryFunctionIsVisited == R!EveryFunctionIsVisited

\* A sketch that has given the processor back gets it again: an event waits in
\* the queue, or the timer that will post one is armed, although delays are
\* nested, share the timer, and are woken early by any other event
\* (core_esp8266_wiring.cpp:41-57).
SleeperIsWoken ==
    state = "asleep" \/ phase = "idle" => event \/ timer

=============================================================================
