------------------------------ MODULE Schedule ------------------------------
(***************************************************************************)
(* Functions scheduled from an interrupt or by the sketch to be run once,  *)
(* at the end of loop() (cores/esp8266/Schedule.cpp, schedule_function and *)
(* run_scheduled_functions).                                               *)
(*                                                                         *)
(* The two linked lists are kept as the sequences of their items, sLast as *)
(* the pointer it is.  The code under an InterruptLock is one action; an   *)
(* interrupt may schedule a function before any other step of a pass.      *)
(* Calls to schedule_function that succeed are numbered 1, 2, 3, ...       *)
(***************************************************************************)
EXTENDS Integers, Sequences, SequencesExt

CONSTANTS
    MaxCount,    \* SCHEDULED_FN_MAX_COUNT
    MaxCalls     \* bound of the model: functions ever scheduled

ASSUME CountAssumption == MaxCount \in Nat \ {0}
ASSUME BoundAssumption == MaxCalls \in Nat

Items == 1..MaxCount     \* in the order of their allocation
None  == 0               \* a null pointer, and a null function

VARIABLES
    queue,       \* the items from sFirst on
    sLast,
    unused,      \* the items from sUnused on
    sCount,      \* items ever allocated
    mFunc,       \* of each item, the call that it holds
    \* run_scheduled_functions
    pc, stop, done,
    \* history
    calls,       \* functions scheduled so far
    ran          \* the calls that have been run, in order

lists == <<queue, sLast, unused, sCount, mFunc>>
pass  == <<pc, stop, done>>
vars  == <<lists, pass, calls, ran>>

-----------------------------------------------------------------------------

\* A chain q to whose item last is appended x: what followed last is cut off,
\* and an item that is not in the chain takes x out of everybody's reach.
LinkAfter(q, last, x) ==
    IF last \in Range(q) THEN Append(SubSeq(q, 1, CHOOSE k \in 1..Len(q) : q[k] = last), x) ELSE q

BelowLimit == sCount < MaxCount

\* schedule_function, from an interrupt, the sketch, or a function being run.
\* get_fn_unsafe takes an unused item first, then a new one; without one (the
\* limit, or no memory) it returns false and nothing changes.
ScheduleFunction ==
    LET item == IF unused # <<>> THEN Head(unused) ELSE sCount + 1
    IN  /\ calls < MaxCalls /\ (unused # <<>> \/ BelowLimit)
        /\ unused' = IF unused # <<>> THEN Tail(unused) ELSE unused
        /\ sCount' = IF unused # <<>> THEN sCount ELSE item
        /\ mFunc' = [mFunc EXCEPT ![item] = calls + 1]
        /\ queue' = IF queue # <<>> THEN LinkAfter(queue, sLast, item) ELSE <<item>>
        /\ sLast' = item
        /\ calls' = calls + 1
        /\ UNCHANGED <<pass, ran>>

\* run_scheduled_functions: stop = sLast, without a lock
PassBegin ==
    /\ pc = "loop"
    /\ stop' = sLast /\ done' = FALSE
    /\ pc' = "test"
    /\ UNCHANGED <<lists, calls, ran>>

\* while (sFirst && !done) is over.
PassEnd ==
    /\ pc = "test" /\ (queue = <<>> \/ done)
    /\ pc' = "loop"
    /\ UNCHANGED <<lists, stop, done, calls, ran>>

\* Mutant: the item that was last when the pass began does not end it.
RunFirst_Unstopped ==
    /\ pc = "test" /\ queue # <<>> /\ ~done
    /\ done' = FALSE
    /\ ran' = Append(ran, mFunc[Head(queue)])
    /\ pc' = "run"
    /\ UNCHANGED <<lists, stop, calls>>

\* The first function is called; its item stays in the queue meanwhile.
RunFirst ==
    /\ pc = "test" /\ queue # <<>> /\ ~done
    /\ done' = (Head(queue) = stop)
    /\ ran' = Append(ran, mFunc[Head(queue)])
    /\ pc' = "run"
    /\ UNCHANGED <<lists, stop, calls>>

\* Mutant: the item is not recycled.
Recycle_Leaks ==
    /\ pc = "run"
    /\ sLast' = IF sLast = Head(queue) THEN None ELSE sLast
    /\ queue' = Tail(queue)
    /\ mFunc' = [mFunc EXCEPT ![Head(queue)] = None]
    /\ pc' = "test"
    /\ UNCHANGED <<unused, sCount, stop, done, calls, ran>>

\* Mutant: sLast is cleared whenever an item is removed.
Recycle_ClearsLast ==
    /\ pc = "run"
    /\ sLast' = None
    /\ queue' = Tail(queue)
    /\ unused' = <<Head(queue)>> \o unused
    /\ mFunc' = [mFunc EXCEPT ![Head(queue)] = None]
    /\ pc' = "test"
    /\ UNCHANGED <<sCount, stop, done, calls, ran>>

\* It returns: its item leaves the queue and is recycled (recycle_fn_unsafe).
\* After 100 ms the pass yields, where more may be scheduled, as everywhere.
Recycle ==
    /\ pc = "run"
    /\ sLast' = IF sLast = Head(queue) THEN None ELSE sLast
    /\ queue' = Tail(queue)
    /\ unused' = <<Head(queue)>> \o unused
    /\ mFunc' = [mFunc EXCEPT ![Head(queue)] = None]
    /\ pc' = "test"
    /\ UNCHANGED <<sCount, stop, done, calls, ran>>

-----------------------------------------------------------------------------

Init ==
    /\ queue = <<>> /\ sLast = None /\ unused = <<>> /\ sCount = 0
    /\ mFunc = [item \in Items |-> None]
    /\ pc = "loop" /\ stop = None /\ done = FALSE
    /\ calls = 0 /\ ran = <<>>

Loop == PassBegin \/ PassEnd \/ RunFirst \/ Recycle

Next == ScheduleFunction \/ Loop

\* loop_wrapper runs a pass after every loop(), and a function returns.
Fairness == WF_vars(Loop)

Spec == Init /\ [][Next]_vars /\ Fairness

-----------------------------------------------------------------------------

\* The calls that have not been run yet, in the order of the queue.
Waiting ==
    LET held == [k \in 1..Len(queue) |-> mFunc[queue[k]]]
    IN  IF pc = "run" THEN Tail(held) ELSE held

TypeOK ==
    /\ queue \in Seq(Items) /\ sLast \in Items \cup {None}
    /\ unused \in Seq(Items) /\ sCount \in 0..MaxCount
    /\ mFunc \in [Items -> 0..MaxCalls]
    /\ pc \in {"loop", "test", "run"} /\ stop \in Items \cup {None} /\ done \in BOOLEAN
    /\ calls \in 0..MaxCalls /\ ran \in Seq(1..MaxCalls)
    /\ pc = "run" => queue # <<>>

\* Each function that was scheduled is run once and in the order of the calls,
\* or still waits: none is overtaken, forgotten or run again, whatever an
\* interrupt schedules between two steps of a pass (Schedule.cpp:64-86,
\* 118-144).
RunOnceInOrder ==
    ran \o Waiting = [k \in 1..calls |-> k]

\* Every item ever allocated is queued or free for use, and not both: the queue
\* never shrinks for good, and schedule_function refuses only when MaxCount
\* functions wait or memory is short (get_fn_unsafe against recycle_fn_unsafe).
NoItemLeaks ==
    /\ Range(queue) \cup Range(unused) = 1..sCount
    /\ Len(queue) + Len(unused) = sCount

\* A pass that has found something to do runs nothing that was scheduled after
\* it began: stop stays in the queue until its turn, though items are recycled
\* and used again all the time.
StopEndsThePass ==
    pc = "run" /\ stop # None => stop \in Range(queue) /\ mFunc[Head(queue)] <= mFunc[stop]

\* A function that has been scheduled will be run.
EveryFunctionRuns ==
    \A k \in 1..MaxCalls : calls >= k ~> k \in Range(ran)

=============================================================================
