------------------------------ MODULE Recurrent -----------------------------
(***************************************************************************)
(* Recurrent scheduled functions (cores/esp8266/Schedule.cpp,              *)
(* schedule_recurrent_function_us and run_scheduled_recurrent_functions),  *)
(* which are run at every yield until they return false.                   *)
(*                                                                         *)
(* A recurrent function that yields makes a pass begin inside the pass     *)
(* that runs it; active is the stack of passes.  The list is kept as the   *)
(* sequence of its items from rFirst on, rLast, current and prev as the    *)
(* pointers they are.  Items are numbered as they are allocated.  LoopTask *)
(* says when the actions are taken.                                        *)
(***************************************************************************)
EXTENDS Integers, Sequences, SequencesExt

CONSTANT
    MaxFns       \* bound of the model: functions ever scheduled

Items == 1..MaxFns
None  == 0               \* a null pointer

VARIABLES
    list, rLast,
    fence,
    active,      \* the passes: their locals, and at, where they are
    \* history
    count,       \* functions scheduled so far
    cancelled    \* functions that have returned false

vars == <<list, rLast, fence, active, count, cancelled>>

-----------------------------------------------------------------------------

Pos(x) == CHOOSE k \in 1..Len(list) : list[k] = x

\* rFirst, and mNext of an item
first   == IF list = <<>> THEN None ELSE Head(list)
next(x) == IF Pos(x) = Len(list) THEN None ELSE list[Pos(x) + 1]

\* last->mNext = x; what follows an item that is not in the list is out of reach.
LinkAfter(last, x) == IF last \in Range(list) THEN Append(SubSeq(list, 1, Pos(last)), x) ELSE list

\* prev->mNext = next(x), or rFirst = next(x): what was between is cut off.
Unlink(prev, x) ==
    (IF prev = None THEN <<>> ELSE SubSeq(list, 1, Pos(prev))) \o SubSeq(list, Pos(x) + 1, Len(list))

\* The pass on top, and the step of it from at to the locals p.
Top       == Last(active)
At(l)     == active # <<>> /\ Top.at = l
Becomes(p) == active' = Front(active) \o <<p>>

\* schedule_recurrent_function_us: from the sketch, a callback, a recurrent
\* function itself.
ScheduleRecurrent ==
    /\ count < MaxFns
    /\ count' = count + 1
    /\ list' = IF rLast # None THEN LinkAfter(rLast, count') ELSE <<count'>>
    /\ rLast' = count'
    /\ UNCHANGED <<fence, active, cancelled>>

\* Mutant: a pass begins inside a pass.
Fenced_Never == FALSE

Fenced == fence

\* run_scheduled_recurrent_functions, called by yield and at the end of loop():
\* current = rFirst; with nothing to run, or the fence closed, it returns.
Enter ==
    /\ active = <<>> \/ At("run")
    /\ list # <<>> /\ ~Fenced
    /\ fence' = TRUE
    /\ active' = Append(active, [at |-> "entered", current |-> first, prev |-> None, stop |-> None,
                                 done |-> FALSE, called |-> {}])
    /\ UNCHANGED <<list, rLast, count, cancelled>>

EnterReturns ==
    /\ active = <<>> \/ At("run")
    /\ list = <<>> \/ Fenced
    /\ UNCHANGED vars

\* stop = rLast, without a lock
Begin ==
    /\ At("entered")
    /\ Becomes([Top EXCEPT !.at = "item", !.stop = rLast])
    /\ UNCHANGED <<list, rLast, fence, count, cancelled>>

\* One turn: the alarm and the interval say whether the function is called.
Call ==
    /\ At("item")
    /\ Becomes([Top EXCEPT !.at = "run", !.done = (Top.current = Top.stop),
                         !.called = @ \cup {Top.current}])
    /\ UNCHANGED <<list, rLast, fence, count, cancelled>>

\* Mutant: a pass ends at the end of the list only.
Loop_Unstopped(p) == [p EXCEPT !.at = IF p.current # None THEN "item" ELSE "over"]

\* while (current && !done), from current on
Loop(p) == [p EXCEPT !.at = IF p.current # None /\ ~p.done THEN "item" ELSE "over"]

Step == [Top EXCEPT !.prev = Top.current, !.current = next(Top.current)]

Skip ==
    /\ At("item")
    /\ Becomes(Loop([Step EXCEPT !.done = (Top.current = Top.stop)]))
    /\ UNCHANGED <<list, rLast, fence, count, cancelled>>

\* The function returns true.
Keep ==
    /\ At("run")
    /\ Becomes(Loop(Step))
    /\ UNCHANGED <<list, rLast, fence, count, cancelled>>

\* Mutant: rLast keeps pointing to the deleted item.
NewLast_Kept == rLast

NewLast == IF rLast = Top.current THEN Top.prev ELSE rLast

\* It returns false: it is unlinked and deleted.
Cancel ==
    /\ At("run")
    /\ rLast' = NewLast
    /\ list' = Unlink(Top.prev, Top.current)
    /\ cancelled' = cancelled \cup {Top.current}
    /\ Becomes(Loop([Top EXCEPT !.current = next(Top.current)]))
    /\ UNCHANGED <<fence, count>>

\* Mutant: the fence stays closed.
Leave_Closed ==
    /\ At("over")
    /\ active' = Front(active)
    /\ UNCHANGED <<list, rLast, fence, count, cancelled>>

Leave ==
    /\ At("over")
    /\ fence' = FALSE
    /\ active' = Front(active)
    /\ UNCHANGED <<list, rLast, count, cancelled>>

-----------------------------------------------------------------------------

Init ==
    /\ list = <<>> /\ rLast = None
    /\ fence = FALSE /\ active = <<>>
    /\ count = 0 /\ cancelled = {}

-----------------------------------------------------------------------------

\* The list holds the functions that have not returned false, each once and in
\* the order in which they were scheduled, though they are unlinked and new
\* ones are appended in the middle of a pass (Schedule.cpp:103-113, 197-215).
ListIsWhole ==
    /\ \A j, k \in 1..Len(list) : j < k => list[j] < list[k]
    /\ Range(list) = (1..count) \ cancelled

\* A pass follows no pointer to a deleted item, not even when the function it
\* runs yields and a pass would begin inside it (fence, Schedule.cpp:170-181).
NoItemIsDangling ==
    \A k \in 1..Len(active) :
        LET p == active[k]
        IN  /\ p.at # "over" => p.current \in Range(list)
            /\ p.at # "over" /\ p.prev # None => p.prev \in Range(list) /\ next(p.prev) = p.current

\* A pass calls a function once at most, and none that was scheduled after the
\* pass had looked at rLast (stop, Schedule.cpp:184-190).
OncePerPass ==
    \A k \in 1..Len(active) :
        LET p == active[k]
        IN  p.at = "item" => p.current \notin p.called /\ p.current <= p.stop

\* Every function that has not returned false is looked at again and again: no
\* path through a pass leaves the fence closed, none goes past an item.
EveryFunctionIsVisited ==
    \A x \in Items : x \in Range(list) ~> \E k \in 1..Len(active) : active[k].current = x

=============================================================================
