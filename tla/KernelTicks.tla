---------------------------- MODULE KernelTicks ----------------------------
(***************************************************************************)
(* Time in the kernel (FreeRTOS_202012/tasks.c): the tick count and its     *)
(* wrap, the two delayed lists and the cached time of the next unblocking,  *)
(* delays, waits with a time limit, suspension and resumption from tasks    *)
(* and from an interrupt handler, the creation and the deletion of tasks,   *)
(* and the sleep with the tick stopped.                                     *)
(*                                                                          *)
(* Each critical section is one action; interrupts come between any two     *)
(* that do not mask them.  The application is one of the programs of        *)
(* src/Project, chosen at the start: Does says which calls its tasks make,  *)
(* Handles what its interrupt handlers call.                                *)
(*                                                                          *)
(* Abstractions.  The state lists are sets; of equal priorities any task    *)
(* may come first.  An awaited object is what its event list shows of it:   *)
(* whether a call finds what it looks for is left open.  xNumOfOverflows    *)
(* is, in each TimeOut_t, whether it has changed since.                     *)
(***************************************************************************)
EXTENDS Integers, FiniteSets

CONSTANTS
    Task,        \* the tasks of all programs, and the idle task
    Idle,        \* the idle task
    Object,      \* what is waited for: each has an event list
    NULL,        \* xEventListItem is in no list
    Pending,     \* xEventListItem is in xPendingReadyList
    Program,     \* the programs
    Tickless,    \* those with configUSE_TICKLESS_IDLE
    AtStart,     \* AtStart[p]: the tasks of p when the scheduler is started
    Prio,        \* Prio[t]: the uxPriority of task t
    Does,        \* Does[p][t]: the calls task t makes in program p
    Handles,     \* Handles[p]: the calls of the interrupt handlers of p
    Width,       \* TickType_t counts modulo Width
    MaxPended,   \* bound: ticks that fall in one suspended window
    MaxSuppressed   \* xMaximumPossibleSuppressedTicks

portMAX_DELAY == Width - 1
Time == 0 .. Width - 1

\* The budget of a wait whose length can no longer be told.
Unattended == Width

\* The calls of a program, as Does and Handles list them.
Call == [op : {"delay"}, ticks : Time \ {0}]
        \cup [op : {"wait"}, on : Object, ticks : Time \ {0}]
        \cup [op : {"poll", "notify"}, on : Object]
        \cup [op : {"suspend", "resume", "delete"}, task : Task]
        \cup [op : {"start"}, new : SUBSET Task]

NoCall == [op |-> "none"]
SleepCall == [op |-> "sleep"]

ASSUME TicksAssumption ==
    /\ Idle \in Task
    /\ NULL \notin Object /\ Pending \notin Object /\ NULL # Pending
    /\ Width \in Nat /\ Width > 2
    /\ MaxPended \in Nat /\ MaxSuppressed \in Nat
    /\ Tickless \subseteq Program
    /\ Prio \in [Task -> Nat]
    /\ \A t \in Task \ {Idle} : Prio[Idle] < Prio[t]
    /\ AtStart \in [Program -> SUBSET Task]
    /\ \A p \in Program : Idle \in AtStart[p]
    /\ Does \in [Program -> [Task -> SUBSET Call]]
    /\ \A p \in Program : Does[p][Idle] = {}
    /\ Handles \in [Program -> SUBSET Call]

VARIABLES
    program,
    tasks,              \* those that exist; uxCurrentNumberOfTasks counts them
    xTasksWaitingTermination,   \* and these
    pxCurrentTCB, ready,
    pxDelayedTaskList, pxOverflowDelayedTaskList, xSuspendedTaskList,
    xEventListItem,     \* the list each task's event item is in
    wake,               \* the item value of a task in a delayed list, else 0
    xTickCount, xNextTaskUnblockTime,
    uxSchedulerSuspended, xPendedTicks, xYieldPending, pendSV,
    pc, call,           \* the call each task is in
    exit,               \* what follows xTaskResumeAll
    xTicksToWait, xTimeOnEntering, overflowed,    \* of the call, its TimeOut_t
    budget              \* history: the ticks the call may still wait

taskVars == <<tasks, xTasksWaitingTermination>>
lists == <<taskVars, ready, pxDelayedTaskList, pxOverflowDelayedTaskList,
           xSuspendedTaskList, xEventListItem, wake>>
clockVars == <<xTickCount, xNextTaskUnblockTime>>
schedVars == <<pxCurrentTCB, uxSchedulerSuspended, xPendedTicks, xYieldPending, pendSV>>
timeOuts == <<xTicksToWait, xTimeOnEntering, overflowed, budget>>
vars == <<program, lists, clockVars, schedVars, pc, call, exit, timeOuts>>

xPendingReadyList == {t \in Task : xEventListItem[t] = Pending}
Delayed == pxDelayedTaskList \cup pxOverflowDelayedTaskList

PCs == {"app", "enter", "suspendAll", "check", "place", "resumeAll", "replay",
        "yield", "reset", "resetYield", "expect", "confirm", "slept"}

TypeOK ==
    /\ program \in Program
    /\ tasks \subseteq Task /\ xTasksWaitingTermination \subseteq Task
    /\ pxCurrentTCB \in Task
    /\ ready \subseteq Task
    /\ pxDelayedTaskList \subseteq Task /\ pxOverflowDelayedTaskList \subseteq Task
    /\ xSuspendedTaskList \subseteq Task
    /\ xEventListItem \in [Task -> Object \cup {NULL, Pending}]
    /\ wake \in [Task -> Time]
    /\ xTickCount \in Time /\ xNextTaskUnblockTime \in Time
    /\ xPendedTicks \in Nat
    /\ uxSchedulerSuspended \in BOOLEAN
    /\ xYieldPending \in BOOLEAN /\ pendSV \in BOOLEAN
    /\ pc \in [Task -> PCs]
    /\ call \in [Task -> Call \cup {NoCall, SleepCall}]
    /\ exit \in [Task -> {"none", "block", "retry", "timeout"}]
    /\ xTicksToWait \in [Task -> Time] /\ xTimeOnEntering \in [Task -> Time]
    /\ overflowed \in [Task -> BOOLEAN]
    /\ budget \in [Task -> Time \cup {Unattended}]

Init ==
    /\ program \in Program
    /\ tasks = AtStart[program] /\ ready = tasks
    /\ xTasksWaitingTermination = {}
    /\ pxCurrentTCB \in {t \in ready : \A u \in ready : Prio[u] <= Prio[t]}
    /\ pxDelayedTaskList = {} /\ pxOverflowDelayedTaskList = {}
    /\ xSuspendedTaskList = {}
    /\ xEventListItem = [t \in Task |-> NULL]
    /\ wake = [t \in Task |-> 0]
    /\ xTickCount = 0 /\ xNextTaskUnblockTime = portMAX_DELAY
    /\ uxSchedulerSuspended = FALSE /\ xPendedTicks = 0
    /\ xYieldPending = FALSE /\ pendSV = FALSE
    /\ pc = [t \in Task |-> "app"]
    /\ call = [t \in Task |-> NoCall]
    /\ exit = [t \in Task |-> "none"]
    /\ xTicksToWait = [t \in Task |-> 0]
    /\ xTimeOnEntering = [t \in Task |-> 0]
    /\ overflowed = [t \in Task |-> FALSE]
    /\ budget = [t \in Task |-> 0]

-----------------------------------------------------------------------------
(* The lists and the clock. *)

\* Code of task t executes: it is the current task and no switch is pending.
Runs(t) == pxCurrentTCB = t /\ ~pendSV

\* The current task has interrupts masked.
Masked == pc[pxCurrentTCB] = "replay"

HighestReady == {t \in ready : \A u \in ready : Prio[u] <= Prio[t]}

\* Mutant: the sum is not cut to the width of TickType_t.
TicksAheadWide(n) == xTickCount + n

\* The tick count n ticks from now, in the width of TickType_t.
TicksAhead(n) == IF xTickCount + n < Width THEN xTickCount + n ELSE xTickCount + n - Width

\* prvResetNextTaskUnblockTime for the delayed list D: the one time it yields.
Soonest(D) ==
    {n \in Time : IF D = {} THEN n = portMAX_DELAY
                            ELSE (\E t \in D : wake[t] = n) /\ \A t \in D : n <= wake[t]}

\* The tasks of S leave the state list they are in.
Unlist(S) ==
    /\ pxDelayedTaskList' = pxDelayedTaskList \ S
    /\ pxOverflowDelayedTaskList' = pxOverflowDelayedTaskList \ S
    /\ wake' = [t \in Task |-> IF t \in S THEN 0 ELSE wake[t]]

\* uxListRemove and prvAddTaskToReadyList for the tasks of S.
MakeReady(S) ==
    /\ Unlist(S)
    /\ ready' = ready \cup S
    /\ xSuspendedTaskList' = xSuspendedTaskList \ S
    /\ xEventListItem' = [t \in Task |-> IF t \in S THEN NULL ELSE xEventListItem[t]]
    /\ UNCHANGED taskVars

\* The first task of the event list of o.
First(o) ==
    {t \in Task : /\ xEventListItem[t] = o
                  /\ \A u \in Task : xEventListItem[u] = o => Prio[u] <= Prio[t]}

\* What xTaskRemoveFromEventList does with task w.
Deliver(w) ==
    /\ IF uxSchedulerSuspended
       THEN /\ xEventListItem' = [xEventListItem EXCEPT ![w] = Pending]
            /\ UNCHANGED <<taskVars, ready, pxDelayedTaskList, pxOverflowDelayedTaskList,
                           xSuspendedTaskList, wake, xNextTaskUnblockTime>>
       ELSE /\ MakeReady({w})
            /\ xNextTaskUnblockTime' \in
                  IF program \in Tickless THEN Soonest(pxDelayedTaskList \ {w})
                                          ELSE {xNextTaskUnblockTime}
    /\ xYieldPending' = (xYieldPending \/ Prio[w] > Prio[pxCurrentTCB])
    /\ UNCHANGED xTickCount

\* The calls whose limit is being measured by a TimeOut_t.
Timed(t) ==
    /\ call[t].op = "wait" /\ pc[t] # "app"
    /\ xTicksToWait[t] # portMAX_DELAY /\ exit[t] # "timeout"

\* The ticks since xTimeOnEntering, in the width of TickType_t.
Elapsed(t) ==
    IF xTickCount >= xTimeOnEntering[t] THEN xTickCount - xTimeOnEntering[t]
                                        ELSE xTickCount - xTimeOnEntering[t] + Width

\* The tick count has gone round and past the time of entering.
WentRound(t) == overflowed[t] /\ xTickCount >= xTimeOnEntering[t]

\* The history of what the calls may still wait, n ticks from now.  A call
\* that does not look at its limit before the tick count has gone round and
\* past the time it last did, 2^32 ticks, is Unattended until it returns.
BudgetAfter(n) ==
    [t \in Task |->
        IF ~Timed(t) THEN budget[t]
        ELSE IF budget[t] = Unattended \/ WentRound(t) \/ Elapsed(t) + n > Width THEN Unattended
        ELSE IF budget[t] > n THEN budget[t] - n ELSE 0]

\* Mutant: the cached time is not reset when the lists are exchanged.
UnblockTimeKept(wrapped, list) == {xNextTaskUnblockTime}

\* The cached time after taskSWITCH_DELAYED_LISTS, if it was called.
UnblockTime(wrapped, list) == IF wrapped THEN Soonest(list) ELSE {xNextTaskUnblockTime}

\* xTaskIncrementTick with the scheduler running: the tasks whose time has
\* come are ready.  switch is its return value: one of them is no lower than
\* the running task, or the running one shares its priority.
CountTick(switch) ==
    LET now == TicksAhead(1)
        wrapped == now = 0
        list == IF wrapped THEN pxOverflowDelayedTaskList ELSE pxDelayedTaskList
    IN \E next \in UnblockTime(wrapped, list) :
         LET due == IF now >= next THEN {t \in list : wake[t] <= now} ELSE {}
         IN /\ xTickCount' = now
            /\ xNextTaskUnblockTime' \in IF now >= next THEN Soonest(list \ due) ELSE {next}
            /\ pxDelayedTaskList' = list \ due
            /\ pxOverflowDelayedTaskList' =
                  IF wrapped THEN pxDelayedTaskList ELSE pxOverflowDelayedTaskList
            /\ ready' = ready \cup due
            /\ wake' = [t \in Task |-> IF t \in due THEN 0 ELSE wake[t]]
            /\ xEventListItem' = [t \in Task |-> IF t \in due THEN NULL ELSE xEventListItem[t]]
            /\ overflowed' = [t \in Task |-> overflowed[t] \/ (wrapped /\ Timed(t))]
            /\ budget' = BudgetAfter(1)
            /\ switch = (\/ \E w \in due : Prio[w] >= Prio[pxCurrentTCB]
                         \/ \E u, v \in ready' : /\ u # v
                                                 /\ Prio[u] = Prio[pxCurrentTCB]
                                                 /\ Prio[v] = Prio[pxCurrentTCB])
    /\ UNCHANGED <<taskVars, xSuspendedTaskList, xTicksToWait, xTimeOnEntering>>

\* The tick interrupt, xPortSysTickHandler.  It is stopped while the
\* processor sleeps.
xPortSysTickHandler ==
    /\ ~Masked /\ pc[Idle] # "slept"
    /\ IF uxSchedulerSuspended
       THEN /\ xPendedTicks < MaxPended
            /\ xPendedTicks' = xPendedTicks + 1
            /\ UNCHANGED <<lists, clockVars, timeOuts, pendSV>>
       ELSE /\ \E switch \in BOOLEAN :
                  /\ CountTick(switch)
                  /\ pendSV' = (pendSV \/ switch \/ xYieldPending)
            /\ UNCHANGED xPendedTicks
    /\ UNCHANGED <<program, pxCurrentTCB, uxSchedulerSuspended, xYieldPending, pc, call, exit>>

\* PendSV: while the scheduler is suspended the switch is only remembered.
vTaskSwitchContext ==
    /\ pendSV /\ ~Masked
    /\ pendSV' = FALSE
    /\ IF uxSchedulerSuspended
       THEN xYieldPending' = TRUE /\ UNCHANGED pxCurrentTCB
       ELSE xYieldPending' = FALSE /\ pxCurrentTCB' \in HighestReady
    /\ UNCHANGED <<program, lists, clockVars, uxSchedulerSuspended, xPendedTicks,
                   pc, call, exit, timeOuts>>

-----------------------------------------------------------------------------
(* The calls of tasks, one action per critical section. *)

Goto(t, label) ==
    /\ pc' = [pc EXCEPT ![t] = label]
    /\ UNCHANGED <<program, call>>

\* The call of t returns; what it kept on its stack is gone.
Return(t) ==
    /\ pc' = [pc EXCEPT ![t] = "app"]
    /\ call' = [call EXCEPT ![t] = NoCall]
    /\ exit' = [exit EXCEPT ![t] = "none"]
    /\ xTicksToWait' = [xTicksToWait EXCEPT ![t] = 0]
    /\ xTimeOnEntering' = [xTimeOnEntering EXCEPT ![t] = 0]
    /\ overflowed' = [overflowed EXCEPT ![t] = FALSE]
    /\ budget' = [budget EXCEPT ![t] = 0]
    /\ UNCHANGED program

\* The calls op that task t can make now.
Calls(t, op) == {c \in Does[program][t] : Runs(t) /\ pc[t] = "app" /\ c.op = op}

Begin(t, c, label) ==
    /\ call' = [call EXCEPT ![t] = c]
    /\ pc' = [pc EXCEPT ![t] = label]
    /\ UNCHANGED <<program, lists, clockVars, schedVars, exit>>

vTaskDelay(t) ==
    \E c \in Calls(t, "delay") :
        /\ xTicksToWait' = [xTicksToWait EXCEPT ![t] = c.ticks]
        /\ Begin(t, c, "suspendAll")
        /\ UNCHANGED <<xTimeOnEntering, overflowed, budget>>

\* A call that may wait, such as xQueueReceive, does not find what it looks
\* for and sets its time limit: vTaskInternalSetTimeOutState.  A call without
\* limit never reads it.
Wait(t) ==
    \E c \in Calls(t, "wait") :
        /\ xTicksToWait' = [xTicksToWait EXCEPT ![t] = c.ticks]
        /\ IF c.ticks = portMAX_DELAY
           THEN UNCHANGED <<xTimeOnEntering, budget>>
           ELSE /\ xTimeOnEntering' = [xTimeOnEntering EXCEPT ![t] = xTickCount]
                /\ budget' = [budget EXCEPT ![t] = c.ticks]
        /\ Begin(t, c, "suspendAll")
        /\ UNCHANGED overflowed

\* A task that decides with the scheduler suspended whether to wait.
Poll(t) ==
    \E c \in Calls(t, "poll") :
        /\ Begin(t, c, "suspendAll")
        /\ UNCHANGED timeOuts

vTaskSuspendAll(t) ==
    /\ Runs(t) /\ pc[t] = "suspendAll"
    /\ uxSchedulerSuspended' = TRUE
    /\ Goto(t, CASE call[t].op = "wait"  -> "check"
                 [] call[t].op = "sleep" -> "expect"
                 [] OTHER                -> "place")
    /\ UNCHANGED <<lists, clockVars, pxCurrentTCB, xPendedTicks, xYieldPending,
                   pendSV, exit, timeOuts>>

\* Mutant: what is left is not reduced by the ticks that have gone by.
RemainingOfAll(t) == xTicksToWait[t]

Remaining(t) == xTicksToWait[t] - Elapsed(t)

xTaskCheckForTimeOut(t) ==
    /\ Runs(t) /\ pc[t] = "check"
    /\ IF xTicksToWait[t] = portMAX_DELAY
       THEN Goto(t, "place") /\ UNCHANGED <<exit, timeOuts>>
       ELSE IF WentRound(t) \/ Elapsed(t) >= xTicksToWait[t]
       THEN /\ xTicksToWait' = [xTicksToWait EXCEPT ![t] = 0]
            /\ exit' = [exit EXCEPT ![t] = "timeout"]
            /\ Goto(t, "resumeAll")
            /\ UNCHANGED <<xTimeOnEntering, overflowed, budget>>
       ELSE /\ xTicksToWait' = [xTicksToWait EXCEPT ![t] = Remaining(t)]
            /\ xTimeOnEntering' = [xTimeOnEntering EXCEPT ![t] = xTickCount]
            /\ overflowed' = [overflowed EXCEPT ![t] = FALSE]
            /\ Goto(t, "place")
            /\ UNCHANGED <<exit, budget>>
    /\ UNCHANGED <<lists, clockVars, schedVars>>

\* prvAddCurrentTaskToDelayedList: task t will sleep n ticks, or for ever.
AddToDelayedList(t, n, forever) ==
    LET time == TicksAhead(n)
    IN /\ ready' = ready \ {t}
       /\ IF n = portMAX_DELAY /\ forever
          THEN /\ xSuspendedTaskList' = xSuspendedTaskList \cup {t}
               /\ UNCHANGED <<pxDelayedTaskList, pxOverflowDelayedTaskList, wake,
                              xNextTaskUnblockTime>>
          ELSE /\ wake' = [wake EXCEPT ![t] = time]
               /\ IF time < xTickCount
                  THEN /\ pxOverflowDelayedTaskList' = pxOverflowDelayedTaskList \cup {t}
                       /\ UNCHANGED <<pxDelayedTaskList, xNextTaskUnblockTime>>
                  ELSE /\ pxDelayedTaskList' = pxDelayedTaskList \cup {t}
                       /\ xNextTaskUnblockTime' =
                             IF time < xNextTaskUnblockTime THEN time ELSE xNextTaskUnblockTime
                       /\ UNCHANGED pxOverflowDelayedTaskList
               /\ UNCHANGED xSuspendedTaskList

\* In the suspended window task t is put to sleep, in the event list of o
\* unless o is NULL.
Place(t, o, n, forever) ==
    /\ AddToDelayedList(t, n, forever)
    /\ xEventListItem' = [xEventListItem EXCEPT ![t] = o]
    /\ exit' = [exit EXCEPT ![t] = "block"]
    /\ Goto(t, "resumeAll")
    /\ UNCHANGED <<taskVars, xTickCount, schedVars, timeOuts>>

DelayPlace(t) ==
    /\ Runs(t) /\ pc[t] = "place" /\ call[t].op = "delay"
    /\ Place(t, NULL, xTicksToWait[t], FALSE)

WaitPlace(t) ==
    /\ Runs(t) /\ pc[t] = "place" /\ call[t].op = "wait"
    /\ Place(t, call[t].on, xTicksToWait[t], TRUE)

\* vTaskPlaceOnEventListRestricted
PollPlace(t, n, forever) ==
    /\ Runs(t) /\ pc[t] = "place" /\ call[t].op = "poll"
    /\ Place(t, call[t].on, IF forever THEN portMAX_DELAY ELSE n, forever)

\* The window closes and the task does not sleep: what it looks for is there.
\* A task that polls may yield all the same.
Stay(t, next) ==
    /\ Runs(t) /\ pc[t] = "place"
    /\ \/ call[t].op = "wait" /\ next = "retry"
       \/ call[t].op = "poll" /\ next \in {"retry", "block"}
    /\ exit' = [exit EXCEPT ![t] = next]
    /\ Goto(t, "resumeAll")
    /\ UNCHANGED <<lists, clockVars, schedVars, timeOuts>>

\* xTaskResumeAll up to the pended ticks.  Interrupts are masked from here on.
xTaskResumeAll(t) ==
    /\ Runs(t) /\ pc[t] = "resumeAll"
    /\ uxSchedulerSuspended' = FALSE
    /\ MakeReady(xPendingReadyList)
    /\ xNextTaskUnblockTime' \in IF xPendingReadyList = {} THEN {xNextTaskUnblockTime}
                                 ELSE Soonest(pxDelayedTaskList \ xPendingReadyList)
    /\ xYieldPending' = \/ xYieldPending
                        \/ \E w \in xPendingReadyList : Prio[w] >= Prio[t]
    /\ Goto(t, "replay")
    /\ UNCHANGED <<xTickCount, pxCurrentTCB, xPendedTicks, pendSV, exit, timeOuts>>

\* Mutant: what xTaskIncrementTick returns for a pended tick is ignored.
ReplayTickNoYield(t) ==
    /\ Runs(t) /\ pc[t] = "replay" /\ xPendedTicks > 0
    /\ \E switch \in BOOLEAN : CountTick(switch)
    /\ xPendedTicks' = xPendedTicks - 1
    /\ UNCHANGED <<program, pxCurrentTCB, uxSchedulerSuspended, xYieldPending, pendSV,
                   pc, call, exit>>

\* One of the pended ticks is processed.
ReplayTick(t) ==
    /\ Runs(t) /\ pc[t] = "replay" /\ xPendedTicks > 0
    /\ \E switch \in BOOLEAN :
          /\ CountTick(switch)
          /\ xYieldPending' = (xYieldPending \/ switch)
    /\ xPendedTicks' = xPendedTicks - 1
    /\ UNCHANGED <<program, pxCurrentTCB, uxSchedulerSuspended, pendSV, pc, call, exit>>

\* The call of t goes on after the window, and the yield if there was one.  A
\* wait whose limit has passed is over; another looks again.
Continue(t) ==
    IF call[t].op = "wait" /\ exit[t] # "timeout"
    THEN /\ Goto(t, "enter")
         /\ exit' = [exit EXCEPT ![t] = "none"]
         /\ UNCHANGED timeOuts
    ELSE Return(t)

\* The end of xTaskResumeAll: it yields if that is due, and a task that has
\* put itself to sleep yields by itself if it did not.
FinishResume(t) ==
    /\ Runs(t) /\ pc[t] = "replay" /\ xPendedTicks = 0
    /\ pendSV' = xYieldPending
    /\ IF exit[t] = "block" /\ ~xYieldPending
       THEN Goto(t, "yield") /\ UNCHANGED <<exit, timeOuts>>
       ELSE Continue(t)
    /\ UNCHANGED <<lists, clockVars, pxCurrentTCB, uxSchedulerSuspended, xPendedTicks,
                   xYieldPending>>

portYIELD_WITHIN_API(t) ==
    /\ Runs(t) /\ pc[t] = "yield"
    /\ pendSV' = TRUE
    /\ Continue(t)
    /\ UNCHANGED <<lists, clockVars, pxCurrentTCB, uxSchedulerSuspended, xPendedTicks,
                   xYieldPending>>

\* The call that waited looks again: it succeeds, or it will wait on, unless
\* it has no ticks left.
Look(t) ==
    /\ Runs(t) /\ pc[t] = "enter"
    /\ \/ Return(t)
       \/ /\ Goto(t, "suspendAll")
          /\ UNCHANGED <<exit, timeOuts>>
    /\ UNCHANGED <<lists, clockVars, schedVars>>

\* A task makes what o waits for come true: the first waiting task leaves.
Notify(t, o) ==
    /\ [op |-> "notify", on |-> o] \in Calls(t, "notify")
    /\ \E w \in First(o) :
          /\ Deliver(w)
          /\ pendSV' = (Prio[w] > Prio[t])
    /\ UNCHANGED <<program, pxCurrentTCB, uxSchedulerSuspended, xPendedTicks,
                   pc, call, exit, timeOuts>>

\* The first critical section of vTaskSuspend: task u leaves whatever list it
\* is in, its event list too.
vTaskSuspend(t) ==
    \E c \in Calls(t, "suspend") :
        /\ c.task \in tasks
        /\ Unlist({c.task})
        /\ ready' = ready \ {c.task}
        /\ xSuspendedTaskList' = xSuspendedTaskList \cup {c.task}
        /\ xEventListItem' = [xEventListItem EXCEPT ![c.task] = NULL]
        /\ call' = [call EXCEPT ![t] = c]
        /\ pc' = [pc EXCEPT ![t] = "reset"]
        /\ UNCHANGED <<program, taskVars, clockVars, schedVars, exit, timeOuts>>

\* Its second one, prvResetNextTaskUnblockTime.
SuspendReset(t) ==
    /\ Runs(t) /\ pc[t] = "reset"
    /\ xNextTaskUnblockTime' \in Soonest(pxDelayedTaskList)
    /\ IF call[t].task = t
       THEN Goto(t, "yield") /\ UNCHANGED <<exit, timeOuts>>
       ELSE Return(t)
    /\ UNCHANGED <<lists, xTickCount, schedVars>>

\* prvTaskIsTaskSuspended: neither waiting without limit nor resumed already.
IsTaskSuspended(u) == u \in xSuspendedTaskList /\ xEventListItem[u] = NULL

vTaskResume(t) ==
    \E c \in Calls(t, "resume") :
        /\ c.task # t /\ IsTaskSuspended(c.task)
        /\ MakeReady({c.task})
        /\ pendSV' = (Prio[c.task] >= Prio[t])
        /\ UNCHANGED <<program, clockVars, pxCurrentTCB, uxSchedulerSuspended,
                       xPendedTicks, xYieldPending, pc, call, exit, timeOuts>>

\* start_task, in a critical section of its own: it creates the tasks of the
\* program and deletes itself.  The switch comes when the section ends.
start_task(t) ==
    \E c \in Calls(t, "start") :
        /\ c.new \cap (tasks \cup xTasksWaitingTermination) = {}
        /\ tasks' = (tasks \cup c.new) \ {t}
        /\ ready' = (ready \cup c.new) \ {t}
        /\ xTasksWaitingTermination' = xTasksWaitingTermination \cup {t}
        /\ pendSV' = TRUE
        /\ UNCHANGED <<program, pxDelayedTaskList, pxOverflowDelayedTaskList,
                       xSuspendedTaskList, xEventListItem, wake, clockVars, pxCurrentTCB,
                       uxSchedulerSuspended, xPendedTicks, xYieldPending,
                       pc, call, exit, timeOuts>>

\* vTaskDelete of another task, wherever it is; its stack is gone with it.
vTaskDelete(t) ==
    \E c \in Calls(t, "delete") :
        /\ c.task \in tasks \ {t, Idle}
        /\ Unlist({c.task})
        /\ tasks' = tasks \ {c.task}
        /\ ready' = ready \ {c.task}
        /\ xSuspendedTaskList' = xSuspendedTaskList \ {c.task}
        /\ xEventListItem' = [xEventListItem EXCEPT ![c.task] = NULL]
        /\ xNextTaskUnblockTime' \in Soonest(pxDelayedTaskList \ {c.task})
        /\ Return(c.task)
        /\ UNCHANGED <<xTasksWaitingTermination, xTickCount, schedVars>>

-----------------------------------------------------------------------------
(* Interrupt handlers. *)

\* EXTI9_5_IRQHandler resumes a task and yields if it is told to.
xTaskResumeFromISR ==
    \E c \in Handles[program] :
        /\ c.op = "resume" /\ ~Masked
        /\ IsTaskSuspended(c.task)
        /\ IF uxSchedulerSuspended
           THEN /\ xEventListItem' = [xEventListItem EXCEPT ![c.task] = Pending]
                /\ UNCHANGED <<taskVars, ready, pxDelayedTaskList, pxOverflowDelayedTaskList,
                               xSuspendedTaskList, wake, xYieldPending, pendSV>>
           ELSE /\ MakeReady({c.task})
                /\ xYieldPending' = (xYieldPending \/ Prio[c.task] >= Prio[pxCurrentTCB])
                /\ pendSV' = (pendSV \/ Prio[c.task] >= Prio[pxCurrentTCB])
        /\ UNCHANGED <<program, clockVars, pxCurrentTCB, uxSchedulerSuspended,
                       xPendedTicks, pc, call, exit, timeOuts>>

\* A handler makes what o waits for come true and yields if that is due.
NotifyFromISR ==
    \E c \in Handles[program] :
        /\ c.op = "notify" /\ ~Masked
        /\ \E w \in First(c.on) :
              /\ Deliver(w)
              /\ pendSV' = (pendSV \/ Prio[w] > Prio[pxCurrentTCB])
        /\ UNCHANGED <<program, pxCurrentTCB, uxSchedulerSuspended, xPendedTicks,
                       pc, call, exit, timeOuts>>

-----------------------------------------------------------------------------
(* The idle task frees what is left of tasks that have deleted themselves,  *)
(* stops the tick and sleeps.                                               *)

prvCheckTasksWaitingTermination ==
    /\ Runs(Idle) /\ pc[Idle] = "app"
    /\ \E t \in xTasksWaitingTermination :
          xTasksWaitingTermination' = xTasksWaitingTermination \ {t}
    /\ UNCHANGED <<program, tasks, ready, pxDelayedTaskList, pxOverflowDelayedTaskList,
                   xSuspendedTaskList, xEventListItem, wake, clockVars, schedVars,
                   pc, call, exit, timeOuts>>

configEXPECTED_IDLE_TIME_BEFORE_SLEEP == 2

\* prvGetExpectedIdleTime, when the idle task is the one that asks.
ExpectedIdleTime ==
    IF ready \subseteq {Idle} THEN xNextTaskUnblockTime - xTickCount ELSE 0

\* The preliminary test of prvIdleTask.
IdleTest ==
    /\ program \in Tickless
    /\ Runs(Idle) /\ pc[Idle] = "app"
    /\ ExpectedIdleTime >= configEXPECTED_IDLE_TIME_BEFORE_SLEEP
    /\ Begin(Idle, SleepCall, "suspendAll")
    /\ UNCHANGED timeOuts

\* The time is sampled again, with the scheduler suspended.  SysTick counts
\* no more than xMaximumPossibleSuppressedTicks.
IdleSample ==
    /\ Runs(Idle) /\ pc[Idle] = "expect"
    /\ IF ExpectedIdleTime >= configEXPECTED_IDLE_TIME_BEFORE_SLEEP
       THEN /\ xTicksToWait' = [xTicksToWait EXCEPT
                  ![Idle] = IF ExpectedIdleTime > MaxSuppressed THEN MaxSuppressed
                                                                ELSE ExpectedIdleTime]
            /\ Goto(Idle, "confirm")
       ELSE Goto(Idle, "resumeAll") /\ UNCHANGED xTicksToWait
    /\ UNCHANGED <<lists, clockVars, schedVars, exit, xTimeOnEntering, overflowed, budget>>

\* Mutant: the last tick of the sleep is counted as well.
SuppressedTicksAll == 0 .. xTicksToWait[Idle]

\* The whole ticks the sleep may last: SysTick pends the last one itself.
SuppressedTicks == 0 .. xTicksToWait[Idle] - 1

\* vPortSuppressTicksAndSleep up to the wake-up: it gives up if
\* eTaskConfirmSleepModeStatus finds work, or else sleeps until SysTick has
\* counted the whole time, and its interrupt comes, or until another
\* interrupt, when n whole ticks have gone by.
Suppress ==
    /\ Runs(Idle) /\ pc[Idle] = "confirm"
    /\ IF xPendingReadyList # {} \/ xYieldPending \/ xPendedTicks # 0
       THEN /\ xTicksToWait' = [xTicksToWait EXCEPT ![Idle] = 0]
            /\ Goto(Idle, "resumeAll")
            /\ UNCHANGED xPendedTicks
       ELSE \E n \in SuppressedTicks :
               /\ xTicksToWait' = [xTicksToWait EXCEPT ![Idle] = n]
               /\ xPendedTicks' \in IF n = xTicksToWait[Idle] - 1 THEN {0, 1} ELSE {0}
               /\ Goto(Idle, "slept")
    /\ UNCHANGED <<lists, clockVars, pxCurrentTCB, uxSchedulerSuspended, xYieldPending,
                   pendSV, exit, xTimeOnEntering, overflowed, budget>>

\* vTaskStepTick makes up for the ticks that were suppressed.
vTaskStepTick ==
    /\ Runs(Idle) /\ pc[Idle] = "slept"
    /\ xTickCount' = xTickCount + xTicksToWait[Idle]
    /\ budget' = BudgetAfter(xTicksToWait[Idle])
    /\ xTicksToWait' = [xTicksToWait EXCEPT ![Idle] = 0]
    /\ Goto(Idle, "resumeAll")
    /\ UNCHANGED <<lists, xNextTaskUnblockTime, schedVars, exit, xTimeOnEntering, overflowed>>

-----------------------------------------------------------------------------
Interrupt ==
    \/ xPortSysTickHandler
    \/ vTaskSwitchContext
    \/ xTaskResumeFromISR
    \/ NotifyFromISR

\* What follows the first critical section of a call.
Window(t) ==
    \/ vTaskSuspendAll(t)
    \/ xTaskCheckForTimeOut(t)
    \/ DelayPlace(t)
    \/ WaitPlace(t)
    \/ xTaskResumeAll(t)
    \/ ReplayTick(t)
    \/ FinishResume(t)
    \/ portYIELD_WITHIN_API(t)
    \/ Look(t)
    \/ SuspendReset(t)

AppCall(t) ==
    \/ vTaskDelay(t)
    \/ Wait(t)
    \/ Poll(t)
    \/ vTaskSuspend(t)
    \/ vTaskResume(t)
    \/ start_task(t)
    \/ vTaskDelete(t)

IdleStep ==
    \/ prvCheckTasksWaitingTermination
    \/ IdleTest
    \/ IdleSample
    \/ Suppress
    \/ vTaskStepTick

Next ==
    \/ Interrupt
    \/ \E t \in Task : Window(t) \/ AppCall(t)
    \/ \E t \in Task, o \in Object : Notify(t, o)
    \/ \E t \in Task, next \in {"retry", "block"} : Stay(t, next)
    \/ \E t \in Task, n \in Time \ {0}, forever \in BOOLEAN : PollPlace(t, n, forever)
    \/ IdleStep

Spec == Init /\ [][Next]_vars

-----------------------------------------------------------------------------
\* Every task is in exactly one state list.
StateLists ==
    /\ ready \cup Delayed \cup xSuspendedTaskList = tasks
    /\ tasks \cap xTasksWaitingTermination = {}
    /\ ready \cap (Delayed \cup xSuspendedTaskList) = {}
    /\ Delayed \cap xSuspendedTaskList = {}
    /\ pxDelayedTaskList \cap pxOverflowDelayedTaskList = {}
    /\ \A t \in Task \ Delayed : wake[t] = 0

(* The two delayed lists hold the wake times of this turn of the tick count *)
(* and of the next, so that the list is empty when they are exchanged       *)
(* (taskSWITCH_DELAYED_LISTS asserts it), nobody in it is overdue, and the  *)
(* cached time is not later than the first wake time nor in the past        *)
(* (prvIdleTask asserts that).                                              *)
TickInv ==
    /\ StateLists
    /\ \A t \in pxDelayedTaskList : xTickCount < wake[t] /\ xNextTaskUnblockTime <= wake[t]
    /\ \A t \in pxOverflowDelayedTaskList : wake[t] < xTickCount
    /\ xTickCount <= xNextTaskUnblockTime

(* Outside the windows no ready task outranks the running one, whoever made *)
(* it ready: a tick, a replayed tick, an event, a resumption from a task or *)
(* from the handler.  And a task that has left the ready list goes on only  *)
(* as far as its yield.                                                     *)
HighestPriorityRuns ==
    ~pendSV =>
        IF pxCurrentTCB \in ready
        THEN \/ uxSchedulerSuspended \/ pc[pxCurrentTCB] \in {"replay", "yield"}
             \/ \A u \in ready : Prio[u] <= Prio[pxCurrentTCB]
        ELSE pc[pxCurrentTCB] \in {"resumeAll", "replay", "yield", "reset"}

\* The ticks a task of a delayed list still sleeps.
Left(t) == IF wake[t] > xTickCount THEN wake[t] - xTickCount ELSE wake[t] - xTickCount + Width

(* A wait with a limit ends for want of time when its ticks have gone by,   *)
(* not before and not after, however often it was woken for nothing,        *)
(* suspended or starved on the way and wherever the tick count wrapped.     *)
TimeLimit ==
    \A t \in Task :
        /\ exit[t] = "timeout" /\ budget[t] # Unattended => budget[t] = 0
        /\ Timed(t) /\ budget[t] # Unattended =>
            /\ pc[t] = "place" => budget[t] > 0 /\ xTicksToWait[t] = budget[t]
            /\ t \in Delayed => Left(t) = budget[t]

(* The kernel keeps time for its sleeping tasks as SleepClock says.         *)
Clock ==
    INSTANCE SleepClock WITH
        now <- xTickCount,
        left <- [t \in Task |-> IF t \in Delayed THEN Left(t) ELSE 0],
        stopped <- {t \in Task : IsTaskSuspended(t)}

ImplementsSleep == Clock!Spec
=============================================================================
