----------------------------- MODULE KernelQueue -----------------------------
(***************************************************************************)
(* One kernel queue (FreeRTOS_202012/queue.c) shared by tasks and interrupt *)
(* handlers, with the part of the scheduler (FreeRTOS_202012/tasks.c) that  *)
(* its blocking calls drive.                                                *)
(*                                                                          *)
(* A blocking call is a chain of critical sections; an interrupt can run    *)
(* between any two of them, so each critical section is one action.  Inside *)
(* the window opened by vTaskSuspendAll and prvLockQueue no other task runs *)
(* and interrupts may touch the stored items but not the event lists: they  *)
(* count what they did in cTxLock and cRxLock, and the unlock catches up.   *)
(*                                                                          *)
(* Abstractions.  The stored items are a sequence; the ring of bytes they   *)
(* live in is left out.  Time is what the calls can tell of it: a finite wait *)
(* is running until some tick makes it expired.  Event lists and ready list *)
(* are sets from which the kernel takes a task of highest priority; which   *)
(* one of several equal ones is left open.                                  *)
(***************************************************************************)
EXTENDS Integers, Sequences, FiniteSets

CONSTANTS
    Task,      \* the tasks created by the application, and the idle task
    Idle,      \* the idle task
    Prio,      \* Prio[t] is the uxPriority of task t
    Sender, Receiver,   \* the tasks whose code calls xQueueSend, xQueueReceive
    Handler,   \* what interrupt handlers do to the queue: of "send", "receive"
    Item,      \* the values that are sent
    NoItem,    \* no value
    Length,    \* uxLength
    LockMax    \* queueINT8_MAX: interrupts counted in one locked window

ASSUME QueueAssumption ==
    /\ IsFiniteSet(Task)
    /\ Idle \in Task
    /\ Prio \in [Task -> Nat]
    /\ \A t \in Task \ {Idle} : Prio[Idle] < Prio[t]
    /\ Sender \subseteq Task \ {Idle} /\ Receiver \subseteq Task \ {Idle}
    /\ NoItem \notin Item
    /\ Length \in Nat \ {0}
    /\ LockMax \in Nat

VARIABLES
    items,                    \* the queue storage; uxMessagesWaiting is Len(items)
    cRxLock, cTxLock,         \* queueUNLOCKED, or the interrupts counted so far
    xTasksWaitingToSend, xTasksWaitingToReceive,
    pxCurrentTCB, ready, xPendingReadyList,
    uxSchedulerSuspended,     \* the nesting never exceeds 1 here: a BOOLEAN
    xPendedTicks,             \* whether a tick fell in the suspended window
    xYieldPending, pendSV,    \* pendSV: the PendSV exception is pending
    pc, op, arg,              \* the call each task is in, and its item
    wait,                     \* xTicksToWait: "zero", "finite" or "forever"
    clock,                    \* the call's TimeOut_t: "off", "running", "expired"
    exit                      \* what follows the unlock: "block", "retry", "timeout"

queueVars == <<items, cRxLock, cTxLock>>
eventLists == <<xTasksWaitingToSend, xTasksWaitingToReceive>>
schedVars == <<pxCurrentTCB, ready, xPendingReadyList, uxSchedulerSuspended,
               xPendedTicks, xYieldPending, pendSV>>
callVars == <<pc, op, arg, wait, clock, exit>>
vars == <<queueVars, eventLists, schedVars, callVars>>

queueUNLOCKED == -1
queueLOCKED_UNMODIFIED == 0

PCs == {"app", "enter", "suspend", "lock", "check", "test", "place",
        "unlockTx", "unlockRx", "resume", "yield", "recheck",
        "delaySuspend", "delayPlace"}

TypeOK ==
    /\ items \in Seq(Item) /\ Len(items) <= Length
    /\ cRxLock \in queueUNLOCKED .. LockMax
    /\ cTxLock \in queueUNLOCKED .. LockMax
    /\ xTasksWaitingToSend \subseteq Task
    /\ xTasksWaitingToReceive \subseteq Task
    /\ pxCurrentTCB \in Task
    /\ ready \subseteq Task
    /\ xPendingReadyList \subseteq Task
    /\ uxSchedulerSuspended \in BOOLEAN
    /\ xPendedTicks \in BOOLEAN
    /\ xYieldPending \in BOOLEAN
    /\ pendSV \in BOOLEAN
    /\ pc \in [Task -> PCs]
    /\ op \in [Task -> {"none", "send", "receive", "delay"}]
    /\ arg \in [Task -> Item \cup {NoItem}]
    /\ \A t \in Task : op[t] = "send" => arg[t] \in Item
    /\ wait \in [Task -> {"zero", "finite", "forever"}]
    /\ clock \in [Task -> {"off", "running", "expired"}]
    /\ exit \in [Task -> {"none", "block", "retry", "timeout"}]

-----------------------------------------------------------------------------
(* Scheduler operations, as the queue functions call them. *)

\* The k tasks at the head of an event list ordered by priority (all of them
\* when there are fewer).
Heads(waiters, k) ==
    {W \in SUBSET waiters :
        /\ \/ Cardinality(W) = k
           \/ Cardinality(W) < k /\ W = waiters
        /\ \A w \in W, u \in waiters \ W : Prio[u] <= Prio[w]}

\* Some task of W outranks the running one.
Outranks(W) == \E w \in W : Prio[w] > Prio[pxCurrentTCB]

\* xTaskRemoveFromEventList for every task of W: straight to the ready list,
\* or to xPendingReadyList while the scheduler is suspended.
xTaskRemoveFromEventList(W) ==
    /\ IF uxSchedulerSuspended
       THEN xPendingReadyList' = xPendingReadyList \cup W /\ UNCHANGED ready
       ELSE ready' = ready \cup W /\ UNCHANGED xPendingReadyList
    /\ xYieldPending' = (xYieldPending \/ Outranks(W))

\* taskSELECT_HIGHEST_PRIORITY_TASK
HighestReady == {t \in ready : \A u \in ready : Prio[u] <= Prio[t]}

\* Code of task t executes: it is the current task and no switch is pending.
Runs(t) == pxCurrentTCB = t /\ ~pendSV

\* PendSV: while the scheduler is suspended the switch is only remembered.
vTaskSwitchContext ==
    /\ pendSV
    /\ pendSV' = FALSE
    /\ IF uxSchedulerSuspended
       THEN xYieldPending' = TRUE /\ UNCHANGED pxCurrentTCB
       ELSE xYieldPending' = FALSE /\ pxCurrentTCB' \in HighestReady
    /\ UNCHANGED <<queueVars, eventLists, ready, xPendingReadyList,
                   uxSchedulerSuspended, xPendedTicks, callVars>>

\* Mutant: portMAX_DELAY is a wait like any other.
ExpiringAll == {t \in Task : wait[t] # "zero" /\ clock[t] = "running"}

\* The calls whose finite wait a tick may bring to an end.
Expiring == {t \in Task : wait[t] = "finite" /\ clock[t] = "running"}

\* The ticks not yet processed end the waits of S: its tasks that sit in the
\* delayed list leave it, and their event list, for the ready list rdy.
Unblock(S, rdy) ==
    /\ clock' = [t \in Task |-> IF t \in S THEN "expired" ELSE clock[t]]
    /\ ready' = rdy \cup S
    /\ xTasksWaitingToSend' = xTasksWaitingToSend \ (S \ rdy)
    /\ xTasksWaitingToReceive' = xTasksWaitingToReceive \ (S \ rdy)

\* Mutant: an unblocked task preempts nobody.
SwitchRequiredSlicingOnly(S, rdy) ==
    \E u, v \in rdy \cup S :
        u # v /\ Prio[u] = Prio[pxCurrentTCB] /\ Prio[v] = Prio[pxCurrentTCB]

\* xTaskIncrementTick's return value: an unblocked task is no lower than the
\* running one, or the running one shares its priority (time slicing).
SwitchRequired(S, rdy) ==
    \/ \E w \in S \ rdy : Prio[w] >= Prio[pxCurrentTCB]
    \/ \E u, v \in rdy \cup S :
          u # v /\ Prio[u] = Prio[pxCurrentTCB] /\ Prio[v] = Prio[pxCurrentTCB]

\* The tick interrupt (xPortSysTickHandler).
xTaskIncrementTick ==
    /\ IF uxSchedulerSuspended
       THEN /\ xPendedTicks' = TRUE
            /\ UNCHANGED <<clock, ready, eventLists, pendSV>>
       ELSE /\ \E S \in SUBSET Expiring :
                  /\ Unblock(S, ready)
                  /\ pendSV' = (pendSV \/ xYieldPending \/ SwitchRequired(S, ready))
            /\ UNCHANGED xPendedTicks
    /\ UNCHANGED <<queueVars, pxCurrentTCB, xPendingReadyList,
                   uxSchedulerSuspended, xYieldPending, pc, op, arg, wait, exit>>

-----------------------------------------------------------------------------
(* The calls, one action per critical section. *)

\* An application task calls xQueueSend or xQueueReceive.
Call(t, o, i, w) ==
    /\ Runs(t) /\ pc[t] = "app"
    /\ pc' = [pc EXCEPT ![t] = "enter"]
    /\ op' = [op EXCEPT ![t] = o]
    /\ arg' = [arg EXCEPT ![t] = i]
    /\ wait' = [wait EXCEPT ![t] = w]
    /\ UNCHANGED <<queueVars, eventLists, schedVars, clock, exit>>

\* An application task calls vTaskDelay, for at least one tick.
CallDelay(t) ==
    /\ Runs(t) /\ pc[t] = "app" /\ t # Idle
    /\ pc' = [pc EXCEPT ![t] = "delaySuspend"]
    /\ op' = [op EXCEPT ![t] = "delay"]
    /\ wait' = [wait EXCEPT ![t] = "finite"]
    /\ UNCHANGED <<queueVars, eventLists, schedVars, arg, clock, exit>>

Return(t) ==
    /\ pc' = [pc EXCEPT ![t] = "app"]
    /\ op' = [op EXCEPT ![t] = "none"]
    /\ arg' = [arg EXCEPT ![t] = NoItem]
    /\ wait' = [wait EXCEPT ![t] = "zero"]
    /\ clock' = [clock EXCEPT ![t] = "off"]
    /\ exit' = [exit EXCEPT ![t] = "none"]

Goto(t, label) ==
    /\ pc' = [pc EXCEPT ![t] = label]
    /\ UNCHANGED <<op, arg>>

\* The call of t cannot go ahead: the queue is full, or empty.
Refused(t) ==
    \/ op[t] = "send" /\ Len(items) = Length
    \/ op[t] = "receive" /\ items = <<>>

\* A critical section of the running task has moved W out of an event list.
WakeFromTask(W) ==
    /\ xTaskRemoveFromEventList(W)
    /\ pendSV' = Outranks(W)
    /\ UNCHANGED <<pxCurrentTCB, uxSchedulerSuspended, xPendedTicks>>

\* The first critical section of xQueueGenericSend, when there is room.
SendPass(t) ==
    /\ Runs(t) /\ pc[t] = "enter" /\ op[t] = "send"
    /\ ~Refused(t)
    /\ items' = Append(items, arg[t])
    /\ \E W \in Heads(xTasksWaitingToReceive, 1) :
          /\ xTasksWaitingToReceive' = xTasksWaitingToReceive \ W
          /\ WakeFromTask(W)
    /\ Return(t)
    /\ UNCHANGED <<cRxLock, cTxLock, xTasksWaitingToSend>>

\* The first critical section of xQueueReceive, when there is an item.
ReceivePass(t) ==
    /\ Runs(t) /\ pc[t] = "enter" /\ op[t] = "receive"
    /\ ~Refused(t)
    /\ items' = Tail(items)
    /\ \E W \in Heads(xTasksWaitingToSend, 1) :
          /\ xTasksWaitingToSend' = xTasksWaitingToSend \ W
          /\ WakeFromTask(W)
    /\ Return(t)
    /\ UNCHANGED <<cRxLock, cTxLock, xTasksWaitingToReceive>>

\* The same critical section when the call is refused and may not wait.
EnterFail(t) ==
    /\ Runs(t) /\ pc[t] = "enter"
    /\ Refused(t) /\ wait[t] = "zero"
    /\ Return(t)
    /\ UNCHANGED <<queueVars, eventLists, schedVars>>

\* The same critical section when the call will wait: its clock starts once.
EnterWait(t) ==
    /\ Runs(t) /\ pc[t] = "enter"
    /\ Refused(t) /\ wait[t] # "zero"
    /\ clock' = [clock EXCEPT ![t] = IF @ = "off" THEN "running" ELSE @]
    /\ Goto(t, "suspend")
    /\ UNCHANGED <<queueVars, eventLists, schedVars, wait, exit>>

vTaskSuspendAll(t) ==
    /\ Runs(t) /\ pc[t] \in {"suspend", "delaySuspend"}
    /\ uxSchedulerSuspended' = TRUE
    /\ Goto(t, IF op[t] = "delay" THEN "delayPlace" ELSE "lock")
    /\ UNCHANGED <<queueVars, eventLists, pxCurrentTCB, ready, xPendingReadyList,
                   xPendedTicks, xYieldPending, pendSV, wait, clock, exit>>

LockIfUnlocked(lock) == IF lock = queueUNLOCKED THEN queueLOCKED_UNMODIFIED ELSE lock

\* Mutant: cRxLock is forgotten.
prvLockQueueTxOnly(t) ==
    /\ Runs(t) /\ pc[t] = "lock"
    /\ cTxLock' = LockIfUnlocked(cTxLock)
    /\ Goto(t, "check")
    /\ UNCHANGED <<items, cRxLock, eventLists, schedVars, wait, clock, exit>>

prvLockQueue(t) ==
    /\ Runs(t) /\ pc[t] = "lock"
    /\ cRxLock' = LockIfUnlocked(cRxLock)
    /\ cTxLock' = LockIfUnlocked(cTxLock)
    /\ Goto(t, "check")
    /\ UNCHANGED <<items, eventLists, schedVars, wait, clock, exit>>

\* An expired wait leaves the call no ticks for another round.
xTaskCheckForTimeOut(t) ==
    /\ Runs(t) /\ pc[t] = "check"
    /\ IF clock[t] = "expired"
       THEN /\ wait' = [wait EXCEPT ![t] = "zero"]
            /\ exit' = [exit EXCEPT ![t] = "timeout"]
            /\ Goto(t, "unlockTx")
       ELSE Goto(t, "test") /\ UNCHANGED <<wait, exit>>
    /\ UNCHANGED <<queueVars, eventLists, schedVars, clock>>

\* prvIsQueueFull or prvIsQueueEmpty, before the task is put to sleep.
TestBeforeBlocking(t) ==
    /\ Runs(t) /\ pc[t] = "test"
    /\ IF Refused(t)
       THEN Goto(t, "place") /\ UNCHANGED exit
       ELSE Goto(t, "unlockTx") /\ exit' = [exit EXCEPT ![t] = "retry"]
    /\ UNCHANGED <<queueVars, eventLists, schedVars, wait, clock>>

vTaskPlaceOnEventList(t) ==
    /\ Runs(t) /\ pc[t] = "place"
    /\ IF op[t] = "send"
       THEN /\ xTasksWaitingToSend' = xTasksWaitingToSend \cup {t}
            /\ UNCHANGED xTasksWaitingToReceive
       ELSE /\ xTasksWaitingToReceive' = xTasksWaitingToReceive \cup {t}
            /\ UNCHANGED xTasksWaitingToSend
    /\ ready' = ready \ {t}
    /\ exit' = [exit EXCEPT ![t] = "block"]
    /\ Goto(t, "unlockTx")
    /\ UNCHANGED <<queueVars, pxCurrentTCB, xPendingReadyList, uxSchedulerSuspended,
                   xPendedTicks, xYieldPending, pendSV, wait, clock>>

\* vTaskDelay: the task goes to the delayed list and to no event list.
DelayPlace(t) ==
    /\ Runs(t) /\ pc[t] = "delayPlace"
    /\ ready' = ready \ {t}
    /\ clock' = [clock EXCEPT ![t] = "running"]
    /\ exit' = [exit EXCEPT ![t] = "block"]
    /\ Goto(t, "resume")
    /\ UNCHANGED <<queueVars, eventLists, pxCurrentTCB, xPendingReadyList,
                   uxSchedulerSuspended, xPendedTicks, xYieldPending, pendSV, wait>>

\* Mutant: the count is cleared and nobody is woken.
UnlockTxSilent(t) ==
    /\ Runs(t) /\ pc[t] = "unlockTx"
    /\ cTxLock' = queueUNLOCKED
    /\ Goto(t, "unlockRx")
    /\ UNCHANGED <<items, cRxLock, eventLists, schedVars, wait, clock, exit>>

\* prvUnlockQueue, first critical section: one receiver is woken for every
\* item an interrupt posted while the queue was locked.
UnlockTx(t) ==
    /\ Runs(t) /\ pc[t] = "unlockTx"
    /\ \E W \in Heads(xTasksWaitingToReceive, cTxLock) :
          /\ xTasksWaitingToReceive' = xTasksWaitingToReceive \ W
          /\ xTaskRemoveFromEventList(W)
    /\ cTxLock' = queueUNLOCKED
    /\ Goto(t, "unlockRx")
    /\ UNCHANGED <<items, cRxLock, xTasksWaitingToSend, pxCurrentTCB,
                   uxSchedulerSuspended, xPendedTicks, pendSV, wait, clock, exit>>

\* Mutant: the same for senders.
UnlockRxSilent(t) ==
    /\ Runs(t) /\ pc[t] = "unlockRx"
    /\ cRxLock' = queueUNLOCKED
    /\ Goto(t, "resume")
    /\ UNCHANGED <<items, cTxLock, eventLists, schedVars, wait, clock, exit>>

\* prvUnlockQueue, second critical section: one sender for every item an
\* interrupt removed.
UnlockRx(t) ==
    /\ Runs(t) /\ pc[t] = "unlockRx"
    /\ \E W \in Heads(xTasksWaitingToSend, cRxLock) :
          /\ xTasksWaitingToSend' = xTasksWaitingToSend \ W
          /\ xTaskRemoveFromEventList(W)
    /\ cRxLock' = queueUNLOCKED
    /\ Goto(t, "resume")
    /\ UNCHANGED <<items, cTxLock, xTasksWaitingToReceive, pxCurrentTCB,
                   uxSchedulerSuspended, xPendedTicks, pendSV, wait, clock, exit>>

\* Mutant: no yield is made when xTaskResumeAll has made none.
AfterResumeNoYield(t, alreadyYielded) ==
    IF exit[t] = "timeout" THEN "recheck" ELSE "enter"

\* Where the call goes on when xTaskResumeAll has returned.
AfterResume(t, alreadyYielded) ==
    IF exit[t] = "timeout" THEN "recheck"
    ELSE IF exit[t] = "block" /\ ~alreadyYielded THEN "yield"
    ELSE "enter"

\* xTaskResumeAll: the tasks in xPendingReadyList become ready, the pended
\* ticks are replayed, and a yield that was held back is made.  A task that
\* has placed itself on an event list yields in any case.
xTaskResumeAll(t) ==
    /\ Runs(t) /\ pc[t] = "resume"
    /\ uxSchedulerSuspended' = FALSE
    /\ xPendingReadyList' = {}
    /\ xPendedTicks' = FALSE
    /\ \E S \in SUBSET Expiring :
          LET rdy == ready \cup xPendingReadyList
          IN  /\ ~xPendedTicks => S = {}
              /\ Unblock(S, rdy)
              /\ pendSV' = \/ xYieldPending
                           \/ \E p \in xPendingReadyList : Prio[p] >= Prio[t]
                           \/ xPendedTicks /\ SwitchRequired(S, rdy)
    /\ xYieldPending' = pendSV'
    /\ Goto(t, AfterResume(t, pendSV'))
    /\ exit' = [exit EXCEPT ![t] = "none"]
    /\ UNCHANGED <<queueVars, pxCurrentTCB, wait>>

\* portYIELD_WITHIN_API when xTaskResumeAll has not yielded.
portYIELD(t) ==
    /\ Runs(t) /\ pc[t] = "yield"
    /\ pendSV' = TRUE
    /\ Goto(t, "enter")
    /\ UNCHANGED <<queueVars, eventLists, pxCurrentTCB, ready, xPendingReadyList,
                   uxSchedulerSuspended, xPendedTicks, xYieldPending, wait, clock, exit>>

\* After a timeout xQueueGenericSend gives up; xQueueReceive looks once more
\* and starts over when an item has come in.
TimedOut(t) ==
    /\ Runs(t) /\ pc[t] = "recheck"
    /\ IF op[t] = "send" \/ Refused(t)
       THEN Return(t)
       ELSE Goto(t, "enter") /\ UNCHANGED <<wait, clock, exit>>
    /\ UNCHANGED <<queueVars, eventLists, schedVars>>

\* vTaskDelay returns when the task runs again.
DelayReturn(t) ==
    /\ Runs(t) /\ pc[t] = "enter" /\ op[t] = "delay"
    /\ Return(t)
    /\ UNCHANGED <<queueVars, eventLists, schedVars>>

-----------------------------------------------------------------------------
(* Interrupt handlers.  They yield when a woken task outranks the running *)
(* one, and may yield without need: the handlers of the demos leave the   *)
(* variable xHigherPriorityTaskWoken uninitialised.                       *)

\* One more interrupt has touched a locked queue.
Count(lock) == lock + 1

portYIELD_FROM_ISR(W) ==
    \E garbage \in BOOLEAN : pendSV' = (pendSV \/ Outranks(W) \/ garbage)

\* Mutant: the item goes to the front.
SendFromISRToFront(i) ==
    /\ Len(items) < Length
    /\ cTxLock = queueUNLOCKED
    /\ items' = <<i>> \o items
    /\ \E W \in Heads(xTasksWaitingToReceive, 1) :
          /\ xTasksWaitingToReceive' = xTasksWaitingToReceive \ W
          /\ xTaskRemoveFromEventList(W)
          /\ portYIELD_FROM_ISR(W)
    /\ UNCHANGED <<cRxLock, cTxLock, xTasksWaitingToSend, pxCurrentTCB,
                   uxSchedulerSuspended, xPendedTicks, callVars>>

\* xQueueGenericSendFromISR: there is room, and no task has the queue locked.
SendFromISR(i) ==
    /\ Len(items) < Length
    /\ cTxLock = queueUNLOCKED
    /\ items' = Append(items, i)
    /\ \E W \in Heads(xTasksWaitingToReceive, 1) :
          /\ xTasksWaitingToReceive' = xTasksWaitingToReceive \ W
          /\ xTaskRemoveFromEventList(W)
          /\ portYIELD_FROM_ISR(W)
    /\ UNCHANGED <<cRxLock, cTxLock, xTasksWaitingToSend, pxCurrentTCB,
                   uxSchedulerSuspended, xPendedTicks, callVars>>

\* The same while the queue is locked.
SendFromISRLocked(i) ==
    /\ Len(items) < Length
    /\ cTxLock # queueUNLOCKED /\ cTxLock < LockMax
    /\ items' = Append(items, i)
    /\ cTxLock' = Count(cTxLock)
    /\ portYIELD_FROM_ISR({})
    /\ UNCHANGED <<cRxLock, eventLists, pxCurrentTCB, ready, xPendingReadyList,
                   uxSchedulerSuspended, xPendedTicks, xYieldPending, callVars>>

\* xQueueReceiveFromISR: there is an item, and no task has the queue locked.
ReceiveFromISR ==
    /\ items # <<>>
    /\ cRxLock = queueUNLOCKED
    /\ items' = Tail(items)
    /\ \E W \in Heads(xTasksWaitingToSend, 1) :
          /\ xTasksWaitingToSend' = xTasksWaitingToSend \ W
          /\ xTaskRemoveFromEventList(W)
          /\ portYIELD_FROM_ISR(W)
    /\ UNCHANGED <<cRxLock, cTxLock, xTasksWaitingToReceive, pxCurrentTCB,
                   uxSchedulerSuspended, xPendedTicks, callVars>>

\* The same while the queue is locked.
ReceiveFromISRLocked ==
    /\ items # <<>>
    /\ cRxLock # queueUNLOCKED /\ cRxLock < LockMax
    /\ items' = Tail(items)
    /\ cRxLock' = Count(cRxLock)
    /\ portYIELD_FROM_ISR({})
    /\ UNCHANGED <<cTxLock, eventLists, pxCurrentTCB, ready, xPendingReadyList,
                   uxSchedulerSuspended, xPendedTicks, xYieldPending, callVars>>

\* Either function when the queue is full, or empty: nothing but the yield.
RefusedFromISR ==
    /\ \/ "send" \in Handler /\ Len(items) = Length
       \/ "receive" \in Handler /\ items = <<>>
    /\ portYIELD_FROM_ISR({})
    /\ UNCHANGED <<queueVars, eventLists, pxCurrentTCB, ready, xPendingReadyList,
                   uxSchedulerSuspended, xPendedTicks, xYieldPending, callVars>>

-----------------------------------------------------------------------------
\* The scheduler has been started and the creating task has deleted itself.
Init ==
    /\ items = <<>>
    /\ cRxLock = queueUNLOCKED /\ cTxLock = queueUNLOCKED
    /\ xTasksWaitingToSend = {} /\ xTasksWaitingToReceive = {}
    /\ ready = Task
    /\ pxCurrentTCB \in HighestReady
    /\ xPendingReadyList = {}
    /\ uxSchedulerSuspended = FALSE
    /\ xPendedTicks = FALSE
    /\ xYieldPending = FALSE
    /\ pendSV = FALSE
    /\ pc = [t \in Task |-> "app"]
    /\ op = [t \in Task |-> "none"]
    /\ arg = [t \in Task |-> NoItem]
    /\ wait = [t \in Task |-> "zero"]
    /\ clock = [t \in Task |-> "off"]
    /\ exit = [t \in Task |-> "none"]

\* The next step of a call in progress.
CallStep(t) ==
    \/ SendPass(t) \/ ReceivePass(t) \/ EnterFail(t) \/ EnterWait(t)
    \/ vTaskSuspendAll(t) \/ prvLockQueue(t)
    \/ xTaskCheckForTimeOut(t) \/ TestBeforeBlocking(t) \/ vTaskPlaceOnEventList(t)
    \/ UnlockTx(t) \/ UnlockRx(t) \/ xTaskResumeAll(t)
    \/ portYIELD(t) \/ TimedOut(t) \/ DelayPlace(t) \/ DelayReturn(t)

NewCall(t) ==
    \/ CallDelay(t)
    \/ \E w \in {"zero", "finite", "forever"} :
          \/ t \in Receiver /\ Call(t, "receive", NoItem, w)
          \/ t \in Sender /\ \E i \in Item : Call(t, "send", i, w)

Interrupt ==
    \/ xTaskIncrementTick
    \/ "receive" \in Handler /\ (ReceiveFromISR \/ ReceiveFromISRLocked)
    \/ "send" \in Handler /\ \E i \in Item : SendFromISR(i) \/ SendFromISRLocked(i)
    \/ RefusedFromISR

Next ==
    \/ vTaskSwitchContext
    \/ Interrupt
    \/ \E t \in Task : NewCall(t) \/ CallStep(t)

Spec == Init /\ [][Next]_vars

-----------------------------------------------------------------------------
(* Properties. *)

\* The tasks whose call o looks at the queue before it sleeps again: it is about
\* to enter its critical section, or has been woken while still unlocking.
WillLook(o) ==
    {t \in Task : /\ op[t] = o
                  /\ t \notin xTasksWaitingToSend \cup xTasksWaitingToReceive
                  /\ \/ pc[t] \in {"enter", "yield"}
                     \/ pc[t] \in {"unlockTx", "unlockRx", "resume"} /\ exit[t] = "block"}

CountedBy(lock) == IF lock = queueUNLOCKED THEN 0 ELSE lock

\* No lost wakeup: while receivers sleep, every stored item has a receiver on
\* its way to it, or a pending count that will wake one.
NoLostReceiver ==
    xTasksWaitingToReceive # {} =>
        Len(items) <= Cardinality(WillLook("receive")) + CountedBy(cTxLock)

\* The same for senders: every free slot has a sender on its way to it.
NoLostSender ==
    xTasksWaitingToSend # {} =>
        Length - Len(items) <= Cardinality(WillLook("send")) + CountedBy(cRxLock)

\* A task that has blocked itself executes nothing but the rest of the locked
\* window and the yield that takes it off the processor.
BlockedTaskDoesNotRun ==
    pxCurrentTCB \notin ready /\ ~pendSV =>
        \/ uxSchedulerSuspended
        \/ pc[pxCurrentTCB] = "yield"

\* Fixed-priority preemption: unless a switch is pending, or held back by a
\* suspended scheduler, no ready task outranks the running one.
HighestPriorityRuns ==
    ~pendSV /\ ~uxSchedulerSuspended =>
        \A t \in ready : Prio[t] <= Prio[pxCurrentTCB]

\* A call with portMAX_DELAY goes on until it has taken effect: no timeout, and
\* no failing return, before the step that moves its item.
EndsByMoving ==
    \A t \in Task : wait[t] = "forever" /\ wait'[t] # "forever" => items' # items
ForeverNeverFails == [][EndsByMoving]_vars

\* The queue implements BoundedQueue: items are neither lost, duplicated nor
\* reordered, and a call fails only after the queue has been in its way.  A
\* call's clock is started by its first refusal.
Abstract == INSTANCE BoundedQueue WITH
    buffer <- items,
    call <- [t \in Task |-> IF op[t] = "delay" THEN "none" ELSE op[t]],
    carried <- arg,
    patient <- [t \in Task |-> wait[t] = "forever"],
    refused <- [t \in Task |-> op[t] # "delay" /\ clock[t] # "off"]

ImplementsBoundedQueue == Abstract!Spec

\* The processor gives the tasks time between interrupts, and a switch that is
\* pending is made.
FairSpec ==
    /\ Spec
    /\ WF_vars(vTaskSwitchContext)
    /\ \A t \in Task : SF_vars(CallStep(t))

\* A receiver that outranks every other task gets through once an item is
\* there, asleep or not, unless somebody takes the last item first.
TopReceiverServed ==
    \A t \in Receiver :
        (\A u \in Task \ {t} : Prio[u] < Prio[t]) =>
            ((op[t] = "receive" /\ items # <<>>) ~> (op[t] = "none" \/ items = <<>>))

-----------------------------------------------------------------------------
(* The inductive invariant behind these properties. *)

Suspending ==
    {"lock", "check", "test", "place", "unlockTx", "unlockRx", "resume", "delayPlace"}

\* Only the running task can be inside the suspended window, and how far it
\* has got decides the scheduler's and the two locks' state.
WindowInv ==
    /\ \A t \in Task \ {pxCurrentTCB} : pc[t] \notin Suspending
    /\ uxSchedulerSuspended <=> pc[pxCurrentTCB] \in Suspending
    /\ cTxLock # queueUNLOCKED <=> pc[pxCurrentTCB] \in {"check", "test", "place", "unlockTx"}
    /\ cRxLock # queueUNLOCKED <=>
          pc[pxCurrentTCB] \in {"check", "test", "place", "unlockTx", "unlockRx"}
    /\ \A t \in Task : exit[t] # "none" <=> pc[t] \in {"unlockTx", "unlockRx", "resume"}

\* How far each call can have got.  The idle task makes none, and a delay is
\* never inside the part of the code that handles the queue.
CallInv ==
    /\ pc[Idle] = "app"
    /\ \A t \in Task : op[t] = "none" <=> pc[t] = "app"
    /\ \A t \in Task : op[t] # "send" => arg[t] = NoItem
    /\ \A t \in Task : pc[t] \in {"delaySuspend", "delayPlace"} => op[t] = "delay"
    /\ \A t \in Task : op[t] = "delay" =>
          \/ pc[t] \in {"delaySuspend", "delayPlace", "yield", "enter"}
          \/ pc[t] = "resume" /\ exit[t] = "block"

\* Where each task is: in the ready list, or on the event list of its call, or
\* between the two in xPendingReadyList.
ListInv ==
    /\ Idle \in ready
    /\ \A t \in xTasksWaitingToSend : op[t] = "send"
    /\ \A t \in xTasksWaitingToReceive : op[t] = "receive"
    /\ ready \cap (xTasksWaitingToSend \cup xTasksWaitingToReceive \cup xPendingReadyList) = {}
    /\ xPendingReadyList \cap (xTasksWaitingToSend \cup xTasksWaitingToReceive) = {}
    /\ ~uxSchedulerSuspended => xPendingReadyList = {}
    /\ \A t \in Task \ ready :
          \/ pc[t] = "enter" /\ (t = pxCurrentTCB => pendSV)
          \/ pc[t] = "yield"
          \/ pc[t] \in {"unlockTx", "unlockRx", "resume"} /\ exit[t] = "block"

\* A switch that is due is pending, or remembered until the scheduler resumes.
YieldInv ==
    \/ pendSV
    \/ uxSchedulerSuspended /\ xYieldPending
    \/ \A t \in ready : Prio[t] <= Prio[pxCurrentTCB]

\* Only a finite wait expires, and the timeout path has no ticks left.
ClockInv ==
    \A t \in Task :
        /\ pc[t] = "app" => wait[t] = "zero" /\ clock[t] = "off"
        /\ op[t] = "delay" => wait[t] = "finite"
        /\ clock[t] = "expired" => wait[t] # "forever"
        /\ exit[t] = "timeout" \/ pc[t] = "recheck" =>
              wait[t] = "zero" /\ clock[t] = "expired"

\* A task about to place itself on an event list has seen the queue refuse it:
\* what has changed since was counted in the lock.
PlaceInv ==
    \A t \in Task : pc[t] = "place" =>
        /\ op[t] = "receive" => Len(items) <= cTxLock
        /\ op[t] = "send" => Length - Len(items) <= cRxLock

IInv ==
    /\ TypeOK /\ WindowInv /\ CallInv /\ ListInv /\ YieldInv /\ ClockInv /\ PlaceInv
    /\ NoLostReceiver /\ NoLostSender
=============================================================================
