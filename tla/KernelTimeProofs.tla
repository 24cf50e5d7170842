-------------------------- MODULE KernelTimeProofs --------------------------
(***************************************************************************)
(* Theorems of KernelTicks and of KernelTimers, for all programs, tasks,    *)
(* priorities, timers and widths of the tick count.                         *)
(*                                                                          *)
(* TickInv and HighestPriorityRuns are not inductive: IInv adds who may be  *)
(* in a suspended window, how the running task may be out of the ready      *)
(* list, which requests for a switch are outstanding and how long the       *)
(* processor may sleep.                                                     *)
(*                                                                          *)
(* The timer service task is a task of the kernel: whatever it and the      *)
(* tasks that use timers do is a step of KernelTicks, so that the theorems  *)
(* on KernelTicks hold with software timers in use.  That every timer is    *)
(* called when it is due rests on DueInv, which says what each time in a    *)
(* list or a command means before and after the wrap, and on DaemonWaits:   *)
(* the daemon sleeps for its queue only.                                    *)
(***************************************************************************)
EXTENDS KernelTimers, SequenceTheorems, FiniteSetTheorems, TLAPS

\* The places of a call in which the scheduler is suspended.
Suspended == {"check", "place", "resumeAll", "expect", "confirm", "slept"}

\* Only the current task is in a suspended window or has interrupts masked.
Control ==
    /\ uxSchedulerSuspended = (pc[pxCurrentTCB] \in Suspended)
    /\ \A t \in Task \ {pxCurrentTCB} : pc[t] \notin Suspended \cup {"replay"}
    /\ \A t \in Task : pc[t] \in {"expect", "confirm", "slept"} => call[t].op = "sleep"

\* A task that waits for an event is asleep or suspended.
EventItems ==
    \A t \in Task : xEventListItem[t] # NULL => t \in Delayed \cup xSuspendedTaskList

\* The running task is ready, or about to give up the processor.
Leaving ==
    pxCurrentTCB \notin ready =>
        \/ pendSV /\ ~uxSchedulerSuspended
        \/ pc[pxCurrentTCB] \in {"resumeAll", "replay"} /\ exit[pxCurrentTCB] = "block"
        \/ pc[pxCurrentTCB] = "yield"
        \/ pc[pxCurrentTCB] = "reset" /\ call[pxCurrentTCB].task = pxCurrentTCB

\* A call that may still put its task to sleep has ticks left.
TicksLeft ==
    \A t \in Task :
        /\ call[t].op \in {"delay", "wait"} /\ exit[t] # "timeout" => xTicksToWait[t] > 0
        /\ exit[t] # "none" => pc[t] \in {"resumeAll", "replay", "yield"}

\* The processor sleeps no longer than to the next unblocking.
SleepEnds ==
    /\ pc[Idle] = "confirm" => xTickCount + xTicksToWait[Idle] <= xNextTaskUnblockTime
    /\ pc[Idle] = "slept" => xTickCount + xTicksToWait[Idle] < xNextTaskUnblockTime

\* A ready task that outranks the running one has had a switch asked for, and
\* a remembered request is acted on when the window closes.
Requested ==
    /\ pendSV \/ xYieldPending \/ \A u \in ready : Prio[u] <= Prio[pxCurrentTCB]
    /\ xYieldPending => pendSV \/ uxSchedulerSuspended \/ pc[pxCurrentTCB] = "replay"

IInv ==
    /\ TypeOK
    /\ TickInv
    /\ EventItems
    /\ Control
    /\ Leaving
    /\ TicksLeft
    /\ SleepEnds
    /\ Requested

-----------------------------------------------------------------------------
(* Facts about the definitions. *)

(* What the calls of a program carry.                                       *)
LEMMA CallFields ==
    ASSUME NEW c \in Call
    PROVE  /\ c.op \in {"delay", "wait", "poll", "notify", "suspend", "resume", "delete", "start"}
           /\ c.op \in {"delay", "wait"} => c.ticks \in Time \ {0}
           /\ c.op \in {"wait", "poll", "notify"} => c.on \in Object
           /\ c.op \in {"suspend", "resume", "delete"} => c.task \in Task
           /\ c.op = "start" => c.new \in SUBSET Task
BY DEF Call

(* The calls that are made are made by the running task, never by the idle  *)
(* task.                                                                    *)
LEMMA CallsMade ==
    ASSUME TypeOK, NEW t \in Task, NEW op, NEW c \in Calls(t, op)
    PROVE  c \in Call /\ c.op = op /\ Runs(t) /\ pc[t] = "app" /\ t # Idle
BY TicksAssumption DEF Calls, TypeOK

(* The tick count and the values derived from it stay in their width.       *)
LEMMA Widths ==
    /\ Width \in Nat /\ Width > 2 /\ 0 \in Time
    /\ portMAX_DELAY \in Time /\ portMAX_DELAY > 0
    /\ \A n \in Time : n \in Nat /\ n < Width /\ n <= portMAX_DELAY
    /\ Unattended \notin Time
BY TicksAssumption DEF portMAX_DELAY, Time, Unattended

LEMMA TicksAheadInTime ==
    ASSUME xTickCount \in Time, NEW n \in Time
    PROVE  /\ TicksAhead(n) \in Time
           /\ n > 0 => TicksAhead(n) # xTickCount
BY TicksAssumption DEF TicksAhead, Time

(* The cached time is one at which a delayed task is to wake, the first, or *)
(* the largest there is.                                                    *)
LEMMA SoonestIsFirst ==
    ASSUME wake \in [Task -> Time], NEW D \in SUBSET Task, NEW n \in Soonest(D)
    PROVE  /\ n \in Time
           /\ \A t \in D : n <= wake[t]
           /\ n = portMAX_DELAY \/ \E t \in D : wake[t] = n
BY DEF Soonest

-----------------------------------------------------------------------------
(* How the steps of the kernel change the lists and the clock. *)

ListTypes ==
    /\ program \in Program
    /\ tasks \subseteq Task /\ xTasksWaitingTermination \subseteq Task
    /\ ready \subseteq Task
    /\ pxDelayedTaskList \subseteq Task /\ pxOverflowDelayedTaskList \subseteq Task
    /\ xSuspendedTaskList \subseteq Task
    /\ xEventListItem \in [Task -> Object \cup {NULL, Pending}]
    /\ wake \in [Task -> Time]
    /\ xTickCount \in Time /\ xNextTaskUnblockTime \in Time

\* What the lists and the clock satisfy between any two steps.
ListInv == ListTypes /\ TickInv /\ EventItems

(* Tasks that sleep or are suspended are made ready, and the cached time is *)
(* kept, or brought up to date.                                             *)
LEMMA MakeReadyKeepsLists ==
    ASSUME ListInv, NEW S \in SUBSET (Delayed \cup xSuspendedTaskList), MakeReady(S),
           UNCHANGED <<program, xTickCount>>,
           xNextTaskUnblockTime' \in {xNextTaskUnblockTime} \cup Soonest(pxDelayedTaskList \ S)
    PROVE  ListInv'
<1>. USE DEF ListInv, ListTypes, taskVars
<1>1. S \subseteq Task
  BY DEF Delayed
<1>2. ListTypes'
  BY <1>1, Widths, SoonestIsFirst, TicksAssumption DEF MakeReady, Unlist
<1>3. StateLists'
  BY DEF TickInv, StateLists, MakeReady, Unlist, Delayed
<1>4. TickInv'
  <2>1. /\ xTickCount <= xNextTaskUnblockTime'
        /\ \A t \in pxDelayedTaskList \ S : xNextTaskUnblockTime' <= wake[t]
    BY SoonestIsFirst, Widths DEF TickInv
  <2>. QED BY <1>1, <1>3, <2>1 DEF TickInv, MakeReady, Unlist
<1>5. EventItems'
  BY <1>1 DEF EventItems, MakeReady, Unlist, Delayed
<1>. QED BY <1>2, <1>4, <1>5

(* A tick: the lists are exchanged when the count wraps.                    *)
LEMMA TickKeepsLists ==
    ASSUME ListInv, NEW switch \in BOOLEAN, CountTick(switch), UNCHANGED program
    PROVE  ListInv'
<1>. USE DEF ListInv, ListTypes, taskVars
<1>. DEFINE now == TicksAhead(1)
            wrapped == now = 0
            list == IF wrapped THEN pxOverflowDelayedTaskList ELSE pxDelayedTaskList
<1>1. now \in Time /\ (wrapped => xTickCount = Width - 1) /\ (~wrapped => now = xTickCount + 1)
  BY TicksAssumption, Widths DEF TicksAhead, Time
<1>2. wrapped => pxDelayedTaskList = {}
  BY <1>1, Widths DEF TickInv
<1>3. PICK next \in UnblockTime(wrapped, list) :
        LET woken == IF now >= next THEN {t \in list : wake[t] <= now} ELSE {}
        IN /\ xTickCount' = now
           /\ xNextTaskUnblockTime' \in IF now >= next THEN Soonest(list \ woken) ELSE {next}
           /\ pxDelayedTaskList' = list \ woken
           /\ pxOverflowDelayedTaskList' =
                 IF wrapped THEN pxDelayedTaskList ELSE pxOverflowDelayedTaskList
           /\ ready' = ready \cup woken
           /\ wake' = [t \in Task |-> IF t \in woken THEN 0 ELSE wake[t]]
           /\ xEventListItem' = [t \in Task |-> IF t \in woken THEN NULL ELSE xEventListItem[t]]
           /\ UNCHANGED <<taskVars, xSuspendedTaskList>>
  BY DEF CountTick
<1>. DEFINE woken == IF now >= next THEN {t \in list : wake[t] <= now} ELSE {}
<1>4. next \in Time /\ \A t \in list : next <= wake[t]
  BY <1>3, SoonestIsFirst DEF UnblockTime, TickInv
<1>5. \A t \in list \ woken : now < wake[t]
  BY <1>1, <1>4, Widths
<1>6. /\ xNextTaskUnblockTime' \in Time /\ now <= xNextTaskUnblockTime'
      /\ \A t \in list \ woken : xNextTaskUnblockTime' <= wake[t]
  BY <1>1, <1>3, <1>4, <1>5, SoonestIsFirst, Widths
<1>. HIDE DEF now
<1>7. ListTypes'
  BY <1>1, <1>3, <1>6, Widths
<1>8. StateLists'
  BY <1>2, <1>3 DEF TickInv, StateLists, Delayed
<1>9. TickInv'
  BY <1>1, <1>2, <1>3, <1>5, <1>6, <1>8, Widths DEF TickInv
<1>10. EventItems'
  BY <1>2, <1>3 DEF EventItems, Delayed
<1>. QED BY <1>7, <1>9, <1>10

(* The current task puts itself to sleep.                                   *)
LEMMA SleepKeepsLists ==
    ASSUME ListInv, NEW t \in Task, t \in ready, NEW n \in Time \ {0}, NEW forever \in BOOLEAN,
           AddToDelayedList(t, n, forever),
           xEventListItem' \in {[xEventListItem EXCEPT ![t] = o] : o \in Object \cup {NULL}},
           UNCHANGED <<program, taskVars, xTickCount>>
    PROVE  ListInv'
<1>. USE DEF ListInv, ListTypes, taskVars
<1>. DEFINE time == TicksAhead(n)
<1>1. time \in Time /\ time # xTickCount
  <2>1. n \in Time /\ n > 0
    BY Widths
  <2>. QED BY <2>1, TicksAheadInTime
<1>2. t \notin Delayed /\ t \notin xSuspendedTaskList
  BY DEF TickInv, StateLists
<1>3. ListTypes'
  BY <1>1 DEF AddToDelayedList
<1>4. StateLists'
  BY <1>1, <1>2 DEF TickInv, StateLists, AddToDelayedList, Delayed
<1>5. TickInv'
  BY <1>1, <1>2, <1>4, Widths DEF TickInv, AddToDelayedList, Delayed
<1>6. EventItems'
  BY DEF EventItems, AddToDelayedList, Delayed
<1>. QED BY <1>3, <1>5, <1>6

(* A task, not yet awake, is put in the list of pending tasks.              *)
LEMMA PendingKeepsLists ==
    ASSUME ListInv, NEW w \in Delayed \cup xSuspendedTaskList,
           xEventListItem' = [xEventListItem EXCEPT ![w] = Pending],
           UNCHANGED <<program, taskVars, ready, pxDelayedTaskList, pxOverflowDelayedTaskList,
                       xSuspendedTaskList, wake, clockVars>>
    PROVE  ListInv'
<1>. USE DEF ListInv, ListTypes, taskVars, clockVars
<1>1. ListTypes'
  OBVIOUS
<1>2. TickInv'
  BY DEF TickInv, StateLists, Delayed
<1>3. EventItems'
  BY DEF EventItems, Delayed
<1>. QED BY <1>1, <1>2, <1>3

(* A task of the program is suspended.                                      *)
LEMMA SuspendKeepsLists ==
    ASSUME ListInv, NEW u \in tasks,
           Unlist({u}), ready' = ready \ {u},
           xSuspendedTaskList' = xSuspendedTaskList \cup {u},
           xEventListItem' = [xEventListItem EXCEPT ![u] = NULL],
           UNCHANGED <<program, taskVars, clockVars>>
    PROVE  ListInv'
<1>. USE DEF ListInv, ListTypes, taskVars, clockVars
<1>1. ListTypes'
  BY Widths DEF Unlist
<1>2. StateLists'
  BY DEF TickInv, StateLists, Unlist, Delayed
<1>3. TickInv'
  BY <1>2 DEF TickInv, Unlist
<1>4. EventItems'
  BY DEF EventItems, Unlist, Delayed
<1>. QED BY <1>1, <1>3, <1>4

(* The clock is made up, short of the next unblocking.                      *)
LEMMA StepTickKeepsLists ==
    ASSUME ListInv, NEW n \in Nat, xTickCount + n < xNextTaskUnblockTime,
           xTickCount' = xTickCount + n, UNCHANGED <<program, lists, xNextTaskUnblockTime>>
    PROVE  ListInv'
<1>. USE DEF ListInv, ListTypes, lists, taskVars
<1>1. ListTypes'
  BY TicksAssumption DEF Time
<1>2. StateLists'
  BY DEF TickInv, StateLists, Delayed
<1>3. TickInv'
  BY <1>2, Widths DEF TickInv
<1>4. EventItems'
  BY DEF EventItems, Delayed
<1>. QED BY <1>1, <1>3, <1>4

(* Tasks are created, and the running one deletes itself.                   *)
LEMMA StartKeepsLists ==
    ASSUME ListInv, NEW t \in ready, NEW new \in SUBSET Task,
           new \cap (tasks \cup xTasksWaitingTermination) = {},
           tasks' = (tasks \cup new) \ {t}, ready' = (ready \cup new) \ {t},
           xTasksWaitingTermination' = xTasksWaitingTermination \cup {t},
           UNCHANGED <<program, pxDelayedTaskList, pxOverflowDelayedTaskList,
                       xSuspendedTaskList, xEventListItem, wake, clockVars>>
    PROVE  ListInv'
<1>. USE DEF ListInv, ListTypes, clockVars
<1>1. ListTypes'
  OBVIOUS
<1>2. StateLists'
  BY DEF TickInv, StateLists, Delayed
<1>3. TickInv'
  BY <1>2 DEF TickInv
<1>4. EventItems'
  BY DEF EventItems, Delayed
<1>. QED BY <1>1, <1>3, <1>4

(* A task is deleted by another.                                            *)
LEMMA DeleteKeepsLists ==
    ASSUME ListInv, NEW u \in tasks,
           Unlist({u}), tasks' = tasks \ {u}, ready' = ready \ {u},
           xSuspendedTaskList' = xSuspendedTaskList \ {u},
           xEventListItem' = [xEventListItem EXCEPT ![u] = NULL],
           xNextTaskUnblockTime' \in Soonest(pxDelayedTaskList \ {u}),
           UNCHANGED <<program, xTasksWaitingTermination, xTickCount>>
    PROVE  ListInv'
<1>. USE DEF ListInv, ListTypes
<1>1. ListTypes'
  BY Widths, SoonestIsFirst DEF Unlist
<1>2. StateLists'
  BY DEF TickInv, StateLists, Unlist, Delayed
<1>3. TickInv'
  <2>1. /\ xTickCount <= xNextTaskUnblockTime'
        /\ \A t \in pxDelayedTaskList \ {u} : xNextTaskUnblockTime' <= wake[t]
    BY SoonestIsFirst, Widths DEF TickInv
  <2>. QED BY <1>2, <2>1 DEF TickInv, Unlist
<1>4. EventItems'
  BY DEF EventItems, Unlist, Delayed
<1>. QED BY <1>1, <1>3, <1>4

LEMMA SameKeepsLists ==
    ASSUME ListInv, UNCHANGED <<program, lists, clockVars>>
    PROVE  ListInv'
BY DEF ListInv, ListTypes, TickInv, StateLists, EventItems, Delayed, lists, taskVars, clockVars

(* An event list holds tasks that are asleep or suspended.                  *)
LEMMA FirstWaits ==
    ASSUME TypeOK, EventItems, NEW o \in Object, NEW w \in First(o)
    PROVE  w \in Delayed \cup xSuspendedTaskList /\ w \in Task
BY TicksAssumption DEF First, EventItems

(* A task that a resumption would wake is suspended.                        *)
LEMMA DeliverKeepsLists ==
    ASSUME ListInv, NEW w \in Delayed \cup xSuspendedTaskList, Deliver(w), UNCHANGED program
    PROVE  ListInv'
<1>1. CASE uxSchedulerSuspended
  BY <1>1, PendingKeepsLists DEF Deliver, clockVars
<1>2. CASE ~uxSchedulerSuspended
  <2>1. MakeReady({w}) /\ UNCHANGED xTickCount
    BY <1>2 DEF Deliver
  <2>2. xNextTaskUnblockTime' \in {xNextTaskUnblockTime} \cup Soonest(pxDelayedTaskList \ {w})
    BY <1>2 DEF Deliver
  <2>. QED BY <2>1, <2>2, MakeReadyKeepsLists
<1>. QED BY <1>1, <1>2

-----------------------------------------------------------------------------
(* Every step keeps the lists and the clock in order. *)

LEMMA ListsStep ==
    ASSUME IInv, [Next]_vars
    PROVE  ListInv'
<1>1. ListInv /\ TypeOK
  BY DEF IInv, ListInv, ListTypes, TypeOK
<1>2. ASSUME UNCHANGED <<program, lists, clockVars>> PROVE ListInv'
  BY <1>1, <1>2, SameKeepsLists
<1>3. CASE UNCHANGED vars
  BY <1>2, <1>3 DEF vars
<1>4. CASE xPortSysTickHandler
  <2>1. CASE uxSchedulerSuspended
    BY <1>2, <1>4, <2>1 DEF xPortSysTickHandler
  <2>2. CASE ~uxSchedulerSuspended
    <3>1. PICK switch \in BOOLEAN : CountTick(switch)
      BY <1>4, <2>2 DEF xPortSysTickHandler
    <3>. QED BY <1>1, <1>4, <3>1, TickKeepsLists DEF xPortSysTickHandler
  <2>. QED BY <2>1, <2>2
<1>5. CASE vTaskSwitchContext
  BY <1>2, <1>5 DEF vTaskSwitchContext
<1>6. CASE xTaskResumeFromISR
  <2>1. PICK c \in Handles[program] :
          /\ c.op = "resume" /\ IsTaskSuspended(c.task)
          /\ IF uxSchedulerSuspended
             THEN /\ xEventListItem' = [xEventListItem EXCEPT ![c.task] = Pending]
                  /\ UNCHANGED <<taskVars, ready, pxDelayedTaskList,
                                 pxOverflowDelayedTaskList, xSuspendedTaskList, wake>>
             ELSE MakeReady({c.task})
          /\ UNCHANGED <<program, clockVars>>
    BY <1>6 DEF xTaskResumeFromISR
  <2>2. c.task \in Delayed \cup xSuspendedTaskList
    BY <2>1 DEF IsTaskSuspended
  <2>3. CASE uxSchedulerSuspended
    BY <1>1, <2>1, <2>2, <2>3, PendingKeepsLists
  <2>4. CASE ~uxSchedulerSuspended
    BY <1>1, <2>1, <2>2, <2>4, MakeReadyKeepsLists DEF clockVars
  <2>. QED BY <2>3, <2>4
<1>7. CASE NotifyFromISR
  <2>1. PICK c \in Handles[program] :
          /\ c.op = "notify"
          /\ \E w \in First(c.on) : Deliver(w)
          /\ UNCHANGED program
    BY <1>7 DEF NotifyFromISR
  <2>2. c.on \in Object
    BY <1>1, <2>1, TicksAssumption, CallFields DEF TypeOK
  <2>. QED BY <1>1, <2>1, <2>2, FirstWaits, DeliverKeepsLists DEF ListInv
<1>8. ASSUME NEW t \in Task,
             \/ vTaskSuspendAll(t) \/ xTaskCheckForTimeOut(t) \/ FinishResume(t)
             \/ portYIELD_WITHIN_API(t) \/ Look(t)
      PROVE  ListInv'
  BY <1>2, <1>8 DEF vTaskSuspendAll, xTaskCheckForTimeOut, FinishResume, Continue,
     portYIELD_WITHIN_API, Look, Goto, Return
<1>9. ASSUME NEW t \in Task, vTaskDelay(t) \/ Wait(t) \/ Poll(t)
      PROVE  ListInv'
  BY <1>2, <1>9 DEF vTaskDelay, Wait, Poll, Begin
<1>10. ASSUME NEW t \in Task, NEW next \in {"retry", "block"}, Stay(t, next)
       PROVE  ListInv'
  BY <1>2, <1>10 DEF Stay, Goto
<1>11. CASE IdleTest \/ IdleSample \/ Suppress
  BY <1>2, <1>11 DEF IdleTest, IdleSample, Suppress, Begin, Goto, clockVars
<1>12. ASSUME NEW t \in Task, Runs(t), pc[t] = "place"
       PROVE  t \in ready
  BY <1>12 DEF IInv, Leaving, Control, Runs, Suspended
<1>13. ASSUME NEW t \in Task, DelayPlace(t)
       PROVE  ListInv'
  <2>1. t \in ready /\ xTicksToWait[t] \in Time \ {0}
    BY <1>1, <1>12, <1>13, Widths DEF DelayPlace, IInv, TypeOK, TicksLeft
  <2>. QED BY <1>1, <1>13, <2>1, SleepKeepsLists DEF DelayPlace, Place, Goto
<1>14. ASSUME NEW t \in Task, WaitPlace(t)
       PROVE  ListInv'
  <2>1. t \in ready /\ xTicksToWait[t] \in Time \ {0}
    BY <1>1, <1>12, <1>14, Widths DEF WaitPlace, IInv, TypeOK, TicksLeft
  <2>2. call[t].on \in Object
    BY <1>1, <1>14, CallFields DEF WaitPlace, TypeOK, NoCall, SleepCall
  <2>3. Place(t, call[t].on, xTicksToWait[t], TRUE)
    BY <1>14 DEF WaitPlace
  <2>. QED BY <1>1, <2>1, <2>2, <2>3, SleepKeepsLists DEF Place, Goto
<1>15. ASSUME NEW t \in Task, NEW n \in Time \ {0}, NEW forever \in BOOLEAN,
              PollPlace(t, n, forever)
       PROVE  ListInv'
  <2>1. t \in ready /\ (IF forever THEN portMAX_DELAY ELSE n) \in Time \ {0}
    BY <1>12, <1>15, Widths DEF PollPlace
  <2>2. call[t].on \in Object
    BY <1>1, <1>15, CallFields DEF PollPlace, TypeOK, NoCall, SleepCall
  <2>3. Place(t, call[t].on, IF forever THEN portMAX_DELAY ELSE n, forever)
    BY <1>15 DEF PollPlace
  <2>. QED BY <1>1, <2>1, <2>2, <2>3, SleepKeepsLists DEF Place, Goto
<1>16. ASSUME NEW t \in Task, xTaskResumeAll(t)
       PROVE  ListInv'
  <2>1. xPendingReadyList \in SUBSET (Delayed \cup xSuspendedTaskList)
    BY TicksAssumption DEF IInv, EventItems, xPendingReadyList
  <2>2. xNextTaskUnblockTime' \in {xNextTaskUnblockTime}
                                  \cup Soonest(pxDelayedTaskList \ xPendingReadyList)
    BY <1>16 DEF xTaskResumeAll
  <2>. QED BY <1>1, <1>16, <2>1, <2>2, MakeReadyKeepsLists DEF xTaskResumeAll, Goto
<1>17. ASSUME NEW t \in Task, ReplayTick(t)
       PROVE  ListInv'
  <2>1. PICK switch \in BOOLEAN : CountTick(switch)
    BY <1>17 DEF ReplayTick
  <2>. QED BY <1>1, <1>17, <2>1, TickKeepsLists DEF ReplayTick
<1>18. ASSUME NEW t \in Task, NEW o \in Object, Notify(t, o)
       PROVE  ListInv'
  BY <1>1, <1>18, FirstWaits, DeliverKeepsLists DEF Notify, ListInv
<1>19. ASSUME NEW t \in Task, vTaskSuspend(t)
       PROVE  ListInv'
  <2>1. PICK c \in Calls(t, "suspend") :
          /\ c.task \in tasks
          /\ Unlist({c.task}) /\ ready' = ready \ {c.task}
          /\ xSuspendedTaskList' = xSuspendedTaskList \cup {c.task}
          /\ xEventListItem' = [xEventListItem EXCEPT ![c.task] = NULL]
          /\ UNCHANGED <<program, taskVars, clockVars>>
    BY <1>19 DEF vTaskSuspend
  <2>. QED BY <1>1, <2>1, SuspendKeepsLists
<1>20. ASSUME NEW t \in Task, SuspendReset(t)
       PROVE  ListInv'
  <2>1. xNextTaskUnblockTime' \in Soonest(pxDelayedTaskList)
    BY <1>20 DEF SuspendReset
  <2>2. UNCHANGED <<program, lists, xTickCount>>
    BY <1>20 DEF SuspendReset, Goto, Return
  <2>3. /\ xNextTaskUnblockTime' \in Time /\ xTickCount <= xNextTaskUnblockTime'
        /\ \A u \in pxDelayedTaskList : xNextTaskUnblockTime' <= wake[u]
    BY <1>1, <2>1, SoonestIsFirst, Widths DEF ListInv, ListTypes, TickInv
  <2>. QED BY <1>1, <2>2, <2>3 DEF ListInv, ListTypes, TickInv, StateLists, EventItems,
              Delayed, lists, taskVars
<1>21. ASSUME NEW t \in Task, vTaskResume(t)
       PROVE  ListInv'
  <2>1. PICK c \in Calls(t, "resume") : /\ IsTaskSuspended(c.task) /\ MakeReady({c.task})
                                        /\ UNCHANGED <<program, clockVars>>
    BY <1>21 DEF vTaskResume
  <2>. QED BY <1>1, <2>1, MakeReadyKeepsLists DEF IsTaskSuspended, clockVars
<1>22. CASE vTaskStepTick
  <2>1. xTicksToWait[Idle] \in Nat
    BY <1>1, Widths, TicksAssumption DEF TypeOK
  <2>2. xTickCount + xTicksToWait[Idle] < xNextTaskUnblockTime
    BY <1>22 DEF vTaskStepTick, IInv, SleepEnds
  <2>. QED BY <1>1, <1>22, <2>1, <2>2, StepTickKeepsLists DEF vTaskStepTick, Goto
<1>23. ASSUME NEW t \in Task, start_task(t)
       PROVE  ListInv'
  <2>1. PICK c \in Calls(t, "start") :
          /\ c.new \cap (tasks \cup xTasksWaitingTermination) = {}
          /\ tasks' = (tasks \cup c.new) \ {t} /\ ready' = (ready \cup c.new) \ {t}
          /\ xTasksWaitingTermination' = xTasksWaitingTermination \cup {t}
          /\ UNCHANGED <<program, pxDelayedTaskList, pxOverflowDelayedTaskList,
                         xSuspendedTaskList, xEventListItem, wake, clockVars>>
    BY <1>23 DEF start_task
  <2>2. c.new \in SUBSET Task /\ Runs(t) /\ pc[t] = "app"
    BY <1>1, <2>1, CallsMade, CallFields
  <2>3. t \in ready
    BY <1>1, <2>2 DEF IInv, Leaving, Runs
  <2>. QED BY <1>1, <2>1, <2>2, <2>3, StartKeepsLists
<1>24. ASSUME NEW t \in Task, vTaskDelete(t)
       PROVE  ListInv'
  <2>1. PICK c \in Calls(t, "delete") :
          /\ c.task \in tasks
          /\ Unlist({c.task}) /\ tasks' = tasks \ {c.task} /\ ready' = ready \ {c.task}
          /\ xSuspendedTaskList' = xSuspendedTaskList \ {c.task}
          /\ xEventListItem' = [xEventListItem EXCEPT ![c.task] = NULL]
          /\ xNextTaskUnblockTime' \in Soonest(pxDelayedTaskList \ {c.task})
          /\ UNCHANGED <<program, xTasksWaitingTermination, xTickCount>>
    BY <1>24 DEF vTaskDelete, Return
  <2>. QED BY <1>1, <2>1, DeleteKeepsLists
<1>25. CASE prvCheckTasksWaitingTermination
  BY <1>1, <1>25 DEF prvCheckTasksWaitingTermination, ListInv, ListTypes, TickInv, StateLists,
                     EventItems, Delayed, clockVars
<1>. QED BY <1>3, <1>4, <1>5, <1>6, <1>7, <1>8, <1>9, <1>10, <1>11, <1>13, <1>14, <1>15,
            <1>16, <1>17, <1>18, <1>19, <1>20, <1>21, <1>22, <1>23, <1>24, <1>25
         DEF Next, Interrupt, Window, AppCall, IdleStep

-----------------------------------------------------------------------------
(* Every step keeps the rest of IInv. *)

(* The history of a wait stays in its range.                                *)
LEMMA BudgetInRange ==
    ASSUME TypeOK, NEW n \in Nat
    PROVE  BudgetAfter(n) \in [Task -> Time \cup {Unattended}]
BY Widths DEF BudgetAfter, TypeOK, Time

(* What a tick does besides the lists.                                      *)
LEMMA TickTypes ==
    ASSUME TypeOK, NEW switch \in BOOLEAN, CountTick(switch)
    PROVE  /\ overflowed' \in [Task -> BOOLEAN]
           /\ budget' \in [Task -> Time \cup {Unattended}]
           /\ UNCHANGED <<xTicksToWait, xTimeOnEntering>>
BY BudgetInRange DEF CountTick, TypeOK

\* The part of TypeOK that is about the calls.
CallTypes ==
    /\ pc \in [Task -> PCs]
    /\ call \in [Task -> Call \cup {NoCall, SleepCall}]
    /\ exit \in [Task -> {"none", "block", "retry", "timeout"}]
    /\ xTicksToWait \in [Task -> Time] /\ xTimeOnEntering \in [Task -> Time]
    /\ overflowed \in [Task -> BOOLEAN]
    /\ budget \in [Task -> Time \cup {Unattended}]

(* A call that returns, or goes on after its window, keeps its types.       *)
LEMMA ReturnTypes ==
    ASSUME TypeOK, NEW t \in Task, Return(t) \/ Continue(t)
    PROVE  CallTypes'
<1>1. CASE Return(t)
  BY <1>1, Widths DEF Return, TypeOK, CallTypes, PCs
<1>2. CASE Continue(t)
  BY <1>1, <1>2 DEF Continue, Goto, TypeOK, CallTypes, PCs, timeOuts
<1>. QED BY <1>1, <1>2

LEMMA TypeStep ==
    ASSUME IInv, [Next]_vars
    PROVE  TypeOK'
<1>1. TypeOK /\ ListTypes'
  BY ListsStep DEF IInv, ListInv, TypeOK
<1>. USE DEF TypeOK, ListTypes, PCs
<1>2. CASE UNCHANGED vars
  BY <1>1, <1>2 DEF vars, schedVars, timeOuts
<1>3. CASE xPortSysTickHandler
  <2>1. CASE uxSchedulerSuspended
    BY <1>1, <1>3, <2>1 DEF xPortSysTickHandler, timeOuts
  <2>2. CASE ~uxSchedulerSuspended
    <3>1. PICK switch \in BOOLEAN : CountTick(switch) /\ pendSV' = (pendSV \/ switch \/ xYieldPending)
      BY <1>3, <2>2 DEF xPortSysTickHandler
    <3>. QED BY <1>1, <1>3, <2>2, <3>1, TickTypes DEF xPortSysTickHandler
  <2>. QED BY <2>1, <2>2
<1>4. CASE vTaskSwitchContext
  BY <1>1, <1>4 DEF vTaskSwitchContext, HighestReady, timeOuts
<1>5. CASE xTaskResumeFromISR
  BY <1>1, <1>5 DEF xTaskResumeFromISR, timeOuts
<1>6. CASE NotifyFromISR
  BY <1>1, <1>6 DEF NotifyFromISR, Deliver, timeOuts
<1>7. ASSUME NEW t \in Task, vTaskSuspendAll(t)
      PROVE  TypeOK'
  BY <1>1, <1>7 DEF vTaskSuspendAll, Goto, timeOuts
<1>8. ASSUME NEW t \in Task, xTaskCheckForTimeOut(t)
      PROVE  TypeOK'
  <2>1. Elapsed(t) \in Nat
    BY <1>1, Widths DEF Elapsed, Time
  <2>2. ~(Elapsed(t) >= xTicksToWait[t]) => Remaining(t) \in Time
    BY <1>1, <2>1, Widths DEF Remaining, Time
  <2>3. CASE xTicksToWait[t] = portMAX_DELAY
    BY <1>1, <1>8, <2>3 DEF xTaskCheckForTimeOut, Goto, schedVars, timeOuts
  <2>4. CASE /\ xTicksToWait[t] # portMAX_DELAY
             /\ WentRound(t) \/ Elapsed(t) >= xTicksToWait[t]
    BY <1>1, <1>8, <2>4, Widths DEF xTaskCheckForTimeOut, Goto, schedVars
  <2>5. CASE /\ xTicksToWait[t] # portMAX_DELAY
             /\ ~(WentRound(t) \/ Elapsed(t) >= xTicksToWait[t])
    <3>1. Remaining(t) \in Time
      BY <2>2, <2>5
    <3>2. /\ xTicksToWait' = [xTicksToWait EXCEPT ![t] = Remaining(t)]
          /\ xTimeOnEntering' = [xTimeOnEntering EXCEPT ![t] = xTickCount]
          /\ overflowed' = [overflowed EXCEPT ![t] = FALSE]
          /\ pc' = [pc EXCEPT ![t] = "place"]
          /\ UNCHANGED <<call, exit, budget, schedVars>>
      BY <1>8, <2>5 DEF xTaskCheckForTimeOut, Goto
    <3>. QED BY <1>1, <3>1, <3>2 DEF schedVars
  <2>. QED BY <2>3, <2>4, <2>5
<1>9. ASSUME NEW t \in Task, NEW o, NEW n, NEW forever, Place(t, o, n, forever)
      PROVE  TypeOK'
  BY <1>1, <1>9 DEF Place, Goto, schedVars, timeOuts
<1>10. ASSUME NEW t \in Task, xTaskResumeAll(t)
       PROVE  TypeOK'
  BY <1>1, <1>10 DEF xTaskResumeAll, Goto, timeOuts
<1>11. ASSUME NEW t \in Task, ReplayTick(t)
       PROVE  TypeOK'
  <2>1. PICK switch \in BOOLEAN : CountTick(switch) /\ xYieldPending' = (xYieldPending \/ switch)
    BY <1>11 DEF ReplayTick
  <2>. QED BY <1>1, <1>11, <2>1, TickTypes DEF ReplayTick
<1>12. ASSUME NEW t \in Task, FinishResume(t)
       PROVE  TypeOK'
  <2>1. CallTypes'
    BY <1>1, <1>12, ReturnTypes DEF FinishResume, CallTypes, Goto, timeOuts
  <2>. QED BY <1>1, <1>12, <2>1 DEF FinishResume, CallTypes
<1>13. ASSUME NEW t \in Task, portYIELD_WITHIN_API(t)
       PROVE  TypeOK'
  <2>1. CallTypes'
    BY <1>1, <1>13, ReturnTypes DEF portYIELD_WITHIN_API, CallTypes, Goto, timeOuts
  <2>. QED BY <1>1, <1>13, <2>1 DEF portYIELD_WITHIN_API, CallTypes
<1>14. ASSUME NEW t \in Task, Look(t)
       PROVE  TypeOK'
  <2>1. CallTypes'
    BY <1>1, <1>14, ReturnTypes DEF Look, CallTypes, Goto, timeOuts
  <2>. QED BY <1>1, <1>14, <2>1 DEF Look, CallTypes, schedVars
<1>15. ASSUME NEW t \in Task, SuspendReset(t)
       PROVE  TypeOK'
  <2>1. CallTypes'
    BY <1>1, <1>15, ReturnTypes DEF SuspendReset, CallTypes, Goto, timeOuts
  <2>. QED BY <1>1, <1>15, <2>1 DEF SuspendReset, CallTypes, schedVars
<1>16. ASSUME NEW t \in Task, vTaskDelay(t)
       PROVE  TypeOK'
  BY <1>1, <1>16, CallsMade, CallFields DEF vTaskDelay, Begin, schedVars
<1>17. ASSUME NEW t \in Task, Wait(t)
       PROVE  TypeOK'
  BY <1>1, <1>17, CallsMade, CallFields DEF Wait, Begin, schedVars
<1>18. ASSUME NEW t \in Task, Poll(t)
       PROVE  TypeOK'
  BY <1>1, <1>18, CallsMade DEF Poll, Begin, schedVars, timeOuts
<1>19. ASSUME NEW t \in Task, vTaskSuspend(t)
       PROVE  TypeOK'
  BY <1>1, <1>19, CallsMade DEF vTaskSuspend, schedVars, timeOuts
<1>20. ASSUME NEW t \in Task, vTaskResume(t)
       PROVE  TypeOK'
  BY <1>1, <1>20 DEF vTaskResume, timeOuts
<1>21. ASSUME NEW t \in Task, NEW o \in Object, Notify(t, o)
       PROVE  TypeOK'
  BY <1>1, <1>21 DEF Notify, Deliver, timeOuts
<1>22. ASSUME NEW t \in Task, NEW next \in {"retry", "block"}, Stay(t, next)
       PROVE  TypeOK'
  BY <1>1, <1>22 DEF Stay, Goto, schedVars, timeOuts
<1>23. CASE IdleTest
  BY <1>1, <1>23 DEF IdleTest, Begin, schedVars, timeOuts
<1>24. CASE IdleSample
  <2>1. (IF ExpectedIdleTime > MaxSuppressed THEN MaxSuppressed ELSE ExpectedIdleTime) \in Time
    BY <1>1, TicksAssumption DEF ExpectedIdleTime, Time, IInv, TickInv
  <2>. QED BY <1>1, <1>24, <2>1 DEF IdleSample, Goto, schedVars
<1>25. CASE Suppress
  <2>1. \A n \in SuppressedTicks : n \in Time
    BY <1>1, TicksAssumption DEF SuppressedTicks, Time
  <2>. QED BY <1>1, <1>25, <2>1, Widths DEF Suppress, Goto
<1>26. CASE vTaskStepTick
  <2>1. xTicksToWait[Idle] \in Nat
    BY <1>1, Widths, TicksAssumption
  <2>. QED BY <1>1, <1>26, <2>1, Widths, BudgetInRange DEF vTaskStepTick, Goto, schedVars
<1>27. ASSUME NEW t \in Task, start_task(t)
       PROVE  TypeOK'
  BY <1>1, <1>27 DEF start_task, timeOuts
<1>28. ASSUME NEW t \in Task, vTaskDelete(t)
       PROVE  TypeOK'
  <2>1. PICK u \in Task : Return(u) /\ UNCHANGED schedVars
    BY <1>1, <1>28 DEF vTaskDelete
  <2>2. CallTypes'
    BY <1>1, <2>1, ReturnTypes
  <2>. QED BY <1>1, <2>1, <2>2 DEF CallTypes, schedVars
<1>29. CASE prvCheckTasksWaitingTermination
  BY <1>1, <1>29 DEF prvCheckTasksWaitingTermination, schedVars, timeOuts
<1>. QED BY <1>2, <1>3, <1>4, <1>5, <1>6, <1>7, <1>8, <1>9, <1>10, <1>11, <1>12, <1>13, <1>14,
            <1>15, <1>16, <1>17, <1>18, <1>19, <1>20, <1>21, <1>22, <1>23, <1>24, <1>25, <1>26,
            <1>27, <1>28, <1>29
         DEF Next, Interrupt, Window, AppCall, IdleStep, DelayPlace, WaitPlace, PollPlace

(* Only the current task is in a window, and it stays current.             *)
LEMMA ControlStep ==
    ASSUME IInv, [Next]_vars
    PROVE  Control'
<1>1. TypeOK /\ Control
  BY DEF IInv
<1>. USE DEF TypeOK, Control, Suspended, Runs
<1>2. CASE UNCHANGED vars
  BY <1>1, <1>2 DEF vars, lists, clockVars, schedVars, timeOuts
<1>3. CASE xPortSysTickHandler
  BY <1>1, <1>3 DEF xPortSysTickHandler, CountTick, Masked, lists, clockVars, schedVars,
                    timeOuts
<1>4. CASE vTaskSwitchContext
  <2>1. CASE uxSchedulerSuspended
    BY <1>1, <1>4, <2>1 DEF vTaskSwitchContext
  <2>2. CASE ~uxSchedulerSuspended
    <3>1. pc[pxCurrentTCB] \notin Suspended \cup {"replay"}
      BY <1>1, <1>4, <2>2 DEF vTaskSwitchContext, Masked
    <3>2. pxCurrentTCB' \in Task /\ UNCHANGED <<pc, call, uxSchedulerSuspended>>
      BY <1>1, <1>4, <2>2 DEF vTaskSwitchContext, HighestReady
    <3>. QED BY <1>1, <2>2, <3>1, <3>2
  <2>. QED BY <2>1, <2>2
<1>5. CASE xTaskResumeFromISR
  BY <1>1, <1>5 DEF xTaskResumeFromISR, MakeReady, lists, clockVars, schedVars, timeOuts
<1>6. CASE NotifyFromISR
  BY <1>1, <1>6 DEF NotifyFromISR, Deliver, MakeReady, lists, clockVars, schedVars, timeOuts
<1>7. ASSUME NEW t \in Task, vTaskSuspendAll(t)
      PROVE  Control'
  BY <1>1, <1>7 DEF vTaskSuspendAll, Goto, lists, clockVars, schedVars, timeOuts
<1>8. ASSUME NEW t \in Task, xTaskCheckForTimeOut(t)
      PROVE  Control'
  BY <1>1, <1>8 DEF xTaskCheckForTimeOut, Goto, lists, clockVars, schedVars, timeOuts
<1>9. ASSUME NEW t \in Task, NEW o, NEW n, NEW forever, Runs(t), pc[t] = "place", Place(t, o, n, forever)
      PROVE  Control'
  BY <1>1, <1>9 DEF Place, AddToDelayedList, Goto, lists, clockVars, schedVars, timeOuts
<1>10. ASSUME NEW t \in Task, xTaskResumeAll(t)
      PROVE  Control'
  <2>1. /\ Runs(t) /\ pc[t] = "resumeAll"
        /\ uxSchedulerSuspended' = FALSE /\ pc' = [pc EXCEPT ![t] = "replay"]
        /\ UNCHANGED <<pxCurrentTCB, call>>
    BY <1>10 DEF xTaskResumeAll, Goto
  <2>2. pc'[pxCurrentTCB'] = "replay"
    BY <1>1, <2>1
  <2>3. \A u \in Task \ {pxCurrentTCB'} : pc'[u] \notin Suspended \cup {"replay"}
    BY <1>1, <2>1
  <2>4. \A u \in Task : pc'[u] \in {"expect", "confirm", "slept"} => call'[u].op = "sleep"
    BY <1>1, <2>1
  <2>5. ~uxSchedulerSuspended' /\ uxSchedulerSuspended' \in BOOLEAN
    BY <2>1
  <2>. QED BY <2>2, <2>3, <2>4, <2>5
<1>11. ASSUME NEW t \in Task, ReplayTick(t)
      PROVE  Control'
  BY <1>1, <1>11 DEF ReplayTick, CountTick, lists, clockVars, schedVars, timeOuts
<1>12. ASSUME NEW t \in Task, FinishResume(t)
      PROVE  Control'
  BY <1>1, <1>12 DEF FinishResume, Continue, Goto, Return, lists, clockVars, schedVars,
                     timeOuts
<1>13. ASSUME NEW t \in Task, portYIELD_WITHIN_API(t)
      PROVE  Control'
  BY <1>1, <1>13 DEF portYIELD_WITHIN_API, Continue, Goto, Return, lists, clockVars,
                     schedVars, timeOuts
<1>14. ASSUME NEW t \in Task, Look(t)
      PROVE  Control'
  BY <1>1, <1>14 DEF Look, Goto, Return, lists, clockVars, schedVars, timeOuts
<1>15. ASSUME NEW t \in Task, SuspendReset(t)
      PROVE  Control'
  BY <1>1, <1>15 DEF SuspendReset, Goto, Return, lists, clockVars, schedVars, timeOuts
<1>16. ASSUME NEW t \in Task, vTaskDelay(t)
      PROVE  Control'
  BY <1>1, <1>16 DEF vTaskDelay, Calls, Begin, lists, clockVars, schedVars, timeOuts
<1>17. ASSUME NEW t \in Task, Wait(t)
      PROVE  Control'
  BY <1>1, <1>17 DEF Wait, Calls, Begin, lists, clockVars, schedVars, timeOuts
<1>18. ASSUME NEW t \in Task, Poll(t)
      PROVE  Control'
  BY <1>1, <1>18 DEF Poll, Calls, Begin, lists, clockVars, schedVars, timeOuts
<1>19. ASSUME NEW t \in Task, vTaskSuspend(t)
      PROVE  Control'
  BY <1>1, <1>19 DEF vTaskSuspend, Calls, lists, clockVars, schedVars, timeOuts
<1>20. ASSUME NEW t \in Task, vTaskResume(t)
      PROVE  Control'
  BY <1>1, <1>20 DEF vTaskResume, Calls, MakeReady, lists, clockVars, schedVars, timeOuts
<1>21. ASSUME NEW t \in Task, NEW o \in Object, Notify(t, o)
      PROVE  Control'
  BY <1>1, <1>21 DEF Notify, Calls, Deliver, MakeReady, lists, clockVars, schedVars, timeOuts
<1>22. ASSUME NEW t \in Task, NEW next \in {"retry", "block"}, Stay(t, next)
      PROVE  Control'
  BY <1>1, <1>22 DEF Stay, Goto, lists, clockVars, schedVars, timeOuts
<1>23. CASE IdleTest
  BY <1>1, <1>23 DEF IdleTest, Begin, lists, clockVars, schedVars, timeOuts
<1>24. CASE IdleSample
  BY <1>1, <1>24 DEF IdleSample, Goto, lists, clockVars, schedVars, timeOuts
<1>25. CASE Suppress
  BY <1>1, <1>25 DEF Suppress, Goto, lists, clockVars, schedVars, timeOuts
<1>26. CASE vTaskStepTick
  BY <1>1, <1>26 DEF vTaskStepTick, Goto, lists, clockVars, schedVars, timeOuts
<1>27. ASSUME NEW t \in Task, start_task(t)
       PROVE  Control'
  BY <1>1, <1>27 DEF start_task, Calls, clockVars, timeOuts
<1>28. ASSUME NEW t \in Task, vTaskDelete(t)
       PROVE  Control'
  <2>1. PICK u \in Task \ {t, Idle} :
          /\ Runs(t) /\ pc[t] = "app" /\ ready' = ready \ {u}
          /\ Return(u) /\ UNCHANGED <<xTickCount, schedVars>>
    BY <1>1, <1>28 DEF vTaskDelete, Calls
  <2>. QED BY <1>1, <2>1 DEF Return, NoCall, SleepCall, schedVars
<1>29. CASE prvCheckTasksWaitingTermination
  BY <1>1, <1>29 DEF prvCheckTasksWaitingTermination, clockVars, schedVars, timeOuts
<1>. QED BY <1>2, <1>3, <1>4, <1>5, <1>6, <1>7, <1>8, <1>9, <1>10, <1>11, <1>12,
            <1>13, <1>14, <1>15, <1>16, <1>17, <1>18, <1>19, <1>20, <1>21, <1>22,
            <1>23, <1>24, <1>25, <1>26, <1>27, <1>28, <1>29
         DEF Next, Interrupt, Window, AppCall, IdleStep, DelayPlace, WaitPlace, PollPlace

(* The running task leaves the ready list only on its way to a yield.      *)
LEMMA LeavingStep ==
    ASSUME IInv, [Next]_vars
    PROVE  Leaving'
<1>1. TypeOK /\ Control /\ Leaving /\ TicksLeft
  BY DEF IInv
<1>. USE DEF TypeOK, Control, Leaving, Suspended, Runs
<1>2. CASE UNCHANGED vars
  BY <1>1, <1>2 DEF vars, lists, clockVars, schedVars, timeOuts
<1>3. CASE xPortSysTickHandler
  BY <1>1, <1>3 DEF xPortSysTickHandler, CountTick, Masked, lists, clockVars, schedVars,
                    timeOuts
<1>4. CASE vTaskSwitchContext
  BY <1>1, <1>4 DEF vTaskSwitchContext, Masked, HighestReady, lists, clockVars, schedVars,
                    timeOuts
<1>5. CASE xTaskResumeFromISR
  BY <1>1, <1>5 DEF xTaskResumeFromISR, MakeReady, lists, clockVars, schedVars, timeOuts
<1>6. CASE NotifyFromISR
  BY <1>1, <1>6 DEF NotifyFromISR, Deliver, MakeReady, lists, clockVars, schedVars, timeOuts
<1>7. ASSUME NEW t \in Task, vTaskSuspendAll(t)
      PROVE  Leaving'
  BY <1>1, <1>7 DEF vTaskSuspendAll, Goto, lists, clockVars, schedVars, timeOuts
<1>8. ASSUME NEW t \in Task, xTaskCheckForTimeOut(t)
      PROVE  Leaving'
  BY <1>1, <1>8 DEF xTaskCheckForTimeOut, Goto, lists, clockVars, schedVars, timeOuts
<1>9. ASSUME NEW t \in Task, NEW o, NEW n, NEW forever, Runs(t), pc[t] = "place", Place(t, o, n, forever)
      PROVE  Leaving'
  BY <1>1, <1>9 DEF Place, AddToDelayedList, Goto, lists, clockVars, schedVars, timeOuts
<1>10. ASSUME NEW t \in Task, xTaskResumeAll(t)
      PROVE  Leaving'
  BY <1>1, <1>10 DEF xTaskResumeAll, MakeReady, Goto, lists, clockVars, schedVars, timeOuts
<1>11. ASSUME NEW t \in Task, ReplayTick(t)
      PROVE  Leaving'
  BY <1>1, <1>11 DEF ReplayTick, CountTick, lists, clockVars, schedVars, timeOuts
<1>12. ASSUME NEW t \in Task, FinishResume(t)
      PROVE  Leaving'
  BY <1>1, <1>12 DEF FinishResume, Continue, Goto, Return, lists, clockVars, schedVars,
                     timeOuts
<1>13. ASSUME NEW t \in Task, portYIELD_WITHIN_API(t)
      PROVE  Leaving'
  BY <1>1, <1>13 DEF portYIELD_WITHIN_API, Continue, Goto, Return, lists, clockVars,
                     schedVars, timeOuts
<1>14. ASSUME NEW t \in Task, Look(t)
      PROVE  Leaving'
  BY <1>1, <1>14 DEF Look, Goto, Return, lists, clockVars, schedVars, timeOuts
<1>15. ASSUME NEW t \in Task, SuspendReset(t)
      PROVE  Leaving'
  BY <1>1, <1>15 DEF SuspendReset, Goto, Return, lists, clockVars, schedVars, timeOuts
<1>16. ASSUME NEW t \in Task, vTaskDelay(t)
      PROVE  Leaving'
  BY <1>1, <1>16 DEF vTaskDelay, Calls, Begin, lists, clockVars, schedVars, timeOuts
<1>17. ASSUME NEW t \in Task, Wait(t)
      PROVE  Leaving'
  BY <1>1, <1>17 DEF Wait, Calls, Begin, lists, clockVars, schedVars, timeOuts
<1>18. ASSUME NEW t \in Task, Poll(t)
      PROVE  Leaving'
  BY <1>1, <1>18 DEF Poll, Calls, Begin, lists, clockVars, schedVars, timeOuts
<1>19. ASSUME NEW t \in Task, vTaskSuspend(t)
      PROVE  Leaving'
  BY <1>1, <1>19 DEF vTaskSuspend, Calls, lists, clockVars, schedVars, timeOuts
<1>20. ASSUME NEW t \in Task, vTaskResume(t)
      PROVE  Leaving'
  BY <1>1, <1>20 DEF vTaskResume, Calls, MakeReady, lists, clockVars, schedVars, timeOuts
<1>21. ASSUME NEW t \in Task, NEW o \in Object, Notify(t, o)
      PROVE  Leaving'
  BY <1>1, <1>21 DEF Notify, Calls, Deliver, MakeReady, lists, clockVars, schedVars, timeOuts
<1>22. ASSUME NEW t \in Task, NEW next \in {"retry", "block"}, Stay(t, next)
      PROVE  Leaving'
  BY <1>1, <1>22 DEF Stay, Goto, lists, clockVars, schedVars, timeOuts
<1>23. CASE IdleTest
  BY <1>1, <1>23 DEF IdleTest, Begin, lists, clockVars, schedVars, timeOuts
<1>24. CASE IdleSample
  BY <1>1, <1>24 DEF IdleSample, Goto, lists, clockVars, schedVars, timeOuts
<1>25. CASE Suppress
  BY <1>1, <1>25 DEF Suppress, Goto, lists, clockVars, schedVars, timeOuts
<1>26. CASE vTaskStepTick
  BY <1>1, <1>26 DEF vTaskStepTick, Goto, lists, clockVars, schedVars, timeOuts
<1>27. ASSUME NEW t \in Task, start_task(t)
       PROVE  Leaving'
  BY <1>1, <1>27 DEF start_task, Calls, clockVars, timeOuts
<1>28. ASSUME NEW t \in Task, vTaskDelete(t)
       PROVE  Leaving'
  <2>1. PICK u \in Task \ {t, Idle} :
          /\ Runs(t) /\ pc[t] = "app" /\ ready' = ready \ {u}
          /\ Return(u) /\ UNCHANGED <<xTickCount, schedVars>>
    BY <1>1, <1>28 DEF vTaskDelete, Calls
  <2>. QED BY <1>1, <2>1 DEF Return, NoCall, SleepCall, schedVars
<1>29. CASE prvCheckTasksWaitingTermination
  BY <1>1, <1>29 DEF prvCheckTasksWaitingTermination, clockVars, schedVars, timeOuts
<1>. QED BY <1>2, <1>3, <1>4, <1>5, <1>6, <1>7, <1>8, <1>9, <1>10, <1>11, <1>12,
            <1>13, <1>14, <1>15, <1>16, <1>17, <1>18, <1>19, <1>20, <1>21, <1>22,
            <1>23, <1>24, <1>25, <1>26, <1>27, <1>28, <1>29
         DEF Next, Interrupt, Window, AppCall, IdleStep, DelayPlace, WaitPlace, PollPlace

(* A call that has no ticks left does not put its task to sleep.            *)
LEMMA TicksLeftStep ==
    ASSUME IInv, [Next]_vars
    PROVE  TicksLeft'
<1>1. TypeOK /\ Control /\ TicksLeft /\ Idle \in Task
  BY TicksAssumption DEF IInv
<1>. USE DEF TypeOK, Control, TicksLeft, Suspended, Runs
<1>2. CASE UNCHANGED vars
  BY <1>1, <1>2 DEF vars, lists, clockVars, schedVars, timeOuts
<1>3. CASE xPortSysTickHandler
  BY <1>1, <1>3 DEF xPortSysTickHandler, CountTick, Masked, lists, clockVars, schedVars,
                    timeOuts
<1>4. CASE vTaskSwitchContext
  BY <1>1, <1>4 DEF vTaskSwitchContext, Masked, lists, clockVars, schedVars, timeOuts
<1>5. CASE xTaskResumeFromISR
  BY <1>1, <1>5 DEF xTaskResumeFromISR, lists, clockVars, schedVars, timeOuts
<1>6. CASE NotifyFromISR
  BY <1>1, <1>6 DEF NotifyFromISR, Deliver, lists, clockVars, schedVars, timeOuts
<1>7. ASSUME NEW t \in Task, vTaskSuspendAll(t)
      PROVE  TicksLeft'
  BY <1>1, <1>7 DEF vTaskSuspendAll, Goto, lists, clockVars, schedVars, timeOuts
<1>8. ASSUME NEW t \in Task, xTaskCheckForTimeOut(t)
      PROVE  TicksLeft'
  <2>1. Elapsed(t) \in Nat /\ xTicksToWait[t] \in Nat
    BY <1>1, Widths DEF Elapsed, Time
  <2>2. CASE xTicksToWait[t] = portMAX_DELAY
    BY <1>1, <1>8, <2>2 DEF xTaskCheckForTimeOut, Goto, timeOuts
  <2>3. CASE /\ xTicksToWait[t] # portMAX_DELAY
             /\ WentRound(t) \/ Elapsed(t) >= xTicksToWait[t]
    BY <1>1, <1>8, <2>3 DEF xTaskCheckForTimeOut, Goto
  <2>4. CASE /\ xTicksToWait[t] # portMAX_DELAY
             /\ ~(WentRound(t) \/ Elapsed(t) >= xTicksToWait[t])
    <3>1. Remaining(t) > 0
      BY <2>1, <2>4 DEF Remaining
    <3>2. /\ xTicksToWait' = [xTicksToWait EXCEPT ![t] = Remaining(t)]
          /\ pc[t] = "check" /\ pc' = [pc EXCEPT ![t] = "place"]
          /\ UNCHANGED <<call, exit>>
      BY <1>8, <2>4 DEF xTaskCheckForTimeOut, Goto
    <3>. QED BY <1>1, <3>1, <3>2
  <2>. QED BY <2>2, <2>3, <2>4
<1>9. ASSUME NEW t \in Task, NEW o, NEW n, NEW forever, Runs(t), pc[t] = "place", Place(t, o, n, forever)
      PROVE  TicksLeft'
  BY <1>1, <1>9 DEF Place, Goto, lists, clockVars, schedVars, timeOuts
<1>10. ASSUME NEW t \in Task, xTaskResumeAll(t)
      PROVE  TicksLeft'
  BY <1>1, <1>10 DEF xTaskResumeAll, Goto, lists, clockVars, schedVars, timeOuts
<1>11. ASSUME NEW t \in Task, ReplayTick(t)
      PROVE  TicksLeft'
  BY <1>1, <1>11 DEF ReplayTick, CountTick, lists, clockVars, schedVars, timeOuts
<1>12. ASSUME NEW t \in Task, FinishResume(t)
      PROVE  TicksLeft'
  BY <1>1, <1>12 DEF FinishResume, Continue, Goto, Return, NoCall, SleepCall, lists,
                     clockVars, schedVars, timeOuts
<1>13. ASSUME NEW t \in Task, portYIELD_WITHIN_API(t)
      PROVE  TicksLeft'
  BY <1>1, <1>13 DEF portYIELD_WITHIN_API, Continue, Goto, Return, NoCall, SleepCall, lists,
                     clockVars, schedVars, timeOuts
<1>14. ASSUME NEW t \in Task, Look(t)
      PROVE  TicksLeft'
  BY <1>1, <1>14 DEF Look, Goto, Return, NoCall, SleepCall, lists, clockVars, schedVars,
                     timeOuts
<1>15. ASSUME NEW t \in Task, SuspendReset(t)
      PROVE  TicksLeft'
  BY <1>1, <1>15 DEF SuspendReset, Goto, Return, NoCall, SleepCall, lists, clockVars,
                     schedVars, timeOuts
<1>16. ASSUME NEW t \in Task, vTaskDelay(t)
      PROVE  TicksLeft'
  BY <1>1, <1>16, CallsMade, CallFields, Widths DEF vTaskDelay, Begin, NoCall, SleepCall, lists,
                                         clockVars, schedVars, timeOuts
<1>17. ASSUME NEW t \in Task, Wait(t)
      PROVE  TicksLeft'
  BY <1>1, <1>17, CallsMade, CallFields, Widths DEF Wait, Begin, NoCall, SleepCall, lists,
                                         clockVars, schedVars, timeOuts
<1>18. ASSUME NEW t \in Task, Poll(t)
      PROVE  TicksLeft'
  BY <1>1, <1>18 DEF Poll, Calls, Begin, NoCall, SleepCall, lists, clockVars, schedVars,
                     timeOuts
<1>19. ASSUME NEW t \in Task, vTaskSuspend(t)
      PROVE  TicksLeft'
  BY <1>1, <1>19 DEF vTaskSuspend, Calls, lists, clockVars, schedVars, timeOuts
<1>20. ASSUME NEW t \in Task, vTaskResume(t)
      PROVE  TicksLeft'
  BY <1>1, <1>20 DEF vTaskResume, Calls, lists, clockVars, schedVars, timeOuts
<1>21. ASSUME NEW t \in Task, NEW o \in Object, Notify(t, o)
      PROVE  TicksLeft'
  BY <1>1, <1>21 DEF Notify, Calls, Deliver, lists, clockVars, schedVars, timeOuts
<1>22. ASSUME NEW t \in Task, NEW next \in {"retry", "block"}, Stay(t, next)
      PROVE  TicksLeft'
  BY <1>1, <1>22 DEF Stay, Goto, lists, clockVars, schedVars, timeOuts
<1>23. CASE IdleTest
  BY <1>1, <1>23 DEF IdleTest, Begin, NoCall, SleepCall, lists, clockVars, schedVars, timeOuts
<1>24. CASE IdleSample
  BY <1>1, <1>24 DEF IdleSample, Goto, lists, clockVars, schedVars, timeOuts
<1>25. CASE Suppress
  BY <1>1, <1>25 DEF Suppress, Goto, lists, clockVars, schedVars, timeOuts
<1>26. CASE vTaskStepTick
  BY <1>1, <1>26 DEF vTaskStepTick, Goto, lists, clockVars, schedVars, timeOuts
<1>27. ASSUME NEW t \in Task, start_task(t)
       PROVE  TicksLeft'
  BY <1>1, <1>27 DEF start_task, Calls, clockVars, timeOuts
<1>28. ASSUME NEW t \in Task, vTaskDelete(t)
       PROVE  TicksLeft'
  <2>1. PICK u \in Task \ {t, Idle} :
          /\ Runs(t) /\ pc[t] = "app" /\ ready' = ready \ {u}
          /\ Return(u) /\ UNCHANGED <<xTickCount, schedVars>>
    BY <1>1, <1>28 DEF vTaskDelete, Calls
  <2>. QED BY <1>1, <2>1 DEF Return, NoCall, SleepCall, schedVars
<1>29. CASE prvCheckTasksWaitingTermination
  BY <1>1, <1>29 DEF prvCheckTasksWaitingTermination, clockVars, schedVars, timeOuts
<1>. QED BY <1>2, <1>3, <1>4, <1>5, <1>6, <1>7, <1>8, <1>9, <1>10, <1>11, <1>12,
            <1>13, <1>14, <1>15, <1>16, <1>17, <1>18, <1>19, <1>20, <1>21, <1>22,
            <1>23, <1>24, <1>25, <1>26, <1>27, <1>28, <1>29
         DEF Next, Interrupt, Window, AppCall, IdleStep, DelayPlace, WaitPlace, PollPlace

(* The next unblocking does not come nearer while the processor sleeps.     *)
LEMMA SleepEndsStep ==
    ASSUME IInv, [Next]_vars
    PROVE  SleepEnds'
<1>1. TypeOK /\ Control /\ TickInv /\ SleepEnds /\ Idle \in Task
  BY TicksAssumption DEF IInv
<1>. USE DEF TypeOK, Control, SleepEnds, Suspended, Runs
<1>2. CASE UNCHANGED vars
  BY <1>1, <1>2 DEF vars, lists, clockVars, schedVars, timeOuts
<1>3. CASE xPortSysTickHandler
  BY <1>1, <1>3 DEF xPortSysTickHandler, CountTick, Masked, lists, clockVars, schedVars,
                    timeOuts
<1>4. CASE vTaskSwitchContext
  BY <1>1, <1>4 DEF vTaskSwitchContext, Masked, lists, clockVars, schedVars, timeOuts
<1>5. CASE xTaskResumeFromISR
  BY <1>1, <1>5 DEF xTaskResumeFromISR, lists, clockVars, schedVars, timeOuts
<1>6. CASE NotifyFromISR
  BY <1>1, <1>6 DEF NotifyFromISR, Deliver, lists, clockVars, schedVars, timeOuts
<1>7. ASSUME NEW t \in Task, vTaskSuspendAll(t)
      PROVE  SleepEnds'
  BY <1>1, <1>7 DEF vTaskSuspendAll, Goto, lists, clockVars, schedVars, timeOuts
<1>8. ASSUME NEW t \in Task, xTaskCheckForTimeOut(t)
      PROVE  SleepEnds'
  BY <1>1, <1>8 DEF xTaskCheckForTimeOut, Goto, lists, clockVars, schedVars, timeOuts
<1>9. ASSUME NEW t \in Task, NEW o, NEW n, NEW forever, Runs(t), pc[t] = "place", Place(t, o, n, forever)
      PROVE  SleepEnds'
  BY <1>1, <1>9 DEF Place, Goto, lists, clockVars, schedVars, timeOuts
<1>10. ASSUME NEW t \in Task, xTaskResumeAll(t)
      PROVE  SleepEnds'
  BY <1>1, <1>10 DEF xTaskResumeAll, Goto, lists, clockVars, schedVars, timeOuts
<1>11. ASSUME NEW t \in Task, ReplayTick(t)
      PROVE  SleepEnds'
  BY <1>1, <1>11 DEF ReplayTick, CountTick, lists, clockVars, schedVars, timeOuts
<1>12. ASSUME NEW t \in Task, FinishResume(t)
      PROVE  SleepEnds'
  BY <1>1, <1>12 DEF FinishResume, Continue, Goto, Return, NoCall, SleepCall, lists,
                     clockVars, schedVars, timeOuts
<1>13. ASSUME NEW t \in Task, portYIELD_WITHIN_API(t)
      PROVE  SleepEnds'
  BY <1>1, <1>13 DEF portYIELD_WITHIN_API, Continue, Goto, Return, NoCall, SleepCall, lists,
                     clockVars, schedVars, timeOuts
<1>14. ASSUME NEW t \in Task, Look(t)
      PROVE  SleepEnds'
  BY <1>1, <1>14 DEF Look, Goto, Return, NoCall, SleepCall, lists, clockVars, schedVars,
                     timeOuts
<1>15. ASSUME NEW t \in Task, SuspendReset(t)
      PROVE  SleepEnds'
  BY <1>1, <1>15 DEF SuspendReset, Goto, Return, NoCall, SleepCall, lists, clockVars,
                     schedVars, timeOuts
<1>16. ASSUME NEW t \in Task, vTaskDelay(t)
      PROVE  SleepEnds'
  BY <1>1, <1>16 DEF vTaskDelay, Calls, Begin, NoCall, SleepCall, lists, clockVars,
                     schedVars, timeOuts
<1>17. ASSUME NEW t \in Task, Wait(t)
      PROVE  SleepEnds'
  BY <1>1, <1>17 DEF Wait, Calls, Begin, NoCall, SleepCall, lists, clockVars, schedVars,
                     timeOuts
<1>18. ASSUME NEW t \in Task, Poll(t)
      PROVE  SleepEnds'
  BY <1>1, <1>18 DEF Poll, Calls, Begin, NoCall, SleepCall, lists, clockVars, schedVars,
                     timeOuts
<1>19. ASSUME NEW t \in Task, vTaskSuspend(t)
      PROVE  SleepEnds'
  BY <1>1, <1>19 DEF vTaskSuspend, Calls, lists, clockVars, schedVars, timeOuts
<1>20. ASSUME NEW t \in Task, vTaskResume(t)
      PROVE  SleepEnds'
  BY <1>1, <1>20 DEF vTaskResume, Calls, lists, clockVars, schedVars, timeOuts
<1>21. ASSUME NEW t \in Task, NEW o \in Object, Notify(t, o)
      PROVE  SleepEnds'
  BY <1>1, <1>21 DEF Notify, Calls, Deliver, lists, clockVars, schedVars, timeOuts
<1>22. ASSUME NEW t \in Task, NEW next \in {"retry", "block"}, Stay(t, next)
      PROVE  SleepEnds'
  BY <1>1, <1>22 DEF Stay, Goto, lists, clockVars, schedVars, timeOuts
<1>23. CASE IdleTest
  BY <1>1, <1>23 DEF IdleTest, Begin, NoCall, SleepCall, lists, clockVars, schedVars, timeOuts
<1>24. CASE IdleSample
  <2>1. CASE ExpectedIdleTime >= configEXPECTED_IDLE_TIME_BEFORE_SLEEP
    <3>1. ExpectedIdleTime = xNextTaskUnblockTime - xTickCount
      BY <2>1 DEF ExpectedIdleTime, configEXPECTED_IDLE_TIME_BEFORE_SLEEP
    <3>2. /\ pc' = [pc EXCEPT ![Idle] = "confirm"]
          /\ xTicksToWait' = [xTicksToWait EXCEPT ![Idle] =
                IF ExpectedIdleTime > MaxSuppressed THEN MaxSuppressed ELSE ExpectedIdleTime]
          /\ UNCHANGED <<xTickCount, xNextTaskUnblockTime>>
      BY <1>24, <2>1 DEF IdleSample, Goto, clockVars
    <3>3. xTickCount + xTicksToWait'[Idle] <= xNextTaskUnblockTime
      BY <1>1, <3>1, <3>2, Widths, TicksAssumption DEF Time
    <3>. QED BY <1>1, <3>2, <3>3
  <2>2. CASE ~(ExpectedIdleTime >= configEXPECTED_IDLE_TIME_BEFORE_SLEEP)
    BY <1>1, <1>24, <2>2 DEF IdleSample, Goto
  <2>. QED BY <2>1, <2>2
<1>25. CASE Suppress
  <2>1. CASE xPendingReadyList # {} \/ xYieldPending \/ xPendedTicks # 0
    BY <1>1, <1>25, <2>1 DEF Suppress, Goto
  <2>2. CASE ~(xPendingReadyList # {} \/ xYieldPending \/ xPendedTicks # 0)
    <3>1. PICK n \in SuppressedTicks :
            /\ xTicksToWait' = [xTicksToWait EXCEPT ![Idle] = n]
            /\ pc' = [pc EXCEPT ![Idle] = "slept"]
      BY <1>25, <2>2 DEF Suppress, Goto
    <3>2. UNCHANGED <<xTickCount, xNextTaskUnblockTime>> /\ pc[Idle] = "confirm"
      BY <1>25 DEF Suppress, clockVars
    <3>3. n \in Nat /\ n < xTicksToWait[Idle]
      BY <1>1, Widths DEF SuppressedTicks
    <3>4. xTickCount + n < xNextTaskUnblockTime
      BY <1>1, <3>2, <3>3, Widths DEF Time
    <3>. QED BY <1>1, <3>1, <3>2, <3>4
  <2>. QED BY <2>1, <2>2
<1>26. CASE vTaskStepTick
  BY <1>1, <1>26 DEF vTaskStepTick, Goto, lists, clockVars, schedVars, timeOuts
<1>27. ASSUME NEW t \in Task, start_task(t)
       PROVE  SleepEnds'
  BY <1>1, <1>27 DEF start_task, Calls, clockVars, timeOuts
<1>28. ASSUME NEW t \in Task, vTaskDelete(t)
       PROVE  SleepEnds'
  <2>1. PICK u \in Task \ {t, Idle} :
          /\ Runs(t) /\ pc[t] = "app" /\ ready' = ready \ {u}
          /\ Return(u) /\ UNCHANGED <<xTickCount, schedVars>>
    BY <1>1, <1>28 DEF vTaskDelete, Calls
  <2>. QED BY <1>1, <2>1 DEF Return, NoCall, SleepCall, schedVars
<1>29. CASE prvCheckTasksWaitingTermination
  BY <1>1, <1>29 DEF prvCheckTasksWaitingTermination, clockVars, schedVars, timeOuts
<1>. QED BY <1>2, <1>3, <1>4, <1>5, <1>6, <1>7, <1>8, <1>9, <1>10, <1>11, <1>12,
            <1>13, <1>14, <1>15, <1>16, <1>17, <1>18, <1>19, <1>20, <1>21, <1>22,
            <1>23, <1>24, <1>25, <1>26, <1>27, <1>28, <1>29
         DEF Next, Interrupt, Window, AppCall, IdleStep, DelayPlace, WaitPlace, PollPlace

(* A tick asks for a switch if it wakes a task that is no lower.            *)
LEMMA TickRequests ==
    ASSUME TypeOK, Prio \in [Task -> Nat], NEW switch \in BOOLEAN, CountTick(switch), ~switch
    PROVE  \A u \in ready' \ ready : Prio[u] <= Prio[pxCurrentTCB]
<1>. DEFINE now == TicksAhead(1)
            wrapped == now = 0
            list == IF wrapped THEN pxOverflowDelayedTaskList ELSE pxDelayedTaskList
            woken(next) == IF now >= next THEN {t \in list : wake[t] <= now} ELSE {}
<1>1. PICK next \in UnblockTime(wrapped, list) :
        /\ ready' = ready \cup woken(next)
        /\ switch = (\/ \E w \in woken(next) : Prio[w] >= Prio[pxCurrentTCB]
                     \/ \E u, v \in ready' : /\ u # v
                                             /\ Prio[u] = Prio[pxCurrentTCB]
                                             /\ Prio[v] = Prio[pxCurrentTCB])
  BY DEF CountTick
<1>2. \A w \in woken(next) : w \in Task /\ ~(Prio[w] >= Prio[pxCurrentTCB])
  BY <1>1 DEF TypeOK
<1>. QED BY <1>1, <1>2 DEF TypeOK

(* Whoever makes a task ready asks for the switch that is due.              *)
LEMMA RequestedStep ==
    ASSUME IInv, [Next]_vars
    PROVE  Requested'
<1>1. TypeOK /\ Control /\ Requested /\ Prio \in [Task -> Nat]
  BY TicksAssumption DEF IInv
<1>. USE DEF TypeOK, Control, Requested, Suspended, Runs
<1>2. CASE UNCHANGED vars
  BY <1>1, <1>2 DEF vars, lists, clockVars, schedVars, timeOuts
<1>3. CASE xPortSysTickHandler
  <2>1. CASE uxSchedulerSuspended
    BY <1>1, <1>3, <2>1 DEF xPortSysTickHandler, lists
  <2>2. CASE ~uxSchedulerSuspended
    <3>1. PICK switch \in BOOLEAN : CountTick(switch) /\ pendSV' = (pendSV \/ switch \/ xYieldPending)
      BY <1>3, <2>2 DEF xPortSysTickHandler
    <3>2. UNCHANGED <<pxCurrentTCB, uxSchedulerSuspended, xYieldPending, pc>>
      BY <1>3 DEF xPortSysTickHandler
    <3>3. ~switch => \A u \in ready' \ ready : Prio[u] <= Prio[pxCurrentTCB]
      BY <1>1, <3>1, TickRequests
    <3>. QED BY <1>1, <3>1, <3>2, <3>3
  <2>. QED BY <2>1, <2>2
<1>4. CASE vTaskSwitchContext
  BY <1>1, <1>4 DEF vTaskSwitchContext, Masked, HighestReady, lists, clockVars, schedVars,
                    timeOuts
<1>5. CASE xTaskResumeFromISR
  <2>1. PICK c \in Handles[program] :
          /\ IsTaskSuspended(c.task)
          /\ IF uxSchedulerSuspended
             THEN UNCHANGED <<ready, xYieldPending, pendSV>>
             ELSE /\ ready' = ready \cup {c.task}
                  /\ xYieldPending' = (xYieldPending \/ Prio[c.task] >= Prio[pxCurrentTCB])
                  /\ pendSV' = (pendSV \/ Prio[c.task] >= Prio[pxCurrentTCB])
    BY <1>5 DEF xTaskResumeFromISR, MakeReady
  <2>2. UNCHANGED <<pxCurrentTCB, uxSchedulerSuspended, pc>>
    BY <1>5 DEF xTaskResumeFromISR
  <2>3. c.task \in Task
    BY <1>1, <2>1 DEF IsTaskSuspended
  <2>4. CASE uxSchedulerSuspended
    BY <1>1, <2>1, <2>2, <2>4
  <2>5. CASE ~uxSchedulerSuspended /\ Prio[c.task] >= Prio[pxCurrentTCB]
    BY <1>1, <2>1, <2>2, <2>5
  <2>6. CASE ~uxSchedulerSuspended /\ ~(Prio[c.task] >= Prio[pxCurrentTCB])
    BY <1>1, <2>1, <2>2, <2>3, <2>6
  <2>. QED BY <2>4, <2>5, <2>6
<1>6. CASE NotifyFromISR
  <2>1. PICK w \in Task : Deliver(w) /\ pendSV' = (pendSV \/ Prio[w] > Prio[pxCurrentTCB])
    BY <1>6 DEF NotifyFromISR, First
  <2>2. UNCHANGED <<pxCurrentTCB, uxSchedulerSuspended, pc>>
    BY <1>6 DEF NotifyFromISR
  <2>3. /\ ready' \subseteq ready \cup {w}
        /\ xYieldPending' = (xYieldPending \/ Prio[w] > Prio[pxCurrentTCB])
    BY <2>1 DEF Deliver, MakeReady
  <2>4. CASE Prio[w] > Prio[pxCurrentTCB]
    BY <1>1, <2>1, <2>2, <2>4
  <2>5. CASE ~(Prio[w] > Prio[pxCurrentTCB])
    BY <1>1, <2>1, <2>2, <2>3, <2>5
  <2>. QED BY <2>4, <2>5
<1>7. ASSUME NEW t \in Task, vTaskSuspendAll(t)
      PROVE  Requested'
  BY <1>1, <1>7 DEF vTaskSuspendAll, Goto, lists, clockVars, schedVars, timeOuts
<1>8. ASSUME NEW t \in Task, xTaskCheckForTimeOut(t)
      PROVE  Requested'
  BY <1>1, <1>8 DEF xTaskCheckForTimeOut, Goto, lists, clockVars, schedVars, timeOuts
<1>9. ASSUME NEW t \in Task, NEW o, NEW n, NEW forever, Runs(t), pc[t] = "place", Place(t, o, n, forever)
      PROVE  Requested'
  BY <1>1, <1>9 DEF Place, AddToDelayedList, Goto, lists, clockVars, schedVars, timeOuts
<1>10. ASSUME NEW t \in Task, xTaskResumeAll(t)
      PROVE  Requested'
  <2>1. /\ Runs(t) /\ pc[t] = "resumeAll" /\ pc' = [pc EXCEPT ![t] = "replay"]
        /\ ready' = ready \cup xPendingReadyList
        /\ xYieldPending' = \/ xYieldPending
                            \/ \E w \in xPendingReadyList : Prio[w] >= Prio[t]
        /\ UNCHANGED <<pxCurrentTCB, pendSV>>
    BY <1>10 DEF xTaskResumeAll, Goto, MakeReady
  <2>2. xPendingReadyList \subseteq Task
    BY DEF xPendingReadyList
  <2>3. ~xYieldPending' => \A u \in ready' : Prio[u] <= Prio[pxCurrentTCB]
    BY <1>1, <2>1, <2>2
  <2>. QED BY <1>1, <2>1, <2>3
<1>11. ASSUME NEW t \in Task, ReplayTick(t)
      PROVE  Requested'
  <2>1. PICK switch \in BOOLEAN : CountTick(switch) /\ xYieldPending' = (xYieldPending \/ switch)
    BY <1>11 DEF ReplayTick
  <2>2. Runs(t) /\ pc[t] = "replay" /\ UNCHANGED <<pxCurrentTCB, uxSchedulerSuspended, pendSV, pc>>
    BY <1>11 DEF ReplayTick
  <2>3. ~switch => \A u \in ready' \ ready : Prio[u] <= Prio[pxCurrentTCB]
    BY <1>1, <2>1, TickRequests
  <2>. QED BY <1>1, <2>1, <2>2, <2>3
<1>12. ASSUME NEW t \in Task, FinishResume(t)
      PROVE  Requested'
  BY <1>1, <1>12 DEF FinishResume, Continue, Goto, Return, lists, clockVars, schedVars,
                     timeOuts
<1>13. ASSUME NEW t \in Task, portYIELD_WITHIN_API(t)
      PROVE  Requested'
  BY <1>1, <1>13 DEF portYIELD_WITHIN_API, Continue, Goto, Return, lists, clockVars,
                     schedVars, timeOuts
<1>14. ASSUME NEW t \in Task, Look(t)
      PROVE  Requested'
  BY <1>1, <1>14 DEF Look, Goto, Return, lists, clockVars, schedVars, timeOuts
<1>15. ASSUME NEW t \in Task, SuspendReset(t)
      PROVE  Requested'
  BY <1>1, <1>15 DEF SuspendReset, Goto, Return, lists, clockVars, schedVars, timeOuts
<1>16. ASSUME NEW t \in Task, vTaskDelay(t)
      PROVE  Requested'
  BY <1>1, <1>16 DEF vTaskDelay, Calls, Begin, lists, clockVars, schedVars, timeOuts
<1>17. ASSUME NEW t \in Task, Wait(t)
      PROVE  Requested'
  BY <1>1, <1>17 DEF Wait, Calls, Begin, lists, clockVars, schedVars, timeOuts
<1>18. ASSUME NEW t \in Task, Poll(t)
      PROVE  Requested'
  BY <1>1, <1>18 DEF Poll, Calls, Begin, lists, clockVars, schedVars, timeOuts
<1>19. ASSUME NEW t \in Task, vTaskSuspend(t)
      PROVE  Requested'
  BY <1>1, <1>19 DEF vTaskSuspend, Calls, lists, clockVars, schedVars, timeOuts
<1>20. ASSUME NEW t \in Task, vTaskResume(t)
      PROVE  Requested'
  <2>1. PICK c \in Calls(t, "resume") :
          /\ Runs(t) /\ IsTaskSuspended(c.task)
          /\ ready' = ready \cup {c.task} /\ pendSV' = (Prio[c.task] >= Prio[t])
          /\ UNCHANGED <<pxCurrentTCB, uxSchedulerSuspended, xYieldPending, pc>>
    BY <1>20 DEF vTaskResume, MakeReady, Calls
  <2>2. c.task \in Task
    BY <1>1, <2>1 DEF IsTaskSuspended
  <2>3. CASE Prio[c.task] >= Prio[t]
    BY <1>1, <2>1, <2>3
  <2>4. CASE ~(Prio[c.task] >= Prio[t])
    BY <1>1, <2>1, <2>2, <2>4
  <2>. QED BY <2>3, <2>4
<1>21. ASSUME NEW t \in Task, NEW o \in Object, Notify(t, o)
      PROVE  Requested'
  <2>1. PICK w \in First(o) : Deliver(w) /\ pendSV' = (Prio[w] > Prio[t])
    BY <1>21 DEF Notify
  <2>2. Runs(t) /\ UNCHANGED <<pxCurrentTCB, uxSchedulerSuspended, pc>>
    BY <1>21 DEF Notify, Calls
  <2>3. w \in Task
    BY DEF First
  <2>4. /\ ready' \subseteq ready \cup {w}
        /\ xYieldPending' = (xYieldPending \/ Prio[w] > Prio[pxCurrentTCB])
    BY <2>1 DEF Deliver, MakeReady
  <2>5. CASE Prio[w] > Prio[pxCurrentTCB]
    BY <1>1, <2>1, <2>2, <2>3, <2>5
  <2>6. CASE ~(Prio[w] > Prio[pxCurrentTCB])
    BY <1>1, <2>1, <2>2, <2>3, <2>4, <2>6
  <2>. QED BY <2>5, <2>6
<1>22. ASSUME NEW t \in Task, NEW next \in {"retry", "block"}, Stay(t, next)
      PROVE  Requested'
  BY <1>1, <1>22 DEF Stay, Goto, lists, clockVars, schedVars, timeOuts
<1>23. CASE IdleTest
  BY <1>1, <1>23 DEF IdleTest, Begin, lists, clockVars, schedVars, timeOuts
<1>24. CASE IdleSample
  BY <1>1, <1>24 DEF IdleSample, Goto, lists, clockVars, schedVars, timeOuts
<1>25. CASE Suppress
  BY <1>1, <1>25 DEF Suppress, Goto, lists, clockVars, schedVars, timeOuts
<1>26. CASE vTaskStepTick
  BY <1>1, <1>26 DEF vTaskStepTick, Goto, lists, clockVars, schedVars, timeOuts
<1>27. ASSUME NEW t \in Task, start_task(t)
       PROVE  Requested'
  BY <1>1, <1>27 DEF start_task, Calls, clockVars, timeOuts
<1>28. ASSUME NEW t \in Task, vTaskDelete(t)
       PROVE  Requested'
  <2>1. PICK u \in Task \ {t, Idle} :
          /\ Runs(t) /\ pc[t] = "app" /\ ready' = ready \ {u}
          /\ Return(u) /\ UNCHANGED <<xTickCount, schedVars>>
    BY <1>1, <1>28 DEF vTaskDelete, Calls
  <2>. QED BY <1>1, <2>1 DEF Return, NoCall, SleepCall, schedVars
<1>29. CASE prvCheckTasksWaitingTermination
  BY <1>1, <1>29 DEF prvCheckTasksWaitingTermination, clockVars, schedVars, timeOuts
<1>. QED BY <1>2, <1>3, <1>4, <1>5, <1>6, <1>7, <1>8, <1>9, <1>10, <1>11, <1>12,
            <1>13, <1>14, <1>15, <1>16, <1>17, <1>18, <1>19, <1>20, <1>21, <1>22,
            <1>23, <1>24, <1>25, <1>26, <1>27, <1>28, <1>29
         DEF Next, Interrupt, Window, AppCall, IdleStep, DelayPlace, WaitPlace, PollPlace

-----------------------------------------------------------------------------
(* The theorems. *)

LEMMA InitIInv == Init => IInv
<1>. SUFFICES ASSUME Init PROVE IInv
  OBVIOUS
<1>1. /\ program \in Program /\ AtStart[program] \subseteq Task
      /\ tasks = AtStart[program] /\ ready = tasks /\ Prio \in [Task -> Nat]
  BY TicksAssumption DEF Init
<1>2. TypeOK
  BY <1>1, Widths DEF Init, TypeOK, PCs
<1>3. TickInv
  BY <1>1, Widths, TicksAssumption DEF Init, TickInv, StateLists, Delayed, Time
<1>4. EventItems /\ Leaving
  BY <1>1 DEF Init, EventItems, Leaving
<1>5. Control
  <2>1. uxSchedulerSuspended \in BOOLEAN /\ ~uxSchedulerSuspended
    BY DEF Init
  <2>2. pxCurrentTCB \in Task /\ \A t \in Task : pc[t] = "app"
    BY <1>1 DEF Init
  <2>. QED BY <2>1, <2>2 DEF Control, Suspended
<1>6. TicksLeft
  BY DEF Init, TicksLeft, NoCall
<1>7. SleepEnds
  BY TicksAssumption DEF Init, SleepEnds
<1>8. Requested
  BY <1>1 DEF Init, Requested
<1>. QED BY <1>2, <1>3, <1>4, <1>5, <1>6, <1>7, <1>8 DEF IInv

LEMMA IInvInductive == IInv /\ [Next]_vars => IInv'
BY ListsStep, TypeStep, ControlStep, LeavingStep, TicksLeftStep, SleepEndsStep, RequestedStep
   DEF IInv, ListInv

LEMMA IInvAlways == Spec => []IInv
BY InitIInv, IInvInductive, PTL DEF Spec

(* Every variable keeps its type.                                           *)
THEOREM TypeCorrect == Spec => []TypeOK
<1>1. IInv => TypeOK
  BY DEF IInv
<1>. QED BY <1>1, IInvAlways, PTL

(* The delayed lists are in order at every tick, before and after a wrap of *)
(* the tick count: nobody is overdue and the cached time is never late.     *)
THEOREM TicksInOrder == Spec => []TickInv
<1>1. IInv => TickInv
  BY DEF IInv
<1>. QED BY <1>1, IInvAlways, PTL

(* No ready task ever outranks the running one outside a suspended window,  *)
(* whatever made it ready.                                                  *)
THEOREM HighestAlwaysRuns == Spec => []HighestPriorityRuns
<1>1. IInv => HighestPriorityRuns
  BY DEF IInv, TypeOK, Control, Leaving, Requested, HighestPriorityRuns, Suspended
<1>. QED BY <1>1, IInvAlways, PTL
-----------------------------------------------------------------------------
(* How long a task sleeps: the limits of waits, and that the kernel         *)
(* implements SleepClock, from the invariant above.                         *)


-----------------------------------------------------------------------------
(* Waits with a limit: what the history allows is what the TimeOut_t of the *)
(* call and, while the task sleeps, its wake time say.                      *)

WaitOf(t) ==
    /\ overflowed[t] => pc[t] # "app"
    /\ pc[t] = "check" => call[t].op = "wait"
    /\ exit[t] = "timeout" => budget[t] \in {0, Unattended}
    /\ Timed(t) =>
        /\ xTickCount < xTimeOnEntering[t] => overflowed[t]
        /\ budget[t] # Unattended =>
              budget[t] = IF WentRound(t) \/ xTicksToWait[t] <= Elapsed(t) THEN 0
                                                                 ELSE xTicksToWait[t] - Elapsed(t)
        /\ pc[t] = "place" => xTimeOnEntering[t] = xTickCount /\ ~overflowed[t]
        /\ t \in Delayed => ~WentRound(t) /\ Left(t) = xTicksToWait[t] - Elapsed(t)

WaitInv == \A t \in Task : WaitOf(t)

\* The call of t and its TimeOut_t are left alone.
SameCall(t) ==
    /\ pc'[t] = pc[t] /\ call'[t] = call[t] /\ exit'[t] = exit[t]
    /\ xTicksToWait'[t] = xTicksToWait[t] /\ xTimeOnEntering'[t] = xTimeOnEntering[t]

(* n ticks pass while t waits.                                              *)
LEMMA PassingTicks ==
    ASSUME TypeOK, WaitInv, NEW t \in Task, NEW n \in Nat, n < Width,
           SameCall(t), pc[t] # "place",
           xTickCount' = TicksAhead(n), budget' = BudgetAfter(n),
           overflowed'[t] <=> overflowed[t] \/ (xTickCount' < xTickCount /\ Timed(t)),
           t \in Delayed' => t \in Delayed /\ wake'[t] = wake[t] /\ Left(t) > n
    PROVE  WaitOf(t)'
<1>1. /\ Width \in Nat /\ xTickCount \in Nat /\ xTickCount < Width
      /\ xTimeOnEntering[t] \in Nat /\ xTimeOnEntering[t] < Width
      /\ xTicksToWait[t] \in Nat /\ xTicksToWait[t] < Width
      /\ Unattended = Width
  BY Widths DEF TypeOK, Unattended
<1>2. Timed(t)' = Timed(t)
  BY DEF Timed, SameCall
<1>3. CASE ~Timed(t)
  <2>1. budget'[t] = budget[t] /\ (overflowed'[t] <=> overflowed[t])
    BY <1>3 DEF BudgetAfter, TypeOK
  <2>. QED BY <1>2, <1>3, <2>1 DEF WaitOf, WaitInv, SameCall
<1>4. CASE Timed(t)
  <2>1. /\ xTickCount' = IF xTickCount + n < Width THEN xTickCount + n ELSE xTickCount + n - Width
        /\ xTicksToWait[t] < Width - 1
        /\ pc'[t] # "app" /\ exit'[t] # "timeout" /\ pc'[t] # "place"
    BY <1>1, <1>4 DEF TicksAhead, Timed, SameCall, portMAX_DELAY
  <2>2. /\ xTickCount < xTimeOnEntering[t] => overflowed[t]
        /\ overflowed'[t] <=> overflowed[t] \/ xTickCount' < xTickCount
        /\ xTimeOnEntering'[t] = xTimeOnEntering[t]
    BY <1>4 DEF WaitOf, WaitInv, SameCall
  <2>3. xTickCount' < xTimeOnEntering'[t] => overflowed'[t]
    BY <1>1, <2>1, <2>2
  <2>4. ASSUME budget'[t] # Unattended
        PROVE  budget'[t] = IF WentRound(t)' \/ xTicksToWait'[t] <= Elapsed(t)' THEN 0
                                                               ELSE xTicksToWait'[t] - Elapsed(t)'
    <3>1. /\ budget[t] # Unattended /\ ~WentRound(t) /\ Elapsed(t) + n <= Width
          /\ budget'[t] = IF budget[t] > n THEN budget[t] - n ELSE 0
      BY <1>1, <1>4, <2>4 DEF BudgetAfter, Elapsed
    <3>2. budget[t] = IF xTicksToWait[t] <= Elapsed(t) THEN 0 ELSE xTicksToWait[t] - Elapsed(t)
      BY <1>4, <3>1 DEF WaitOf, WaitInv
    <3>3. CASE Elapsed(t) + n < Width
      <4>1. ~WentRound(t)' /\ Elapsed(t)' = Elapsed(t) + n
        BY <1>1, <2>1, <2>2, <3>1, <3>3 DEF WentRound, Elapsed
      <4>. QED BY <1>1, <3>1, <3>2, <4>1 DEF SameCall, Elapsed
    <3>4. CASE Elapsed(t) + n = Width
      <4>1. WentRound(t)'
        BY <1>1, <2>1, <2>2, <3>1, <3>4 DEF WentRound, Elapsed
      <4>. QED BY <1>1, <2>1, <3>1, <3>2, <3>4, <4>1 DEF Elapsed
    <3>. QED BY <1>1, <3>1, <3>3, <3>4 DEF Elapsed
  <2>5. ASSUME t \in Delayed'
        PROVE  ~WentRound(t)' /\ Left(t)' = xTicksToWait'[t] - Elapsed(t)'
    <3>1. /\ ~WentRound(t) /\ Left(t) = xTicksToWait[t] - Elapsed(t) /\ Left(t) > n
          /\ wake'[t] = wake[t] /\ wake[t] \in Nat /\ wake[t] < Width
      BY <1>4, <2>5, Widths DEF WaitOf, WaitInv, TypeOK
    <3>2. Elapsed(t) + n < Width
      BY <1>1, <3>1 DEF Elapsed, Left
    <3>3. ~WentRound(t)' /\ Elapsed(t)' = Elapsed(t) + n
      BY <1>1, <2>1, <2>2, <3>1, <3>2 DEF WentRound, Elapsed
    <3>4. Left(t)' = Left(t) - n
      BY <1>1, <2>1, <3>1 DEF Left
    <3>. QED BY <1>1, <3>1, <3>3, <3>4 DEF SameCall, Elapsed, Left
  <2>6. pc'[t] = "check" => call'[t].op = "wait"
    BY DEF WaitOf, WaitInv, SameCall
  <2>. QED BY <1>2, <1>4, <2>1, <2>3, <2>4, <2>5, <2>6 DEF WaitOf
<1>. QED BY <1>3, <1>4

(* A step that neither counts ticks nor looks at the limit of t.            *)
LEMMA KeptWait ==
    ASSUME NEW t \in Task, WaitOf(t), UNCHANGED xTickCount,
           pc[t] = "app" <=> pc'[t] = "app",
           pc'[t] = "place" => pc[t] = "place",
           pc'[t] = "check" => pc[t] = "check" \/ call[t].op = "wait",
           exit[t] = "timeout" <=> exit'[t] = "timeout",
           overflowed[t] <=> overflowed'[t],
           call'[t] = call[t], xTicksToWait'[t] = xTicksToWait[t],
           xTimeOnEntering'[t] = xTimeOnEntering[t], budget'[t] = budget[t],
           t \in Delayed' => t \in Delayed /\ wake'[t] = wake[t]
    PROVE  WaitOf(t)'
<1>1. Timed(t)' <=> Timed(t)
  BY DEF Timed
<1>2. (WentRound(t)' <=> WentRound(t)) /\ Elapsed(t)' = Elapsed(t)
  BY DEF WentRound, Elapsed
<1>3. t \in Delayed' => Left(t)' = Left(t)
  BY DEF Left
<1>. QED BY <1>1, <1>2, <1>3 DEF WaitOf

(* A call without a limit to measure, or with none any more.                *)
LEMMA NotTimed ==
    ASSUME NEW t \in Task, ~Timed(t)', overflowed'[t] => pc'[t] # "app",
           pc'[t] = "check" => call'[t].op = "wait",
           exit'[t] = "timeout" => budget'[t] \in {0, Unattended}
    PROVE  WaitOf(t)'
BY DEF WaitOf

(* A call that returns.                                                     *)
LEMMA ReturnWait ==
    ASSUME TypeOK, NEW t \in Task, Return(t)
    PROVE  WaitOf(t)'
<1>1. pc'[t] = "app" /\ exit'[t] = "none" /\ overflowed'[t] = FALSE
  BY DEF Return, TypeOK
<1>. QED BY <1>1, NotTimed DEF Timed

(* The limit is set, or set anew: nothing of it has gone by yet.            *)
LEMMA FreshWait ==
    ASSUME TypeOK, NEW t \in Task, xTickCount' = xTickCount, xTimeOnEntering'[t] = xTickCount,
           overflowed'[t] = FALSE, exit'[t] # "timeout", pc'[t] # "check",
           xTicksToWait'[t] \in Time \ {0}, budget'[t] \in {xTicksToWait'[t], Unattended},
           t \in Delayed' => Left(t)' = xTicksToWait'[t]
    PROVE  WaitOf(t)'
<1>1. ~WentRound(t)' /\ Elapsed(t)' = 0
  BY Widths DEF WentRound, Elapsed, TypeOK
<1>2. xTicksToWait'[t] \in Nat /\ xTicksToWait'[t] > 0 /\ xTickCount \in Nat
  BY Widths DEF TypeOK
<1>. QED BY <1>1, <1>2 DEF WaitOf

(* The running task is in a delayed list only until it yields.              *)
LEMMA RunningIsReady ==
    ASSUME IInv, NEW t \in Task, Runs(t),
           pc[t] \in {"app", "enter", "suspendAll", "check", "place", "expect", "confirm", "slept"}
    PROVE  t \in ready /\ t \notin Delayed
<1>1. t \in ready
  BY DEF IInv, TypeOK, Leaving, Control, Suspended, Runs
<1>. QED BY <1>1 DEF IInv, TickInv, StateLists

(* Both kinds of tick leave a task that sleeps on asleep past it.           *)
LEMMA TickPassesSleepers ==
    ASSUME IInv, NEW switch \in BOOLEAN, CountTick(switch), NEW t \in Delayed'
    PROVE  t \in Delayed /\ wake'[t] = wake[t] /\ Left(t) > 1
<1>. DEFINE now == TicksAhead(1)
            wrapped == now = 0
            list == IF wrapped THEN pxOverflowDelayedTaskList ELSE pxDelayedTaskList
            woken(next) == IF now >= next THEN {u \in list : wake[u] <= now} ELSE {}
<1>1. PICK next \in UnblockTime(wrapped, list) :
        /\ pxDelayedTaskList' = list \ woken(next)
        /\ pxOverflowDelayedTaskList' =
              IF wrapped THEN pxDelayedTaskList ELSE pxOverflowDelayedTaskList
        /\ wake' = [u \in Task |-> IF u \in woken(next) THEN 0 ELSE wake[u]]
  BY DEF CountTick
<1>2. /\ Width \in Nat /\ Width > 2 /\ xTickCount \in Nat /\ xTickCount < Width
      /\ now = IF xTickCount + 1 < Width THEN xTickCount + 1 ELSE 0
      /\ \A u \in Task : wake[u] \in Nat /\ wake[u] < Width
      /\ pxDelayedTaskList \subseteq Task /\ pxOverflowDelayedTaskList \subseteq Task
  <2>1. xTickCount + 1 - Width = 0 \/ xTickCount + 1 < Width
    BY Widths DEF IInv, TypeOK, Time
  <2>. QED BY <2>1, Widths DEF IInv, TypeOK, TicksAhead
<1>3. wrapped => pxDelayedTaskList = {}
  BY <1>2 DEF IInv, TickInv
<1>4. \A u \in list : next <= wake[u]
  BY <1>1, SoonestIsFirst DEF UnblockTime, IInv, TypeOK, TickInv
<1>5. next \in Nat
  BY <1>1, SoonestIsFirst, Widths DEF UnblockTime, IInv, TypeOK
<1>6. CASE t \in pxDelayedTaskList'
  <2>1. t \in list /\ t \notin woken(next) /\ t \in Task /\ wake'[t] = wake[t]
    BY <1>1, <1>2, <1>6
  <2>2. now < wake[t]
    BY <1>2, <1>4, <1>5, <2>1
  <2>3. t \in Delayed /\ (wrapped => wake[t] < xTickCount) /\ (~wrapped => xTickCount < wake[t])
    BY <2>1 DEF Delayed, IInv, TickInv
  <2>. QED BY <1>2, <2>1, <2>2, <2>3 DEF Left
<1>7. CASE t \in pxOverflowDelayedTaskList'
  <2>1. ~wrapped /\ t \in pxOverflowDelayedTaskList /\ t \in Task /\ t \notin list
    BY <1>1, <1>2, <1>3, <1>7 DEF IInv, TickInv, StateLists
  <2>2. t \in Delayed /\ wake'[t] = wake[t] /\ wake[t] < xTickCount
    BY <1>1, <2>1 DEF Delayed, IInv, TickInv
  <2>. QED BY <1>2, <2>1, <2>2 DEF Left
<1>. QED BY <1>6, <1>7 DEF Delayed

(* A tick, counted at once or when the window closes.                       *)
LEMMA TickWait ==
    ASSUME IInv, WaitInv, NEW switch \in BOOLEAN, CountTick(switch), ~uxSchedulerSuspended,
           UNCHANGED <<pc, call, exit>>, NEW t \in Task
    PROVE  WaitOf(t)'
<1>1. /\ xTickCount' = TicksAhead(1) /\ budget' = BudgetAfter(1)
      /\ overflowed' = [u \in Task |-> overflowed[u] \/ (TicksAhead(1) = 0 /\ Timed(u))]
      /\ UNCHANGED <<xTicksToWait, xTimeOnEntering>>
  BY DEF CountTick
<1>2. TicksAhead(1) = 0 <=> xTickCount' < xTickCount
  BY <1>1, Widths DEF TicksAhead, IInv, TypeOK, Time
<1>3. pc[t] # "place"
  BY DEF IInv, TypeOK, Control, Suspended
<1>4. overflowed'[t] <=> overflowed[t] \/ (xTickCount' < xTickCount /\ Timed(t))
  BY <1>1, <1>2
<1>5. SameCall(t)
  BY <1>1 DEF SameCall
<1>6. t \in Delayed' => t \in Delayed /\ wake'[t] = wake[t] /\ Left(t) > 1
  BY TickPassesSleepers
<1>. QED BY <1>1, <1>3, <1>4, <1>5, <1>6, PassingTicks, Widths DEF IInv

(* The ticks the processor slept end nobody's sleep, nor the turn.          *)
LEMMA SleepersOutlast ==
    ASSUME IInv, vTaskStepTick
    PROVE  /\ xTicksToWait[Idle] \in Nat /\ xTickCount + xTicksToWait[Idle] < Width
           /\ xTickCount' = xTickCount + xTicksToWait[Idle] /\ UNCHANGED lists
           /\ \A u \in Delayed : Left(u) > xTicksToWait[Idle]
<1>. DEFINE n == xTicksToWait[Idle]
<1>. USE DEF IInv, TypeOK
<1>1. UNCHANGED lists /\ pc[Idle] = "slept" /\ Idle \in Task
  BY TicksAssumption DEF vTaskStepTick
<1>2. /\ n \in Nat /\ xTickCount \in Nat /\ xNextTaskUnblockTime \in Nat /\ Width \in Nat
      /\ xTickCount + n < xNextTaskUnblockTime /\ xNextTaskUnblockTime < Width
  BY <1>1, Widths DEF SleepEnds
<1>3. xTickCount' = xTickCount + n
  BY DEF vTaskStepTick
<1>4. ASSUME NEW u \in Delayed
      PROVE  Left(u) > n
  <2>1. u \in Task /\ wake[u] \in Nat /\ wake[u] < Width
    BY Widths DEF Delayed
  <2>2. CASE u \in pxDelayedTaskList
    BY <1>2, <2>1, <2>2 DEF Left, TickInv
  <2>3. CASE u \in pxOverflowDelayedTaskList
    BY <1>2, <2>1, <2>3 DEF Left, TickInv
  <2>. QED BY <2>2, <2>3 DEF Delayed
<1>. QED BY <1>1, <1>2, <1>3, <1>4

(* Every step keeps the limits of the waits.                                *)
LEMMA WaitStep ==
    ASSUME IInv, WaitInv, [Next]_vars, NEW u \in Task
    PROVE  WaitOf(u)'
<1>1. IInv /\ TypeOK /\ WaitInv /\ WaitOf(u) /\ u \in Task /\ Idle \in Task
  BY TicksAssumption DEF IInv, WaitInv
<1>. USE DEF TypeOK
<1>2. CASE UNCHANGED vars
  BY <1>1, <1>2, KeptWait DEF vars, lists, clockVars, schedVars, timeOuts, Delayed
<1>3. CASE xPortSysTickHandler
  <2>1. CASE uxSchedulerSuspended
    BY <1>1, <1>3, <2>1, KeptWait DEF xPortSysTickHandler, Delayed, lists, clockVars, timeOuts
  <2>2. CASE ~uxSchedulerSuspended
    <3>1. PICK switch \in BOOLEAN : CountTick(switch)
      BY <1>3, <2>2 DEF xPortSysTickHandler
    <3>. QED BY <1>1, <1>3, <2>2, <3>1, TickWait DEF xPortSysTickHandler
  <2>. QED BY <2>1, <2>2
<1>4. CASE vTaskSwitchContext
  BY <1>1, <1>4, KeptWait DEF vTaskSwitchContext, Masked, HighestReady, Delayed, Unlist,
                              lists, clockVars, schedVars, timeOuts
<1>5. CASE xTaskResumeFromISR
  BY <1>1, <1>5, KeptWait DEF xTaskResumeFromISR, MakeReady, Delayed, Unlist, lists,
                              clockVars, schedVars, timeOuts
<1>6. CASE NotifyFromISR
  BY <1>1, <1>6, KeptWait DEF NotifyFromISR, Deliver, MakeReady, Delayed, Unlist, lists,
                              clockVars, schedVars, timeOuts
<1>7. ASSUME NEW t \in Task, vTaskSuspendAll(t)
      PROVE  WaitOf(u)'
  <2>1. CASE u # t
    BY <1>1, <1>7, <2>1, KeptWait DEF vTaskSuspendAll, Goto, Delayed, Unlist, lists,
                                      clockVars, schedVars, timeOuts
  <2>2. CASE u = t
    <3>1. CASE call[t].op = "wait"
      BY <1>1, <1>7, <2>2, <3>1, KeptWait DEF vTaskSuspendAll, Goto, Delayed, lists,
                                              clockVars, timeOuts
    <3>2. CASE call[t].op # "wait"
      <4>1. pc'[t] \in {"expect", "place"} /\ ~Timed(t)'
        BY <1>1, <1>7, <3>2 DEF vTaskSuspendAll, Goto, Timed
      <4>. QED BY <1>1, <1>7, <2>2, <4>1, NotTimed DEF vTaskSuspendAll, WaitOf, timeOuts
    <3>. QED BY <3>1, <3>2
  <2>. QED BY <2>1, <2>2
<1>8. ASSUME NEW t \in Task, xTaskCheckForTimeOut(t)
      PROVE  WaitOf(u)'
  <2>1. CASE u # t
    BY <1>1, <1>8, <2>1, KeptWait DEF xTaskCheckForTimeOut, Goto, Delayed, Unlist, lists,
                                      clockVars, schedVars, timeOuts
  <2>2. CASE u = t
    <3>1. /\ Runs(t) /\ pc[t] = "check" /\ t \notin Delayed /\ call[t].op = "wait"
          /\ exit[t] = "none" /\ xTicksToWait[t] \in Time /\ UNCHANGED <<lists, clockVars>>
      BY <1>1, <1>8, <2>2, RunningIsReady DEF xTaskCheckForTimeOut, IInv, TicksLeft, WaitOf
    <3>2. CASE xTicksToWait[t] = portMAX_DELAY
      <4>1. ~Timed(t)' /\ pc'[t] = "place" /\ exit'[t] = "none"
        BY <1>1, <1>8, <3>1, <3>2 DEF xTaskCheckForTimeOut, Goto, Timed, timeOuts
      <4>. QED BY <2>2, <4>1, NotTimed
    <3>3. CASE /\ xTicksToWait[t] # portMAX_DELAY
               /\ WentRound(t) \/ Elapsed(t) >= xTicksToWait[t]
      <4>1. pc'[t] = "resumeAll" /\ exit'[t] = "timeout" /\ budget'[t] = budget[t]
        BY <1>1, <1>8, <3>3 DEF xTaskCheckForTimeOut, Goto
      <4>2. Timed(t)
        BY <3>1, <3>3 DEF Timed
      <4>3. Elapsed(t) \in Int /\ xTicksToWait[t] \in Int
        BY <1>1, Widths DEF Elapsed
      <4>4. budget[t] \in {0, Unattended}
        BY <1>1, <2>2, <3>3, <4>2, <4>3 DEF WaitOf
      <4>. QED BY <2>2, <4>1, <4>4, NotTimed DEF Timed
    <3>4. CASE /\ xTicksToWait[t] # portMAX_DELAY
               /\ ~(WentRound(t) \/ Elapsed(t) >= xTicksToWait[t])
      <4>1. /\ pc'[t] = "place" /\ exit'[t] = "none" /\ budget'[t] = budget[t]
            /\ xTicksToWait'[t] = xTicksToWait[t] - Elapsed(t)
            /\ xTimeOnEntering'[t] = xTickCount /\ overflowed'[t] = FALSE
        BY <1>1, <1>8, <3>1, <3>4 DEF xTaskCheckForTimeOut, Goto, Remaining
      <4>2. Timed(t)
        BY <3>1, <3>4 DEF Timed
      <4>3. Elapsed(t) \in Int /\ Elapsed(t) >= 0 /\ Elapsed(t) < xTicksToWait[t]
        BY <1>1, <3>1, <3>4, Widths DEF Elapsed
      <4>4. xTicksToWait'[t] \in Time \ {0}
        BY <3>1, <4>1, <4>3, Widths DEF Time
      <4>5. budget'[t] \in {xTicksToWait'[t], Unattended}
        BY <1>1, <2>2, <3>1, <3>4, <4>1, <4>2, <4>3, Widths DEF WaitOf
      <4>6. t \notin Delayed' /\ xTickCount' = xTickCount
        BY <3>1 DEF lists, clockVars, Delayed
      <4>. QED BY <1>1, <2>2, <4>1, <4>4, <4>5, <4>6, FreshWait
    <3>. QED BY <3>2, <3>3, <3>4
  <2>. QED BY <2>1, <2>2
<1>9. ASSUME NEW t \in Task, NEW o, NEW n, NEW forever, Runs(t), pc[t] = "place", call[t].op = "wait" => n = xTicksToWait[t] /\ forever,
                      Place(t, o, n, forever)
      PROVE  WaitOf(u)'
  <2>1. CASE u # t
    BY <1>1, <1>9, <2>1, KeptWait DEF Place, AddToDelayedList, Goto, Delayed, Unlist, lists,
                                      clockVars, schedVars, timeOuts
  <2>2. CASE u = t
    <3>1. /\ pc'[t] = "resumeAll" /\ exit'[t] = "block" /\ call' = call /\ xTickCount' = xTickCount
          /\ UNCHANGED timeOuts /\ xTicksToWait[t] \in Time
      BY <1>1, <1>9 DEF Place, Goto
    <3>2. CASE Timed(t)'
      <4>1. /\ call[t].op = "wait" /\ xTicksToWait[t] # portMAX_DELAY /\ exit[t] = "none" /\ Timed(t)
            /\ n = xTicksToWait[t] /\ xTimeOnEntering[t] = xTickCount /\ overflowed[t] = FALSE
        BY <1>1, <1>9, <2>2, <3>1, <3>2 DEF Timed, timeOuts, IInv, TicksLeft, WaitOf
      <4>2. n \in Time /\ n > 0
        BY <1>1, <3>1, <4>1 DEF IInv, TicksLeft
      <4>3. wake'[t] = TicksAhead(n) /\ Elapsed(t) = 0 /\ ~WentRound(t)
        BY <1>1, <1>9, <4>1, Widths DEF Place, AddToDelayedList, Elapsed, WentRound
      <4>4. Left(t)' = n
        BY <1>1, <3>1, <4>2, <4>3, Widths DEF Left, TicksAhead
      <4>5. budget[t] \in {n, Unattended}
        BY <1>1, <2>2, <4>1, <4>2, <4>3, Widths DEF WaitOf
      <4>6. /\ xTicksToWait'[t] = n /\ xTimeOnEntering'[t] = xTickCount /\ overflowed'[t] = FALSE
            /\ budget'[t] \in {n, Unattended} /\ n \in Time \ {0}
        BY <3>1, <4>1, <4>2, <4>5 DEF timeOuts
      <4>. QED BY <1>1, <2>2, <3>1, <4>4, <4>6, FreshWait
    <3>3. CASE ~Timed(t)'
      BY <1>1, <2>2, <3>1, <3>3, NotTimed DEF WaitOf, timeOuts
    <3>. QED BY <3>2, <3>3
  <2>. QED BY <2>1, <2>2
<1>10. ASSUME NEW t \in Task, xTaskResumeAll(t)
      PROVE  WaitOf(u)'
  BY <1>1, <1>10, KeptWait DEF xTaskResumeAll, MakeReady, Goto, Delayed, Unlist, lists,
                               clockVars, schedVars, timeOuts
<1>11. ASSUME NEW t \in Task, ReplayTick(t)
      PROVE  WaitOf(u)'
  <2>1. PICK switch \in BOOLEAN : CountTick(switch)
    BY <1>11 DEF ReplayTick
  <2>2. ~uxSchedulerSuspended
    BY <1>1, <1>11 DEF ReplayTick, Runs, IInv, TypeOK, Control, Suspended
  <2>. QED BY <1>1, <1>11, <2>1, <2>2, TickWait DEF ReplayTick
<1>12. ASSUME NEW t \in Task, FinishResume(t)
      PROVE  WaitOf(u)'
  <2>1. CASE u # t
    BY <1>1, <1>12, <2>1, KeptWait DEF FinishResume, Continue, Goto, Return, Delayed, Unlist,
                                       lists, clockVars, schedVars, timeOuts
  <2>2. CASE u = t
    <3>1. CASE Return(t)
      BY <1>1, <2>2, <3>1, ReturnWait
    <3>2. CASE ~Return(t)
      BY <1>1, <1>12, <2>2, <3>2, KeptWait DEF FinishResume, Continue, Goto, Delayed, lists,
                                               clockVars, timeOuts
    <3>. QED BY <3>1, <3>2
  <2>. QED BY <2>1, <2>2
<1>13. ASSUME NEW t \in Task, portYIELD_WITHIN_API(t)
      PROVE  WaitOf(u)'
  <2>1. CASE u # t
    BY <1>1, <1>13, <2>1, KeptWait DEF portYIELD_WITHIN_API, Continue, Goto, Return, Delayed,
                                       Unlist, lists, clockVars, schedVars, timeOuts
  <2>2. CASE u = t
    <3>1. CASE Return(t)
      BY <1>1, <2>2, <3>1, ReturnWait
    <3>2. CASE ~Return(t)
      BY <1>1, <1>13, <2>2, <3>2, KeptWait DEF portYIELD_WITHIN_API, Continue, Goto, Delayed,
                                               lists, clockVars, timeOuts
    <3>. QED BY <3>1, <3>2
  <2>. QED BY <2>1, <2>2
<1>14. ASSUME NEW t \in Task, Look(t)
      PROVE  WaitOf(u)'
  <2>1. CASE u # t
    BY <1>1, <1>14, <2>1, KeptWait DEF Look, Goto, Return, Delayed, Unlist, lists, clockVars,
                                       schedVars, timeOuts
  <2>2. CASE u = t
    <3>1. CASE Return(t)
      BY <1>1, <2>2, <3>1, ReturnWait
    <3>2. CASE ~Return(t)
      BY <1>1, <1>14, <2>2, <3>2, KeptWait DEF Look, Goto, Delayed, lists, clockVars, timeOuts
    <3>. QED BY <3>1, <3>2
  <2>. QED BY <2>1, <2>2
<1>15. ASSUME NEW t \in Task, SuspendReset(t)
      PROVE  WaitOf(u)'
  <2>1. CASE u # t
    BY <1>1, <1>15, <2>1, KeptWait DEF SuspendReset, Goto, Return, Delayed, Unlist, lists,
                                       clockVars, schedVars, timeOuts
  <2>2. CASE u = t
    <3>1. CASE Return(t)
      BY <1>1, <2>2, <3>1, ReturnWait
    <3>2. CASE ~Return(t)
      BY <1>1, <1>15, <2>2, <3>2, KeptWait DEF SuspendReset, Goto, Delayed, lists, clockVars,
                                               timeOuts
    <3>. QED BY <3>1, <3>2
  <2>. QED BY <2>1, <2>2
<1>16. ASSUME NEW t \in Task, vTaskDelay(t)
      PROVE  WaitOf(u)'
  <2>1. CASE u # t
    BY <1>1, <1>16, <2>1, KeptWait DEF vTaskDelay, Calls, Begin, Delayed, Unlist, lists,
                                       clockVars, schedVars, timeOuts
  <2>2. CASE u = t
    <3>1. ~Timed(t)' /\ pc'[t] = "suspendAll" /\ exit'[t] = "none"
      BY <1>1, <1>16 DEF vTaskDelay, Calls, Begin, Timed, IInv, TicksLeft
    <3>. QED BY <1>1, <2>2, <3>1, NotTimed
  <2>. QED BY <2>1, <2>2
<1>17. ASSUME NEW t \in Task, Wait(t)
      PROVE  WaitOf(u)'
  <2>1. CASE u # t
    BY <1>1, <1>17, <2>1, KeptWait DEF Wait, Calls, Begin, Delayed, Unlist, lists, clockVars,
                                       schedVars, timeOuts
  <2>2. CASE u = t
    <3>1. PICK c \in Calls(t, "wait") :
            /\ Runs(t) /\ pc[t] = "app" /\ c.op = "wait" /\ call'[t] = c /\ pc'[t] = "suspendAll"
            /\ xTicksToWait'[t] = c.ticks /\ UNCHANGED <<lists, xTickCount, exit, overflowed>>
            /\ c.ticks # portMAX_DELAY => xTimeOnEntering'[t] = xTickCount /\ budget'[t] = c.ticks
      BY <1>1, <1>17 DEF Wait, Calls, Begin, clockVars
    <3>2. /\ c.ticks \in Time \ {0} /\ t \notin Delayed' /\ exit'[t] = "none"
          /\ overflowed'[t] = FALSE
      BY <1>1, <2>2, <3>1, CallsMade, CallFields, RunningIsReady DEF Delayed, lists, IInv, TicksLeft,
         WaitOf
    <3>3. CASE c.ticks = portMAX_DELAY
      BY <2>2, <3>1, <3>2, <3>3, NotTimed DEF Timed
    <3>4. CASE c.ticks # portMAX_DELAY
      BY <1>1, <2>2, <3>1, <3>2, <3>4, FreshWait
    <3>. QED BY <3>3, <3>4
  <2>. QED BY <2>1, <2>2
<1>18. ASSUME NEW t \in Task, Poll(t)
      PROVE  WaitOf(u)'
  <2>1. CASE u # t
    BY <1>1, <1>18, <2>1, KeptWait DEF Poll, Calls, Begin, Delayed, Unlist, lists, clockVars,
                                       schedVars, timeOuts
  <2>2. CASE u = t
    <3>1. call'[t].op = "poll" /\ pc'[t] = "suspendAll" /\ exit'[t] = "none"
      BY <1>1, <1>18 DEF Poll, Calls, Begin, IInv, TicksLeft
    <3>2. ~Timed(t)'
      BY <3>1 DEF Timed
    <3>. QED BY <1>1, <2>2, <3>1, <3>2, NotTimed
  <2>. QED BY <2>1, <2>2
<1>19. ASSUME NEW t \in Task, vTaskSuspend(t)
      PROVE  WaitOf(u)'
  <2>1. CASE u # t
    BY <1>1, <1>19, <2>1, KeptWait DEF vTaskSuspend, Calls, Delayed, Unlist, lists,
                                       clockVars, schedVars, timeOuts
  <2>2. CASE u = t
    <3>1. call'[t].op = "suspend" /\ pc'[t] = "reset" /\ exit'[t] = "none"
      BY <1>1, <1>19 DEF vTaskSuspend, Calls, IInv, TicksLeft
    <3>2. ~Timed(t)'
      BY <3>1 DEF Timed
    <3>. QED BY <1>1, <2>2, <3>1, <3>2, NotTimed
  <2>. QED BY <2>1, <2>2
<1>20. ASSUME NEW t \in Task, vTaskResume(t)
      PROVE  WaitOf(u)'
  BY <1>1, <1>20, KeptWait DEF vTaskResume, Calls, MakeReady, Delayed, Unlist, lists,
                               clockVars, schedVars, timeOuts
<1>21. ASSUME NEW t \in Task, NEW o \in Object, Notify(t, o)
      PROVE  WaitOf(u)'
  BY <1>1, <1>21, KeptWait DEF Notify, Calls, Deliver, MakeReady, Delayed, Unlist, lists,
                               clockVars, schedVars, timeOuts
<1>22. ASSUME NEW t \in Task, NEW next \in {"retry", "block"}, Stay(t, next)
      PROVE  WaitOf(u)'
  <2>1. CASE u # t
    BY <1>1, <1>22, <2>1, KeptWait DEF Stay, Goto, Delayed, Unlist, lists, clockVars,
                                       schedVars, timeOuts
  <2>2. CASE u = t
    <3>1. exit[t] = "none"
      BY <1>1, <1>22 DEF Stay, IInv, TicksLeft
    <3>. QED BY <1>1, <1>22, <2>2, <3>1, KeptWait DEF Stay, Goto, Delayed, lists, clockVars,
                                                      timeOuts
  <2>. QED BY <2>1, <2>2
<1>23. CASE IdleTest
  <2>1. CASE u # Idle
    BY <1>1, <1>23, <2>1, KeptWait DEF IdleTest, Begin, Delayed, Unlist, lists, clockVars,
                                       schedVars, timeOuts
  <2>2. CASE u = Idle
    <3>1. call'[Idle].op = "sleep" /\ pc'[Idle] \notin {"app", "check"} /\ exit'[Idle] = exit[Idle]
      BY <1>1, <1>23 DEF IdleTest, Begin, SleepCall, IInv, Control
    <3>2. ~Timed(Idle)' /\ budget'[Idle] = budget[Idle]
      BY <1>1, <1>23, <3>1 DEF IdleTest, Begin, Timed, timeOuts
    <3>. QED BY <1>1, <2>2, <3>1, <3>2, NotTimed DEF WaitOf
  <2>. QED BY <2>1, <2>2
<1>24. CASE IdleSample
  <2>1. CASE u # Idle
    BY <1>1, <1>24, <2>1, KeptWait DEF IdleSample, Goto, Delayed, Unlist, lists, clockVars,
                                       schedVars, timeOuts
  <2>2. CASE u = Idle
    <3>1. call'[Idle].op = "sleep" /\ pc'[Idle] \notin {"app", "check"} /\ exit'[Idle] = exit[Idle]
      BY <1>1, <1>24 DEF IdleSample, Goto, SleepCall, IInv, Control
    <3>2. ~Timed(Idle)' /\ budget'[Idle] = budget[Idle]
      BY <1>1, <1>24, <3>1 DEF IdleSample, Goto, Timed, timeOuts
    <3>. QED BY <1>1, <2>2, <3>1, <3>2, NotTimed DEF WaitOf
  <2>. QED BY <2>1, <2>2
<1>25. CASE Suppress
  <2>1. CASE u # Idle
    BY <1>1, <1>25, <2>1, KeptWait DEF Suppress, Goto, Delayed, Unlist, lists, clockVars,
                                       schedVars, timeOuts
  <2>2. CASE u = Idle
    <3>1. call'[Idle].op = "sleep" /\ pc'[Idle] \notin {"app", "check"} /\ exit'[Idle] = exit[Idle]
      BY <1>1, <1>25 DEF Suppress, Goto, SleepCall, IInv, Control
    <3>2. ~Timed(Idle)' /\ budget'[Idle] = budget[Idle]
      BY <1>1, <1>25, <3>1 DEF Suppress, Goto, Timed, timeOuts
    <3>. QED BY <1>1, <2>2, <3>1, <3>2, NotTimed DEF WaitOf
  <2>. QED BY <2>1, <2>2
<1>26. CASE vTaskStepTick
  <2>1. /\ pc[Idle] = "slept" /\ pxCurrentTCB = Idle
        /\ \A v \in Task \ {Idle} : pc[v] \notin Suspended
    BY <1>1, <1>26 DEF vTaskStepTick, Runs, IInv, Control
  <2>2. CASE u = Idle
    <3>1. call'[Idle].op = "sleep" /\ pc'[Idle] = "resumeAll" /\ exit'[Idle] = exit[Idle]
      BY <1>1, <1>26, <2>1 DEF vTaskStepTick, Goto, IInv, Control
    <3>2. ~Timed(Idle) /\ ~Timed(Idle)'
      BY <1>1, <2>1, <3>1 DEF Timed, IInv, Control
    <3>3. budget'[Idle] = budget[Idle]
      BY <1>1, <1>26, <3>2 DEF vTaskStepTick, BudgetAfter
    <3>. QED BY <1>1, <1>26, <2>2, <3>1, <3>2, <3>3, NotTimed DEF WaitOf
  <2>3. CASE u # Idle
    <3>. DEFINE n == xTicksToWait[Idle]
    <3>1. /\ n \in Nat /\ xTickCount + n < Width /\ xTickCount' = xTickCount + n /\ UNCHANGED lists
          /\ xTickCount \in Nat /\ Width \in Nat
      BY <1>1, <1>26, SleepersOutlast, Widths
    <3>2. /\ xTickCount' = TicksAhead(n) /\ budget' = BudgetAfter(n) /\ ~(xTickCount' < xTickCount)
          /\ n < Width
      BY <1>1, <1>26, <3>1 DEF vTaskStepTick, TicksAhead
    <3>3. SameCall(u) /\ (overflowed'[u] <=> overflowed[u]) /\ pc[u] # "place"
      BY <1>1, <1>26, <2>1, <2>3 DEF vTaskStepTick, Goto, SameCall, Suspended
    <3>4. u \in Delayed' => u \in Delayed /\ wake'[u] = wake[u] /\ Left(u) > n
      BY <1>1, <1>26, <3>1, SleepersOutlast DEF lists, Delayed
    <3>. QED BY <1>1, <3>1, <3>2, <3>3, <3>4, PassingTicks
  <2>. QED BY <2>2, <2>3
<1>27. ASSUME NEW t \in Task, start_task(t)
       PROVE  WaitOf(u)'
  BY <1>1, <1>27, KeptWait DEF start_task, Delayed, clockVars, timeOuts
<1>28. ASSUME NEW t \in Task, vTaskDelete(t)
       PROVE  WaitOf(u)'
  <2>1. PICK v \in Task : Unlist({v}) /\ Return(v) /\ UNCHANGED xTickCount
    BY <1>1, <1>28 DEF vTaskDelete
  <2>2. CASE u = v
    BY <1>1, <2>1, <2>2, ReturnWait
  <2>3. CASE u # v
    BY <1>1, <2>1, <2>3, KeptWait DEF Return, Unlist, Delayed
  <2>. QED BY <2>2, <2>3
<1>29. CASE prvCheckTasksWaitingTermination
  BY <1>1, <1>29, KeptWait DEF prvCheckTasksWaitingTermination, Delayed, clockVars, timeOuts
<1>. QED BY <1>2, <1>3, <1>4, <1>5, <1>6, <1>7, <1>8, <1>9, <1>10, <1>11, <1>12,
            <1>13, <1>14, <1>15, <1>16, <1>17, <1>18, <1>19, <1>20, <1>21, <1>22,
            <1>23, <1>24, <1>25, <1>26, <1>27, <1>28, <1>29
         DEF Next, Interrupt, Window, AppCall, IdleStep, DelayPlace, WaitPlace, PollPlace

LEMMA InitWait == Init => WaitInv
<1>. SUFFICES ASSUME Init, NEW t \in Task PROVE WaitOf(t)
  BY DEF WaitInv
<1>. QED BY DEF Init, WaitOf, Timed

LEMMA WaitAlways == Spec => []WaitInv
<1>1. IInv /\ WaitInv /\ [Next]_vars => WaitInv'
  BY WaitStep, TicksAssumption DEF WaitInv
<1>. QED BY <1>1, InitWait, IInvAlways, PTL DEF Spec

(* A wait with a limit that gives up has waited its limit out, and one that *)
(* sleeps will wake at its end, whatever woke it for nothing in between and *)
(* wherever the tick count wrapped.                                         *)
THEOREM LimitsAreKept == Spec => []TimeLimit
<1>1. IInv /\ WaitInv => TimeLimit
  <2>. SUFFICES ASSUME IInv, WaitInv, NEW t \in Task
                PROVE  /\ exit[t] = "timeout" /\ budget[t] # Unattended => budget[t] = 0
                       /\ Timed(t) /\ budget[t] # Unattended =>
                            /\ pc[t] = "place" => budget[t] > 0 /\ xTicksToWait[t] = budget[t]
                            /\ t \in Delayed => Left(t) = budget[t]
    BY DEF TimeLimit
  <2>1. exit[t] = "timeout" /\ budget[t] # Unattended => budget[t] = 0
    BY DEF WaitInv, WaitOf
  <2>2. ASSUME Timed(t), budget[t] # Unattended, pc[t] = "place"
        PROVE  budget[t] > 0 /\ xTicksToWait[t] = budget[t]
    <3>1. xTicksToWait[t] > 0 /\ xTicksToWait[t] \in Nat /\ xTickCount \in Nat
      BY <2>2, Widths DEF IInv, TypeOK, TicksLeft, Timed
    <3>2. xTimeOnEntering[t] = xTickCount /\ ~WentRound(t)
      BY <2>2 DEF WaitInv, WaitOf, WentRound
    <3>3. Elapsed(t) = 0
      BY <3>1, <3>2 DEF Elapsed
    <3>. QED BY <2>2, <3>1, <3>2, <3>3 DEF WaitInv, WaitOf
  <2>3. ASSUME Timed(t), budget[t] # Unattended, t \in Delayed
        PROVE  Left(t) = budget[t]
    <3>1. /\ ~WentRound(t) /\ Left(t) = xTicksToWait[t] - Elapsed(t)
          /\ budget[t] = IF xTicksToWait[t] <= Elapsed(t) THEN 0 ELSE xTicksToWait[t] - Elapsed(t)
      BY <2>3 DEF WaitInv, WaitOf
    <3>2. Left(t) \in Int /\ Left(t) > 0 /\ Elapsed(t) \in Int /\ xTicksToWait[t] \in Int
      BY <2>3, Widths DEF IInv, TypeOK, TickInv, Left, Elapsed, Delayed
    <3>. QED BY <3>1, <3>2
  <2>. QED BY <2>1, <2>2, <2>3
<1>. QED BY <1>1, IInvAlways, WaitAlways, PTL

-----------------------------------------------------------------------------
(* The refinement. *)

\* The values the variables of SleepClock have, and what a step does to them.
left == [t \in Task |-> IF t \in Delayed THEN Left(t) ELSE 0]
stopped == {t \in Task : IsTaskSuspended(t)}
ClockStep == Clock!Next \/ UNCHANGED <<xTickCount, left, stopped>>

(* No sleep is over while it lasts.                                         *)
LEMMA LeftInTime ==
    ASSUME IInv
    PROVE  /\ \A t \in Delayed : t \in Task /\ Left(t) \in 1 .. Width - 1
           /\ left \in [Task -> 0 .. Width - 1]
           /\ \A t \in Task : left[t] = 0 <=> t \notin Delayed
<1>1. ASSUME NEW t \in Delayed
      PROVE  t \in Task /\ Left(t) \in 1 .. Width - 1
  BY <1>1, Widths DEF IInv, TypeOK, TickInv, Delayed, Left
<1>. QED BY <1>1, Widths DEF left

LEMMA KeptClock ==
    ASSUME UNCHANGED <<xTickCount, pxDelayedTaskList, pxOverflowDelayedTaskList, wake,
                       xSuspendedTaskList, xEventListItem>>
    PROVE  ClockStep
BY DEF ClockStep, left, stopped, Delayed, Left, IsTaskSuspended

(* Tasks are made ready by their events.                                    *)
LEMMA WakeClock ==
    ASSUME IInv, NEW S \in SUBSET Task, MakeReady(S), UNCHANGED xTickCount,
           \A t \in S : xEventListItem[t] # NULL
    PROVE  ClockStep
<1>. USE DEF IInv, TypeOK
<1>1. stopped' = stopped
  BY DEF stopped, IsTaskSuspended, MakeReady
<1>2. left' = [t \in Task |-> IF t \in S THEN 0 ELSE left[t]]
  <2>1. ASSUME NEW t \in Task
        PROVE  (t \in Delayed' <=> t \in Delayed /\ t \notin S) /\ (t \notin S => Left(t)' = Left(t))
    BY DEF Delayed, MakeReady, Unlist, Left
  <2>. QED BY <2>1 DEF left
<1>3. Clock!Wake(S)
  BY <1>1, <1>2 DEF Clock!Wake, left, stopped
<1>. QED BY <1>3 DEF ClockStep, Clock!Next

(* A task leaves the delayed list it may be in.                             *)
LEMMA UnlistClock ==
    ASSUME IInv, NEW v \in Task, Unlist({v}), UNCHANGED xTickCount
    PROVE  left' = [left EXCEPT ![v] = 0]
<1>. USE DEF IInv, TypeOK
<1>1. \A u \in Task : /\ u \in Delayed' <=> u \in Delayed /\ u # v
                      /\ u # v => Left(u)' = Left(u)
  BY DEF Unlist, Delayed, Left
<1>. QED BY <1>1 DEF left

(* A suspended task is made ready, or will be when the window closes.       *)
LEMMA ResumeClock ==
    ASSUME IInv, NEW t \in Task, IsTaskSuspended(t), UNCHANGED xTickCount,
           \/ MakeReady({t})
           \/ /\ xEventListItem' = [xEventListItem EXCEPT ![t] = Pending]
              /\ UNCHANGED <<pxDelayedTaskList, pxOverflowDelayedTaskList, xSuspendedTaskList, wake>>
    PROVE  ClockStep
<1>. USE DEF IInv, TypeOK
<1>1. t \in xSuspendedTaskList /\ t \notin Delayed
  BY DEF IsTaskSuspended, TickInv, StateLists
<1>2. stopped' = stopped \ {t}
  BY <1>1, TicksAssumption DEF stopped, IsTaskSuspended, MakeReady
<1>3. left' = left
  <2>1. Delayed' = Delayed
    BY <1>1 DEF Delayed, MakeReady, Unlist
  <2>2. \A u \in Delayed : Left(u)' = Left(u)
    BY <1>1 DEF Delayed, MakeReady, Unlist, Left
  <2>. QED BY <2>1, <2>2 DEF left
<1>4. t \in stopped
  BY DEF stopped
<1>5. Clock!Resume(t)
  BY <1>2, <1>3, <1>4 DEF Clock!Resume, left, stopped
<1>. QED BY <1>5 DEF ClockStep, Clock!Next

(* An event for a waiting task, be the scheduler suspended or not.          *)
LEMMA DeliverClock ==
    ASSUME IInv, NEW o \in Object, NEW w \in First(o), Deliver(w)
    PROVE  ClockStep
<1>. USE DEF IInv, TypeOK
<1>1. w \in Task /\ xEventListItem[w] # NULL /\ UNCHANGED xTickCount
  BY TicksAssumption DEF First, Deliver
<1>2. CASE uxSchedulerSuspended
  <2>1. stopped' = stopped
    BY <1>1, <1>2, TicksAssumption DEF Deliver, stopped, IsTaskSuspended
  <2>2. left' = left
    BY <1>1, <1>2 DEF Deliver, left, Delayed, Left
  <2>. QED BY <1>1, <2>1, <2>2 DEF ClockStep
<1>3. CASE ~uxSchedulerSuspended
  BY <1>1, <1>3, WakeClock DEF Deliver
<1>. QED BY <1>2, <1>3

(* A tick takes one from what each sleeper has left.                        *)
LEMMA TickClock ==
    ASSUME IInv, NEW switch \in BOOLEAN, CountTick(switch)
    PROVE  ClockStep
<1>. DEFINE now == TicksAhead(1)
            wrapped == now = 0
            list == IF wrapped THEN pxOverflowDelayedTaskList ELSE pxDelayedTaskList
            woken(next) == IF now >= next THEN {u \in list : wake[u] <= now} ELSE {}
<1>1. PICK next \in UnblockTime(wrapped, list) :
        /\ xTickCount' = now
        /\ pxDelayedTaskList' = list \ woken(next)
        /\ pxOverflowDelayedTaskList' =
              IF wrapped THEN pxDelayedTaskList ELSE pxOverflowDelayedTaskList
        /\ xEventListItem' = [u \in Task |-> IF u \in woken(next) THEN NULL ELSE xEventListItem[u]]
        /\ UNCHANGED xSuspendedTaskList
  BY DEF CountTick
<1>2. /\ Width \in Nat /\ Width > 2 /\ xTickCount \in Nat /\ xTickCount < Width
      /\ now = IF xTickCount + 1 < Width THEN xTickCount + 1 ELSE 0
      /\ \A u \in Task : wake[u] \in Nat /\ wake[u] < Width
      /\ pxDelayedTaskList \subseteq Task /\ pxOverflowDelayedTaskList \subseteq Task
  <2>1. xTickCount + 1 - Width = 0 \/ xTickCount + 1 < Width
    BY Widths DEF IInv, TypeOK, Time
  <2>. QED BY <2>1, Widths DEF IInv, TypeOK, TicksAhead
<1>3. wrapped => pxDelayedTaskList = {}
  BY <1>2 DEF IInv, TickInv
<1>4. \A u \in woken(next) : u \in Delayed /\ Left(u) = 1
  <2>. SUFFICES ASSUME NEW u \in woken(next) PROVE u \in Delayed /\ Left(u) = 1
    OBVIOUS
  <2>1. u \in list /\ wake[u] <= now /\ u \in Delayed
    BY DEF Delayed
  <2>2. /\ wrapped => wake[u] < xTickCount
        /\ ~wrapped => xTickCount < wake[u]
    BY <2>1 DEF IInv, TickInv
  <2>. QED BY <1>2, <2>1, <2>2 DEF Left, Delayed
<1>5. Delayed' = Delayed \ woken(next)
  <2>1. woken(next) \subseteq list /\ pxDelayedTaskList \cap pxOverflowDelayedTaskList = {}
    BY DEF IInv, TickInv, StateLists
  <2>. QED BY <1>1, <1>3, <2>1 DEF Delayed
<1>6. stopped' = stopped
  <2>1. \A u \in woken(next) : u \notin xSuspendedTaskList
    BY <1>4 DEF IInv, TickInv, StateLists
  <2>. QED BY <1>1, <2>1 DEF stopped, IsTaskSuspended
<1>7. \A u \in Delayed' : Left(u)' = Left(u) - 1
  <2>. SUFFICES ASSUME NEW u \in Delayed' PROVE Left(u)' = Left(u) - 1
    OBVIOUS
  <2>1. u \in Delayed /\ wake'[u] = wake[u] /\ Left(u) > 1 /\ u \in Task
    BY TickPassesSleepers, LeftInTime
  <2>. QED BY <1>1, <1>2, <2>1 DEF Left
<1>8. left' = [t \in Task |-> IF left[t] = 0 THEN 0 ELSE left[t] - 1]
  <2>1. ASSUME NEW t \in Task
        PROVE  left'[t] = IF left[t] = 0 THEN 0 ELSE left[t] - 1
    <3>1. CASE t \in Delayed'
      BY <1>5, <1>7, <3>1, LeftInTime DEF left
    <3>2. CASE t \in Delayed /\ t \notin Delayed'
      BY <1>4, <1>5, <3>2 DEF left
    <3>3. CASE t \notin Delayed
      BY <1>5, <3>3 DEF left
    <3>. QED BY <3>1, <3>2, <3>3
  <2>. QED BY <2>1 DEF left
<1>9. Clock!Tick
  BY <1>1, <1>6, <1>8 DEF Clock!Tick, Clock!Pass, TicksAhead, left, stopped
<1>. QED BY <1>9 DEF ClockStep, Clock!Next

(* Every step of the kernel is a step of SleepClock or changes nothing of it. *)
LEMMA SleepStep ==
    ASSUME IInv, [Next]_vars
    PROVE  ClockStep
<1>1. IInv /\ TypeOK /\ Idle \in Task /\ program \in Program
  BY TicksAssumption DEF IInv, TypeOK
<1>. USE DEF TypeOK
<1>2. CASE UNCHANGED vars
  BY <1>2, KeptClock DEF vars, lists, clockVars
<1>3. CASE xPortSysTickHandler
  <2>1. CASE uxSchedulerSuspended
    BY <1>3, <2>1, KeptClock DEF xPortSysTickHandler, lists, clockVars
  <2>2. CASE ~uxSchedulerSuspended
    BY <1>1, <1>3, <2>2, TickClock DEF xPortSysTickHandler
  <2>. QED BY <2>1, <2>2
<1>4. CASE vTaskSwitchContext
  BY <1>1, <1>4, KeptClock DEF vTaskSwitchContext, Masked, HighestReady, lists, clockVars,
                               schedVars, timeOuts
<1>5. CASE xTaskResumeFromISR
  <2>1. PICK c \in Handles[program] :
          /\ c.op = "resume" /\ IsTaskSuspended(c.task) /\ UNCHANGED xTickCount
          /\ \/ MakeReady({c.task})
             \/ /\ xEventListItem' = [xEventListItem EXCEPT ![c.task] = Pending]
                /\ UNCHANGED <<pxDelayedTaskList, pxOverflowDelayedTaskList, xSuspendedTaskList, wake>>
    BY <1>5 DEF xTaskResumeFromISR, clockVars
  <2>2. c.task \in Task
    BY <1>1, <2>1, CallFields, TicksAssumption
  <2>. QED BY <1>1, <2>1, <2>2, ResumeClock
<1>6. CASE NotifyFromISR
  <2>1. PICK c \in Handles[program] : c.op = "notify" /\ \E w \in First(c.on) : Deliver(w)
    BY <1>6 DEF NotifyFromISR
  <2>2. c.on \in Object
    BY <1>1, <2>1, CallFields, TicksAssumption
  <2>. QED BY <1>1, <2>1, <2>2, DeliverClock
<1>7. ASSUME NEW t \in Task, vTaskSuspendAll(t)
      PROVE  ClockStep
  BY <1>1, <1>7, KeptClock DEF vTaskSuspendAll, Goto, lists, clockVars, schedVars, timeOuts
<1>8. ASSUME NEW t \in Task, xTaskCheckForTimeOut(t)
      PROVE  ClockStep
  BY <1>1, <1>8, KeptClock DEF xTaskCheckForTimeOut, Goto, lists, clockVars, schedVars,
                               timeOuts
<1>9. ASSUME NEW t \in Task, NEW o, NEW n, NEW forever, Runs(t), pc[t] = "place", n \in Time \ {0},
             n = portMAX_DELAY /\ forever => o # NULL,
             Place(t, o, n, forever)
      PROVE  ClockStep
  <2>1. /\ t \in ready /\ t \notin Delayed /\ t \notin xSuspendedTaskList /\ xTickCount' = xTickCount
        /\ xEventListItem' = [xEventListItem EXCEPT ![t] = o] /\ AddToDelayedList(t, n, forever)
    BY <1>1, <1>9, RunningIsReady DEF Place, IInv, TickInv, StateLists
  <2>2. n \in 1 .. Width - 1
    BY <1>1, <1>9, Widths DEF Time
  <2>3. stopped' = stopped
    BY <1>1, <1>9, <2>1 DEF stopped, IsTaskSuspended, AddToDelayedList
  <2>4. CASE n = portMAX_DELAY /\ forever
    <3>1. left' = left
      BY <2>1, <2>4 DEF AddToDelayedList, left, Delayed, Left
    <3>. QED BY <2>1, <2>3, <3>1 DEF ClockStep
  <2>5. CASE ~(n = portMAX_DELAY /\ forever)
    <3>1. /\ Delayed' = Delayed \cup {t}
          /\ wake' = [wake EXCEPT ![t] = TicksAhead(n)]
      BY <2>1, <2>5 DEF AddToDelayedList, Delayed
    <3>2. Left(t)' = n
      BY <1>1, <2>1, <2>2, <3>1, Widths DEF Left, TicksAhead
    <3>3. \A u \in Task \ {t} : Left(u)' = Left(u)
      BY <1>1, <2>1, <3>1 DEF Left
    <3>4. left' = [left EXCEPT ![t] = n]
      BY <2>1, <3>1, <3>2, <3>3 DEF left
    <3>5. left[t] = 0 /\ t \notin stopped
      BY <2>1 DEF left, stopped, IsTaskSuspended
    <3>6. Clock!Sleep(t, n)
      BY <2>1, <2>3, <3>4, <3>5 DEF Clock!Sleep, left, stopped
    <3>. QED BY <2>2, <3>6 DEF ClockStep, Clock!Next
  <2>. QED BY <2>4, <2>5
<1>10. ASSUME NEW t \in Task, xTaskResumeAll(t)
      PROVE  ClockStep
  BY <1>1, <1>10, WakeClock, TicksAssumption DEF xTaskResumeAll, xPendingReadyList
<1>11. ASSUME NEW t \in Task, ReplayTick(t)
      PROVE  ClockStep
  BY <1>1, <1>11, TickClock DEF ReplayTick
<1>12. ASSUME NEW t \in Task, FinishResume(t)
      PROVE  ClockStep
  BY <1>1, <1>12, KeptClock DEF FinishResume, Continue, Goto, Return, lists, clockVars,
                                schedVars, timeOuts
<1>13. ASSUME NEW t \in Task, portYIELD_WITHIN_API(t)
      PROVE  ClockStep
  BY <1>1, <1>13, KeptClock DEF portYIELD_WITHIN_API, Continue, Goto, Return, lists,
                                clockVars, schedVars, timeOuts
<1>14. ASSUME NEW t \in Task, Look(t)
      PROVE  ClockStep
  BY <1>1, <1>14, KeptClock DEF Look, Goto, Return, lists, clockVars, schedVars, timeOuts
<1>15. ASSUME NEW t \in Task, SuspendReset(t)
      PROVE  ClockStep
  BY <1>1, <1>15, KeptClock DEF SuspendReset, Goto, Return, lists, clockVars, schedVars,
                                timeOuts
<1>16. ASSUME NEW t \in Task, vTaskDelay(t)
      PROVE  ClockStep
  BY <1>1, <1>16, KeptClock DEF vTaskDelay, Calls, Begin, lists, clockVars, schedVars, timeOuts
<1>17. ASSUME NEW t \in Task, Wait(t)
      PROVE  ClockStep
  BY <1>1, <1>17, KeptClock DEF Wait, Calls, Begin, lists, clockVars, schedVars, timeOuts
<1>18. ASSUME NEW t \in Task, Poll(t)
      PROVE  ClockStep
  BY <1>1, <1>18, KeptClock DEF Poll, Calls, Begin, lists, clockVars, schedVars, timeOuts
<1>19. ASSUME NEW t \in Task, vTaskSuspend(t)
      PROVE  ClockStep
  <2>1. PICK c \in Calls(t, "suspend") :
          /\ c.task \in tasks /\ Unlist({c.task}) /\ UNCHANGED xTickCount
          /\ xSuspendedTaskList' = xSuspendedTaskList \cup {c.task}
          /\ xEventListItem' = [xEventListItem EXCEPT ![c.task] = NULL]
    BY <1>19 DEF vTaskSuspend, clockVars
  <2>. DEFINE v == c.task
  <2>2. v \in Task
    BY <1>1, <2>1
  <2>3. stopped' = stopped \cup {v}
    BY <1>1, <2>1, <2>2 DEF stopped, IsTaskSuspended
  <2>4. left' = [left EXCEPT ![v] = 0]
    BY <1>1, <2>1, <2>2, UnlistClock
  <2>5. Clock!Stop(v)
    BY <2>1, <2>3, <2>4 DEF Clock!Stop, left, stopped
  <2>. QED BY <2>2, <2>5 DEF ClockStep, Clock!Next
<1>20. ASSUME NEW t \in Task, vTaskResume(t)
      PROVE  ClockStep
  BY <1>1, <1>20, ResumeClock DEF vTaskResume, IsTaskSuspended, clockVars
<1>21. ASSUME NEW t \in Task, NEW o \in Object, Notify(t, o)
      PROVE  ClockStep
  BY <1>1, <1>21, DeliverClock DEF Notify
<1>22. ASSUME NEW t \in Task, NEW next \in {"retry", "block"}, Stay(t, next)
      PROVE  ClockStep
  BY <1>1, <1>22, KeptClock DEF Stay, Goto, lists, clockVars, schedVars, timeOuts
<1>23. CASE IdleTest
  BY <1>1, <1>23, KeptClock DEF IdleTest, Begin, lists, clockVars, schedVars, timeOuts
<1>24. CASE IdleSample
  BY <1>1, <1>24, KeptClock DEF IdleSample, Goto, lists, clockVars, schedVars, timeOuts
<1>25. CASE Suppress
  BY <1>1, <1>25, KeptClock DEF Suppress, Goto, lists, clockVars, schedVars, timeOuts
<1>26. CASE vTaskStepTick
  <2>. DEFINE n == xTicksToWait[Idle]
  <2>1. /\ n \in Nat /\ xTickCount + n < Width /\ xTickCount' = xTickCount + n /\ UNCHANGED lists
        /\ xTickCount \in Nat /\ \A u \in Delayed : Left(u) > n
    BY <1>1, <1>26, SleepersOutlast, Widths
  <2>2. stopped' = stopped
    BY <2>1 DEF lists, stopped, IsTaskSuspended
  <2>3. \A t \in Delayed : Left(t)' = Left(t) - n
    <3>. SUFFICES ASSUME NEW t \in Delayed PROVE Left(t)' = Left(t) - n
      OBVIOUS
    <3>1. t \in Task /\ wake[t] \in Nat /\ wake'[t] = wake[t] /\ Left(t) > n
      BY <1>1, <2>1, Widths, LeftInTime DEF lists
    <3>. QED BY <2>1, <3>1, Widths DEF Left
  <2>4. left' = [t \in Task |-> IF left[t] = 0 THEN 0 ELSE left[t] - n]
    <3>1. Delayed' = Delayed
      BY <2>1 DEF lists, Delayed
    <3>2. ASSUME NEW t \in Task
          PROVE  left'[t] = IF left[t] = 0 THEN 0 ELSE left[t] - n
      BY <1>1, <2>3, <3>1, LeftInTime DEF left
    <3>. QED BY <3>2 DEF left
  <2>5. CASE n = 0
    <3>1. left' = left
      BY <1>1, <2>4, <2>5, LeftInTime, Widths DEF left
    <3>. QED BY <2>1, <2>2, <2>5, <3>1 DEF ClockStep
  <2>6. CASE n > 0
    <3>1. PICK k \in 1 .. Width - 1 : k = n
      BY <2>1, <2>6, Widths
    <3>2. \A t \in Task : left[t] = 0 \/ left[t] > n
      BY <2>1, <2>6 DEF left
    <3>3. Clock!Jump(k)
      BY <2>1, <2>2, <2>4, <3>1, <3>2 DEF Clock!Jump, Clock!Pass, left, stopped
    <3>. QED BY <3>3 DEF ClockStep, Clock!Next
  <2>. QED BY <2>1, <2>5, <2>6
<1>27. ASSUME NEW t \in Task, DelayPlace(t) \/ WaitPlace(t)
       PROVE  ClockStep
  <2>1. /\ Runs(t) /\ pc[t] = "place" /\ exit[t] = "none"
        /\ call[t].op \in {"delay", "wait"} => call[t] \in Call
    <3>1. Runs(t) /\ pc[t] = "place" /\ exit[t] = "none"
      BY <1>1, <1>27 DEF DelayPlace, WaitPlace, IInv, TicksLeft
    <3>2. call[t] \in Call \cup {NoCall, SleepCall}
      BY <1>1
    <3>. QED BY <3>1, <3>2 DEF NoCall, SleepCall
  <2>2. call[t].op \in {"delay", "wait"} => xTicksToWait[t] \in Time \ {0}
    BY <1>1, <2>1, Widths DEF IInv, TicksLeft
  <2>3. call[t].op = "wait" => call[t].on # NULL
    BY <2>1, CallFields, TicksAssumption
  <2>. QED BY <1>9, <1>27, <2>1, <2>2, <2>3 DEF DelayPlace, WaitPlace
<1>28. ASSUME NEW t \in Task, NEW n \in Time \ {0}, NEW forever \in BOOLEAN, PollPlace(t, n, forever)
       PROVE  ClockStep
  <2>1. Runs(t) /\ pc[t] = "place" /\ call[t] \in Call /\ call[t].op = "poll"
    BY <1>1, <1>28 DEF PollPlace, NoCall, SleepCall
  <2>2. call[t].on # NULL
    BY <2>1, CallFields, TicksAssumption
  <2>3. (IF forever THEN portMAX_DELAY ELSE n) \in Time \ {0}
    BY Widths
  <2>. QED BY <1>9, <1>28, <2>1, <2>2, <2>3 DEF PollPlace
<1>29. ASSUME NEW t \in Task, start_task(t)
       PROVE  ClockStep
  BY <1>29, KeptClock DEF start_task, clockVars
<1>30. ASSUME NEW t \in Task, vTaskDelete(t)
       PROVE  ClockStep
  <2>1. PICK v \in Task :
          /\ Unlist({v}) /\ UNCHANGED xTickCount
          /\ xSuspendedTaskList' = xSuspendedTaskList \ {v}
          /\ xEventListItem' = [xEventListItem EXCEPT ![v] = NULL]
    BY <1>1, <1>30 DEF vTaskDelete
  <2>2. stopped' = stopped \ {v}
    BY <1>1, <2>1 DEF stopped, IsTaskSuspended
  <2>3. left' = [left EXCEPT ![v] = 0]
    BY <1>1, <2>1, UnlistClock
  <2>4. Clock!Delete(v)
    BY <2>1, <2>2, <2>3 DEF Clock!Delete, left, stopped
  <2>. QED BY <2>4 DEF ClockStep, Clock!Next
<1>31. CASE prvCheckTasksWaitingTermination
  BY <1>31, KeptClock DEF prvCheckTasksWaitingTermination, clockVars
<1>. QED BY <1>2, <1>3, <1>4, <1>5, <1>6, <1>7, <1>8, <1>9, <1>10, <1>11, <1>12,
            <1>13, <1>14, <1>15, <1>16, <1>17, <1>18, <1>19, <1>20, <1>21, <1>22,
            <1>23, <1>24, <1>25, <1>26, <1>27, <1>28, <1>29, <1>30, <1>31
         DEF Next, Interrupt, Window, AppCall, IdleStep

(* The kernel keeps time for its sleeping tasks as SleepClock says: each    *)
(* sleeps as many ticks as it asked for, whatever wraps, unless its event   *)
(* or a suspension comes first.                                             *)
THEOREM KernelKeepsTime == Spec => ImplementsSleep
<1>1. Init => Clock!Init
  BY DEF Init, Clock!Init, Delayed, IsTaskSuspended
<1>2. IInv /\ [Next]_vars => [Clock!Next]_(Clock!vars)
  BY SleepStep DEF ClockStep, Clock!vars, left, stopped
<1>. QED BY <1>1, <1>2, IInvAlways, PTL DEF Spec, ImplementsSleep, Clock!Spec

-----------------------------------------------------------------------------
(* The software timers. *)


DaemonStates ==
    [step : {"loop", "block", "switch", "expired", "commands", "sample", "apply", "fire"},
     next : Time, empty : BOOLEAN, now : Time, msg : Command \cup {NoCommand}]

TimerTypes ==
    /\ commands \in Seq(Command) /\ Len(commands) <= QueueLength
    /\ pxCurrentTimerList \subseteq Timer /\ pxOverflowTimerList \subseteq Timer
    /\ expiry \in [Timer -> Time]
    /\ xLastTime \in Time
    /\ daemon \in DaemonStates
    /\ sending \in [Task -> Command \cup {NoCommand}]

\* A timer in the other list expires in the next turn of the tick count, at a
\* time that the daemon has seen pass in this one.  The daemon can therefore
\* never be about to sleep until a time that is now.
Turns ==
    /\ pxCurrentTimerList \cap pxOverflowTimerList = {}
    /\ \A m \in pxOverflowTimerList : expiry[m] < xLastTime
    /\ daemon.step \in {"expired", "apply"} => daemon.now = xLastTime
    /\ daemon.step \in {"sample", "apply", "fire"} => daemon.msg \in Command
    /\ daemon.step = "block" /\ daemon.empty => daemon.next = 0

TInv == TimerTypes /\ Turns

-----------------------------------------------------------------------------
(* Facts about the definitions. *)

LEMMA CommandFields ==
    /\ NoCommand \notin Command
    /\ \A c \in Command : /\ c.id \in {"START", "STOP", "START_DONT_TRACE"}
                          /\ c.timer \in Timer /\ c.value \in Time /\ c.age \in Nat
BY DEF Command, NoCommand

LEMMA OlderType ==
    ASSUME NEW n \in Nat, NEW c \in Command \cup {NoCommand}
    PROVE  /\ Older(c, n) \in Command \cup {NoCommand}
           /\ Older(c, n) \in Command <=> c \in Command
BY CommandFields DEF Older, Command

LEMMA AtType ==
    ASSUME NEW step \in {"loop", "block", "switch", "expired", "commands", "sample", "apply", "fire"}
    PROVE  At(step) \in DaemonStates
BY Widths DEF At, DaemonStates

(* A step of the kernel ages the commands and nothing else.                 *)
LEMMA AgeKeeps ==
    ASSUME TInv, NEW n \in Nat, Age(n),
           UNCHANGED <<pxCurrentTimerList, pxOverflowTimerList, expiry, xLastTime>>
    PROVE  TInv'
<1>. USE DEF TInv, TimerTypes
<1>1. commands' \in Seq(Command) /\ Len(commands') = Len(commands)
  <2>1. /\ commands' = [i \in 1 .. Len(commands) |-> Older(commands[i], n)]
        /\ \A i \in 1 .. Len(commands) : commands[i] \in Command
    BY DEF Age
  <2>2. \A i \in 1 .. Len(commands) : Older(commands[i], n) \in Command
    BY <2>1, OlderType
  <2>3. Len(commands) \in Nat
    BY LenProperties
  <2>. QED BY <2>1, <2>2, <2>3, IsASeq, LenProperties
<1>2. daemon' \in DaemonStates /\ daemon' = [daemon EXCEPT !.msg = Older(daemon.msg, n)]
  BY OlderType DEF Age, DaemonStates
<1>3. sending' \in [Task -> Command \cup {NoCommand}]
  BY OlderType DEF Age
<1>4. Turns'
  BY <1>2, OlderType DEF Turns, DaemonStates
<1>. QED BY <1>1, <1>2, <1>3, <1>4

(* What PassedBy does not hold of expires in the next turn before now.      *)
LEMMA NotPassed ==
    ASSUME NEW m \in Timer, NEW start \in Time, NEW now \in Time,
           ~PassedBy(m, Plus(start, Period(m)), now, start),
           Plus(start, Period(m)) <= now
    PROVE  Plus(start, Period(m)) < now
<1>1. Period(m) \in Nat /\ Period(m) > 0 /\ Period(m) < Width
  BY TimersAssumption, Widths DEF Period
<1>. QED BY <1>1, Widths DEF PassedBy, Plus

LEMMA PlusType ==
    ASSUME NEW m \in Timer, NEW start \in Time
    PROVE  Plus(start, Period(m)) \in Time
<1>1. Period(m) \in Nat /\ Period(m) < Width
  BY TimersAssumption, Widths DEF Period
<1>. QED BY <1>1, Widths DEF Plus, Time

(* The lists after a timer is put in one or removed.                        *)
LEMMA PutKeeps ==
    ASSUME TInv, NEW m \in Timer, NEW e \in Time, NEW now \in Time,
           \/ Remove(m)
           \/ Insert(m, e, now) /\ now = xLastTime /\ (e <= now => e < now)
           \/ m \in pxCurrentTimerList /\ Put(m, e, pxCurrentTimerList, pxOverflowTimerList)
    PROVE  /\ pxCurrentTimerList' \subseteq Timer /\ pxOverflowTimerList' \subseteq Timer
           /\ expiry' \in [Timer -> Time]
           /\ pxCurrentTimerList' \cap pxOverflowTimerList' = {}
           /\ \A k \in pxOverflowTimerList' : expiry'[k] < xLastTime
<1>. USE Widths DEF TInv, TimerTypes, Turns, Put
<1>1. CASE Remove(m)
  BY <1>1 DEF Remove
<1>2. CASE Insert(m, e, now) /\ now = xLastTime /\ (e <= now => e < now)
  BY <1>2 DEF Insert
<1>3. CASE m \in pxCurrentTimerList /\ Put(m, e, pxCurrentTimerList, pxOverflowTimerList)
  BY <1>3
<1>. QED BY <1>1, <1>2, <1>3

(* Every step, the daemon's among them, is a step of the kernel.            *)
LEMMA KernelSteps ==
    ASSUME TInv, TypeOK, [TimersNext]_allVars
    PROVE  [Next]_vars
<1>1. CASE UNCHANGED allVars
  BY <1>1 DEF allVars
<1>2. CASE KernelStep
  BY <1>2 DEF KernelStep, Next, Interrupt
<1>3. ASSUME NEW t \in Task, ReadTime(t) \/ xTimerGenericCommand(t)
      PROVE  [Next]_vars
  <2>1. UNCHANGED vars \/ Notify(t, xTimerQueue)
    BY <1>3 DEF ReadTime, xTimerGenericCommand
  <2>. QED BY <2>1, TimersAssumption DEF Next
<1>4. CASE prvGetNextExpireTime
  BY <1>4, TimersAssumption DEF prvGetNextExpireTime, Next, AppCall
<1>5. CASE BlockExpired
  BY <1>5, TimersAssumption DEF BlockExpired, Next
<1>6. CASE SwitchLists
  BY <1>6, TimersAssumption DEF SwitchLists, Next
<1>7. CASE BlockWait
  <2>. DEFINE n == IF daemon.next >= xTickCount THEN daemon.next - xTickCount
                                                ELSE daemon.next - xTickCount + Width
  <2>1. CASE commands # <<>>
    BY <1>7, <2>1, TimersAssumption DEF BlockWait, Next
  <2>2. CASE commands = <<>>
    <3>1. PollPlace(Daemon, n, NoTimers) /\ Daemon \in Task
      BY <1>7, <2>2, TimersAssumption DEF BlockWait
    <3>2. /\ daemon.next \in Time /\ daemon.empty \in BOOLEAN /\ NoTimers \in BOOLEAN
          /\ n \in Time /\ xTickCount \in Nat /\ xLastTime \in Nat /\ Width - 1 > 0
      BY Widths DEF TInv, TimerTypes, DaemonStates, NoTimers, TypeOK, Time
    <3>3. CASE NoTimers
      <4>1. PollPlace(Daemon, portMAX_DELAY, NoTimers)
        BY <3>1, <3>3 DEF PollPlace
      <4>. QED BY <3>1, <3>2, <4>1, Widths DEF Next
    <3>4. CASE ~NoTimers
      <4>1. n # 0
        <5>1. CASE ~daemon.empty
          <6>1. daemon.empty \/ daemon.next > xTickCount
            BY <1>7 DEF BlockWait
          <6>2. daemon.next > xTickCount
            BY <5>1, <6>1
          <6>. QED BY <3>2, <6>2, Widths
        <5>2. CASE daemon.empty
          <6>1. PICK m \in pxOverflowTimerList : expiry[m] < xLastTime /\ expiry[m] \in Nat
            BY <3>4, <5>2, Widths DEF NoTimers, TInv, TimerTypes, Turns
          <6>2. daemon.next = 0 /\ xTickCount >= xLastTime
            BY <1>7, <5>2 DEF BlockWait, DaemonAt, TInv, Turns
          <6>. QED BY <3>2, <6>1, <6>2, Widths DEF TypeOK
        <5>. QED BY <5>1, <5>2
      <4>. QED BY <3>1, <3>2, <4>1 DEF Next
    <3>. QED BY <3>3, <3>4
  <2>. QED BY <2>1, <2>2
<1>8. CASE SampleWrapped \/ SwitchFire \/ prvProcessExpiredTimer \/ NoMoreCommands \/ ReceiveCommand
           \/ SampleForCommand \/ ApplyStop \/ ApplyStart \/ ApplyFire
  BY <1>8 DEF SampleWrapped, SwitchFire, prvProcessExpiredTimer, NoMoreCommands,
              ReceiveCommand,
              SampleForCommand, ApplyStop, ApplyStart, ApplyFire
<1>. QED BY <1>1, <1>2, <1>3, <1>4, <1>5, <1>6, <1>7, <1>8 DEF TimersNext, prvTimerTask


(* The ticks a step counts.                                                 *)
LEMMA CountedType ==
    ASSUME TypeOK, TypeOK'
    PROVE  Counted \in Nat
<1>. DEFINE a == xTickCount
            b == xTickCount'
<1>1. a \in Nat /\ a < Width /\ Width \in Nat
  BY Widths DEF TypeOK
<1>2. b \in Nat
  BY Widths DEF TypeOK
<1>3. Counted = IF b >= a THEN b - a ELSE b - a + Width
  BY DEF Counted
<1>. HIDE DEF a, b
<1>. QED BY <1>1, <1>2, <1>3

(* The daemon's lists and local variables.                                  *)
LEMMA TimersStep ==
    ASSUME TInv, TypeOK, TypeOK', [TimersNext]_allVars
    PROVE  TInv'
<1>. USE DEF TInv, TimerTypes
<1>0. /\ xTickCount \in Nat /\ xTickCount' \in Nat /\ xTickCount < Width /\ Width \in Nat
      /\ xLastTime \in Nat /\ \A m \in pxOverflowTimerList : expiry[m] \in Nat
  BY Widths DEF TypeOK
<1>1. CASE UNCHANGED allVars
  BY <1>1 DEF allVars, timerVars, Turns
<1>2. CASE KernelStep
  <2>1. Counted \in Nat
    BY CountedType
  <2>. QED BY <1>2, <2>1, AgeKeeps DEF KernelStep
<1>3. ASSUME NEW t \in Task, ReadTime(t)
      PROVE  TInv'
  <2>1. sending' \in [Task -> Command \cup {NoCommand}]
    <3>1. PICK id \in {"START", "STOP"}, m \in Timer :
             sending' = [sending EXCEPT ![t] =
                 [id |-> id, timer |-> m, age |-> 0,
                  value |-> IF id = "START" THEN xTickCount ELSE 0]]
      BY <1>3 DEF ReadTime
    <3>2. [id |-> id, timer |-> m, age |-> 0,
           value |-> IF id = "START" THEN xTickCount ELSE 0] \in Command
      BY <3>1, Widths DEF Command, TypeOK
    <3>. QED BY <3>1, <3>2
  <2>. QED BY <1>3, <2>1 DEF ReadTime, Turns
<1>4. ASSUME NEW t \in Task, xTimerGenericCommand(t)
      PROVE  TInv'
  <2>1. sending[t] \in Command /\ sending' = [sending EXCEPT ![t] = NoCommand]
    BY <1>4 DEF xTimerGenericCommand
  <2>2. commands' \in Seq(Command) /\ Len(commands') <= QueueLength
    <3>1. CASE Len(commands) = QueueLength
      BY <1>4, <3>1 DEF xTimerGenericCommand
    <3>2. CASE Len(commands) # QueueLength
      <4>1. commands' = Append(commands, sending[t])
        BY <1>4, <3>2 DEF xTimerGenericCommand
      <4>. QED BY <2>1, <3>2, <4>1, AppendProperties, LenProperties, TimersAssumption
    <3>. QED BY <3>1, <3>2
  <2>. QED BY <1>4, <2>1, <2>2 DEF xTimerGenericCommand, Turns
<1>5. CASE prvGetNextExpireTime
  <2>1. PICK next \in IF pxCurrentTimerList = {} THEN {0} ELSE {expiry[m] : m \in Heads} :
           daemon' = [At("block") EXCEPT !.next = next, !.empty = (pxCurrentTimerList = {})]
    BY <1>5 DEF prvGetNextExpireTime
  <2>2. next \in Time /\ (pxCurrentTimerList = {} => next = 0) /\ (pxCurrentTimerList = {}) \in BOOLEAN
    BY <2>1, Widths DEF Heads
  <2>3. daemon' \in DaemonStates /\ daemon'.step = "block" /\ (daemon'.empty => daemon'.next = 0)
    BY <2>1, <2>2, Widths DEF At, DaemonStates
  <2>. QED BY <1>5, <2>3 DEF prvGetNextExpireTime, Turns
<1>6. CASE SampleWrapped
  <2>1. daemon' \in DaemonStates /\ daemon'.step = "switch"
    BY <1>6 DEF SampleWrapped, DaemonStates, TypeOK
  <2>. QED BY <1>6, <2>1 DEF SampleWrapped, Turns
<1>7. CASE BlockExpired
  <2>1. daemon' \in DaemonStates /\ daemon'.step = "expired" /\ daemon'.now = xTickCount
    BY <1>7, Widths DEF BlockExpired, At, DaemonStates, TypeOK
  <2>2. \A m \in pxOverflowTimerList : expiry[m] < xTickCount
    BY <1>0, <1>7 DEF BlockExpired, Turns
  <2>. QED BY <1>7, <2>1, <2>2 DEF BlockExpired, TypeOK, Turns
<1>8. CASE BlockWait
  <2>1. daemon' \in DaemonStates /\ daemon'.step = "commands"
    BY <1>8, Widths DEF BlockWait, At, DaemonStates
  <2>2. \A m \in pxOverflowTimerList : expiry[m] < xTickCount
    BY <1>0, <1>8 DEF BlockWait, Turns
  <2>. QED BY <1>8, <2>1, <2>2 DEF BlockWait, TypeOK, Turns
<1>9. ASSUME NEW m \in Timer, NEW v \in Time, SendToSelf(m, v)
      PROVE  commands' \in Seq(Command) /\ Len(commands') <= QueueLength
  <2>1. /\ [id |-> "START_DONT_TRACE", timer |-> m, value |-> v, age |-> 0] \in Command
        /\ Len(commands) < QueueLength /\ Len(commands) \in Nat /\ QueueLength \in Nat
    BY <1>9, TimersAssumption, LenProperties DEF SendToSelf, Command
  <2>. QED BY <1>9, <2>1, AppendProperties DEF SendToSelf
<1>10. CASE SwitchFire
  <2>1. PICK m \in Heads :
          \/ Remove(m) /\ UNCHANGED commands
          \/ Put(m, Plus(expiry[m], Period(m)), pxCurrentTimerList, pxOverflowTimerList) /\ UNCHANGED commands
          \/ Remove(m) /\ SendToSelf(m, expiry[m])
    BY <1>10 DEF SwitchFire
  <2>2. m \in Timer /\ m \in pxCurrentTimerList /\ expiry[m] \in Time /\ Plus(expiry[m], Period(m)) \in Time
    BY PlusType DEF Heads
  <2>3. commands' \in Seq(Command) /\ Len(commands') <= QueueLength
    BY <1>9, <2>1, <2>2
  <2>. QED BY <1>10, <2>1, <2>2, <2>3, PutKeeps DEF SwitchFire, Turns
<1>11. CASE SwitchLists
  <2>1. pxOverflowTimerList' = {} /\ pxCurrentTimerList' = pxOverflowTimerList /\ xLastTime' = daemon.now
    BY <1>11 DEF SwitchLists
  <2>2. CASE daemon.msg = NoCommand
    <3>1. daemon' = At("commands")
      BY <1>11, <2>2 DEF SwitchLists
    <3>2. daemon' \in DaemonStates /\ daemon'.step = "commands"
      BY <3>1, AtType DEF At
    <3>. QED BY <1>11, <2>1, <3>2 DEF SwitchLists, Turns, DaemonStates
  <2>3. CASE daemon.msg # NoCommand
    <3>1. /\ daemon' \in DaemonStates /\ daemon'.step = "apply" /\ daemon'.now = daemon.now
          /\ daemon'.msg \in Command
      BY <1>11, <2>3 DEF SwitchLists, DaemonStates
    <3>. QED BY <1>11, <2>1, <3>1 DEF SwitchLists, Turns, DaemonStates
  <2>. QED BY <2>2, <2>3
<1>12. CASE prvProcessExpiredTimer
  <2>1. PICK m \in Heads :
          LET e == Plus(daemon.next, Period(m))
          IN \/ Remove(m) /\ UNCHANGED commands
             \/ Remove(m) /\ SendToSelf(m, daemon.next)
             \/ ~PassedBy(m, e, daemon.now, daemon.next) /\ Insert(m, e, daemon.now) /\ UNCHANGED commands
    BY <1>12 DEF prvProcessExpiredTimer
  <2>2. /\ m \in Timer /\ daemon.next \in Time /\ daemon.now \in Time /\ daemon.now = xLastTime
        /\ Plus(daemon.next, Period(m)) \in Time
    BY <1>12, PlusType DEF Heads, DaemonStates, Turns, prvProcessExpiredTimer, DaemonAt
  <2>3. commands' \in Seq(Command) /\ Len(commands') <= QueueLength
    BY <1>9, <2>1, <2>2
  <2>4. daemon' \in DaemonStates /\ daemon'.step = "commands"
    BY <1>12, AtType DEF prvProcessExpiredTimer, At
  <2>5. /\ pxCurrentTimerList' \subseteq Timer /\ pxOverflowTimerList' \subseteq Timer
        /\ expiry' \in [Timer -> Time]
        /\ pxCurrentTimerList' \cap pxOverflowTimerList' = {}
        /\ \A k \in pxOverflowTimerList' : expiry'[k] < xLastTime
    BY <2>1, <2>2, PutKeeps, NotPassed
  <2>. QED BY <1>12, <2>3, <2>4, <2>5 DEF prvProcessExpiredTimer, Turns
<1>13. CASE NoMoreCommands
  <2>1. daemon' \in DaemonStates /\ daemon'.step = "loop"
    BY <1>13, AtType DEF NoMoreCommands, At
  <2>. QED BY <1>13, <2>1 DEF NoMoreCommands, Turns
<1>14. CASE ReceiveCommand
  <2>1. /\ Head(commands) \in Command /\ Tail(commands) \in Seq(Command)
        /\ Len(Tail(commands)) <= QueueLength
    BY <1>14, HeadTailProperties, LenProperties, TimersAssumption DEF ReceiveCommand
  <2>2. Head(commands).timer \in Timer /\ Remove(Head(commands).timer)
    BY <1>14, <2>1, CommandFields DEF ReceiveCommand
  <2>3. daemon' \in DaemonStates /\ daemon'.step = "sample" /\ daemon'.msg \in Command
    BY <1>14, <2>1, Widths DEF ReceiveCommand, At, DaemonStates
  <2>. QED BY <1>14, <2>1, <2>2, <2>3, PutKeeps, Widths DEF ReceiveCommand, Turns
<1>15. CASE SampleForCommand
  <2>1. /\ daemon' \in DaemonStates /\ daemon'.step = "apply" /\ daemon'.now = xTickCount
        /\ daemon'.msg \in Command
    BY <1>15 DEF SampleForCommand, DaemonAt, DaemonStates, TypeOK, Turns
  <2>2. \A m \in pxOverflowTimerList : expiry[m] < xTickCount
    BY <1>0, <1>15 DEF SampleForCommand, Turns
  <2>. QED BY <1>15, <2>1, <2>2 DEF SampleForCommand, TypeOK, Turns
<1>16. CASE ApplyStop
  <2>1. daemon' \in DaemonStates /\ daemon'.step = "commands"
    BY <1>16, AtType DEF ApplyStop, At
  <2>. QED BY <1>16, <2>1 DEF ApplyStop, Turns
<1>17. CASE ApplyStart
  <2>. DEFINE m == daemon.msg.timer
              e == Plus(daemon.msg.value, Period(m))
  <2>1. /\ daemon.msg \in Command /\ m \in Timer /\ daemon.msg.value \in Time /\ e \in Time
        /\ daemon.now = xLastTime /\ daemon.now \in Time
    BY <1>17, CommandFields, PlusType DEF ApplyStart, DaemonAt, Turns, DaemonStates
  <2>2. CASE PassedBy(m, e, daemon.now, daemon.msg.value)
    <3>1. daemon' \in DaemonStates /\ daemon'.step = "fire" /\ daemon'.msg \in Command
      BY <1>17, <2>1, <2>2 DEF ApplyStart, DaemonStates
    <3>. QED BY <1>17, <2>2, <3>1 DEF ApplyStart, Turns
  <2>3. CASE ~PassedBy(m, e, daemon.now, daemon.msg.value)
    <3>1. Insert(m, e, daemon.now) /\ daemon' \in DaemonStates /\ daemon'.step = "commands"
      <4>1. Insert(m, e, daemon.now) /\ daemon' = At("commands")
        BY <1>17, <2>3 DEF ApplyStart
      <4>. QED BY <4>1, AtType DEF At
    <3>2. e <= daemon.now => e < daemon.now
      BY <2>1, <2>3, NotPassed
    <3>3. /\ pxCurrentTimerList' \subseteq Timer /\ pxOverflowTimerList' \subseteq Timer
          /\ expiry' \in [Timer -> Time]
          /\ pxCurrentTimerList' \cap pxOverflowTimerList' = {}
          /\ \A k \in pxOverflowTimerList' : expiry'[k] < xLastTime
      BY <2>1, <3>1, <3>2, PutKeeps
    <3>. QED BY <1>17, <3>1, <3>3 DEF ApplyStart, Turns
  <2>. QED BY <2>2, <2>3
<1>18. CASE ApplyFire
  <2>1. daemon.msg \in Command /\ daemon.msg.timer \in Timer /\ daemon.msg.value \in Time
    BY <1>18, CommandFields DEF ApplyFire, DaemonAt, Turns
  <2>2. commands' \in Seq(Command) /\ Len(commands') <= QueueLength
    BY <1>9, <1>18, <2>1, PlusType DEF ApplyFire
  <2>3. daemon' \in DaemonStates /\ daemon'.step = "commands"
    BY <1>18, AtType DEF ApplyFire, At
  <2>. QED BY <1>18, <2>2, <2>3 DEF ApplyFire, Turns
<1>. QED BY <1>1, <1>2, <1>3, <1>4, <1>5, <1>6, <1>7, <1>8, <1>10, <1>11, <1>12, <1>13,
            <1>14, <1>15, <1>16, <1>17, <1>18 DEF TimersNext, prvTimerTask

LEMMA TimersInitTInv == TimersInit => TInv
<1>. SUFFICES ASSUME TimersInit PROVE TInv
  OBVIOUS
<1>1. commands \in Seq(Command) /\ Len(commands) <= QueueLength
  BY TimersAssumption, EmptySeq DEF TimersInit
<1>2. daemon \in DaemonStates /\ daemon.step = "loop"
  BY AtType DEF TimersInit, At
<1>. QED BY <1>1, <1>2, Widths DEF TimersInit, TInv, TimerTypes, Turns

-----------------------------------------------------------------------------
(* The daemon in the kernel: it sleeps for the timer queue only, with no     *)
(* command under way, and nothing but its time and a command ends that.      *)

DaemonWaits ==
    /\ xEventListItem[Daemon] \in {NULL, xTimerQueue}
    /\ call[Daemon] \in {NoCall, [op |-> "poll", on |-> xTimerQueue]}
    /\ Daemon \in tasks \ ready => xEventListItem[Daemon] = xTimerQueue
    /\ xEventListItem[Daemon] = xTimerQueue => daemon.step = "commands" /\ commands = <<>>

\* A step that does not put the daemon to sleep.
NotPlaced ==
    /\ xEventListItem'[Daemon] \in {NULL, xEventListItem[Daemon]}
    /\ call'[Daemon] \in {NoCall, call[Daemon]}
    /\ Daemon \in tasks' \ ready' =>
          Daemon \in tasks \ ready /\ xEventListItem'[Daemon] = xEventListItem[Daemon]
    /\ Daemon \in xSuspendedTaskList' => Daemon \in xSuspendedTaskList

(* Who is not the daemon: whoever a task or a handler resumes, suspends,    *)
(* deletes or notifies of anything but the timer queue.                     *)
LEMMA Others ==
    ASSUME IInv, DaemonWaits
    PROVE  /\ Daemon \in Task /\ Daemon # Idle /\ xTimerQueue \in Object
           /\ NULL # xTimerQueue /\ Pending # xTimerQueue /\ NULL # Pending
           /\ \A t \in Task : IsTaskSuspended(t) => t # Daemon
           /\ \A o \in Object \ {xTimerQueue} : Daemon \notin First(o)
           /\ Daemon \notin xPendingReadyList
           /\ \A t \in Task : \A c \in Does[program][t] :
                 c.op \in {"suspend", "delete"} => c.task # Daemon
           /\ [op |-> "notify", on |-> xTimerQueue] \notin Handles[program]
           /\ call[Daemon].op \notin {"delay", "wait", "sleep"}
<1>1. /\ Daemon \in Task /\ Daemon # Idle /\ xTimerQueue \in Object
      /\ NULL # xTimerQueue /\ Pending # xTimerQueue /\ NULL # Pending
  BY TimersAssumption, TicksAssumption
<1>2. xEventListItem[Daemon] \in {NULL, xTimerQueue}
  BY DEF DaemonWaits
<1>3. \A t \in Task : IsTaskSuspended(t) => t # Daemon
  BY <1>1 DEF DaemonWaits, IInv, TickInv, StateLists, IsTaskSuspended
<1>4. \A o \in Object \ {xTimerQueue} : Daemon \notin First(o)
  BY <1>1, <1>2, TicksAssumption DEF First
<1>5. Daemon \notin xPendingReadyList
  BY <1>1, <1>2 DEF xPendingReadyList
<1>6. /\ \A t \in Task : \A c \in Does[program][t] :
            c.op \in {"suspend", "delete"} => c.task # Daemon
      /\ [op |-> "notify", on |-> xTimerQueue] \notin Handles[program]
  BY DaemonAssumption DEF IInv, TypeOK
<1>7. call[Daemon].op \notin {"delay", "wait", "sleep"}
  BY DEF DaemonWaits, NoCall
<1>. QED BY <1>1, <1>3, <1>4, <1>5, <1>6, <1>7

(* What the kernel does to tasks in its steps does not put the daemon to    *)
(* sleep.                                                                   *)
LEMMA MadeReady ==
    ASSUME IInv, NEW S \in SUBSET Task, MakeReady(S), UNCHANGED call
    PROVE  NotPlaced
BY TimersAssumption DEF IInv, TypeOK, MakeReady, taskVars, NotPlaced

LEMMA Ticked ==
    ASSUME IInv, NEW switch \in BOOLEAN, CountTick(switch), UNCHANGED call
    PROVE  NotPlaced
<1>. DEFINE list == IF TicksAhead(1) = 0 THEN pxOverflowDelayedTaskList ELSE pxDelayedTaskList
            woken(next) == IF TicksAhead(1) >= next THEN {t \in list : wake[t] <= TicksAhead(1)}
                                                    ELSE {}
<1>1. PICK next :
         /\ ready' = ready \cup woken(next)
         /\ xEventListItem' = [t \in Task |-> IF t \in woken(next) THEN NULL ELSE xEventListItem[t]]
         /\ UNCHANGED <<tasks, xSuspendedTaskList>>
  BY DEF CountTick, taskVars
<1>. HIDE DEF woken
<1>. QED BY <1>1, TimersAssumption DEF IInv, TypeOK, NotPlaced

LEMMA Delivered ==
    ASSUME IInv, NEW w \in Task \ {Daemon}, Deliver(w), UNCHANGED call
    PROVE  NotPlaced
BY TimersAssumption DEF IInv, TypeOK, Deliver, MakeReady, taskVars, NotPlaced

LEMMA OtherPlaced ==
    ASSUME IInv, NEW t \in Task \ {Daemon}, NEW o, NEW n, NEW forever, Place(t, o, n, forever)
    PROVE  NotPlaced
BY TimersAssumption DEF IInv, TypeOK, Place, AddToDelayedList, Goto, taskVars, NotPlaced

LEMMA NothingMoved ==
    ASSUME UNCHANGED <<tasks, ready, xSuspendedTaskList, xEventListItem>>,
           call'[Daemon] \in {NoCall, call[Daemon]}
    PROVE  NotPlaced
BY DEF NotPlaced

LEMMA ReturnMoves ==
    ASSUME IInv, NEW t \in Task, Return(t)
    PROVE  call'[Daemon] \in {NoCall, call[Daemon]}
BY TimersAssumption DEF IInv, TypeOK, Return

(* No step of the kernel but the daemon's own puts it to sleep.             *)
LEMMA KernelNotPlaced ==
    ASSUME IInv, DaemonWaits, KernelStep
    PROVE  NotPlaced
<1>. USE DEF IInv
<1>1. CASE xPortSysTickHandler
  BY <1>1, Ticked, NothingMoved DEF xPortSysTickHandler, lists, taskVars
<1>2. CASE vTaskSwitchContext
  BY <1>2, NothingMoved DEF vTaskSwitchContext, lists, taskVars
<1>3. CASE xTaskResumeFromISR
  <2>1. PICK c \in Handles[program] :
          /\ c.op = "resume" /\ IsTaskSuspended(c.task) /\ UNCHANGED call
          /\ \/ /\ xEventListItem' = [xEventListItem EXCEPT ![c.task] = Pending]
                /\ UNCHANGED <<taskVars, ready, xSuspendedTaskList>>
             \/ MakeReady({c.task})
    BY <1>3 DEF xTaskResumeFromISR
  <2>2. c.task \in Task \ {Daemon}
    BY <2>1, Others DEF TypeOK, IsTaskSuspended
  <2>3. CASE MakeReady({c.task})
    BY <2>1, <2>2, <2>3, MadeReady
  <2>4. CASE /\ xEventListItem' = [xEventListItem EXCEPT ![c.task] = Pending]
             /\ UNCHANGED <<taskVars, ready, xSuspendedTaskList>>
    BY <2>1, <2>2, <2>4, TimersAssumption DEF TypeOK, taskVars, NotPlaced
  <2>. QED BY <2>1, <2>3, <2>4
<1>4. CASE NotifyFromISR
  <2>1. PICK c \in Handles[program] :
          /\ c.op = "notify" /\ UNCHANGED call
          /\ \E w \in First(c.on) : Deliver(w)
    BY <1>4 DEF NotifyFromISR
  <2>2. c \in Call /\ c.on \in Object /\ c.on # xTimerQueue
    <3>1. c \in Call
      BY <2>1, TicksAssumption DEF TypeOK
    <3>2. c = [op |-> "notify", on |-> c.on] /\ c.on \in Object
      BY <2>1, <3>1 DEF Call
    <3>. QED BY <2>1, <3>1, <3>2, Others
  <2>3. PICK w \in First(c.on) : Deliver(w)
    BY <2>1
  <2>4. w \in Task \ {Daemon}
    BY <2>2, Others DEF First
  <2>. QED BY <2>1, <2>3, <2>4, Delivered
<1>5. CASE IdleStep
  <2>1. Daemon # Idle /\ Daemon \in Task
    BY TimersAssumption
  <2>. QED BY <1>5, <2>1, NothingMoved
       DEF TypeOK, IdleStep, prvCheckTasksWaitingTermination, IdleTest, IdleSample, Suppress,
           vTaskStepTick, Begin, Goto, lists, taskVars
<1>6. ASSUME NEW t \in Task, Window(t)
      PROVE  NotPlaced
  <2>1. CASE vTaskSuspendAll(t) \/ xTaskCheckForTimeOut(t)
    BY <2>1, NothingMoved DEF vTaskSuspendAll, xTaskCheckForTimeOut, Goto, lists, taskVars
  <2>2. CASE DelayPlace(t) \/ WaitPlace(t)
    <3>1. t # Daemon
      BY <2>2, Others DEF DelayPlace, WaitPlace
    <3>. QED BY <2>2, <3>1, OtherPlaced DEF DelayPlace, WaitPlace
  <2>3. CASE xTaskResumeAll(t)
    BY <2>3, MadeReady DEF xTaskResumeAll, Goto, xPendingReadyList
  <2>4. CASE ReplayTick(t)
    BY <2>4, Ticked DEF ReplayTick
  <2>5. CASE FinishResume(t) \/ portYIELD_WITHIN_API(t) \/ Look(t) \/ SuspendReset(t)
    BY <2>5, NothingMoved, ReturnMoves
       DEF FinishResume, portYIELD_WITHIN_API, Look, SuspendReset, Continue, Goto, lists, taskVars
  <2>. QED BY <1>6, <2>1, <2>2, <2>3, <2>4, <2>5 DEF Window
<1>7. ASSUME NEW t \in Task, Stay(t, "retry")
      PROVE  NotPlaced
  BY <1>7, NothingMoved DEF Stay, Goto, lists, taskVars
<1>8. ASSUME NEW t \in Task \ {Daemon}, AppCall(t)
      PROVE  NotPlaced
  <2>1. CASE vTaskDelay(t) \/ Wait(t) \/ Poll(t)
    <3>1. PICK c : Begin(t, c, "suspendAll")
      BY <2>1 DEF vTaskDelay, Wait, Poll
    <3>2. call'[Daemon] = call[Daemon]
      BY <3>1, TimersAssumption DEF Begin, TypeOK
    <3>. QED BY <3>1, <3>2, NothingMoved DEF Begin, lists, taskVars
  <2>2. CASE vTaskSuspend(t)
    <3>1. PICK c \in Calls(t, "suspend") :
            /\ ready' = ready \ {c.task}
            /\ xSuspendedTaskList' = xSuspendedTaskList \cup {c.task}
            /\ xEventListItem' = [xEventListItem EXCEPT ![c.task] = NULL]
            /\ call' = [call EXCEPT ![t] = c]
            /\ UNCHANGED tasks
      BY <2>2 DEF vTaskSuspend, taskVars
    <3>2. c.task # Daemon
      BY Others DEF Calls
    <3>. QED BY <3>1, <3>2, TimersAssumption DEF TypeOK, NotPlaced
  <2>3. CASE vTaskResume(t)
    <3>1. PICK c \in Calls(t, "resume") : MakeReady({c.task}) /\ UNCHANGED call
                                          /\ IsTaskSuspended(c.task)
      BY <2>3 DEF vTaskResume
    <3>. QED BY <3>1, MadeReady DEF IsTaskSuspended, TypeOK
  <2>4. CASE start_task(t)
    BY <1>8, <2>4 DEF start_task, NotPlaced
  <2>5. CASE vTaskDelete(t)
    <3>1. PICK c \in Calls(t, "delete") :
            /\ tasks' = tasks \ {c.task} /\ ready' = ready \ {c.task}
            /\ xSuspendedTaskList' = xSuspendedTaskList \ {c.task}
            /\ xEventListItem' = [xEventListItem EXCEPT ![c.task] = NULL]
            /\ Return(c.task)
      BY <2>5 DEF vTaskDelete
    <3>2. c.task # Daemon
      BY Others DEF Calls
    <3>. QED BY <3>1, <3>2, TimersAssumption DEF TypeOK, NotPlaced, Return
  <2>. QED BY <1>8, <2>1, <2>2, <2>3, <2>4, <2>5 DEF AppCall
<1>9. ASSUME NEW t \in Task, NEW o \in Object \ {xTimerQueue}, Notify(t, o)
      PROVE  NotPlaced
  <2>1. PICK w \in First(o) : Deliver(w) /\ UNCHANGED call
    BY <1>9 DEF Notify
  <2>2. w \in Task \ {Daemon}
    BY Others DEF First
  <2>. QED BY <2>1, <2>2, Delivered
<1>. QED BY <1>1, <1>2, <1>3, <1>4, <1>5, <1>6, <1>7, <1>8, <1>9 DEF KernelStep

(* When another task runs its own code the daemon sleeps, and no command is *)
(* under way.                                                               *)
LEMMA UserFindsDaemonAsleep ==
    ASSUME IInv, DaemonWaits, NEW t \in Task, UsesTimers(t)
    PROVE  /\ xEventListItem[Daemon] = xTimerQueue
           /\ commands = <<>> /\ daemon.step = "commands"
           /\ First(xTimerQueue) = {Daemon} /\ ~uxSchedulerSuspended
<1>1. /\ t \in TimerUser /\ t # Daemon /\ Daemon \in tasks
      /\ ~pendSV /\ pxCurrentTCB = t /\ pc[t] = "app"
  BY TimersAssumption DEF UsesTimers, Runs
<1>2. ~uxSchedulerSuspended /\ ~xYieldPending
  BY <1>1 DEF IInv, TypeOK, Control, Suspended, Requested
<1>3. \A u \in ready : Prio[u] <= Prio[t]
  BY <1>1, <1>2 DEF IInv, Requested
<1>4. Prio[t] < Prio[Daemon] /\ Prio[t] \in Nat /\ Prio[Daemon] \in Nat
  BY <1>1, DaemonAssumption, TicksAssumption, TimersAssumption
<1>5. Daemon \notin ready
  BY <1>3, <1>4
<1>6. xEventListItem[Daemon] = xTimerQueue
  BY <1>1, <1>5 DEF DaemonWaits
<1>7. First(xTimerQueue) = {Daemon}
  <2>1. \A u \in Task \ {Daemon} : /\ Prio[u] < Prio[Daemon]
                                   /\ Prio[u] \in Nat /\ Prio[Daemon] \in Nat
    BY DaemonAssumption, TicksAssumption, TimersAssumption
  <2>2. \A u \in Task \ {Daemon} : ~(Prio[Daemon] <= Prio[u]) /\ Prio[u] <= Prio[Daemon]
    BY <2>1
  <2>3. Prio[Daemon] <= Prio[Daemon]
    BY <1>4
  <2>. QED BY <1>6, <2>2, <2>3, TimersAssumption DEF First
<1>. QED BY <1>2, <1>6, <1>7 DEF DaemonWaits

(* The daemon's sleep, in every step.                                       *)
LEMMA DaemonWaitsStep ==
    ASSUME IInv, IInv', TInv, DaemonWaits, [TimersNext]_allVars
    PROVE  DaemonWaits'
<1>1. CASE UNCHANGED allVars
  BY <1>1 DEF allVars, vars, lists, taskVars, timerVars, DaemonWaits
<1>2. CASE KernelStep
  <2>1. NotPlaced
    BY <1>2, KernelNotPlaced
  <2>2. daemon'.step = daemon.step /\ (commands = <<>> => commands' = <<>>)
    BY <1>2 DEF KernelStep, Age, TInv, TimerTypes, DaemonStates
  <2>. QED BY <2>1, <2>2, Others DEF NotPlaced, DaemonWaits
<1>3. ASSUME NEW t \in Task, ReadTime(t)
      PROVE  DaemonWaits'
  BY <1>3 DEF ReadTime, vars, lists, taskVars, DaemonWaits
<1>4. ASSUME NEW t \in Task, xTimerGenericCommand(t)
      PROVE  DaemonWaits'
  <2>1. /\ commands = <<>> /\ First(xTimerQueue) = {Daemon} /\ ~uxSchedulerSuspended
    BY <1>4, UserFindsDaemonAsleep DEF xTimerGenericCommand
  <2>2. Notify(t, xTimerQueue)
    BY <1>4, <2>1, TimersAssumption DEF xTimerGenericCommand
  <2>3. MakeReady({Daemon}) /\ UNCHANGED call
    BY <2>1, <2>2 DEF Notify, Deliver
  <2>4. xEventListItem'[Daemon] = NULL /\ Daemon \in ready'
    BY <2>3, TimersAssumption DEF MakeReady
  <2>. QED BY <2>3, <2>4, Others DEF DaemonWaits
<1>5. CASE prvGetNextExpireTime
  <2>1. Poll(Daemon) /\ daemon.step = "loop"
    BY <1>5 DEF prvGetNextExpireTime, DaemonAt
  <2>2. PICK c \in Does[program][Daemon] : Begin(Daemon, c, "suspendAll")
    BY <2>1 DEF Poll, Calls
  <2>3. c = [op |-> "poll", on |-> xTimerQueue]
    BY DaemonAssumption DEF IInv, TypeOK
  <2>4. call'[Daemon] = c /\ UNCHANGED <<tasks, ready, xEventListItem>>
    BY <2>2, TimersAssumption DEF Begin, lists, taskVars, IInv, TypeOK
  <2>. QED BY <2>1, <2>3, <2>4, Others DEF DaemonWaits
<1>6. CASE BlockWait
  <2>1. daemon.step = "block" /\ daemon' = At("commands") /\ UNCHANGED commands
    BY <1>6 DEF BlockWait, DaemonAt
  <2>2. CASE commands = <<>>
    <3>1. PICK n, forever : Place(Daemon, call[Daemon].on, n, forever) /\ call[Daemon].op = "poll"
      BY <1>6, <2>2 DEF BlockWait, PollPlace
    <3>2. call[Daemon].on = xTimerQueue
      BY <3>1 DEF DaemonWaits, NoCall
    <3>3. xEventListItem'[Daemon] = xTimerQueue /\ UNCHANGED <<call, tasks>>
      BY <3>1, <3>2, TimersAssumption DEF Place, Goto, taskVars, IInv, TypeOK
    <3>. QED BY <2>1, <2>2, <3>3 DEF DaemonWaits, At
  <2>3. CASE commands # <<>>
    <3>1. Stay(Daemon, "block")
      BY <1>6, <2>3 DEF BlockWait
    <3>. QED BY <2>1, <3>1, Others DEF DaemonWaits, At, Stay, Goto, lists, taskVars
  <2>. QED BY <2>2, <2>3
<1>7. CASE BlockExpired \/ SwitchLists
  <2>1. daemon.step # "commands" /\ UNCHANGED <<call, tasks, ready, xEventListItem>>
    BY <1>7 DEF BlockExpired, SwitchLists, DaemonAt, Stay, Goto, vars, lists, taskVars
  <2>. QED BY <2>1, Others DEF DaemonWaits
<1>8. CASE NoMoreCommands \/ ReceiveCommand
  <2>1. Runs(Daemon) /\ pc[Daemon] = "app"
    BY <1>8 DEF NoMoreCommands, ReceiveCommand, DaemonAt
  <2>2. Daemon \in ready
    BY <2>1, RunningIsReady, TimersAssumption
  <2>3. xEventListItem[Daemon] = NULL
    BY <2>2, TimersAssumption DEF IInv, EventItems, TickInv, StateLists
  <2>4. UNCHANGED vars
    BY <1>8 DEF NoMoreCommands, ReceiveCommand
  <2>. QED BY <2>3, <2>4, Others DEF DaemonWaits, vars, lists, taskVars
<1>9. CASE SampleWrapped \/ SwitchFire \/ prvProcessExpiredTimer \/ SampleForCommand
           \/ ApplyStop \/ ApplyStart \/ ApplyFire
  <2>1. daemon.step # "commands" /\ UNCHANGED vars
    BY <1>9 DEF SampleWrapped, SwitchFire, prvProcessExpiredTimer, SampleForCommand,
                ApplyStop, ApplyStart, ApplyFire, DaemonAt
  <2>. QED BY <2>1, Others DEF DaemonWaits, vars, lists, taskVars
<1>. QED BY <1>1, <1>2, <1>3, <1>4, <1>5, <1>6, <1>7, <1>8, <1>9 DEF TimersNext, prvTimerTask

-----------------------------------------------------------------------------
(* When timers are due.  The times in the two lists are no more than a       *)
(* period ahead, so that a timer that keeps up tells the turn of the tick    *)
(* count it is in; a timer in no list is one a command is under way for, and *)
(* the command bears the time from which its period counts.                  *)

\* The ticks from v to x, less than a turn of the tick count later.
Since(x, v) == IF x >= v THEN x - v ELSE x - v + Width

\* The ticks for which the timer of a command has been running, d being due.
Running(c, d) == IF c.id = "START" THEN c.age ELSE Period(c.timer) - d[c.timer]

\* A command to start a timer, or go on with it, bears the time it counts from.
RightTime(c, x, d) ==
    c.id # "STOP" => /\ c.id = "START_DONT_TRACE" => d[c.timer] # Off
                     /\ Since(x, c.value) = Running(c, d)

DueType == due \in [Timer -> {Off} \cup Int]

\* No timer and no command is further behind than the bound.
InTime ==
    /\ \A m \in Timer : due[m] # Off => due[m] >= -MaxBehind
    /\ \A i \in 1 .. Len(commands) : commands[i].age <= MaxBehind
    /\ \A t \in Task : sending[t] # NoCommand => sending[t].age <= MaxBehind
    /\ daemon.msg # NoCommand => daemon.msg.age <= MaxBehind

CommandTimes ==
    /\ \A i \in 1 .. Len(commands) : RightTime(commands[i], xTickCount, due)
    /\ \A t \in Task : sending[t] # NoCommand =>
          /\ sending[t].id # "START_DONT_TRACE"
          /\ RightTime(sending[t], xTickCount, due)
    /\ daemon.step \in {"sample", "switch", "apply"} /\ daemon.msg # NoCommand =>
          RightTime(daemon.msg, xTickCount, due)

\* A command of another task is alone in the queue, and the daemon has waited
\* for it.  The daemon's own are for distinct timers, which are in no list.
Queued ==
    /\ \A i \in 1 .. Len(commands) :
          IF commands[i].id = "START_DONT_TRACE"
          THEN /\ commands[i].timer \notin Listed
               /\ ~InHand(commands[i].timer)
               /\ \A j \in 1 .. Len(commands) :
                     commands[j].timer = commands[i].timer => j = i
          ELSE Len(commands) = 1 /\ daemon.step = "commands"
    /\ \A m \in Listed : ~InHand(m)

\* The times in the lists are no more than a period ahead.
Ahead ==
    /\ daemon.step # "switch" =>
          \A m \in pxCurrentTimerList : expiry[m] - xLastTime <= Period(m)
    /\ \A m \in pxOverflowTimerList : expiry[m] - xLastTime + Width <= Period(m)

\* The lists hold the running timers, with the times they are due at.
RightLists ==
    /\ \A m \in pxCurrentTimerList : due[m] # Off /\ due[m] = expiry[m] - xTickCount - Turn
    /\ \A m \in pxOverflowTimerList :
          due[m] # Off /\ due[m] = expiry[m] - xTickCount - Turn + Width
    /\ \A m \in Timer \ Listed : due[m] # Off => InHand(m) \/ Restarts(m)

\* n is the time of the timers at the head of the current list.
FirstTime(n) ==
    /\ \A m \in pxCurrentTimerList : n <= expiry[m]
    /\ \E m \in pxCurrentTimerList : n = expiry[m]

\* What the daemon knows at each step of its loop.
Locals ==
    /\ daemon.step \in {"loop", "block", "expired", "commands"} => daemon.msg = NoCommand
    /\ daemon.step = "block" =>
          IF daemon.empty THEN pxCurrentTimerList = {} ELSE FirstTime(daemon.next)
    /\ daemon.step = "expired" => FirstTime(daemon.next) /\ daemon.next <= daemon.now
    /\ daemon.step = "switch" =>
          daemon.now < xLastTime /\ (Listed # {} => daemon.now <= xTickCount)
    /\ daemon.step \in {"switch", "apply"} /\ daemon.msg # NoCommand /\ daemon.msg.id # "STOP" =>
          Since(xTickCount, daemon.now) <= Running(daemon.msg, due)
    /\ daemon.step = "fire" =>
          LET m == daemon.msg.timer
          IN /\ due[m] # Off /\ due[m] <= 0
             /\ Since(xTickCount, daemon.msg.value) = Period(m) - due[m]

DueInv ==
    /\ DueType
    /\ InTime
    /\ CommandTimes
    /\ Queued
    /\ Ahead
    /\ RightLists
    /\ Locals

(* The numbers the proofs calculate with.                                   *)
LEMMA Periods ==
    /\ MaxBehind \in Nat /\ Off \notin Int /\ Width \in Nat
    /\ \A m \in Timer : /\ Period(m) \in Nat /\ Period(m) > 0
                        /\ Period(m) + MaxBehind < Width
BY TimersAssumption, Widths DEF Period

(* Ticks counted across the wrap are less than a turn.                      *)
LEMMA SinceType ==
    ASSUME NEW x \in Time, NEW v \in Time
    PROVE  Since(x, v) \in Nat /\ Since(x, v) < Width
<1>1. x \in Nat /\ v \in Nat /\ Width \in Nat /\ x < Width /\ v < Width
  BY Widths
<1>. QED BY <1>1 DEF Since

(* The tick count after n ticks that are less than a turn.                  *)
LEMMA SinceAfter ==
    ASSUME NEW x \in Time, NEW y \in Time, NEW v \in Time, NEW n \in Nat,
           y = x + n \/ y = x + n - Width, Since(x, v) + n < Width
    PROVE  Since(y, v) = Since(x, v) + n
<1>1. x \in Nat /\ y \in Nat /\ v \in Nat /\ Width \in Nat /\ x < Width /\ v < Width /\ y < Width
  BY Widths
<1>. QED BY <1>1 DEF Since

(* What a step counts is what the tick count moves by.                      *)
LEMMA CountedClock ==
    ASSUME TypeOK, TypeOK'
    PROVE  /\ Counted \in Nat
           /\ xTickCount' = xTickCount + Counted \/ xTickCount' = xTickCount + Counted - Width
<1>. DEFINE a == xTickCount
            b == xTickCount'
<1>1. a \in Nat /\ b \in Nat /\ Width \in Nat /\ Counted \in Nat
  BY Widths, CountedType DEF TypeOK
<1>2. Counted = IF b >= a THEN b - a ELSE b - a + Width
  BY DEF Counted
<1>. HIDE DEF a, b
<1>3. b = a + Counted \/ b = a + Counted - Width
  BY <1>1, <1>2
<1>. QED BY <1>1, <1>3 DEF a, b

(* Ticks make timers nearer and commands older, by no more than the bound.  *)
LEMMA Aged ==
    ASSUME TypeOK', TInv, DueType, NEW n \in Nat, Age(n), KeepsUp'
    PROVE  /\ DueType' /\ InTime'
           /\ \A m \in Timer : /\ due[m] = Off => due'[m] = Off
                               /\ due[m] # Off => /\ due'[m] # Off /\ due'[m] = due[m] - n
                                                  /\ due'[m] \in Int /\ due'[m] >= -MaxBehind
           /\ Len(commands') = Len(commands) /\ DOMAIN commands' = DOMAIN commands
           /\ \A i \in 1 .. Len(commands) :
                 commands[i] \in Command /\ commands'[i] = Older(commands[i], n)
           /\ \A t \in Task : sending'[t] = Older(sending[t], n)
           /\ daemon' = [daemon EXCEPT !.msg = Older(daemon.msg, n)]
<1>. USE DEF TInv, TimerTypes
<1>1. \A m \in Timer : /\ due[m] = Off => due'[m] = Off
                       /\ due[m] # Off => /\ due'[m] # Off /\ due'[m] = due[m] - n
                                          /\ due'[m] \in Int
  BY Periods DEF DueType, Age
<1>2. DueType'
  BY Periods DEF DueType, Age
<1>3. /\ commands' = [i \in 1 .. Len(commands) |-> Older(commands[i], n)]
      /\ \A i \in 1 .. Len(commands) : commands[i] \in Command
      /\ Len(commands) \in Nat /\ DOMAIN commands = 1 .. Len(commands)
  BY LenProperties DEF Age
<1>4. \A i \in 1 .. Len(commands) : Older(commands[i], n) \in Command
  BY <1>3, OlderType
<1>5. Len(commands') = Len(commands) /\ DOMAIN commands' = DOMAIN commands
  <2>1. commands' \in Seq(Command)
    BY <1>3, <1>4, IsASeq
  <2>. QED BY <1>3, <2>1, LenProperties
<1>6. \A t \in Task : sending'[t] = Older(sending[t], n) /\ DOMAIN sending' = Task
  BY DEF Age
<1>7. daemon' = [daemon EXCEPT !.msg = Older(daemon.msg, n)] /\ daemon'.msg \in Command \cup {NoCommand}
  BY OlderType DEF Age, DaemonStates
<1>8. xPendedTicks' \in Nat
  BY DEF TypeOK
<1>9. \A m \in Timer : due[m] # Off => due'[m] >= -MaxBehind
  BY <1>1, <1>8, Periods DEF KeepsUp
<1>10. ASSUME NEW c \in Command, c \in (Range(commands) \cup Range(sending) \cup {daemon.msg})'
       PROVE  c.age <= MaxBehind
  <2>1. c # NoCommand /\ c.age \in Nat
    BY CommandFields
  <2>2. c.age + xPendedTicks' <= MaxBehind
    BY <1>10, <2>1 DEF KeepsUp
  <2>. QED BY <1>8, <2>1, <2>2, Periods
<1>11. \A i \in 1 .. Len(commands') : commands'[i].age <= MaxBehind
  <2>1. ASSUME NEW i \in 1 .. Len(commands')
        PROVE  commands'[i].age <= MaxBehind
    <3>1. commands'[i] \in Range(commands)' /\ commands'[i] \in Command
      BY <1>3, <1>4, <1>5 DEF Range
    <3>. QED BY <1>10, <3>1
  <2>. QED BY <2>1
<1>12. \A t \in Task : sending'[t] # NoCommand => sending'[t].age <= MaxBehind
  <2>1. ASSUME NEW t \in Task, sending'[t] # NoCommand
        PROVE  sending'[t].age <= MaxBehind
    <3>1. sending'[t] \in Range(sending)' /\ sending'[t] \in Command
      BY <1>6, <2>1, OlderType DEF Range
    <3>. QED BY <1>10, <3>1
  <2>. QED BY <2>1
<1>13. daemon'.msg # NoCommand => daemon'.msg.age <= MaxBehind
  BY <1>7, <1>10
<1>14. InTime'
  BY <1>1, <1>9, <1>11, <1>12, <1>13 DEF InTime
<1>. QED BY <1>1, <1>2, <1>3, <1>5, <1>6, <1>7, <1>9, <1>14

(* An older command.                                                        *)
LEMMA OlderCommand ==
    ASSUME NEW c \in Command, NEW n \in Nat
    PROVE  /\ Older(c, n) \in Command /\ Older(c, n) # NoCommand
           /\ Older(c, n).id = c.id /\ Older(c, n).timer = c.timer
           /\ Older(c, n).value = c.value /\ Older(c, n).age = c.age + n
BY CommandFields DEF Older, Command

LEMMA OlderNone == \A n \in Nat : Older(NoCommand, n) = NoCommand
BY DEF Older

\* The history d after n ticks is e, and keeps up.
Nearer(d, n, e) ==
    \A m \in Timer : /\ d[m] = Off => e[m] = Off
                     /\ d[m] # Off => e[m] # Off /\ e[m] = d[m] - n /\ e[m] >= -MaxBehind

(* What a timer has run grows by the ticks, and stays less than a turn.     *)
LEMMA RunningOn ==
    ASSUME NEW c \in Command, NEW n \in Nat, NEW d \in [Timer -> {Off} \cup Int], NEW e,
           Nearer(d, n, e), c.age + n <= MaxBehind, c.id # "STOP",
           c.id = "START_DONT_TRACE" => d[c.timer] # Off
    PROVE  /\ Running(c, d) \in Int
           /\ Running(Older(c, n), e) = Running(c, d) + n
           /\ Running(c, d) + n < Width
<1>1. /\ c.id \in {"START", "STOP", "START_DONT_TRACE"}
      /\ c.timer \in Timer /\ c.value \in Time /\ c.age \in Nat
  BY CommandFields
<1>2. CASE c.id = "START"
  <2>1. MaxBehind < Width /\ MaxBehind \in Nat /\ Width \in Nat
    BY <1>1, Periods
  <2>2. Running(c, d) = c.age /\ Running(Older(c, n), e) = c.age + n
    BY <1>2, OlderCommand DEF Running
  <2>. QED BY <1>1, <2>1, <2>2
<1>3. CASE c.id = "START_DONT_TRACE"
  <2>. DEFINE p == Period(c.timer)
              b == d[c.timer]
              f == e[c.timer]
  <2>1. p \in Nat /\ p + MaxBehind < Width /\ MaxBehind \in Nat /\ Width \in Nat
    BY <1>1, Periods
  <2>2. b \in Int /\ f = b - n /\ f >= -MaxBehind
    BY <1>1, <1>3 DEF Nearer
  <2>3. Running(c, d) = p - b /\ Running(Older(c, n), e) = p - f
    BY <1>1, <1>3, OlderCommand DEF Running
  <2>. HIDE DEF p, b, f
  <2>. QED BY <2>1, <2>2, <2>3
<1>. QED BY <1>1, <1>2, <1>3

(* A command that bears the right time goes on to do so.                    *)
LEMMA RightTimeLater ==
    ASSUME NEW c \in Command, NEW n \in Nat, NEW d \in [Timer -> {Off} \cup Int], NEW e,
           Nearer(d, n, e), c.age + n <= MaxBehind,
           NEW x \in Time, NEW y \in Time, y = x + n \/ y = x + n - Width,
           RightTime(c, x, d)
    PROVE  RightTime(Older(c, n), y, e)
<1>1. CASE c.id = "STOP"
  BY <1>1, OlderCommand DEF RightTime
<1>2. CASE c.id # "STOP"
  <2>1. /\ Running(c, d) \in Int
        /\ Running(Older(c, n), e) = Running(c, d) + n
        /\ Running(c, d) + n < Width
    BY <1>2, RunningOn DEF RightTime
  <2>2. Since(x, c.value) = Running(c, d) /\ c.value \in Time
    BY <1>2, CommandFields DEF RightTime
  <2>3. Since(y, c.value) = Since(x, c.value) + n
    BY <2>1, <2>2, SinceAfter
  <2>4. Older(c, n).id = "START_DONT_TRACE" => e[Older(c, n).timer] # Off
    BY <1>2, OlderCommand, CommandFields DEF RightTime, Nearer
  <2>. QED BY <2>1, <2>2, <2>3, <2>4, OlderCommand DEF RightTime
<1>. QED BY <1>1, <1>2

(* A listed timer that keeps up sees no turn of the tick count go by that    *)
(* the daemon has not found: e is its time, d when it is due, s whether the  *)
(* lists are being switched and o the turn of the list it is in.             *)
LEMMA TurnOfTimer ==
    ASSUME NEW W \in Nat, NEW x \in Nat, NEW y \in Nat, NEW l \in Nat, NEW n \in Nat,
           x < W, y < W, l < W, y = x + n \/ y = x + n - W,
           NEW p \in Nat, NEW b \in Nat, p + b < W,
           NEW s \in BOOLEAN, NEW e \in Nat, e < W, NEW d \in Int, NEW o \in {0, W},
           d = e - x - (IF s \/ x < l THEN W ELSE 0) + o, d - n >= -b,
           o = 0 => s \/ e - l <= p,
           o = W => e - l + W <= p
    PROVE  /\ y + (IF s \/ y < l THEN W ELSE 0) = x + (IF s \/ x < l THEN W ELSE 0) + n
           /\ s => y = x + n
<1>1. CASE s
  BY <1>1
<1>2. CASE ~s /\ x >= l
  BY <1>2
<1>3. CASE ~s /\ x < l
  BY <1>3
<1>. QED BY <1>1, <1>2, <1>3

(* Ticks move the tick count and its turn, while a timer is listed.         *)
LEMMA TurnStep ==
    ASSUME TypeOK, TypeOK', TInv, DueInv, NEW n \in Nat, Age(n), KeepsUp',
           xTickCount' = xTickCount + n \/ xTickCount' = xTickCount + n - Width,
           UNCHANGED <<pxCurrentTimerList, pxOverflowTimerList, expiry, xLastTime>>,
           Listed # {}
    PROVE  /\ Turn \in Int /\ Turn' \in Int
           /\ xTickCount' + Turn' = xTickCount + Turn + n
           /\ daemon.step = "switch" => xTickCount' = xTickCount + n
<1>. DEFINE x == xTickCount
            y == xTickCount'
            s == daemon.step = "switch"
<1>1. /\ Width \in Nat /\ x \in Nat /\ y \in Nat /\ xLastTime \in Nat
      /\ x < Width /\ y < Width /\ xLastTime < Width
      /\ y = x + n \/ y = x + n - Width
      /\ MaxBehind \in Nat /\ s \in BOOLEAN
  BY Widths, Periods DEF TypeOK, TInv, TimerTypes
<1>2. Turn = (IF s \/ x < xLastTime THEN Width ELSE 0)
  BY DEF Turn
<1>3. Turn' = (IF s \/ y < xLastTime THEN Width ELSE 0)
  <2>1. daemon'.step = daemon.step
    BY Aged DEF DueInv, TInv, TimerTypes, DaemonStates
  <2>. QED BY <2>1 DEF Turn
<1>4. PICK m \in Listed : TRUE
  OBVIOUS
<1>5. /\ m \in Timer /\ Period(m) \in Nat /\ Period(m) + MaxBehind < Width
      /\ expiry[m] \in Nat /\ expiry[m] < Width /\ due[m] # Off
  BY <1>4, Periods, Widths DEF Listed, TInv, TimerTypes, DueInv, RightLists
<1>6. due[m] \in Int /\ due[m] - n >= -MaxBehind
  BY <1>5, Aged DEF DueInv, DueType
<1>7. Turn \in Int /\ Turn' \in Int
  BY <1>1, <1>2, <1>3
<1>8. CASE m \in pxCurrentTimerList
  <2>1. due[m] = expiry[m] - x - (IF s \/ x < xLastTime THEN Width ELSE 0)
    BY <1>2, <1>8 DEF DueInv, RightLists
  <2>2. s \/ expiry[m] - xLastTime <= Period(m)
    BY <1>8 DEF DueInv, Ahead
  <2>. DEFINE p == Period(m)
              e == expiry[m]
              d == due[m]
  <2>3. p \in Nat /\ e \in Nat /\ d \in Int /\ e < Width /\ p + MaxBehind < Width
    BY <1>5, <1>6
  <2>4. /\ d = e - x - (IF s \/ x < xLastTime THEN Width ELSE 0) + 0
        /\ d - n >= -MaxBehind /\ (s \/ e - xLastTime <= p)
    BY <1>1, <1>5, <1>6, <2>1, <2>2
  <2>. HIDE DEF p, e, d, x, y, s
  <2>5. /\ y + (IF s \/ y < xLastTime THEN Width ELSE 0)
             = x + (IF s \/ x < xLastTime THEN Width ELSE 0) + n
        /\ s => y = x + n
    <3>1. 0 # Width
      BY Widths
    <3>. QED BY <1>1, <2>3, <2>4, <3>1, TurnOfTimer
  <2>6. y + Turn' = x + Turn + n /\ (s => y = x + n)
    BY <1>2, <1>3, <2>5
  <2>. QED BY <1>7, <2>6 DEF x, y, s
<1>9. CASE m \in pxOverflowTimerList
  <2>1. due[m] = expiry[m] - x - (IF s \/ x < xLastTime THEN Width ELSE 0) + Width
    BY <1>2, <1>9 DEF DueInv, RightLists
  <2>2. expiry[m] - xLastTime + Width <= Period(m)
    BY <1>9 DEF DueInv, Ahead
  <2>. DEFINE p == Period(m)
              e == expiry[m]
              d == due[m]
  <2>3. p \in Nat /\ e \in Nat /\ d \in Int /\ e < Width /\ p + MaxBehind < Width
    BY <1>5, <1>6
  <2>4. /\ d = e - x - (IF s \/ x < xLastTime THEN Width ELSE 0) + Width
        /\ d - n >= -MaxBehind /\ e - xLastTime + Width <= p
    BY <1>6, <2>1, <2>2
  <2>. HIDE DEF p, e, d, x, y, s
  <2>5. /\ y + (IF s \/ y < xLastTime THEN Width ELSE 0)
             = x + (IF s \/ x < xLastTime THEN Width ELSE 0) + n
        /\ s => y = x + n
    <3>1. 0 # Width
      BY Widths
    <3>. QED BY <1>1, <2>3, <2>4, <3>1, TurnOfTimer
  <2>6. y + Turn' = x + Turn + n /\ (s => y = x + n)
    BY <1>2, <1>3, <2>5
  <2>. QED BY <1>7, <2>6 DEF x, y, s
<1>. QED BY <1>4, <1>8, <1>9 DEF Listed

(* The steps of the kernel: time passes and nothing else of the timers.     *)
LEMMA KernelKeepsDue ==
    ASSUME TypeOK, TypeOK', TInv, DueInv, NEW n \in Nat, Age(n), KeepsUp',
           xTickCount' = xTickCount + n \/ xTickCount' = xTickCount + n - Width,
           UNCHANGED <<pxCurrentTimerList, pxOverflowTimerList, expiry, xLastTime>>
    PROVE  DueInv'
<1>. USE DEF DueInv
<1>1. /\ DueType' /\ InTime'
      /\ \A m \in Timer : /\ due[m] = Off => due'[m] = Off
                          /\ due[m] # Off => /\ due'[m] # Off /\ due'[m] = due[m] - n
                                             /\ due'[m] \in Int /\ due'[m] >= -MaxBehind
      /\ Len(commands') = Len(commands) /\ DOMAIN commands' = DOMAIN commands
      /\ \A i \in 1 .. Len(commands) :
            commands[i] \in Command /\ commands'[i] = Older(commands[i], n)
      /\ \A t \in Task : sending'[t] = Older(sending[t], n)
      /\ daemon' = [daemon EXCEPT !.msg = Older(daemon.msg, n)]
  BY Aged
<1>2. Nearer(due, n, due') /\ due \in [Timer -> {Off} \cup Int]
  BY <1>1 DEF Nearer, DueType
<1>3. xTickCount \in Time /\ xTickCount' \in Time
  BY DEF TypeOK
<1>4. \A c \in Command : c # NoCommand
  BY CommandFields
<1>5. /\ daemon'.step = daemon.step /\ daemon'.now = daemon.now /\ daemon'.next = daemon.next
      /\ daemon'.empty = daemon.empty /\ daemon'.msg = Older(daemon.msg, n)
      /\ daemon.msg \in Command \cup {NoCommand} /\ daemon.now \in Time
  BY <1>1 DEF TInv, TimerTypes, DaemonStates
<1>6. ASSUME NEW c \in Command, Older(c, n).age <= MaxBehind, RightTime(c, xTickCount, due)
      PROVE  RightTime(Older(c, n), xTickCount', due')
  <2>1. c.age + n <= MaxBehind
    BY <1>6, OlderCommand
  <2>. QED BY <1>2, <1>3, <1>6, <2>1, RightTimeLater
<1>7. CommandTimes'
  <2>1. \A i \in 1 .. Len(commands) : RightTime(commands'[i], xTickCount', due')
    BY <1>1, <1>6 DEF InTime, CommandTimes
  <2>2. ASSUME NEW t \in Task, sending'[t] # NoCommand
        PROVE  sending'[t].id # "START_DONT_TRACE" /\ RightTime(sending'[t], xTickCount', due')
    <3>1. sending[t] \in Command /\ sending'[t] = Older(sending[t], n)
      BY <1>1, <2>2, OlderNone DEF TInv, TimerTypes
    <3>2. sending[t].id # "START_DONT_TRACE" /\ RightTime(sending[t], xTickCount, due)
      BY <1>4, <3>1 DEF CommandTimes
    <3>3. sending'[t].age <= MaxBehind
      BY <1>1, <2>2 DEF InTime
    <3>4. RightTime(Older(sending[t], n), xTickCount', due')
      BY <1>6, <3>1, <3>2, <3>3
    <3>. QED BY <3>1, <3>2, <3>4, OlderCommand
  <2>3. ASSUME daemon.step \in {"sample", "switch", "apply"}, daemon'.msg # NoCommand
        PROVE  RightTime(daemon'.msg, xTickCount', due')
    <3>1. daemon.msg \in Command
      BY <1>5, <2>3, OlderNone
    <3>. QED BY <1>1, <1>4, <1>5, <1>6, <2>3, <3>1 DEF InTime, CommandTimes
  <2>. QED BY <1>1, <1>5, <2>1, <2>2, <2>3 DEF CommandTimes
<1>8. \A m : InHand(m)' <=> InHand(m)
  <2>1. CASE daemon.msg \in Command
    BY <1>4, <1>5, <2>1, OlderCommand DEF InHand
  <2>2. CASE daemon.msg = NoCommand
    BY <1>5, <2>2, OlderNone DEF InHand
  <2>. QED BY <1>5, <2>1, <2>2
<1>9. \A i \in 1 .. Len(commands) : /\ commands'[i].id = commands[i].id
                                    /\ commands'[i].timer = commands[i].timer
  BY <1>1, OlderCommand
<1>10. Queued'
  BY <1>1, <1>5, <1>8, <1>9 DEF Queued, Listed
<1>11. Ahead'
  BY <1>5 DEF Ahead
<1>12. Listed # {} => /\ Turn \in Int /\ Turn' \in Int
                      /\ xTickCount' + Turn' = xTickCount + Turn + n
                      /\ daemon.step = "switch" => xTickCount' = xTickCount + n
  BY TurnStep
<1>13. RightLists'
  <2>1. ASSUME NEW m \in Listed, NEW o \in Int, due[m] # Off,
               due[m] = expiry[m] - xTickCount - Turn + o
        PROVE  due'[m] # Off /\ due'[m] = expiry[m] - xTickCount' - Turn' + o
    <3>. DEFINE x == xTickCount
                y == xTickCount'
                e == expiry[m]
                a == Turn
                b == Turn'
    <3>1. m \in Timer /\ due'[m] # Off /\ due'[m] = due[m] - n
      BY <1>1, <2>1 DEF Listed, TInv, TimerTypes
    <3>2. /\ x \in Int /\ y \in Int /\ e \in Int /\ a \in Int /\ b \in Int
          /\ y + b = x + a + n
      BY <1>3, <1>12, <3>1, Widths DEF TInv, TimerTypes
    <3>3. due[m] = e - x - a + o
      BY <2>1
    <3>. HIDE DEF x, y, e, a, b
    <3>4. due'[m] = e - y - b + o
      BY <3>1, <3>2, <3>3
    <3>. QED BY <3>1, <3>4 DEF x, y, e, a, b
  <2>2. \A m \in Listed : /\ expiry[m] \in Int /\ xTickCount \in Int /\ xTickCount' \in Int
                          /\ Turn \in Int /\ Turn' \in Int
    BY <1>3, <1>12, Widths DEF Listed, TInv, TimerTypes
  <2>3. \A m \in pxCurrentTimerList :
           due'[m] # Off /\ due'[m] = expiry[m] - xTickCount' - Turn'
    <3>1. ASSUME NEW m \in pxCurrentTimerList
          PROVE  due'[m] # Off /\ due'[m] = expiry[m] - xTickCount' - Turn'
      <4>1. m \in Listed
        BY DEF Listed
      <4>2. due[m] = expiry[m] - xTickCount - Turn + 0 /\ due[m] # Off
        BY <2>2, <4>1 DEF RightLists
      <4>3. due'[m] # Off /\ due'[m] = expiry[m] - xTickCount' - Turn' + 0
        BY <2>1, <4>1, <4>2
      <4>. QED BY <2>2, <4>1, <4>3
    <3>. QED BY <3>1
  <2>4. \A m \in pxOverflowTimerList :
           due'[m] # Off /\ due'[m] = expiry[m] - xTickCount' - Turn' + Width
    BY <2>1, Periods DEF RightLists, Listed
  <2>5. ASSUME NEW m \in Timer \ Listed, due'[m] # Off
        PROVE  InHand(m)' \/ Restarts(m)'
    <3>1. InHand(m) \/ Restarts(m)
      BY <1>1, <2>5 DEF RightLists
    <3>2. Restarts(m) => Restarts(m)'
      BY <1>1, <1>9, LenProperties DEF Restarts, TInv, TimerTypes
    <3>. QED BY <1>8, <3>1, <3>2
  <2>. QED BY <2>3, <2>4, <2>5 DEF RightLists, Listed
<1>14. Locals'
  <2>1. daemon.step \in {"loop", "block", "expired", "commands"} => daemon'.msg = NoCommand
    BY <1>5, OlderNone DEF Locals
  <2>2. daemon.step = "switch" =>
          daemon'.now < xLastTime /\ (Listed # {} => daemon'.now <= xTickCount')
    <3>1. xTickCount \in Int /\ daemon.now \in Int
      BY <1>3, <1>5, Widths
    <3>. QED BY <1>5, <1>12, <3>1 DEF Locals
  <2>3. ASSUME daemon.step \in {"switch", "apply"}, daemon'.msg # NoCommand, daemon'.msg.id # "STOP"
        PROVE  Since(xTickCount', daemon'.now) <= Running(daemon'.msg, due')
    <3>1. daemon.msg \in Command /\ daemon.msg # NoCommand /\ daemon.msg.id # "STOP"
      BY <1>4, <1>5, <2>3, OlderNone, OlderCommand
    <3>2. Since(xTickCount, daemon.now) <= Running(daemon.msg, due)
      BY <2>3, <3>1 DEF Locals
    <3>3. RightTime(daemon.msg, xTickCount, due)
      BY <2>3, <3>1 DEF CommandTimes
    <3>4. daemon.msg.age + n <= MaxBehind
      BY <1>1, <1>4, <1>5, <3>1, OlderCommand DEF InTime
    <3>5. /\ Running(daemon.msg, due) \in Int
          /\ Running(daemon'.msg, due') = Running(daemon.msg, due) + n
          /\ Running(daemon.msg, due) + n < Width
      BY <1>2, <1>5, <3>1, <3>3, <3>4, RunningOn DEF RightTime
    <3>6. Since(xTickCount, daemon.now) \in Nat
      BY <1>3, <1>5, SinceType
    <3>7. Since(xTickCount, daemon.now) + n < Width
      BY <3>2, <3>5, <3>6, Periods
    <3>8. Since(xTickCount', daemon.now) = Since(xTickCount, daemon.now) + n
      BY <1>3, <1>5, <3>7, SinceAfter
    <3>. QED BY <1>5, <3>2, <3>5, <3>6, <3>8
  <2>4. ASSUME daemon.step = "fire"
        PROVE  LET m == daemon'.msg.timer
               IN /\ due'[m] # Off /\ due'[m] <= 0
                  /\ Since(xTickCount', daemon'.msg.value) = Period(m) - due'[m]
    <3>. DEFINE m == daemon.msg.timer
                v == daemon.msg.value
    <3>1. daemon.msg \in Command
      BY <2>4 DEF TInv, Turns
    <3>2. m \in Timer /\ v \in Time /\ daemon'.msg.timer = m /\ daemon'.msg.value = v
      BY <1>5, <3>1, CommandFields, OlderCommand
    <3>3. due[m] # Off /\ due[m] <= 0 /\ Since(xTickCount, v) = Period(m) - due[m]
      BY <2>4 DEF Locals
    <3>4. /\ due[m] \in Int /\ due'[m] # Off /\ due'[m] = due[m] - n /\ due'[m] >= -MaxBehind
          /\ Period(m) \in Nat /\ Period(m) + MaxBehind < Width
      BY <1>1, <3>2, <3>3, Periods DEF DueType
    <3>5. Since(xTickCount, v) + n < Width
      BY <3>3, <3>4, Periods
    <3>6. Since(xTickCount', v) = Since(xTickCount, v) + n
      BY <1>3, <3>2, <3>5, SinceAfter
    <3>. QED BY <3>2, <3>3, <3>4, <3>6
  <2>. QED BY <1>5, <2>1, <2>2, <2>3, <2>4 DEF Locals, FirstTime, Listed
<1>. QED BY <1>1, <1>7, <1>10, <1>11, <1>13, <1>14

(* The arithmetic of the next lemma: v, now and x follow one another within  *)
(* a turn of W ticks, r ticks from v to x, and e is a period p after v.      *)
LEMMA TurnOfStart ==
    ASSUME NEW W \in Nat, NEW v \in Nat, NEW now \in Nat, NEW x \in Nat, NEW p \in Nat, p > 0, p < W,
           v < W, now < W, x < W, NEW e \in Int, NEW r \in Int,
           e = IF v + p < W THEN v + p ELSE v + p - W,
           x >= v => r = x - v, x < v => r = x - v + W,
           x >= now => x - now <= r, x < now => x - now + W <= r,
           NEW passed,
           passed <=> IF e <= now THEN (IF now >= v THEN now - v ELSE now - v + W) >= p
                                 ELSE now < v /\ e >= v
    PROVE /\ passed => p - r <= 0
          /\ ~passed /\ e <= now =>
               p - r = e - x - (IF x < now THEN W ELSE 0) + W /\ e - now + W <= p
          /\ ~passed /\ ~(e <= now) =>
               p - r = e - x - (IF x < now THEN W ELSE 0) /\ e - now <= p
<1>1. CASE v + p < W
  <2>1. e = v + p
    BY <1>1
  <2>2. CASE x >= v
    <3>1. r = x - v
      BY <2>2
    <3>2. CASE x >= now
      BY <2>1, <2>2, <3>1, <3>2, <1>1
    <3>3. CASE x < now
      BY <2>1, <2>2, <3>1, <3>3, <1>1
    <3>. QED BY <3>2, <3>3
  <2>3. CASE x < v
      BY <2>1, <2>3, <1>1
  <2>. QED BY <2>2, <2>3
<1>2. CASE ~(v + p < W)
  BY <1>2
<1>. QED BY <1>1, <1>2

(* What PassedBy tells of a timer whose period counts from v, d being when   *)
(* it is due and now the tick count the daemon has read: the timer is due,   *)
(* or Insert puts it in the list where its time means the tick it is due at. *)
LEMMA RightTurn ==
    ASSUME NEW m \in Timer, NEW v \in Time, NEW now \in Time, NEW x \in Time, NEW d \in Int,
           Since(x, v) = Period(m) - d, Since(x, now) <= Period(m) - d
    PROVE  LET e == Plus(v, Period(m))
               turn == IF x < now THEN Width ELSE 0
           IN IF PassedBy(m, e, now, v) THEN d <= 0
              ELSE IF e <= now
              THEN d = e - x - turn + Width /\ e - now + Width <= Period(m)
              ELSE d = e - x - turn /\ e - now <= Period(m)
<1>. DEFINE p == Period(m)
            e == Plus(v, p)
<1>1. /\ v \in Nat /\ now \in Nat /\ x \in Nat /\ Width \in Nat /\ p \in Nat /\ p > 0 /\ p < Width
      /\ v < Width /\ now < Width /\ x < Width
  BY Widths, Periods
<1>2. e = IF v + p < Width THEN v + p ELSE v + p - Width
  BY DEF Plus
<1>3. Since(x, v) = (IF x >= v THEN x - v ELSE x - v + Width)
  BY DEF Since
<1>4. Since(x, now) = (IF x >= now THEN x - now ELSE x - now + Width)
  BY DEF Since
<1>5. Since(x, v) = p - d /\ Since(x, now) <= p - d
  OBVIOUS
<1>. DEFINE passed == PassedBy(m, e, now, v)
<1>. HIDE DEF p, e, passed
<1>6. /\ passed => d <= 0
      /\ ~passed /\ e <= now =>
            d = e - x - (IF x < now THEN Width ELSE 0) + Width /\ e - now + Width <= p
      /\ ~passed /\ ~(e <= now) =>
            d = e - x - (IF x < now THEN Width ELSE 0) /\ e - now <= p
  <2>. DEFINE r == p - d
  <2>1. r \in Int /\ d = p - r /\ e \in Int
    BY <1>1, <1>2
  <2>2. x >= v => r = x - v
    BY <1>3, <1>5
  <2>3. x < v => r = x - v + Width
    BY <1>1, <1>3, <1>5
  <2>4. x >= now => x - now <= r
    BY <1>4, <1>5
  <2>5. x < now => x - now + Width <= r
    BY <1>1, <1>4, <1>5
  <2>6. passed <=> IF e <= now THEN (IF now >= v THEN now - v ELSE now - v + Width) >= p
                               ELSE now < v /\ e >= v
    BY DEF passed, PassedBy, p
  <2>. HIDE DEF r
  <2>8. /\ passed => p - r <= 0
        /\ ~passed /\ e <= now =>
              p - r = e - x - (IF x < now THEN Width ELSE 0) + Width /\ e - now + Width <= p
        /\ ~passed /\ ~(e <= now) =>
              p - r = e - x - (IF x < now THEN Width ELSE 0) /\ e - now <= p
    BY <1>1, <1>2, <2>1, <2>2, <2>3, <2>4, <2>5, <2>6, TurnOfStart
  <2>. QED BY <2>1, <2>8
<1>. QED BY <1>6 DEF p, e, passed

(* The time from which the next period counts.                              *)
LEMMA SincePlus ==
    ASSUME NEW m \in Timer, NEW v \in Time, NEW x \in Time, Since(x, v) >= Period(m)
    PROVE  Since(x, Plus(v, Period(m))) = Since(x, v) - Period(m)
<1>. DEFINE p == Period(m)
            e == Plus(v, p)
<1>1. v \in Nat /\ x \in Nat /\ Width \in Nat /\ p \in Nat /\ p > 0 /\ v < Width /\ x < Width /\ p < Width
  BY Widths, Periods
<1>2. e = IF v + p < Width THEN v + p ELSE v + p - Width
  BY DEF Plus
<1>3. Since(x, v) = (IF x >= v THEN x - v ELSE x - v + Width)
  BY DEF Since
<1>4. Since(x, e) = (IF x >= e THEN x - e ELSE x - e + Width)
  BY DEF Since
<1>5. Since(x, v) >= p
  OBVIOUS
<1>. HIDE DEF p, e
<1>6. Since(x, e) = Since(x, v) - p
  BY <1>1, <1>2, <1>3, <1>4, <1>5
<1>. QED BY <1>6 DEF p, e

(* The numbers of the daemon's state.                                       *)
LEMMA Numbers ==
    ASSUME TypeOK, TInv
    PROVE  /\ Width \in Nat /\ xTickCount \in Nat /\ xTickCount < Width
           /\ xLastTime \in Nat /\ xLastTime < Width
           /\ daemon.now \in Nat /\ daemon.next \in Nat /\ daemon.next < Width
           /\ \A m \in Timer : expiry[m] \in Nat /\ expiry[m] < Width
           /\ Turn \in Int
           /\ Len(commands) \in Nat
           /\ \A i \in 1 .. Len(commands) : commands[i] \in Command
           /\ DOMAIN commands = 1 .. Len(commands)
<1>1. /\ Width \in Nat /\ xTickCount \in Nat /\ xTickCount < Width
      /\ xLastTime \in Nat /\ xLastTime < Width
      /\ daemon.now \in Nat /\ daemon.next \in Nat /\ daemon.next < Width
      /\ \A m \in Timer : expiry[m] \in Nat /\ expiry[m] < Width
  BY Widths DEF TypeOK, TInv, TimerTypes, DaemonStates
<1>2. Turn \in Int
  BY <1>1 DEF Turn
<1>3. /\ Len(commands) \in Nat
      /\ \A i \in 1 .. Len(commands) : commands[i] \in Command
      /\ DOMAIN commands = 1 .. Len(commands)
  BY LenProperties DEF TInv, TimerTypes
<1>. QED BY <1>1, <1>2, <1>3

(* When a timer is due next.                                                *)
LEMMA FiredDue ==
    ASSUME DueInv, NEW m \in Timer, due[m] # Off, due' = Fired(m)
    PROVE  /\ DueType' /\ due[m] \in Int
           /\ \A k \in Timer \ {m} : due'[k] = due[k]
           /\ IF m \in AutoReload
              THEN due'[m] = due[m] + Period(m) /\ due'[m] \in Int /\ due'[m] # Off
              ELSE due'[m] = Off
           /\ \A k \in Timer : due'[k] # Off => due'[k] >= -MaxBehind
<1>1. /\ due \in [Timer -> {Off} \cup Int] /\ due[m] \in Int
      /\ Period(m) \in Nat /\ MaxBehind \in Nat /\ Off \notin Int
      /\ \A k \in Timer : due[k] # Off => due[k] >= -MaxBehind
  BY Periods DEF DueInv, DueType, InTime
<1>2. due[m] + Period(m) \in Int /\ due[m] + Period(m) >= -MaxBehind
  BY <1>1
<1>3. due' = [due EXCEPT ![m] = IF m \in AutoReload THEN due[m] + Period(m) ELSE Off]
  BY DEF Fired
<1>4. /\ DueType'
      /\ \A k \in Timer \ {m} : due'[k] = due[k]
      /\ due'[m] = IF m \in AutoReload THEN due[m] + Period(m) ELSE Off
  BY <1>1, <1>2, <1>3 DEF DueType
<1>5. due[m] + Period(m) # Off
  BY <1>1, <1>2
<1>. QED BY <1>1, <1>2, <1>4, <1>5

(* The daemon's command to itself.                                          *)
LEMMA Sent ==
    ASSUME TypeOK, TInv, NEW m \in Timer, NEW v \in Time, SendToSelf(m, v)
    PROVE  /\ Len(commands') = Len(commands) + 1 /\ DOMAIN commands' = 1 .. Len(commands')
           /\ \A i \in 1 .. Len(commands) : commands'[i] = commands[i]
           /\ commands'[Len(commands')] = [id |-> "START_DONT_TRACE", timer |-> m,
                                           value |-> v, age |-> 0]
           /\ Len(commands) < QueueLength
<1>1. commands \in Seq(Command) /\ Len(commands) \in Nat
  BY LenProperties DEF TInv, TimerTypes
<1>2. [id |-> "START_DONT_TRACE", timer |-> m, value |-> v, age |-> 0] \in Command
  BY DEF Command
<1>3. commands' = Append(commands, [id |-> "START_DONT_TRACE", timer |-> m,
                                    value |-> v, age |-> 0])
  BY DEF SendToSelf
<1>4. commands' \in Seq(Command)
  BY <1>1, <1>2, <1>3, AppendProperties
<1>. QED BY <1>1, <1>2, <1>3, <1>4, AppendProperties, LenProperties DEF SendToSelf

(* What changes for timer m changes nothing for the commands under way, when *)
(* m is in a list or the daemon is at a command for it.                      *)
LEMMA Elsewhere ==
    ASSUME TypeOK, TInv, DueInv, daemon.step # "commands",
           NEW m \in Timer, m \in Listed \/ InHand(m),
           \A k \in Timer \ {m} : due'[k] = due[k]
    PROVE  /\ \A i \in 1 .. Len(commands) :
                 /\ commands[i].id = "START_DONT_TRACE" /\ commands[i].timer # m
                 /\ RightTime(commands[i], xTickCount, due')
           /\ \A t \in Task : sending[t] # NoCommand =>
                 /\ sending[t].id # "START_DONT_TRACE"
                 /\ RightTime(sending[t], xTickCount, due')
<1>1. ASSUME NEW c \in Command, c.timer # m \/ c.id # "START_DONT_TRACE",
             RightTime(c, xTickCount, due)
      PROVE  RightTime(c, xTickCount, due')
  BY <1>1, CommandFields DEF RightTime, Running
<1>2. ASSUME NEW i \in 1 .. Len(commands)
      PROVE  /\ commands[i].id = "START_DONT_TRACE" /\ commands[i].timer # m
             /\ RightTime(commands[i], xTickCount, due')
  <2>1. commands[i].id = "START_DONT_TRACE" /\ commands[i].timer # m
    BY DEF DueInv, Queued
  <2>2. commands[i] \in Command /\ RightTime(commands[i], xTickCount, due)
    BY Numbers DEF DueInv, CommandTimes
  <2>. QED BY <1>1, <2>1, <2>2
<1>3. ASSUME NEW t \in Task, sending[t] # NoCommand
      PROVE  /\ sending[t].id # "START_DONT_TRACE"
             /\ RightTime(sending[t], xTickCount, due')
  <2>1. sending[t] \in Command /\ sending[t].id # "START_DONT_TRACE"
        /\ RightTime(sending[t], xTickCount, due)
    BY <1>3 DEF DueInv, CommandTimes, TInv, TimerTypes
  <2>. QED BY <1>1, <2>1
<1>. QED BY <1>2, <1>3

(* The other tasks: a command is made with the tick count of that moment,    *)
(* and the queue it comes to is empty.                                       *)
LEMMA ReadTimeKeepsDue ==
    ASSUME TypeOK, TInv, DueInv, NEW t \in Task, ReadTime(t)
    PROVE  DueInv'
<1>. USE DEF DueInv
<1>1. PICK id \in {"START", "STOP"}, m \in Timer :
         sending' = [sending EXCEPT ![t] =
             [id |-> id, timer |-> m, age |-> 0,
              value |-> IF id = "START" THEN xTickCount ELSE 0]]
  BY DEF ReadTime
<1>2. UNCHANGED <<vars, commands, pxCurrentTimerList, pxOverflowTimerList, expiry,
                  xLastTime, daemon, due>>
  BY DEF ReadTime
<1>3. xTickCount \in Nat /\ xTickCount' = xTickCount /\ MaxBehind \in Nat
  BY <1>2, Widths, Periods DEF TypeOK, vars, clockVars
<1>4. \A u \in Task : sending'[u] = IF u = t THEN [id |-> id, timer |-> m, age |-> 0,
                                          value |-> IF id = "START" THEN xTickCount ELSE 0]
                                    ELSE sending[u]
  BY <1>1 DEF TInv, TimerTypes
<1>5. ASSUME NEW u \in Task, sending'[u] # NoCommand
      PROVE  /\ sending'[u].age <= MaxBehind
             /\ sending'[u].id # "START_DONT_TRACE"
             /\ RightTime(sending'[u], xTickCount', due')
  <2>1. CASE u = t
    <3>1. sending'[u] = [id |-> id, timer |-> m, age |-> 0,
                         value |-> IF id = "START" THEN xTickCount ELSE 0]
      BY <1>4, <2>1
    <3>2. Since(xTickCount, xTickCount) = 0
      BY <1>3 DEF Since
    <3>. QED BY <1>1, <1>2, <1>3, <3>1, <3>2 DEF RightTime, Running
  <2>2. CASE u # t
    BY <1>2, <1>3, <1>4, <1>5, <2>2 DEF InTime, CommandTimes
  <2>. QED BY <2>1, <2>2
<1>6. InTime' /\ CommandTimes'
  BY <1>2, <1>3, <1>5 DEF InTime, CommandTimes
<1>7. DueType' /\ Queued' /\ Ahead'
  BY <1>2 DEF DueType, Queued, Ahead, Listed, InHand
<1>8. RightLists' /\ Locals'
  BY <1>2, <1>3 DEF RightLists, Locals, Listed, InHand, Restarts, Turn, FirstTime
<1>. QED BY <1>6, <1>7, <1>8

(* A command is alone in the queue, and the daemon has waited for it.       *)
LEMMA CommandKeepsDue ==
    ASSUME IInv, TInv, DueInv, DaemonWaits, NEW t \in Task, xTimerGenericCommand(t)
    PROVE  DueInv'
<1>. USE DEF DueInv
<1>1. commands = <<>> /\ daemon.step = "commands"
  BY UserFindsDaemonAsleep DEF xTimerGenericCommand
<1>2. UNCHANGED <<pxCurrentTimerList, pxOverflowTimerList, expiry, xLastTime, daemon, due>>
  BY DEF xTimerGenericCommand
<1>3. xTickCount' = xTickCount
  BY DEF xTimerGenericCommand, Notify, Deliver, vars, clockVars
<1>4. sending[t] \in Command /\ sending' = [sending EXCEPT ![t] = NoCommand]
  BY DEF xTimerGenericCommand, TInv, TimerTypes
<1>5. commands' = <<sending[t]>>
  BY <1>1, TimersAssumption DEF xTimerGenericCommand
<1>6. Len(commands') = 1 /\ commands'[1] = sending[t]
  BY <1>5
<1>7. sending[t] # NoCommand
  BY DEF xTimerGenericCommand
<1>8. /\ sending[t].age <= MaxBehind /\ sending[t].id # "START_DONT_TRACE"
      /\ RightTime(sending[t], xTickCount, due)
  BY <1>7 DEF InTime, CommandTimes
<1>9. \A u \in Task : sending'[u] # NoCommand => sending'[u] = sending[u] /\ sending[u] # NoCommand
  BY <1>4 DEF TInv, TimerTypes
<1>10. \A i \in 1 .. Len(commands') : i = 1
  BY <1>6
<1>11. InTime' /\ CommandTimes'
  BY <1>1, <1>2, <1>3, <1>6, <1>8, <1>9, <1>10 DEF InTime, CommandTimes
<1>12. Queued'
  BY <1>1, <1>2, <1>6, <1>8, <1>10 DEF Queued, Listed, InHand
<1>13. DueType' /\ Ahead'
  BY <1>2 DEF DueType, Ahead
<1>14. \A m : ~Restarts(m)
  BY <1>1 DEF Restarts
<1>15. RightLists' /\ Locals'
  BY <1>2, <1>3, <1>14 DEF RightLists, Locals, Listed, InHand, Turn, FirstTime
<1>. QED BY <1>11, <1>12, <1>13, <1>15

(* The daemon reads the tick count, in its window or before a command.      *)
LEMMA SampleKeepsDue ==
    ASSUME TypeOK, TInv, DueInv, SampleWrapped \/ SampleForCommand
    PROVE  DueInv'
<1>. USE DEF DueInv
<1>1. /\ UNCHANGED <<vars, commands, pxCurrentTimerList, pxOverflowTimerList, expiry,
                     sending, due>>
      /\ xTickCount' = xTickCount
  BY DEF SampleWrapped, SampleForCommand, vars, clockVars
<1>2. /\ daemon'.msg = daemon.msg /\ daemon'.now = xTickCount
      /\ daemon.step \in {"block", "sample"} /\ daemon'.step \in {"switch", "apply"}
      /\ daemon'.step = "apply" => daemon.step = "sample"
  BY DEF SampleWrapped, SampleForCommand, DaemonAt, TInv, TimerTypes, DaemonStates
<1>3. \/ /\ daemon'.step = "switch" /\ xLastTime' = xLastTime /\ xTickCount < xLastTime
      \/ /\ daemon'.step = "apply" /\ xLastTime' = xTickCount /\ xTickCount >= xLastTime
  BY DEF SampleWrapped, SampleForCommand, DaemonAt, TInv, TimerTypes, DaemonStates
<1>4. DueType' /\ InTime'
  BY <1>1, <1>2 DEF DueType, InTime
<1>5. daemon.step = "block" => daemon.msg = NoCommand
  BY DEF Locals
<1>6. CommandTimes'
  BY <1>1, <1>2, <1>5 DEF CommandTimes
<1>7. Queued'
  BY <1>1, <1>2 DEF Queued, Listed, InHand
<1>8. Turn' = Turn /\ Turn \in Int
  BY <1>1, <1>2, <1>3, Numbers DEF Turn
<1>9. RightLists'
  BY <1>1, <1>2, <1>8 DEF RightLists, Listed, InHand, Restarts
<1>10. Ahead'
  <2>1. /\ xLastTime' \in Nat /\ xLastTime \in Nat /\ xLastTime' >= xLastTime /\ Width \in Nat
        /\ \A m \in Timer : expiry[m] \in Nat /\ Period(m) \in Nat
    BY <1>3, Numbers, Periods
  <2>2. ASSUME NEW m \in Timer, expiry[m] - xLastTime <= Period(m)
        PROVE  expiry[m] - xLastTime' <= Period(m)
    BY <2>1, <2>2
  <2>3. ASSUME NEW m \in Timer, expiry[m] - xLastTime + Width <= Period(m)
        PROVE  expiry[m] - xLastTime' + Width <= Period(m)
    BY <2>1, <2>3
  <2>4. daemon.step # "switch"
    BY <1>2
  <2>. QED BY <1>1, <2>2, <2>3, <2>4 DEF Ahead, TInv, TimerTypes
<1>11. Locals'
  <2>1. daemon'.step = "switch" => /\ daemon'.now < xLastTime'
                                   /\ daemon'.now <= xTickCount'
    BY <1>1, <1>2, <1>3, Numbers
  <2>2. ASSUME daemon.msg # NoCommand, daemon.msg.id # "STOP"
        PROVE  Since(xTickCount, xTickCount) <= Running(daemon.msg, due)
    <3>1. daemon.msg \in Command
      BY <2>2 DEF TInv, TimerTypes, DaemonStates
    <3>2. Since(xTickCount, daemon.msg.value) = Running(daemon.msg, due)
      BY <1>2, <1>5, <2>2 DEF CommandTimes, RightTime
    <3>3. Since(xTickCount, daemon.msg.value) \in Nat
      BY <3>1, CommandFields, SinceType DEF TypeOK
    <3>4. Since(xTickCount, xTickCount) = 0
      BY Numbers DEF Since
    <3>. QED BY <3>2, <3>3, <3>4
  <2>. QED BY <1>1, <1>2, <2>1, <2>2 DEF Locals
<1>. QED BY <1>4, <1>6, <1>7, <1>9, <1>10, <1>11

(* The daemon's loop where no timer and no command is touched.              *)
LEMMA BlockKeepsDue ==
    ASSUME TypeOK, TInv, DueInv,
           prvGetNextExpireTime \/ BlockExpired \/ BlockWait \/ NoMoreCommands
    PROVE  DueInv'
<1>. USE DEF DueInv
<1>1. /\ UNCHANGED <<commands, pxCurrentTimerList, pxOverflowTimerList, expiry, sending, due>>
      /\ xTickCount' = xTickCount
  BY DEF prvGetNextExpireTime, BlockExpired, BlockWait, NoMoreCommands, Poll, Begin, Stay,
         PollPlace, Place, vars, clockVars
<1>2. /\ daemon.step \in {"loop", "block", "commands"}
      /\ daemon.step = "commands" => commands = <<>>
      /\ daemon.msg = NoCommand
  BY DEF prvGetNextExpireTime, BlockExpired, BlockWait, NoMoreCommands, DaemonAt, Locals
<1>3. /\ daemon'.msg = NoCommand /\ daemon'.step \in {"loop", "block", "expired", "commands"}
      /\ daemon'.step = "block" => daemon'.empty = (pxCurrentTimerList = {})
      /\ daemon'.step = "block" /\ ~daemon'.empty => \E m \in Heads : daemon'.next = expiry[m]
      /\ daemon'.step = "expired" => /\ daemon.step = "block" /\ ~daemon.empty
                                     /\ daemon'.next = daemon.next
                                     /\ daemon.next <= xTickCount /\ daemon'.now = xTickCount
  <2>1. CASE prvGetNextExpireTime
    <3>1. PICK next \in IF pxCurrentTimerList = {} THEN {0} ELSE {expiry[m] : m \in Heads} :
             daemon' = [At("block") EXCEPT !.next = next, !.empty = (pxCurrentTimerList = {})]
      BY <2>1 DEF prvGetNextExpireTime
    <3>2. /\ daemon'.msg = NoCommand /\ daemon'.step = "block" /\ daemon'.next = next
          /\ daemon'.empty = (pxCurrentTimerList = {})
      BY <3>1 DEF At
    <3>. QED BY <3>1, <3>2
  <2>2. CASE BlockExpired
    BY <2>2 DEF BlockExpired, DaemonAt, At
  <2>3. CASE BlockWait \/ NoMoreCommands
    BY <2>3 DEF BlockWait, NoMoreCommands, At
  <2>. QED BY <2>1, <2>2, <2>3
<1>4. xLastTime' = xLastTime \/ (xLastTime' = xTickCount /\ xTickCount >= xLastTime)
  BY DEF prvGetNextExpireTime, BlockExpired, BlockWait, NoMoreCommands
<1>5. DueType' /\ InTime' /\ CommandTimes'
  BY <1>1, <1>3 DEF DueType, InTime, CommandTimes
<1>6. Queued'
  <2>1. \A i \in 1 .. Len(commands) : commands[i].id = "START_DONT_TRACE"
    BY <1>2 DEF Queued
  <2>. QED BY <1>1, <1>2, <1>3, <2>1 DEF Queued, Listed, InHand
<1>7. Turn' = Turn
  BY <1>1, <1>2, <1>3, <1>4, Numbers DEF Turn
<1>8. RightLists'
  BY <1>1, <1>2, <1>3, <1>7 DEF RightLists, Listed, InHand, Restarts
<1>9. Ahead'
  <2>1. /\ xLastTime' \in Nat /\ xLastTime \in Nat /\ xLastTime' >= xLastTime /\ Width \in Nat
        /\ \A m \in Timer : expiry[m] \in Nat /\ Period(m) \in Nat
    BY <1>4, Numbers, Periods
  <2>2. ASSUME NEW m \in Timer, expiry[m] - xLastTime <= Period(m)
        PROVE  expiry[m] - xLastTime' <= Period(m)
    BY <2>1, <2>2
  <2>3. ASSUME NEW m \in Timer, expiry[m] - xLastTime + Width <= Period(m)
        PROVE  expiry[m] - xLastTime' + Width <= Period(m)
    BY <2>1, <2>3
  <2>4. daemon.step # "switch"
    BY <1>2
  <2>. QED BY <1>1, <2>2, <2>3, <2>4 DEF Ahead, TInv, TimerTypes
<1>10. Locals'
  BY <1>1, <1>3 DEF Locals, FirstTime, Heads
<1>. QED BY <1>5, <1>6, <1>8, <1>9, <1>10

(* The lists are exchanged.                                                 *)
LEMMA SwitchKeepsDue ==
    ASSUME TypeOK, TInv, DueInv, SwitchLists
    PROVE  DueInv'
<1>. USE DEF DueInv
<1>1. /\ UNCHANGED <<commands, expiry, sending, due>>
      /\ xTickCount' = xTickCount
      /\ pxCurrentTimerList = {} /\ pxCurrentTimerList' = pxOverflowTimerList
      /\ pxOverflowTimerList' = {}
      /\ daemon.step = "switch" /\ xLastTime' = daemon.now
  BY DEF SwitchLists, DaemonAt, Stay, vars, clockVars
<1>2. /\ daemon.msg = NoCommand => daemon' = At("commands")
      /\ daemon.msg # NoCommand => daemon' = [daemon EXCEPT !.step = "apply"]
  BY DEF SwitchLists
<1>3. /\ daemon'.msg = daemon.msg
      /\ daemon'.step = IF daemon.msg = NoCommand THEN "commands" ELSE "apply"
      /\ daemon'.step = "apply" => daemon'.now = daemon.now
  BY <1>2 DEF At, TInv, TimerTypes, DaemonStates
<1>4. Listed' = Listed
  BY <1>1 DEF Listed
<1>5. DueType' /\ InTime' /\ CommandTimes'
  BY <1>1, <1>3 DEF DueType, InTime, CommandTimes
<1>6. Queued'
  BY <1>1, <1>3, <1>4 DEF Queued, InHand
<1>7. daemon.now < xLastTime /\ (Listed # {} => daemon.now <= xTickCount)
  BY <1>1 DEF Locals
<1>8. Turn = Width /\ (Listed # {} => Turn' = 0)
  BY <1>1, <1>3, <1>7, Numbers DEF Turn
<1>9. RightLists'
  <2>1. ASSUME NEW m \in pxOverflowTimerList
        PROVE  due[m] # Off /\ due[m] = expiry[m] - xTickCount - Turn'
    <3>1. m \in Listed /\ m \in Timer /\ Turn' = 0
      BY <1>8 DEF Listed, TInv, TimerTypes
    <3>2. due[m] # Off /\ due[m] = expiry[m] - xTickCount - Width + Width
      BY <1>8 DEF RightLists
    <3>. QED BY <3>1, <3>2, Numbers
  <2>. QED BY <1>1, <1>3, <1>4, <2>1 DEF RightLists, InHand, Restarts
<1>10. Ahead'
  <2>1. ASSUME NEW m \in pxOverflowTimerList
        PROVE  expiry[m] - daemon.now <= Period(m)
    <3>1. m \in Timer /\ expiry[m] - xLastTime + Width <= Period(m)
      BY DEF Ahead, TInv, TimerTypes
    <3>. QED BY <1>7, <3>1, Numbers, Periods
  <2>. QED BY <1>1, <2>1 DEF Ahead
<1>11. Locals'
  BY <1>1, <1>3 DEF Locals
<1>. QED BY <1>5, <1>6, <1>9, <1>10, <1>11

(* A command is received.                                                   *)
LEMMA ReceiveKeepsDue ==
    ASSUME TypeOK, TInv, DueInv, ReceiveCommand
    PROVE  DueInv'
<1>. USE DEF DueInv
<1>. DEFINE c == Head(commands)
            m == c.timer
<1>1. /\ UNCHANGED <<xLastTime, sending, due>> /\ xTickCount' = xTickCount
      /\ commands # <<>> /\ commands' = Tail(commands)
      /\ daemon.step = "commands" /\ daemon' = [At("sample") EXCEPT !.msg = c]
      /\ pxCurrentTimerList' = pxCurrentTimerList \ {m}
      /\ pxOverflowTimerList' = pxOverflowTimerList \ {m}
      /\ expiry' = [expiry EXCEPT ![m] = 0]
  BY DEF ReceiveCommand, DaemonAt, Remove, Put, vars, clockVars
<1>2. /\ Len(commands) \in Nat /\ Len(commands) >= 1 /\ Len(commands') = Len(commands) - 1
      /\ c = commands[1] /\ c \in Command
      /\ \A i \in 1 .. Len(commands') : commands'[i] = commands[i + 1] /\ i + 1 \in 1 .. Len(commands)
      /\ \A i \in 1 .. Len(commands) : i # 1 => i - 1 \in 1 .. Len(commands')
                                                /\ commands'[i - 1] = commands[i]
      /\ DOMAIN commands' = 1 .. Len(commands') /\ DOMAIN commands = 1 .. Len(commands)
  <2>1. commands \in Seq(Command)
    BY DEF TInv, TimerTypes
  <2>2. /\ Head(commands) \in Command /\ Tail(commands) \in Seq(Command)
        /\ Len(Tail(commands)) = Len(commands) - 1 /\ Head(commands) = commands[1]
        /\ \A i \in 1 .. Len(Tail(commands)) : Tail(commands)[i] = commands[i + 1]
    BY <1>1, <2>1, HeadTailProperties
  <2>3. Len(commands) \in Nat /\ Len(commands) >= 1
    BY <1>1, <2>1, EmptySeq, LenProperties
  <2>. QED BY <1>1, <2>1, <2>2, <2>3, LenProperties
<1>3. m \in Timer /\ c # NoCommand
  BY <1>2, CommandFields
<1>4. daemon'.step = "sample" /\ daemon'.msg = c
  BY <1>1 DEF At
<1>5. daemon.msg = NoCommand /\ \A k : ~InHand(k)
  BY <1>1 DEF Locals, InHand
<1>6. \A k : InHand(k)' <=> k = m
  BY <1>3, <1>4 DEF InHand
<1>7. Listed' = Listed \ {m}
  BY <1>1 DEF Listed
<1>8. DueType' /\ InTime' /\ CommandTimes'
  BY <1>1, <1>2, <1>4 DEF DueType, InTime, CommandTimes
<1>9. ASSUME NEW i \in 1 .. Len(commands')
      PROVE  /\ commands'[i].id = "START_DONT_TRACE"
             /\ commands'[i].timer \notin Listed' /\ commands'[i].timer # m
             /\ \A j \in 1 .. Len(commands') : commands'[j].timer = commands'[i].timer => j = i
  <2>1. commands'[i] = commands[i + 1] /\ i + 1 \in 1 .. Len(commands) /\ i + 1 # 1
    BY <1>2
  <2>2. Len(commands) # 1
    BY <1>2
  <2>3. commands[i + 1].id = "START_DONT_TRACE"
    BY <2>1, <2>2 DEF Queued
  <2>4. /\ commands[i + 1].timer \notin Listed
        /\ \A j \in 1 .. Len(commands) : commands[j].timer = commands[i + 1].timer => j = i + 1
    BY <2>1, <2>3 DEF Queued
  <2>5. commands[i + 1].timer # m
    BY <1>2, <2>1, <2>4
  <2>6. \A j \in 1 .. Len(commands') : commands'[j].timer = commands'[i].timer => j = i
    <3>1. ASSUME NEW j \in 1 .. Len(commands'), commands'[j].timer = commands'[i].timer
          PROVE  j = i
      <4>1. j + 1 = i + 1
        BY <1>2, <2>1, <2>4, <3>1
      <4>. QED BY <4>1
    <3>. QED BY <3>1
  <2>. QED BY <1>7, <2>1, <2>3, <2>4, <2>5, <2>6
<1>10. Queued'
  BY <1>6, <1>7, <1>9 DEF Queued
<1>11. Turn' = Turn
  BY <1>1, <1>4 DEF Turn
<1>12. \A k \in Timer \ {m} : expiry'[k] = expiry[k]
  BY <1>1 DEF TInv, TimerTypes
<1>13. pxCurrentTimerList \subseteq Timer /\ pxOverflowTimerList \subseteq Timer
  BY DEF TInv, TimerTypes
<1>14. RightLists'
  <2>1. ASSUME NEW k \in Timer \ Listed', due'[k] # Off, k # m
        PROVE  Restarts(k)'
    <3>1. Restarts(k)
      BY <1>1, <1>5, <1>7, <2>1 DEF RightLists
    <3>2. PICK i \in 1 .. Len(commands) : /\ commands[i].id = "START_DONT_TRACE"
                                          /\ commands[i].timer = k
      BY <1>2, <3>1 DEF Restarts
    <3>3. i # 1
      BY <1>2, <2>1, <3>2
    <3>. QED BY <1>2, <3>2, <3>3 DEF Restarts
  <2>2. \A k \in Timer \ Listed' : due'[k] # Off => InHand(k)' \/ Restarts(k)'
    BY <1>6, <2>1
  <2>. QED BY <1>1, <1>11, <1>12, <1>13, <2>2 DEF RightLists
<1>15. Ahead'
  BY <1>1, <1>12, <1>13 DEF Ahead
<1>16. Locals'
  BY <1>4 DEF Locals
<1>. QED BY <1>8, <1>10, <1>14, <1>15, <1>16

(* The timers that are called from a list.  m is removed, when it runs no    *)
(* more or the daemon sends itself a command to go on, or it is put in a     *)
(* list again, where its time means the tick it is due at.                   *)
LEMMA ListedFires ==
    ASSUME TypeOK, TInv, DueInv, NEW m \in Listed, daemon.step \in {"expired", "switch"},
           due[m] # Off, due' = Fired(m),
           \/ daemon'.step = daemon.step /\ daemon'.now = daemon.now
           \/ daemon.step = "expired" /\ daemon'.step = "commands",
           daemon'.msg = daemon.msg,
           UNCHANGED <<xLastTime, sending>>, xTickCount' = xTickCount,
           daemon'.step # "expired",
           \A k \in Timer \ {m} : /\ expiry'[k] = expiry[k]
                                  /\ k \in pxCurrentTimerList' <=> k \in pxCurrentTimerList
                                  /\ k \in pxOverflowTimerList' <=> k \in pxOverflowTimerList,
           pxCurrentTimerList' \subseteq Timer, pxOverflowTimerList' \subseteq Timer,
           \/ UNCHANGED commands
           \/ /\ m \notin Listed' /\ m \in AutoReload
              /\ \E v \in Time : /\ SendToSelf(m, v)
                                 /\ Since(xTickCount, v) = Period(m) - due'[m],
           m \notin Listed' /\ m \in AutoReload => commands' # commands,
           m \in pxCurrentTimerList' =>
              /\ m \in AutoReload /\ due'[m] = expiry'[m] - xTickCount - Turn
              /\ daemon'.step = "switch" \/ expiry'[m] - xLastTime <= Period(m),
           m \in pxOverflowTimerList' =>
              /\ m \in AutoReload /\ due'[m] = expiry'[m] - xTickCount - Turn + Width
              /\ expiry'[m] - xLastTime + Width <= Period(m)
    PROVE  DueInv'
<1>. USE DEF DueInv
<1>1. m \in Timer /\ m \in Listed /\ ~InHand(m) /\ daemon.step # "commands"
  BY DEF Listed, TInv, TimerTypes, Queued
<1>2. /\ DueType' /\ due[m] \in Int
      /\ \A k \in Timer \ {m} : due'[k] = due[k]
      /\ IF m \in AutoReload
         THEN due'[m] = due[m] + Period(m) /\ due'[m] \in Int /\ due'[m] # Off
         ELSE due'[m] = Off
      /\ \A k \in Timer : due'[k] # Off => due'[k] >= -MaxBehind
  BY <1>1, FiredDue
<1>3. /\ \A i \in 1 .. Len(commands) :
            /\ commands[i].id = "START_DONT_TRACE" /\ commands[i].timer # m
            /\ RightTime(commands[i], xTickCount, due')
      /\ \A t \in Task : sending[t] # NoCommand =>
            /\ sending[t].id # "START_DONT_TRACE"
            /\ RightTime(sending[t], xTickCount, due')
  BY <1>1, <1>2, Elsewhere
<1>4. \/ commands' = commands
      \/ /\ m \notin Listed' /\ m \in AutoReload
         /\ \E v \in Time :
               /\ Since(xTickCount, v) = Period(m) - due'[m]
               /\ Len(commands') = Len(commands) + 1 /\ DOMAIN commands' = 1 .. Len(commands')
               /\ \A i \in 1 .. Len(commands) : commands'[i] = commands[i]
               /\ commands'[Len(commands')] = [id |-> "START_DONT_TRACE", timer |-> m,
                                               value |-> v, age |-> 0]
  BY <1>1, Sent
<1>5. Len(commands) \in Nat /\ DOMAIN commands = 1 .. Len(commands)
  BY Numbers
<1>6. ASSUME NEW i \in 1 .. Len(commands')
      PROVE  /\ commands'[i].age <= MaxBehind
             /\ RightTime(commands'[i], xTickCount, due')
             /\ commands'[i].id = "START_DONT_TRACE"
             /\ commands'[i].timer \notin Listed'
             /\ ~InHand(commands'[i].timer)
             /\ \A j \in 1 .. Len(commands') : commands'[j].timer = commands'[i].timer => j = i
  <2>1. ASSUME NEW k \in 1 .. Len(commands)
        PROVE  /\ commands[k].age <= MaxBehind
               /\ RightTime(commands[k], xTickCount, due')
               /\ commands[k].id = "START_DONT_TRACE"
               /\ commands[k].timer \notin Listed' /\ commands[k].timer # m
               /\ ~InHand(commands[k].timer)
               /\ \A j \in 1 .. Len(commands) : commands[j].timer = commands[k].timer => j = k
    <3>1. commands[k].timer \in Timer \ {m} /\ commands[k].timer \notin Listed
      BY <1>3, Numbers, CommandFields DEF Queued
    <3>2. commands[k].timer \notin Listed'
      BY <3>1 DEF Listed
    <3>. QED BY <1>3, <3>1, <3>2 DEF InTime, Queued
  <2>2. CASE commands' = commands
    BY <2>1, <2>2
  <2>3. CASE commands' # commands
    <3>1. PICK v \in Time :
            /\ m \notin Listed' /\ m \in AutoReload
            /\ Since(xTickCount, v) = Period(m) - due'[m]
            /\ Len(commands') = Len(commands) + 1
            /\ \A k \in 1 .. Len(commands) : commands'[k] = commands[k]
            /\ commands'[Len(commands')] = [id |-> "START_DONT_TRACE", timer |-> m,
                                            value |-> v, age |-> 0]
      BY <1>4, <2>3
    <3>2. CASE i = Len(commands')
      <4>1. commands'[i] = [id |-> "START_DONT_TRACE", timer |-> m, value |-> v, age |-> 0]
        BY <3>1, <3>2
      <4>2. RightTime(commands'[i], xTickCount, due')
        BY <1>2, <3>1, <4>1 DEF RightTime, Running
      <4>3. \A j \in 1 .. Len(commands') : j # i => j \in 1 .. Len(commands)
        BY <1>5, <3>1, <3>2
      <4>4. \A j \in 1 .. Len(commands') : j # i => commands'[j].timer # m
        BY <2>1, <3>1, <4>3
      <4>. QED BY <1>1, <3>1, <4>1, <4>2, <4>4, Periods
    <3>3. CASE i # Len(commands')
      <4>1. i \in 1 .. Len(commands)
        BY <1>5, <3>1, <3>3
      <4>2. commands'[i] = commands[i] /\ commands[i].timer # m
        BY <2>1, <3>1, <4>1
      <4>3. ASSUME NEW j \in 1 .. Len(commands'), commands'[j].timer = commands'[i].timer
            PROVE  j = i
        <5>1. j # Len(commands')
          BY <3>1, <4>2, <4>3
        <5>2. j \in 1 .. Len(commands)
          BY <1>5, <3>1, <5>1
        <5>. QED BY <2>1, <3>1, <4>1, <4>3, <5>2
      <4>. QED BY <2>1, <4>1, <4>2, <4>3
    <3>. QED BY <3>2, <3>3
  <2>. QED BY <2>2, <2>3
<1>7. InTime'
  BY <1>2, <1>6 DEF InTime
<1>8. \A k : InHand(k)' <=> InHand(k)
  BY DEF InHand
<1>9. ASSUME daemon.step = "switch", daemon.msg # NoCommand
      PROVE  /\ RightTime(daemon.msg, xTickCount, due')
             /\ daemon.msg.id # "STOP" => Running(daemon.msg, due') = Running(daemon.msg, due)
  <2>1. daemon.msg \in Command /\ daemon.msg.timer \in Timer /\ daemon.msg.timer # m
    BY <1>1, <1>9, CommandFields DEF TInv, TimerTypes, DaemonStates, InHand
  <2>2. RightTime(daemon.msg, xTickCount, due)
    BY <1>9 DEF CommandTimes
  <2>. QED BY <1>2, <2>1, <2>2 DEF RightTime, Running
<1>10. CommandTimes'
  BY <1>3, <1>6, <1>9 DEF CommandTimes
<1>11. \A k \in Listed' : k # m => k \in Listed
  BY DEF Listed
<1>12. Queued'
  BY <1>1, <1>6, <1>8, <1>11 DEF Queued
<1>13. Turn' = Turn
  BY DEF Turn
<1>14. \/ commands' = commands
       \/ /\ Len(commands') = Len(commands) + 1 /\ DOMAIN commands' = 1 .. Len(commands')
          /\ \A i \in 1 .. Len(commands) : commands'[i] = commands[i]
          /\ commands'[Len(commands')].id = "START_DONT_TRACE"
          /\ commands'[Len(commands')].timer = m
  <2>1. ASSUME NEW v, commands'[Len(commands')] = [id |-> "START_DONT_TRACE", timer |-> m,
                                                    value |-> v, age |-> 0]
        PROVE  /\ commands'[Len(commands')].id = "START_DONT_TRACE"
               /\ commands'[Len(commands')].timer = m
    BY <2>1
  <2>. QED BY <1>4, <2>1
<1>15. RightLists'
  <2>1. ASSUME NEW k \in pxCurrentTimerList'
        PROVE  due'[k] # Off /\ due'[k] = expiry'[k] - xTickCount - Turn
    BY <1>2 DEF RightLists
  <2>2. ASSUME NEW k \in pxOverflowTimerList'
        PROVE  due'[k] # Off /\ due'[k] = expiry'[k] - xTickCount - Turn + Width
    BY <1>2 DEF RightLists
  <2>3. ASSUME NEW k \in Timer \ Listed', due'[k] # Off
        PROVE  InHand(k)' \/ Restarts(k)'
    <3>1. CASE k = m
      <4>1. /\ Len(commands') = Len(commands) + 1 /\ DOMAIN commands' = 1 .. Len(commands')
            /\ commands'[Len(commands')].id = "START_DONT_TRACE"
            /\ commands'[Len(commands')].timer = m
        <5>1. m \in AutoReload /\ m \notin Listed'
          BY <1>2, <2>3, <3>1
        <5>2. commands' # commands
          BY <5>1
        <5>. QED BY <1>14, <5>2
      <4>. QED BY <1>5, <3>1, <4>1 DEF Restarts
    <3>2. CASE k # m
      <4>1. InHand(k) \/ Restarts(k)
        BY <1>2, <2>3, <3>2 DEF RightLists, Listed
      <4>2. Restarts(k) => Restarts(k)'
        <5>1. \A i \in DOMAIN commands : i \in DOMAIN commands' /\ commands'[i] = commands[i]
          BY <1>5, <1>14
        <5>. QED BY <5>1 DEF Restarts
      <4>. QED BY <1>8, <4>1, <4>2
    <3>. QED BY <3>1, <3>2
  <2>. QED BY <1>13, <2>1, <2>2, <2>3 DEF RightLists
<1>16. Ahead'
  BY DEF Ahead
<1>17. Locals'
  <2>1. daemon.step = "expired" => daemon.msg = NoCommand
    BY DEF Locals
  <2>. QED BY <1>9, <1>11, <2>1 DEF Locals
<1>. QED BY <1>2, <1>7, <1>10, <1>12, <1>15, <1>16, <1>17

(* A timer of the list that is switched away.                               *)
LEMMA SwitchFireKeepsDue ==
    ASSUME TypeOK, TInv, DueInv, SwitchFire
    PROVE  DueInv'
<1>1. /\ UNCHANGED <<vars, xLastTime, daemon, sending>> /\ xTickCount' = xTickCount
      /\ daemon.step = "switch"
  BY DEF SwitchFire, DaemonAt, vars, clockVars
<1>2. PICK m \in Heads :
         /\ due' = Fired(m)
         /\ IF m \notin AutoReload
            THEN Remove(m) /\ UNCHANGED commands
            ELSE IF Plus(expiry[m], Period(m)) > expiry[m]
            THEN /\ Put(m, Plus(expiry[m], Period(m)), pxCurrentTimerList, pxOverflowTimerList)
                 /\ UNCHANGED commands
            ELSE Remove(m) /\ SendToSelf(m, expiry[m])
  BY DEF SwitchFire
<1>. DEFINE e == expiry[m]
            p == Period(m)
            d == due[m]
            x == xTickCount
<1>3. /\ m \in Timer /\ m \in Listed /\ m \in pxCurrentTimerList /\ m \notin pxOverflowTimerList
      /\ e \in Time
  BY DEF Heads, Listed, TInv, TimerTypes, Turns
<1>4. Turn = Width
  BY <1>1 DEF Turn
<1>5. d # Off /\ d = e - x - Width
  BY <1>3, <1>4 DEF DueInv, RightLists
<1>6. /\ DueType' /\ d \in Int
      /\ m \in AutoReload => due'[m] = d + p
      /\ d >= -MaxBehind
  BY <1>2, <1>3, <1>5, FiredDue DEF DueInv, InTime
<1>7. /\ x \in Nat /\ x < Width /\ Width \in Nat /\ e \in Nat /\ e < Width
      /\ p \in Nat /\ p > 0 /\ p + MaxBehind < Width /\ MaxBehind \in Nat
  BY <1>3, Numbers, Periods
<1>8. \/ /\ m \notin AutoReload /\ Remove(m) /\ UNCHANGED commands
      \/ /\ m \in AutoReload /\ UNCHANGED commands
         /\ Put(m, e + p, pxCurrentTimerList, pxOverflowTimerList)
      \/ m \in AutoReload /\ Remove(m) /\ SendToSelf(m, e)
  <2>1. Plus(e, p) > e => Plus(e, p) = e + p
    BY <1>7 DEF Plus
  <2>. QED BY <1>2, <2>1
<1>9. Since(x, e) = p - (d + p)
  BY <1>5, <1>6, <1>7 DEF Since
<1>10. d + p = e + p - x - Turn
  BY <1>4, <1>5, <1>7
<1>11. commands # Append(commands, [id |-> "START_DONT_TRACE", timer |-> m, value |-> e, age |-> 0])
  <2>1. commands \in Seq(Command) /\ Len(commands) \in Nat
    BY LenProperties DEF TInv, TimerTypes
  <2>2. [id |-> "START_DONT_TRACE", timer |-> m, value |-> e, age |-> 0] \in Command
    BY <1>3 DEF Command
  <2>. QED BY <2>1, <2>2, AppendProperties
<1>12. /\ \A k \in Timer \ {m} : /\ expiry'[k] = expiry[k]
                                 /\ k \in pxCurrentTimerList' <=> k \in pxCurrentTimerList
                                 /\ k \in pxOverflowTimerList' <=> k \in pxOverflowTimerList
       /\ pxCurrentTimerList' \subseteq Timer /\ pxOverflowTimerList' \subseteq Timer
       /\ m \notin pxOverflowTimerList'
       /\ m \in pxCurrentTimerList' => m \in AutoReload /\ expiry'[m] = e + p
  BY <1>3, <1>8 DEF Remove, Put, TInv, TimerTypes
<1>13. \/ UNCHANGED commands /\ (m \in Listed' \/ m \notin AutoReload)
       \/ m \notin Listed' /\ m \in AutoReload /\ SendToSelf(m, e) /\ commands' # commands
  BY <1>3, <1>8, <1>11 DEF Remove, Put, Listed, SendToSelf
<1>. HIDE DEF e, p, d, x
<1>14. \/ UNCHANGED commands
       \/ /\ m \notin Listed' /\ m \in AutoReload
          /\ \E v \in Time : SendToSelf(m, v) /\ Since(xTickCount, v) = Period(m) - due'[m]
  BY <1>3, <1>6, <1>9, <1>13 DEF x, p
<1>15. m \in pxCurrentTimerList' =>
          m \in AutoReload /\ due'[m] = expiry'[m] - xTickCount - Turn
  BY <1>4, <1>6, <1>7, <1>10, <1>12 DEF x
<1>16. /\ daemon'.step = daemon.step /\ daemon'.now = daemon.now /\ daemon'.msg = daemon.msg
       /\ daemon'.step = "switch" /\ daemon'.step # "expired"
  BY <1>1
<1>. QED BY <1>1, <1>2, <1>3, <1>5, <1>12, <1>13, <1>14, <1>15, <1>16, ListedFires DEF d

(* The first timer, whose time has come.                                    *)
LEMMA ExpiredKeepsDue ==
    ASSUME TypeOK, TInv, DueInv, prvProcessExpiredTimer
    PROVE  DueInv'
<1>1. /\ UNCHANGED <<vars, xLastTime, sending>> /\ xTickCount' = xTickCount
      /\ daemon.step = "expired" /\ daemon' = At("commands") /\ daemon.msg = NoCommand
      /\ daemon.now = xLastTime
  BY DEF prvProcessExpiredTimer, DaemonAt, vars, clockVars, DueInv, Locals, TInv, Turns
<1>2. daemon'.step = "commands" /\ daemon'.msg = daemon.msg
  BY <1>1 DEF At
<1>. DEFINE e == daemon.next
            now == daemon.now
            x == xTickCount
<1>3. PICK m \in Heads :
         /\ due' = Fired(m)
         /\ IF m \notin AutoReload
            THEN Remove(m) /\ UNCHANGED commands
            ELSE IF PassedBy(m, Plus(e, Period(m)), now, e)
            THEN Remove(m) /\ SendToSelf(m, e)
            ELSE Insert(m, Plus(e, Period(m)), now) /\ UNCHANGED commands
  BY DEF prvProcessExpiredTimer
<1>. DEFINE p == Period(m)
            d == due[m]
            f == Plus(e, p)
<1>4. /\ m \in Timer /\ m \in Listed /\ m \in pxCurrentTimerList
      /\ e \in Time /\ now \in Time /\ x \in Time
  BY DEF Heads, Listed, TInv, TimerTypes, DaemonStates, TypeOK
<1>5. expiry[m] = e /\ e <= now
  <2>1. FirstTime(e) /\ e <= now
    BY <1>1 DEF DueInv, Locals
  <2>2. PICK k \in pxCurrentTimerList : e = expiry[k]
    BY <2>1 DEF FirstTime
  <2>3. e <= expiry[m] /\ expiry[m] <= e
    BY <1>4, <2>1, <2>2 DEF FirstTime, Heads
  <2>. QED BY <1>4, <2>1, <2>3, Numbers
<1>6. /\ x \in Nat /\ x < Width /\ Width \in Nat /\ e \in Nat /\ e < Width
      /\ p \in Nat /\ p > 0 /\ p + MaxBehind < Width /\ MaxBehind \in Nat
      /\ now \in Nat /\ now < Width
  BY <1>1, <1>4, Numbers, Periods
<1>7. Turn = IF x < now THEN Width ELSE 0
  BY <1>1 DEF Turn
<1>8. d # Off /\ d = e - x - Turn
  BY <1>4, <1>5 DEF DueInv, RightLists
<1>9. /\ DueType' /\ d \in Int
      /\ m \in AutoReload => due'[m] = d + p
      /\ d >= -MaxBehind
  BY <1>3, <1>4, <1>8, FiredDue DEF DueInv, InTime
<1>10. Since(x, e) = -d /\ Since(x, now) <= -d
  BY <1>5, <1>6, <1>7, <1>8, <1>9 DEF Since
<1>11. d + p \in Int /\ Since(x, e) = p - (d + p) /\ Since(x, now) <= p - (d + p)
  BY <1>6, <1>9, <1>10
<1>12. ~PassedBy(m, f, now, e) =>
          IF f <= now THEN d + p = f - x - Turn + Width /\ f - now + Width <= p
                      ELSE d + p = f - x - Turn /\ f - now <= p
  BY <1>4, <1>7, <1>11, RightTurn
<1>13. commands # Append(commands, [id |-> "START_DONT_TRACE", timer |-> m, value |-> e, age |-> 0])
  <2>1. commands \in Seq(Command) /\ Len(commands) \in Nat
    BY LenProperties DEF TInv, TimerTypes
  <2>2. [id |-> "START_DONT_TRACE", timer |-> m, value |-> e, age |-> 0] \in Command
    BY <1>4 DEF Command
  <2>. QED BY <2>1, <2>2, AppendProperties
<1>14. \/ m \notin AutoReload /\ Remove(m) /\ UNCHANGED commands
       \/ m \in AutoReload /\ Remove(m) /\ SendToSelf(m, e)
       \/ /\ m \in AutoReload /\ ~PassedBy(m, f, now, e) /\ Insert(m, f, now)
          /\ UNCHANGED commands
  BY <1>3
<1>. HIDE DEF e, now, x, p, d, f
<1>15. /\ \A k \in Timer \ {m} : /\ expiry'[k] = expiry[k]
                                 /\ k \in pxCurrentTimerList' <=> k \in pxCurrentTimerList
                                 /\ k \in pxOverflowTimerList' <=> k \in pxOverflowTimerList
       /\ pxCurrentTimerList' \subseteq Timer /\ pxOverflowTimerList' \subseteq Timer
       /\ m \in pxCurrentTimerList' =>
             /\ m \in AutoReload /\ ~PassedBy(m, f, now, e) /\ expiry'[m] = f /\ ~(f <= now)
       /\ m \in pxOverflowTimerList' =>
             /\ m \in AutoReload /\ ~PassedBy(m, f, now, e) /\ expiry'[m] = f /\ f <= now
  BY <1>4, <1>14 DEF Remove, Insert, Put, TInv, TimerTypes
<1>16. \/ UNCHANGED commands /\ (m \in Listed' \/ m \notin AutoReload)
       \/ m \notin Listed' /\ m \in AutoReload /\ SendToSelf(m, e) /\ commands' # commands
  BY <1>4, <1>13, <1>14 DEF Remove, Insert, Put, Listed, SendToSelf
<1>17. \/ UNCHANGED commands
       \/ /\ m \notin Listed' /\ m \in AutoReload
          /\ \E v \in Time : SendToSelf(m, v) /\ Since(xTickCount, v) = Period(m) - due'[m]
  BY <1>4, <1>9, <1>11, <1>16 DEF x, p
<1>18. m \in pxCurrentTimerList' =>
          /\ m \in AutoReload /\ due'[m] = expiry'[m] - xTickCount - Turn
          /\ expiry'[m] - xLastTime <= Period(m)
  BY <1>1, <1>9, <1>12, <1>15 DEF x, p, now
<1>19. m \in pxOverflowTimerList' =>
          /\ m \in AutoReload /\ due'[m] = expiry'[m] - xTickCount - Turn + Width
          /\ expiry'[m] - xLastTime + Width <= Period(m)
  BY <1>1, <1>9, <1>12, <1>15 DEF x, p, now
<1>. QED BY <1>1, <1>2, <1>3, <1>4, <1>8, <1>15, <1>16, <1>17, <1>18, <1>19, ListedFires DEF d

(* The daemon's command to itself, when the timer of a command has fired.   *)
LEMMA ApplyFireKeepsDue ==
    ASSUME TypeOK, TInv, DueInv, ApplyFire
    PROVE  DueInv'
<1>. USE DEF DueInv
<1>. DEFINE m == daemon.msg.timer
            v == daemon.msg.value
            x == xTickCount
            u == Plus(v, Period(m))
<1>1. /\ UNCHANGED <<vars, pxCurrentTimerList, pxOverflowTimerList, expiry, xLastTime, sending>>
      /\ xTickCount' = xTickCount
      /\ daemon.step = "fire" /\ daemon' = At("commands")
      /\ due' = Fired(m)
      /\ IF m \in AutoReload THEN SendToSelf(m, u) ELSE UNCHANGED commands
  BY DEF ApplyFire, DaemonAt, vars, clockVars
<1>2. daemon'.step = "commands" /\ daemon'.msg = NoCommand
  BY <1>1 DEF At
<1>3. daemon.msg \in Command /\ daemon.msg # NoCommand /\ m \in Timer /\ v \in Time /\ x \in Time
  BY <1>1, CommandFields DEF TInv, Turns, TypeOK
<1>4. u \in Time
  BY <1>3, PlusType
<1>5. due[m] # Off /\ due[m] <= 0 /\ Since(x, v) = Period(m) - due[m]
  BY <1>1 DEF Locals
<1>6. InHand(m) /\ m \notin Listed /\ \A k : InHand(k) <=> k = m
  BY <1>3 DEF InHand, Queued
<1>7. /\ DueType' /\ due[m] \in Int
      /\ \A k \in Timer \ {m} : due'[k] = due[k]
      /\ IF m \in AutoReload
         THEN due'[m] = due[m] + Period(m) /\ due'[m] \in Int /\ due'[m] # Off
         ELSE due'[m] = Off
      /\ \A k \in Timer : due'[k] # Off => due'[k] >= -MaxBehind
  BY <1>1, <1>3, <1>5, FiredDue
<1>8. Since(x, u) = Period(m) - (due[m] + Period(m))
  <2>1. Period(m) \in Nat /\ due[m] \in Int
    BY <1>3, <1>7, Periods
  <2>2. Since(x, v) >= Period(m)
    BY <1>5, <2>1
  <2>3. Since(x, u) = Since(x, v) - Period(m)
    BY <1>3, <2>2, SincePlus
  <2>. QED BY <1>5, <2>1, <2>3
<1>9. /\ \A i \in 1 .. Len(commands) :
            /\ commands[i].id = "START_DONT_TRACE" /\ commands[i].timer # m
            /\ RightTime(commands[i], xTickCount, due')
      /\ \A t \in Task : sending[t] # NoCommand =>
            /\ sending[t].id # "START_DONT_TRACE"
            /\ RightTime(sending[t], xTickCount, due')
  BY <1>1, <1>3, <1>6, <1>7, Elsewhere
<1>10. Len(commands) \in Nat /\ DOMAIN commands = 1 .. Len(commands)
  BY Numbers
<1>11. m \in AutoReload =>
          /\ Len(commands') = Len(commands) + 1 /\ DOMAIN commands' = 1 .. Len(commands')
          /\ \A i \in 1 .. Len(commands) : commands'[i] = commands[i]
          /\ commands'[Len(commands')] = [id |-> "START_DONT_TRACE", timer |-> m,
                                          value |-> u, age |-> 0]
  BY <1>1, <1>3, <1>4, Sent
<1>12. m \notin AutoReload => commands' = commands
  BY <1>1
<1>13. ASSUME NEW i \in 1 .. Len(commands')
       PROVE  /\ commands'[i].age <= MaxBehind
              /\ RightTime(commands'[i], xTickCount, due')
              /\ commands'[i].id = "START_DONT_TRACE"
              /\ commands'[i].timer \notin Listed
              /\ \A j \in 1 .. Len(commands') : commands'[j].timer = commands'[i].timer => j = i
  <2>1. CASE i \in 1 .. Len(commands)
    <3>1. commands'[i] = commands[i]
      BY <1>11, <1>12, <2>1
    <3>2. ASSUME NEW j \in 1 .. Len(commands'), commands'[j].timer = commands'[i].timer
          PROVE  j = i
      <4>1. commands[i].timer # m
        BY <1>9, <2>1
      <4>2. j \in 1 .. Len(commands)
        BY <1>10, <1>11, <1>12, <3>1, <3>2, <4>1
      <4>3. commands'[j] = commands[j]
        BY <1>11, <1>12, <4>2
      <4>. QED BY <1>9, <2>1, <3>1, <3>2, <4>2, <4>3 DEF Queued
    <3>. QED BY <1>9, <2>1, <3>1, <3>2 DEF InTime, Queued
  <2>2. CASE i \notin 1 .. Len(commands)
    <3>1. m \in AutoReload /\ i = Len(commands')
      BY <1>10, <1>11, <1>12, <2>2
    <3>2. commands'[i] = [id |-> "START_DONT_TRACE", timer |-> m, value |-> u, age |-> 0]
      BY <1>11, <3>1
    <3>3. RightTime(commands'[i], xTickCount, due')
      BY <1>7, <1>8, <3>1, <3>2 DEF RightTime, Running
    <3>4. ASSUME NEW j \in 1 .. Len(commands'), j # i
          PROVE  commands'[j].timer # m
      <4>1. j \in 1 .. Len(commands)
        BY <1>10, <1>11, <3>1, <3>4
      <4>. QED BY <1>9, <1>11, <3>1, <4>1
    <3>. QED BY <1>6, <3>2, <3>3, <3>4, Periods
  <2>. QED BY <2>1, <2>2
<1>14. InTime'
  BY <1>1, <1>2, <1>7, <1>13 DEF InTime
<1>15. CommandTimes'
  BY <1>1, <1>2, <1>9, <1>13 DEF CommandTimes
<1>16. Queued'
  BY <1>1, <1>2, <1>13 DEF Queued, Listed, InHand
<1>17. Turn' = Turn
  BY <1>1, <1>2 DEF Turn
<1>18. RightLists'
  <2>1. ASSUME NEW k \in Listed
        PROVE  k \in Timer \ {m}
    BY <1>6, <2>1 DEF Listed, TInv, TimerTypes
  <2>2. ASSUME NEW k \in Timer \ Listed, due'[k] # Off
        PROVE  Restarts(k)'
    <3>1. CASE k = m
      <4>1. m \in AutoReload
        BY <1>7, <2>2, <3>1
      <4>2. /\ commands'[Len(commands')].id = "START_DONT_TRACE"
            /\ commands'[Len(commands')].timer = m
            /\ Len(commands') \in DOMAIN commands'
        BY <1>10, <1>11, <4>1
      <4>. QED BY <3>1, <4>2 DEF Restarts
    <3>2. CASE k # m
      <4>1. Restarts(k)
        BY <1>6, <1>7, <2>2, <3>2 DEF RightLists
      <4>2. \A i \in DOMAIN commands : i \in DOMAIN commands' /\ commands'[i] = commands[i]
        BY <1>10, <1>11, <1>12
      <4>. QED BY <4>1, <4>2 DEF Restarts
    <3>. QED BY <3>1, <3>2
  <2>3. \A k \in Listed : due'[k] = due[k]
    BY <1>7, <2>1
  <2>. QED BY <1>1, <1>17, <2>2, <2>3 DEF RightLists, Listed
<1>19. Ahead'
  BY <1>1, <1>2 DEF Ahead
<1>20. Locals'
  BY <1>2 DEF Locals
<1>. QED BY <1>7, <1>14, <1>15, <1>16, <1>18, <1>19, <1>20

(* A timer is stopped.                                                      *)
LEMMA ApplyStopKeepsDue ==
    ASSUME TypeOK, TInv, DueInv, ApplyStop
    PROVE  DueInv'
<1>. USE DEF DueInv
<1>. DEFINE m == daemon.msg.timer
<1>1. /\ UNCHANGED <<vars, commands, pxCurrentTimerList, pxOverflowTimerList, expiry,
                     xLastTime, sending>>
      /\ xTickCount' = xTickCount
      /\ daemon.step = "apply" /\ daemon' = At("commands")
      /\ due' = [due EXCEPT ![m] = Off]
  BY DEF ApplyStop, DaemonAt, vars, clockVars
<1>2. daemon'.step = "commands" /\ daemon'.msg = NoCommand
  BY <1>1 DEF At
<1>3. daemon.msg \in Command /\ daemon.msg # NoCommand /\ m \in Timer
  BY <1>1, CommandFields DEF TInv, Turns
<1>4. InHand(m) /\ m \notin Listed /\ \A k : InHand(k) <=> k = m
  BY <1>3 DEF InHand, Queued
<1>5. /\ DueType' /\ due'[m] = Off
      /\ \A k \in Timer \ {m} : due'[k] = due[k]
  BY <1>1, <1>3 DEF DueType
<1>6. /\ \A i \in 1 .. Len(commands) :
            /\ commands[i].id = "START_DONT_TRACE" /\ commands[i].timer # m
            /\ RightTime(commands[i], xTickCount, due')
      /\ \A t \in Task : sending[t] # NoCommand =>
            /\ sending[t].id # "START_DONT_TRACE"
            /\ RightTime(sending[t], xTickCount, due')
  BY <1>1, <1>3, <1>4, <1>5, Elsewhere
<1>7. InTime' /\ CommandTimes'
  BY <1>1, <1>2, <1>5, <1>6 DEF InTime, CommandTimes
<1>8. Queued'
  BY <1>1, <1>2, <1>6 DEF Queued, Listed, InHand
<1>9. Turn' = Turn
  BY <1>1, <1>2 DEF Turn
<1>10. RightLists'
  <2>1. \A k \in Listed : k \in Timer \ {m} /\ due'[k] = due[k]
    BY <1>4, <1>5 DEF Listed, TInv, TimerTypes
  <2>2. \A k \in Timer \ Listed : due'[k] # Off => Restarts(k)
    BY <1>4, <1>5 DEF RightLists
  <2>3. \A k \in Timer \ Listed : due'[k] # Off => Restarts(k)'
    BY <1>1, <2>2 DEF Restarts
  <2>. QED BY <1>1, <1>9, <2>1, <2>3 DEF RightLists, Listed
<1>11. Ahead' /\ Locals'
  BY <1>1, <1>2 DEF Ahead, Locals
<1>. QED BY <1>5, <1>7, <1>8, <1>10, <1>11

(* A timer is started or goes on.                                           *)
LEMMA ApplyStartKeepsDue ==
    ASSUME TypeOK, TInv, DueInv, ApplyStart
    PROVE  DueInv'
<1>. USE DEF DueInv
<1>. DEFINE c == daemon.msg
            m == daemon.msg.timer
            v == daemon.msg.value
            now == daemon.now
            x == xTickCount
            e == Plus(daemon.msg.value, Period(m))
<1>1. /\ UNCHANGED <<vars, commands, xLastTime, sending>> /\ xTickCount' = xTickCount
      /\ daemon.step = "apply" /\ c.id # "STOP"
      /\ due' = IF c.id = "START" THEN [due EXCEPT ![m] = Period(m) - c.age] ELSE due
      /\ IF PassedBy(m, e, now, v)
         THEN /\ daemon' = [daemon EXCEPT !.step = "fire"]
              /\ UNCHANGED <<pxCurrentTimerList, pxOverflowTimerList, expiry>>
         ELSE Insert(m, e, now) /\ daemon' = At("commands")
  BY DEF ApplyStart, DaemonAt, vars, clockVars
<1>2. /\ c \in Command /\ c # NoCommand /\ m \in Timer /\ v \in Time /\ x \in Time
      /\ now \in Time /\ now = xLastTime /\ c.age \in Nat
      /\ c.id \in {"START", "START_DONT_TRACE"}
  BY <1>1, CommandFields DEF TInv, Turns, TimerTypes, TypeOK
<1>3. InHand(m) /\ m \notin Listed /\ \A k : InHand(k) <=> k = m
  BY <1>2 DEF InHand, Queued
<1>4. /\ RightTime(c, x, due) /\ Since(x, now) <= Running(c, due) /\ c.age <= MaxBehind
  BY <1>1, <1>2 DEF CommandTimes, Locals, InTime
<1>. DEFINE d == IF c.id = "START" THEN Period(m) - c.age ELSE due[m]
<1>5. /\ d \in Int /\ d # Off /\ d >= -MaxBehind /\ Running(c, due) = Period(m) - d
  <2>1. Period(m) \in Nat /\ Off \notin Int /\ MaxBehind \in Nat
    BY <1>2, Periods
  <2>2. CASE c.id = "START"
    BY <1>2, <1>4, <2>1, <2>2 DEF Running
  <2>3. CASE c.id = "START_DONT_TRACE"
    <3>1. due[m] # Off /\ due[m] \in Int /\ due[m] >= -MaxBehind
      BY <1>2, <1>4, <2>3 DEF RightTime, DueType, InTime
    <3>. QED BY <2>3, <3>1 DEF Running
  <2>. QED BY <1>2, <2>2, <2>3
<1>6. /\ DueType' /\ due'[m] = d
      /\ \A k \in Timer \ {m} : due'[k] = due[k]
  BY <1>1, <1>2, <1>5 DEF DueType
<1>7. Since(x, v) = Period(m) - d /\ Since(x, now) <= Period(m) - d
  BY <1>1, <1>4, <1>5 DEF RightTime
<1>8. Turn = IF x < now THEN Width ELSE 0
  BY <1>1, <1>2 DEF Turn
<1>. HIDE DEF d
<1>9. IF PassedBy(m, e, now, v) THEN d <= 0
      ELSE IF e <= now
      THEN d = e - x - Turn + Width /\ e - now + Width <= Period(m)
      ELSE d = e - x - Turn /\ e - now <= Period(m)
  BY <1>2, <1>5, <1>7, <1>8, RightTurn
<1>10. /\ \A i \in 1 .. Len(commands) :
             /\ commands[i].id = "START_DONT_TRACE" /\ commands[i].timer # m
             /\ RightTime(commands[i], xTickCount, due')
       /\ \A t \in Task : sending[t] # NoCommand =>
             /\ sending[t].id # "START_DONT_TRACE"
             /\ RightTime(sending[t], xTickCount, due')
  BY <1>1, <1>2, <1>3, <1>6, Elsewhere
<1>11. \A k \in Timer : due'[k] # Off => due'[k] >= -MaxBehind
  BY <1>5, <1>6 DEF InTime
<1>12. \A k \in Timer \ Listed : k # m /\ due'[k] # Off => Restarts(k)'
  <2>1. \A k \in Timer \ Listed : k # m /\ due'[k] # Off => Restarts(k)
    BY <1>3, <1>6 DEF RightLists
  <2>. QED BY <1>1, <2>1 DEF Restarts
<1>13. \A k \in Listed : k \in Timer \ {m} /\ due'[k] = due[k]
  BY <1>3, <1>6 DEF Listed, TInv, TimerTypes
<1>14. CASE PassedBy(m, e, now, v)
  <2>1. /\ UNCHANGED <<pxCurrentTimerList, pxOverflowTimerList, expiry>>
        /\ daemon'.step = "fire" /\ daemon'.msg = c
    BY <1>1, <1>14 DEF TInv, TimerTypes, DaemonStates
  <2>2. InTime' /\ CommandTimes'
    BY <1>1, <1>10, <1>11, <2>1 DEF InTime, CommandTimes
  <2>3. Queued'
    BY <1>1, <1>10, <2>1 DEF Queued, Listed, InHand
  <2>4. Turn' = Turn
    BY <1>1, <2>1 DEF Turn
  <2>5. InHand(m)'
    BY <1>3, <2>1 DEF InHand
  <2>6. RightLists'
    BY <1>1, <1>12, <1>13, <2>1, <2>4, <2>5 DEF RightLists, Listed
  <2>7. Ahead'
    BY <1>1, <2>1 DEF Ahead
  <2>8. Locals'
    BY <1>1, <1>5, <1>6, <1>7, <1>9, <1>14, <2>1 DEF Locals
  <2>. QED BY <1>6, <2>2, <2>3, <2>6, <2>7, <2>8
<1>15. CASE ~PassedBy(m, e, now, v)
  <2>1. /\ Insert(m, e, now) /\ daemon'.step = "commands" /\ daemon'.msg = NoCommand
    BY <1>1, <1>15 DEF At
  <2>2. /\ Listed' = Listed \cup {m}
        /\ expiry'[m] = e /\ \A k \in Timer \ {m} : expiry'[k] = expiry[k]
        /\ IF e <= now
           THEN /\ pxCurrentTimerList' = pxCurrentTimerList
                /\ pxOverflowTimerList' = pxOverflowTimerList \cup {m}
           ELSE /\ pxCurrentTimerList' = pxCurrentTimerList \cup {m}
                /\ pxOverflowTimerList' = pxOverflowTimerList
    <3>1. m \notin pxCurrentTimerList /\ m \notin pxOverflowTimerList
      BY <1>3 DEF Listed
    <3>. HIDE DEF m, e, now
    <3>2. /\ expiry'[m] = e /\ \A k \in Timer \ {m} : expiry'[k] = expiry[k]
          /\ IF e <= now
             THEN /\ pxCurrentTimerList' = pxCurrentTimerList
                  /\ pxOverflowTimerList' = pxOverflowTimerList \cup {m}
             ELSE /\ pxCurrentTimerList' = pxCurrentTimerList \cup {m}
                  /\ pxOverflowTimerList' = pxOverflowTimerList
      BY <1>2, <2>1, <3>1 DEF Insert, Put, TInv, TimerTypes
    <3>. QED BY <3>2 DEF Listed
  <2>3. InTime' /\ CommandTimes'
    BY <1>1, <1>10, <1>11, <2>1 DEF InTime, CommandTimes
  <2>4. Queued'
    <3>1. \A i \in 1 .. Len(commands) : commands[i].timer \notin Listed \cup {m}
      BY <1>10 DEF Queued
    <3>. QED BY <1>1, <1>10, <2>1, <2>2, <3>1 DEF Queued, InHand
  <2>5. Turn' = Turn
    BY <1>1, <2>1 DEF Turn
  <2>. HIDE DEF m, e, now, x, v, c
  <2>6. ASSUME NEW k \in pxCurrentTimerList'
        PROVE  /\ due'[k] # Off /\ due'[k] = expiry'[k] - xTickCount - Turn
               /\ expiry'[k] - xLastTime <= Period(k)
    <3>1. CASE k = m
      <4>1. ~(e <= now)
        BY <1>3, <2>2, <2>6, <3>1 DEF Listed
      <4>. QED BY <1>2, <1>5, <1>6, <1>9, <1>15, <2>2, <3>1, <4>1 DEF x
    <3>2. CASE k # m
      <4>1. k \in pxCurrentTimerList /\ k \in Listed
        BY <2>2, <2>6, <3>2 DEF Listed
      <4>. QED BY <1>1, <1>13, <2>2, <4>1 DEF RightLists, Ahead
    <3>. QED BY <3>1, <3>2
  <2>7. ASSUME NEW k \in pxOverflowTimerList'
        PROVE  /\ due'[k] # Off /\ due'[k] = expiry'[k] - xTickCount - Turn + Width
               /\ expiry'[k] - xLastTime + Width <= Period(k)
    <3>1. CASE k = m
      <4>1. e <= now
        BY <1>3, <2>2, <2>7, <3>1 DEF Listed
      <4>. QED BY <1>2, <1>5, <1>6, <1>9, <1>15, <2>2, <3>1, <4>1 DEF x
    <3>2. CASE k # m
      <4>1. k \in pxOverflowTimerList /\ k \in Listed
        BY <2>2, <2>7, <3>2 DEF Listed
      <4>. QED BY <1>1, <1>13, <2>2, <4>1 DEF RightLists, Ahead
    <3>. QED BY <3>1, <3>2
  <2>8. RightLists'
    BY <1>1, <1>12, <2>2, <2>5, <2>6, <2>7 DEF RightLists
  <2>9. Ahead'
    BY <1>1, <2>6, <2>7 DEF Ahead
  <2>10. Locals'
    BY <2>1 DEF Locals
  <2>. QED BY <1>6, <2>3, <2>4, <2>8, <2>9, <2>10
<1>. QED BY <1>14, <1>15

-----------------------------------------------------------------------------
(* The inductive invariant of the timers, and what follows from it.         *)

LEMMA DueInit ==
    ASSUME TimersInit
    PROVE  DueInv /\ DaemonWaits
<1>1. /\ commands = <<>> /\ Len(commands) = 0 /\ daemon.step = "loop" /\ daemon.msg = NoCommand
      /\ Listed = {} /\ pxCurrentTimerList = {} /\ pxOverflowTimerList = {}
      /\ \A t \in Task : sending[t] = NoCommand
      /\ due \in [Timer -> {Off} \cup Int] /\ \A m \in Timer : due[m] = Off
  BY DEF TimersInit, Listed, At
<1>2. DueInv
  BY <1>1 DEF DueInv, DueType, InTime, CommandTimes, Queued, Ahead, RightLists, Locals
<1>3. DaemonWaits
  BY <1>1, Others, TimersAssumption, TicksAssumption DEF TimersInit, Init, DaemonWaits
<1>. QED BY <1>2, <1>3

(* Every step of the kernel, the users and the daemon.                      *)
LEMMA DueStep ==
    ASSUME IInv, IInv', TInv, DueInv, DaemonWaits, [TimersNext]_allVars
    PROVE  DueInv'
<1>. USE DEF IInv
<1>1. CASE UNCHANGED allVars
  <2>1. UNCHANGED <<xTickCount, timerVars>>
    BY <1>1 DEF allVars, vars, clockVars
  <2>. QED BY <2>1 DEF timerVars, DueInv, DueType, InTime, CommandTimes, Queued, Ahead, RightLists,
                       Locals, Listed, InHand, Restarts, Turn, FirstTime
<1>2. CASE KernelStep
  <2>1. /\ Counted \in Nat /\ Age(Counted) /\ KeepsUp'
        /\ xTickCount' = xTickCount + Counted \/ xTickCount' = xTickCount + Counted - Width
        /\ UNCHANGED <<pxCurrentTimerList, pxOverflowTimerList, expiry, xLastTime>>
    BY <1>2, CountedClock DEF KernelStep
  <2>. QED BY <2>1, KernelKeepsDue
<1>3. ASSUME NEW t \in Task, ReadTime(t)
      PROVE  DueInv'
  BY <1>3, ReadTimeKeepsDue
<1>4. ASSUME NEW t \in Task, xTimerGenericCommand(t)
      PROVE  DueInv'
  BY <1>4, CommandKeepsDue
<1>5. CASE SampleWrapped \/ SampleForCommand
  BY <1>5, SampleKeepsDue
<1>6. CASE prvGetNextExpireTime \/ BlockExpired \/ BlockWait \/ NoMoreCommands
  BY <1>6, BlockKeepsDue
<1>7. CASE SwitchFire
  BY <1>7, SwitchFireKeepsDue
<1>8. CASE SwitchLists
  BY <1>8, SwitchKeepsDue
<1>9. CASE prvProcessExpiredTimer
  BY <1>9, ExpiredKeepsDue
<1>10. CASE ReceiveCommand
  BY <1>10, ReceiveKeepsDue
<1>11. CASE ApplyStop
  BY <1>11, ApplyStopKeepsDue
<1>12. CASE ApplyStart
  BY <1>12, ApplyStartKeepsDue
<1>13. CASE ApplyFire
  BY <1>13, ApplyFireKeepsDue
<1>. QED BY <1>1, <1>2, <1>3, <1>4, <1>5, <1>6, <1>7, <1>8, <1>9, <1>10, <1>11, <1>12, <1>13
         DEF TimersNext, prvTimerTask

(* More places than things to put there.                                    *)
LEMMA Crowded ==
    ASSUME NEW n \in Nat, NEW T, IsFiniteSet(T), Cardinality(T) < n, NEW g \in [1 .. n -> T]
    PROVE  \E i, j \in 1 .. n : i # j /\ g[i] = g[j]
<1>1. IsFiniteSet(1 .. n) /\ Cardinality(1 .. n) = n
  <2>1. IsFiniteSet(1 .. n) /\ Cardinality(1 .. n) = IF 1 > n THEN 0 ELSE n - 1 + 1
    BY FS_Interval
  <2>. QED BY <2>1
<1>2. Cardinality(T) < Cardinality(1 .. n)
  BY <1>1
<1>. DEFINE S == 1 .. n
<1>3. IsFiniteSet(S) /\ Cardinality(T) < Cardinality(S) /\ g \in [S -> T]
  BY <1>1, <1>2
<1>. HIDE DEF S
<1>4. \E i, j \in S : i # j /\ g[i] = g[j]
  BY <1>3, FS_PigeonHole
<1>. QED BY <1>4 DEF S

(* While a timer is in a list or a command for it is at hand, none for it is *)
(* in the queue: the others leave room for it.                               *)
LEMMA Room ==
    ASSUME TypeOK, TInv, DueInv, daemon.step # "commands",
           NEW m \in Timer, m \in Listed \/ InHand(m)
    PROVE  Len(commands) < QueueLength
<1>. DEFINE n == Len(commands)
            f == [i \in 1 .. n |-> commands[i].timer]
<1>1. n \in Nat /\ \A i \in 1 .. n : commands[i] \in Command
  BY Numbers
<1>2. \A i \in 1 .. n : /\ commands[i].timer \in Timer \ {m}
                        /\ \A j \in 1 .. n : commands[j].timer = commands[i].timer => j = i
  BY <1>1, CommandFields DEF DueInv, Queued
<1>3. f \in [1 .. n -> Timer \ {m}]
  BY <1>2
<1>4. /\ IsFiniteSet(Timer \ {m}) /\ Cardinality(Timer \ {m}) = Cardinality(Timer) - 1
      /\ Cardinality(Timer) \in Nat /\ Cardinality(Timer) <= QueueLength
  BY DaemonAssumption, FS_RemoveElement, FS_CardinalityType
<1>5. ~(Cardinality(Timer \ {m}) < n)
  <2>1. SUFFICES ASSUME Cardinality(Timer \ {m}) < n PROVE FALSE
    OBVIOUS
  <2>. HIDE DEF f, n
  <2>2. \E i, j \in 1 .. n : i # j /\ f[i] = f[j]
    BY <1>1, <1>3, <1>4, <2>1, Crowded
  <2>. QED BY <1>2, <2>2 DEF f
<1>. QED BY <1>1, <1>4, <1>5, TimersAssumption

(* What holds in every state.                                               *)
LEMMA TimersInvariant == TimersSpec => [](IInv /\ TInv /\ DueInv /\ DaemonWaits)
<1>1. TimersInit => IInv /\ TInv /\ DueInv /\ DaemonWaits
  BY TimersInitTInv, InitIInv, DueInit DEF TimersInit
<1>2. IInv /\ TInv /\ DueInv /\ DaemonWaits /\ [TimersNext]_allVars
         => (IInv /\ TInv /\ DueInv /\ DaemonWaits)'
  <2>. SUFFICES ASSUME IInv, TInv, DueInv, DaemonWaits, [TimersNext]_allVars
                PROVE  (IInv /\ TInv /\ DueInv /\ DaemonWaits)'
    OBVIOUS
  <2>1. [Next]_vars
    BY KernelSteps DEF IInv
  <2>2. IInv'
    BY <2>1, IInvInductive
  <2>3. TInv'
    BY <2>2, TimersStep DEF IInv
  <2>. QED BY <2>2, <2>3, DueStep, DaemonWaitsStep
<1>. QED BY <1>1, <1>2, PTL DEF TimersSpec

-----------------------------------------------------------------------------
(* How long the daemon sleeps.                                              *)

\* The daemon sleeps no longer than to the first timer that is due.
Wakes ==
    xEventListItem[Daemon] = xTimerQueue =>
        \A m \in Timer : due[m] # Off => Daemon \in Delayed /\ Left(Daemon) <= due[m]

(* A step of SleepClock counts the ticks that it takes off the time of a     *)
(* task that sleeps before and after it.                                     *)
LEMMA SleeperCounts ==
    ASSUME IInv, IInv', NEW t \in Task, ClockStep, t \in Delayed, t \in Delayed'
    PROVE  Left(t)' = Left(t) - Counted
<1>1. /\ xTickCount \in Nat /\ xTickCount < Width /\ Width \in Nat
      /\ xTickCount' \in Nat /\ xTickCount' < Width
  BY Widths DEF IInv, TypeOK
<1>2. /\ left[t] = Left(t) /\ left'[t] = Left(t)' /\ left[t] # 0
      /\ left[t] \in Int /\ left'[t] \in Int /\ left'[t] # 0
  <2>1. Left(t) \in 1 .. Width - 1
    BY LeftInTime
  <2>2. Left(t)' \in 1 .. Width - 1
    <3>1. t \in Task /\ wake'[t] # xTickCount' /\ wake'[t] \in Nat /\ wake'[t] < Width
      BY Widths DEF IInv, TypeOK, TickInv, Delayed
    <3>. QED BY <1>1, <3>1 DEF Left
  <2>. QED BY <1>1, <2>1, <2>2 DEF left
<1>3. ASSUME UNCHANGED xTickCount, left'[t] = left[t]
      PROVE  Left(t)' = Left(t) - Counted
  <2>1. Counted = 0
    BY <1>1, <1>3 DEF Counted
  <2>. QED BY <1>2, <1>3, <2>1
<1>4. ASSUME NEW n \in Nat, n < Width, left'[t] = left[t] - n,
             xTickCount' = IF xTickCount + n < Width THEN xTickCount + n
                                                     ELSE xTickCount + n - Width
      PROVE  Left(t)' = Left(t) - Counted
  <2>1. Counted = n
    BY <1>1, <1>4 DEF Counted
  <2>. QED BY <1>2, <1>4, <2>1
<1>5. CASE UNCHANGED <<xTickCount, left, stopped>>
  BY <1>3, <1>5
<1>6. ASSUME NEW u \in Task, NEW n \in 1 .. Width - 1, Clock!Sleep(u, n)
      PROVE  Left(t)' = Left(t) - Counted
  BY <1>2, <1>3, <1>6 DEF Clock!Sleep, left
<1>7. CASE Clock!Tick
  <2>1. xTickCount' = (IF xTickCount + 1 < Width THEN xTickCount + 1 ELSE xTickCount + 1 - Width)
        /\ left' = [u \in Task |-> IF left[u] = 0 THEN 0 ELSE left[u] - 1]
    BY <1>7 DEF Clock!Tick, Clock!Pass, left
  <2>. QED BY <1>2, <1>4, <2>1, Widths
<1>8. ASSUME NEW n \in 1 .. Width - 1, Clock!Jump(n)
      PROVE  Left(t)' = Left(t) - Counted
  <2>1. xTickCount' = (IF xTickCount + n < Width THEN xTickCount + n ELSE xTickCount + n - Width)
        /\ left' = [u \in Task |-> IF left[u] = 0 THEN 0 ELSE left[u] - n]
    BY <1>8 DEF Clock!Jump, Clock!Pass, left
  <2>2. n \in Nat /\ n < Width
    BY <1>1
  <2>. QED BY <1>2, <1>4, <2>1, <2>2
<1>9. ASSUME NEW S \in SUBSET Task, Clock!Wake(S)
      PROVE  Left(t)' = Left(t) - Counted
  <2>1. left' = [u \in Task |-> IF u \in S THEN 0 ELSE left[u]] /\ UNCHANGED xTickCount
    BY <1>9 DEF Clock!Wake, left
  <2>. QED BY <1>2, <1>3, <2>1
<1>10. ASSUME NEW u \in Task, Clock!Stop(u) \/ Clock!Resume(u) \/ Clock!Delete(u)
       PROVE  Left(t)' = Left(t) - Counted
  <2>1. (left' = [left EXCEPT ![u] = 0] \/ left' = left) /\ UNCHANGED xTickCount
    BY <1>10 DEF Clock!Stop, Clock!Resume, Clock!Delete, left
  <2>2. left \in [Task -> 0 .. Width - 1]
    BY LeftInTime
  <2>. QED BY <1>2, <1>3, <2>1, <2>2
<1>. QED BY <1>5, <1>6, <1>7, <1>8, <1>9, <1>10 DEF ClockStep, Clock!Next

(* A task that sleeps from a window has the ticks it asked for.             *)
LEMMA PlacedFor ==
    ASSUME IInv, NEW t \in Task, NEW o, NEW n \in 1 .. Width - 1, Place(t, o, n, FALSE)
    PROVE  t \in Delayed' /\ Left(t)' = n
<1>1. AddToDelayedList(t, n, FALSE) /\ xTickCount' = xTickCount
  BY DEF Place
<1>2. t \in Delayed' /\ wake' = [wake EXCEPT ![t] = TicksAhead(n)]
  BY <1>1 DEF AddToDelayedList, Delayed
<1>3. wake'[t] = TicksAhead(n)
  BY <1>2 DEF IInv, TypeOK
<1>4. xTickCount \in Nat /\ xTickCount < Width /\ Width \in Nat
  BY Widths DEF IInv, TypeOK
<1>. QED BY <1>1, <1>2, <1>3, <1>4 DEF Left, TicksAhead

(* The daemon goes to sleep with the first of its times still to come, or    *)
(* with no timer running.                                                    *)
LEMMA BlockWakes ==
    ASSUME IInv, TInv, DueInv, BlockWait, commands = <<>>
    PROVE  \A m \in Timer : due'[m] # Off => Daemon \in Delayed' /\ Left(Daemon)' <= due'[m]
<1>. USE DEF IInv
<1>. DEFINE x == xTickCount
            next == daemon.next
            n == IF next >= x THEN next - x ELSE next - x + Width
<1>1. /\ daemon.step = "block" /\ x >= xLastTime /\ (daemon.empty \/ next > x)
      /\ PollPlace(Daemon, n, NoTimers) /\ UNCHANGED due
  BY DEF BlockWait, DaemonAt
<1>2. ASSUME NEW m \in Timer, due[m] # Off
      PROVE  m \in Listed
  <2>1. daemon.msg = NoCommand
    BY <1>1 DEF DueInv, Locals
  <2>2. ~InHand(m) /\ ~Restarts(m)
    BY <2>1 DEF InHand, Restarts
  <2>. QED BY <1>2, <2>2 DEF DueInv, RightLists
<1>3. /\ x \in Nat /\ x < Width /\ Width \in Nat /\ xLastTime \in Nat
      /\ next \in Nat /\ next < Width
      /\ \A m \in Timer : expiry[m] \in Nat /\ expiry[m] < Width
  BY Numbers
<1>4. Turn = 0
  BY <1>1, <1>3 DEF Turn
<1>5. daemon.empty => pxCurrentTimerList = {} /\ next = 0
  BY <1>1 DEF DueInv, Locals, TInv, Turns
<1>6. ~daemon.empty => next > x /\ \A m \in pxCurrentTimerList : next <= expiry[m]
  BY <1>1 DEF DueInv, Locals, FirstTime
<1>7. ASSUME NEW m \in Timer, due[m] # Off
      PROVE  /\ ~NoTimers /\ n \in 1 .. Width - 1 /\ n <= due[m]
  <2>1. m \in Listed
    BY <1>2, <1>7
  <2>2. CASE m \in pxCurrentTimerList
    <3>1. due[m] = expiry[m] - x - Turn
      BY <2>2 DEF DueInv, RightLists
    <3>2. ~daemon.empty /\ ~NoTimers
      BY <1>5, <2>2 DEF NoTimers
    <3>3. next > x /\ next <= expiry[m]
      BY <1>6, <2>2, <3>2
    <3>4. n = next - x
      BY <1>3, <3>3
    <3>. HIDE DEF n, x, next
    <3>. QED BY <1>3, <1>4, <3>1, <3>2, <3>3, <3>4
  <2>3. CASE m \in pxOverflowTimerList
    <3>1. due[m] = expiry[m] - x - Turn + Width
      BY <2>3 DEF DueInv, RightLists
    <3>2. ~NoTimers
      BY <2>3 DEF NoTimers
    <3>3. expiry[m] < xLastTime
      BY <2>3 DEF TInv, Turns
    <3>4. x > 0
      BY <1>1, <1>3, <3>3
    <3>5. CASE daemon.empty
      <4>1. n = Width - x
        BY <1>3, <1>5, <3>4, <3>5
      <4>. HIDE DEF n, x, next
      <4>. QED BY <1>3, <1>4, <3>1, <3>2, <3>4, <4>1
    <3>6. CASE ~daemon.empty
      <4>1. n = next - x /\ next > x
        BY <1>3, <1>6, <3>6
      <4>. HIDE DEF n, x, next
      <4>. QED BY <1>3, <1>4, <3>1, <3>2, <4>1
    <3>. QED BY <3>5, <3>6
  <2>. QED BY <2>1, <2>2, <2>3 DEF Listed
<1>. HIDE DEF n
<1>8. ASSUME NEW m \in Timer, due[m] # Off
      PROVE  Daemon \in Delayed' /\ Left(Daemon)' <= due[m]
  <2>1. Place(Daemon, call[Daemon].on, n, FALSE)
    <3>1. Place(Daemon, call[Daemon].on, IF NoTimers THEN portMAX_DELAY ELSE n, NoTimers)
      BY <1>1 DEF PollPlace
    <3>2. NoTimers = FALSE
      BY <1>7, <1>8 DEF NoTimers, TInv, TimerTypes, DaemonStates
    <3>. QED BY <3>1, <3>2
  <2>2. Daemon \in Delayed' /\ Left(Daemon)' = n
    BY <1>7, <1>8, <2>1, PlacedFor, TimersAssumption
  <2>. QED BY <1>7, <1>8, <2>2
<1>. QED BY <1>1, <1>8

(* How long the daemon sleeps, in every step.                               *)
LEMMA WakesStep ==
    ASSUME IInv, IInv', TInv, DueInv, DaemonWaits, Wakes, [TimersNext]_allVars
    PROVE  Wakes'
<1>. SUFFICES ASSUME xEventListItem'[Daemon] = xTimerQueue, NEW m \in Timer, due'[m] # Off
              PROVE  Daemon \in Delayed' /\ Left(Daemon)' <= due'[m]
  BY DEF Wakes
<1>1. Daemon \in Task /\ NULL # xTimerQueue
  BY Others
<1>2. CASE UNCHANGED <<vars, due>>
  BY <1>2 DEF Wakes, vars, lists, clockVars, Delayed, Left
<1>3. CASE KernelStep
  <2>1. NotPlaced
    BY <1>3, KernelNotPlaced
  <2>2. xEventListItem[Daemon] = xTimerQueue
    BY <1>1, <2>1 DEF NotPlaced
  <2>3. Counted \in Nat /\ Age(Counted)
    BY <1>3, CountedType DEF IInv, KernelStep
  <2>4. due[m] # Off /\ due'[m] = due[m] - Counted /\ due[m] \in Int
    BY <2>3 DEF Age, DueInv, DueType
  <2>5. Daemon \in Delayed /\ Left(Daemon) <= due[m]
    BY <2>2, <2>4 DEF Wakes
  <2>6. Daemon \in Delayed'
    <3>1. Daemon \notin xSuspendedTaskList'
      BY <2>1, <2>5 DEF NotPlaced, IInv, TickInv, StateLists
    <3>. QED BY <1>1, <3>1 DEF IInv, EventItems
  <2>7. ClockStep
    BY <1>3, KernelSteps, SleepStep DEF IInv
  <2>8. Left(Daemon)' = Left(Daemon) - Counted
    BY <1>1, <2>5, <2>6, <2>7, SleeperCounts
  <2>9. Left(Daemon) \in Int
    BY <2>5, LeftInTime
  <2>. QED BY <2>3, <2>4, <2>5, <2>6, <2>8, <2>9
<1>4. ASSUME NEW t \in Task, ReadTime(t)
      PROVE  Daemon \in Delayed' /\ Left(Daemon)' <= due'[m]
  BY <1>2, <1>4 DEF ReadTime
<1>5. ASSUME NEW t \in Task, xTimerGenericCommand(t)
      PROVE  FALSE
  <2>1. commands = <<>> /\ First(xTimerQueue) = {Daemon} /\ ~uxSchedulerSuspended
    BY <1>5, UserFindsDaemonAsleep DEF xTimerGenericCommand
  <2>2. Notify(t, xTimerQueue)
    BY <1>5, <2>1, TimersAssumption DEF xTimerGenericCommand
  <2>3. MakeReady({Daemon})
    BY <2>1, <2>2 DEF Notify, Deliver
  <2>. QED BY <1>1, <2>3 DEF MakeReady
<1>6. CASE BlockWait
  <2>1. CASE commands = <<>>
    BY <1>6, <2>1, BlockWakes
  <2>2. CASE commands # <<>>
    <3>1. xEventListItem[Daemon] = xTimerQueue
      BY <1>6, <2>2 DEF BlockWait, Stay, lists, taskVars
    <3>. QED BY <2>2, <3>1 DEF DaemonWaits
  <2>. QED BY <2>1, <2>2
<1>7. CASE prvTimerTask /\ ~BlockWait
  <2>1. xEventListItem' = xEventListItem /\ Runs(Daemon)
    BY <1>7 DEF prvTimerTask, prvGetNextExpireTime, SampleWrapped, BlockExpired, SwitchFire,
                SwitchLists, prvProcessExpiredTimer, NoMoreCommands, ReceiveCommand,
                SampleForCommand, ApplyStop, ApplyStart, ApplyFire, DaemonAt, Poll, Begin,
                Stay, vars, lists, taskVars
  <2>2. daemon.step = "commands" => pc[Daemon] = "app"
    BY <1>7 DEF prvTimerTask, prvGetNextExpireTime, SampleWrapped, BlockExpired, SwitchFire,
                SwitchLists, prvProcessExpiredTimer, NoMoreCommands, ReceiveCommand,
                SampleForCommand, ApplyStop, ApplyStart, ApplyFire, DaemonAt
  <2>3. daemon.step = "commands"
    BY <2>1 DEF DaemonWaits
  <2>4. Daemon \in ready
    BY <1>1, <2>1, <2>2, <2>3, RunningIsReady
  <2>. QED BY <1>1, <2>1, <2>4 DEF IInv, EventItems, TickInv, StateLists
<1>8. CASE UNCHANGED allVars
  BY <1>2, <1>8 DEF allVars, timerVars
<1>. QED BY <1>3, <1>4, <1>5, <1>6, <1>7, <1>8 DEF TimersNext

-----------------------------------------------------------------------------
(* The theorems. *)

(* Software timers are one more program of the kernel: no step of the timer *)
(* service task or of its users is anything KernelTicks does not know.      *)
THEOREM TimersUseTheKernel == TimersSpec => Spec
<1>1. TimersInit => Init /\ TInv /\ IInv
  BY TimersInitTInv, InitIInv DEF TimersInit
<1>2. TInv /\ IInv /\ [TimersNext]_allVars => [Next]_vars /\ TInv' /\ IInv'
  <2>1. TInv /\ IInv /\ [TimersNext]_allVars => [Next]_vars
    BY KernelSteps DEF IInv
  <2>2. IInv /\ [Next]_vars => IInv'
    BY IInvInductive
  <2>3. TInv /\ IInv /\ IInv' /\ [TimersNext]_allVars => TInv'
    BY TimersStep DEF IInv
  <2>. QED BY <2>1, <2>2, <2>3
<1>. QED BY <1>1, <1>2, PTL DEF TimersSpec, Spec

(* The delayed lists stay in order with software timers in use.             *)
THEOREM TimersTicksInOrder == TimersSpec => []TickInv
BY TimersUseTheKernel, TicksInOrder, PTL

(* Nor does a ready task ever outrank the running one then.                 *)
THEOREM TimersHighestRuns == TimersSpec => []HighestPriorityRuns
BY TimersUseTheKernel, HighestAlwaysRuns, PTL

(* Waits keep their limits, whatever the timer service task does.           *)
THEOREM TimersLimitsAreKept == TimersSpec => []TimeLimit
BY TimersUseTheKernel, LimitsAreKept, PTL

(* The timer service task sleeps, as every task, as SleepClock says.        *)
THEOREM TimersKeepTime == TimersSpec => ImplementsSleep
BY TimersUseTheKernel, KernelKeepsTime

(* Every variable of the timers keeps its type.                             *)
THEOREM TimersTypeCorrect == TimersSpec => []TimersTypeOK
<1>1. IInv /\ TInv /\ DueInv => TimersTypeOK
  BY DEF IInv, TInv, TimerTypes, DaemonStates, DueInv, DueType, TimersTypeOK, Listed
<1>. QED BY <1>1, TimersInvariant, PTL

(* The lists of timers say when each running timer is due, across the wrap  *)
(* of the tick count; a callback is called only when it is due; and the     *)
(* daemon's commands to itself find room in the queue.                      *)
THEOREM TimersInOrder == TimersSpec => []TimerInv
<1>1. IInv /\ TInv /\ DueInv => TimerInv
  <2>. SUFFICES ASSUME IInv, TInv, DueInv PROVE TimerInv
    OBVIOUS
  <2>. USE DEF IInv
  <2>1. ASSUME NEW m \in Timer,
               \/ daemon.step = "expired" /\ m \in Heads
               \/ daemon.step = "switch" /\ m \in pxCurrentTimerList
               \/ daemon.step = "fire" /\ m = daemon.msg.timer
        PROVE  due[m] # Off /\ due[m] <= 0 /\ Len(commands) < QueueLength
    <3>1. /\ xTickCount \in Nat /\ xTickCount < Width /\ Width \in Nat
          /\ xLastTime \in Nat /\ expiry[m] \in Nat /\ expiry[m] < Width /\ daemon.next \in Nat
          /\ daemon.now \in Nat
      BY Numbers
    <3>2. CASE daemon.step = "expired" /\ m \in Heads
      <4>1. m \in pxCurrentTimerList /\ m \in Listed
        BY <3>2 DEF Heads, Listed
      <4>2. FirstTime(daemon.next) /\ daemon.next <= daemon.now /\ daemon.now = xLastTime
        BY <3>2 DEF DueInv, Locals, TInv, Turns
      <4>3. PICK k \in pxCurrentTimerList : daemon.next = expiry[k]
        BY <4>2 DEF FirstTime
      <4>4. expiry[m] <= daemon.next
        BY <3>2, <4>3 DEF Heads
      <4>5. due[m] # Off /\ due[m] = expiry[m] - xTickCount - Turn
        BY <4>1 DEF DueInv, RightLists
      <4>6. Turn = IF xTickCount < xLastTime THEN Width ELSE 0
        BY <3>2 DEF Turn
      <4>7. due[m] <= 0
        BY <3>1, <4>2, <4>4, <4>5, <4>6
      <4>. QED BY <3>2, <4>1, <4>5, <4>7, Room
    <3>3. CASE daemon.step = "switch" /\ m \in pxCurrentTimerList
      <4>1. m \in Listed
        BY <3>3 DEF Listed
      <4>2. due[m] # Off /\ due[m] = expiry[m] - xTickCount - Width
        BY <3>3 DEF DueInv, RightLists, Turn
      <4>3. due[m] <= 0
        BY <3>1, <4>2
      <4>. QED BY <3>3, <4>1, <4>2, <4>3, Room
    <3>4. CASE daemon.step = "fire" /\ m = daemon.msg.timer
      <4>1. InHand(m)
        BY <3>4, CommandFields DEF TInv, Turns, InHand
      <4>2. due[m] # Off /\ due[m] <= 0
        BY <3>4 DEF DueInv, Locals
      <4>. QED BY <3>4, <4>1, <4>2, Room
    <3>. QED BY <2>1, <3>2, <3>3, <3>4
  <2>. QED BY <2>1 DEF TimerInv, TInv, Turns, DueInv, RightLists
<1>. QED BY <1>1, TimersInvariant, PTL

(* The daemon never oversleeps: while it waits for a command it wakes no    *)
(* later than the first timer is due, be that after the wrap, and no command *)
(* is left lying in its queue.                                              *)
THEOREM DaemonNeverOversleeps == TimersSpec => []DaemonWakesInTime
<1>. DEFINE Inv == IInv /\ TInv /\ DueInv /\ DaemonWaits
<1>1. TimersInit => Wakes
  BY DEF TimersInit, Wakes
<1>2. Inv /\ Inv' /\ Wakes /\ [TimersNext]_allVars => Wakes'
  BY WakesStep
<1>3. DaemonWaits /\ Wakes => DaemonWakesInTime
  BY DEF DaemonWaits, Wakes, DaemonWakesInTime
<1>4. TimersSpec => []Inv
  BY TimersInvariant
<1>. HIDE DEF Inv
<1>5. Inv => DaemonWaits
  BY DEF Inv
<1>. QED BY <1>1, <1>2, <1>3, <1>4, <1>5, PTL DEF TimersSpec
=============================================================================
