---------------------------- MODULE KernelMutex ----------------------------
(***************************************************************************)
(* Mutexes and the inheritance of priorities (FreeRTOS_202012/tasks.c and   *)
(* queue.c): tasks take mutexes, wait for them with or without a limit, the *)
(* holder inherits the priority of a task that waits and gives it back with *)
(* the mutex, or when the task has waited too long.                         *)
(*                                                                          *)
(* Each critical section is one action, and so is the window in which the   *)
(* scheduler is suspended: no task and no handler uses a mutex in it, and a *)
(* tick that falls in it is processed after it (KernelTicks has its steps). *)
(* Time is left out: a delay and a limited wait may end at any tick.        *)
(***************************************************************************)
EXTENDS Naturals, FiniteSets, Sequences, SequencesExt

CONSTANTS
    Task, Idle,
    Mutex,
    NULL,          \* a free mutex has no holder
    Base,          \* Base[t]: the uxBasePriority of task t
    Takes          \* Takes[t]: the sequences of mutexes task t may hold, in
                   \* the order in which it took them

ASSUME MutexAssumption ==
    /\ Idle \in Task /\ NULL \notin Task \cup Mutex
    /\ IsFiniteSet(Mutex)
    /\ Base \in [Task -> Nat]
    /\ \A t \in Task \ {Idle} : Base[Idle] < Base[t]
    /\ Takes \in [Task -> SUBSET Seq(Mutex)]
    /\ \A t \in Task : \A s \in Takes[t] : IsInjective(s)
    /\ Takes[Idle] = {}

VARIABLES
    pxCurrentTCB, pendSV, ready,
    uxPriority, uxMutexesHeld,
    xMutexHolder,
    xTasksWaitingToReceive,    \* the event list of each mutex
    held,                      \* the mutexes of each task, as it took them
    pc,
    wants,                     \* the mutex each task is taking
    xTicksToWait,              \* of that call: "none", "some", "passed" when
                               \* they have, unseen by the call, or no limit
    xInheritanceOccurred,
    slipped,                   \* history: a switch that was due was dropped,
    retaken                    \* and the mutexes taken while it was owed

sched == <<pxCurrentTCB, pendSV, ready>>
mutexes == <<xMutexHolder, xTasksWaitingToReceive, held>>
calls == <<pc, wants, xTicksToWait, xInheritanceOccurred>>
history == <<slipped, retaken>>
vars == <<sched, uxPriority, uxMutexesHeld, mutexes, calls, history>>

TypeOK ==
    /\ pxCurrentTCB \in Task /\ pendSV \in BOOLEAN /\ slipped \in BOOLEAN
    /\ retaken \subseteq Mutex
    /\ ready \subseteq Task /\ Idle \in ready
    /\ uxPriority \in [Task -> Nat]
    /\ uxMutexesHeld \in [Task -> 0 .. Cardinality(Mutex)]
    /\ xMutexHolder \in [Mutex -> Task \cup {NULL}]
    /\ xTasksWaitingToReceive \in [Mutex -> Seq(Task)]
    /\ held \in [Task -> Seq(Mutex)]
    /\ pc \in [Task -> {"app", "retry", "window", "late", "disinherit"}]
    /\ wants \in [Task -> Mutex \cup {NULL}]
    /\ xTicksToWait \in [Task -> {"none", "some", "passed", "forever"}]
    /\ xInheritanceOccurred \in [Task -> BOOLEAN]

Init ==
    /\ ready = Task
    /\ pxCurrentTCB \in {t \in Task : \A u \in Task : Base[u] <= Base[t]}
    /\ pendSV = FALSE /\ slipped = FALSE /\ retaken = {}
    /\ uxPriority = Base
    /\ uxMutexesHeld = [t \in Task |-> 0]
    /\ xMutexHolder = [m \in Mutex |-> NULL]
    /\ xTasksWaitingToReceive = [m \in Mutex |-> <<>>]
    /\ held = [t \in Task |-> <<>>]
    /\ pc = [t \in Task |-> "app"]
    /\ wants = [t \in Task |-> NULL]
    /\ xTicksToWait = [t \in Task |-> "none"]
    /\ xInheritanceOccurred = [t \in Task |-> FALSE]

-----------------------------------------------------------------------------
Runs(t) == pxCurrentTCB = t /\ ~pendSV

HighestReady == {t \in ready : \A u \in ready : uxPriority[u] <= uxPriority[t]}

vTaskSwitchContext ==
    /\ pendSV /\ pendSV' = FALSE
    /\ pxCurrentTCB' \in HighestReady
    /\ slipped' = FALSE
    /\ UNCHANGED <<ready, uxPriority, uxMutexesHeld, mutexes, calls, retaken>>

\* Task w leaves the event list it is in.
Leave(w) ==
    xTasksWaitingToReceive' = [m \in Mutex |-> RemoveFirst(xTasksWaitingToReceive[m], w)]

\* A tick ends the sleep of task w, or only the time slice of the running one.
xTaskIncrementTick ==
    /\ \/ \E w \in Task \ ready :
             /\ pc[w] = "app" \/ xTicksToWait[w] = "some"
             /\ ready' = ready \cup {w}
             /\ Leave(w)
             /\ xTicksToWait' =
                   [xTicksToWait EXCEPT ![w] = IF pc[w] = "app" THEN @ ELSE "passed"]
             /\ pendSV' = (pendSV \/ uxPriority[w] >= uxPriority[pxCurrentTCB])
       \/ /\ \E u \in ready \ {pxCurrentTCB} : uxPriority[u] = uxPriority[pxCurrentTCB]
          /\ pendSV' = TRUE
          /\ UNCHANGED <<ready, xTasksWaitingToReceive, xTicksToWait>>
    /\ UNCHANGED <<pxCurrentTCB, uxPriority, uxMutexesHeld, xMutexHolder, held,
                   pc, wants, xInheritanceOccurred, history>>

vTaskDelay(t) ==
    /\ Runs(t) /\ pc[t] = "app" /\ t # Idle
    /\ ready' = ready \ {t}
    /\ pendSV' = TRUE
    /\ UNCHANGED <<pxCurrentTCB, uxPriority, uxMutexesHeld, mutexes, calls, history>>

Goto(t, label) == pc' = [pc EXCEPT ![t] = label]

\* The call returns, having taken the mutex or not.
Return(t) ==
    /\ Goto(t, "app")
    /\ wants' = [wants EXCEPT ![t] = NULL]
    /\ xTicksToWait' = [xTicksToWait EXCEPT ![t] = "none"]
    /\ xInheritanceOccurred' = [xInheritanceOccurred EXCEPT ![t] = FALSE]

Acquire(t, m) ==
    /\ xMutexHolder' = [xMutexHolder EXCEPT ![m] = t]
    /\ uxMutexesHeld' = [uxMutexesHeld EXCEPT ![t] = @ + 1]
    /\ held' = [held EXCEPT ![t] = Append(@, m)]
    /\ retaken' = IF slipped THEN retaken \cup {m} ELSE retaken
    /\ Return(t)
    /\ UNCHANGED xTasksWaitingToReceive

\* The first critical section of xQueueSemaphoreTake.
xQueueSemaphoreTake(t, m, limit) ==
    /\ Runs(t) /\ pc[t] = "app" /\ Append(held[t], m) \in Takes[t]
    /\ IF xMutexHolder[m] = NULL
       THEN Acquire(t, m)
       ELSE /\ Goto(t, "window")
            /\ wants' = [wants EXCEPT ![t] = m]
            /\ xTicksToWait' = [xTicksToWait EXCEPT ![t] = limit]
            /\ UNCHANGED <<mutexes, uxMutexesHeld, xInheritanceOccurred, retaken>>
    /\ UNCHANGED <<sched, uxPriority, slipped>>

\* The same section in a later pass.  With no ticks left the call fails; it
\* gets there with the priority still inherited if the mutex was free for a
\* moment, contrary to the assertion.
TakeAgain(t) ==
    /\ Runs(t) /\ pc[t] = "retry"
    /\ IF xMutexHolder[wants[t]] = NULL
       THEN Acquire(t, wants[t])
       ELSE /\ UNCHANGED <<mutexes, uxMutexesHeld, retaken>>
            /\ IF xTicksToWait[t] = "none" THEN Return(t)
               ELSE Goto(t, "window") /\ UNCHANGED <<wants, xTicksToWait, xInheritanceOccurred>>
    /\ UNCHANGED <<sched, uxPriority, slipped>>

\* xTaskPriorityInherit, the holder h being outranked by task t.
Raised(h, t) ==
    IF uxPriority[h] < uxPriority[t] THEN [uxPriority EXCEPT ![h] = uxPriority[t]]
                                     ELSE uxPriority

\* vListInsert: before the first task of a lower priority.  The priority of a
\* task may change where it stands.
Queued(s, t) ==
    IF \E i \in DOMAIN s : uxPriority[s[i]] < uxPriority[t]
    THEN InsertAt(s, SelectInSeq(s, LAMBDA u : uxPriority[u] < uxPriority[t]), t)
    ELSE Append(s, t)

\* The window: the limit has passed, or the mutex is free again, or the task
\* hands its priority to the holder and goes to sleep.
Window(t) ==
    /\ Runs(t) /\ pc[t] = "window"
    /\ LET m == wants[t]
           h == xMutexHolder[m]
       IN \/ /\ xTicksToWait[t] # "forever"
             /\ xTicksToWait' = [xTicksToWait EXCEPT ![t] = "none"]
             /\ Goto(t, "late")
             /\ UNCHANGED <<ready, pendSV, uxPriority, xTasksWaitingToReceive,
                            xInheritanceOccurred>>
          \/ /\ xTicksToWait[t] # "passed"
             /\ Goto(t, "retry")
             /\ UNCHANGED xTicksToWait
             /\ IF h = NULL
                THEN UNCHANGED <<ready, pendSV, uxPriority, xTasksWaitingToReceive,
                                 xInheritanceOccurred>>
                ELSE /\ uxPriority' = Raised(h, t)
                     /\ xInheritanceOccurred' =
                           [xInheritanceOccurred EXCEPT ![t] = Base[h] < uxPriority[t]]
                     /\ xTasksWaitingToReceive' =
                           [xTasksWaitingToReceive EXCEPT ![m] = Queued(@, t)]
                     /\ ready' = ready \ {t}
                     /\ pendSV' = TRUE
    /\ UNCHANGED <<pxCurrentTCB, uxMutexesHeld, xMutexHolder, held, wants, history>>

\* The limit has passed: prvIsQueueEmpty.
Late(t) ==
    /\ Runs(t) /\ pc[t] = "late"
    /\ IF xMutexHolder[wants[t]] = NULL
       THEN Goto(t, "retry") /\ UNCHANGED <<wants, xTicksToWait, xInheritanceOccurred>>
       ELSE IF xInheritanceOccurred[t]
       THEN Goto(t, "disinherit") /\ UNCHANGED <<wants, xTicksToWait, xInheritanceOccurred>>
       ELSE Return(t)
    /\ UNCHANGED <<sched, uxPriority, uxMutexesHeld, mutexes, history>>

\* prvGetDisinheritPriorityAfterTimeout
HighestWaiting(m) ==
    IF xTasksWaitingToReceive[m] = <<>> THEN 0 ELSE uxPriority[Head(xTasksWaitingToReceive[m])]

\* vTaskPriorityDisinheritAfterTimeout: the holder falls back, unless it holds
\* other mutexes, to the priority of those that wait on.  That may also be a
\* rise, and then no switch follows.
vTaskPriorityDisinheritAfterTimeout(t) ==
    /\ Runs(t) /\ pc[t] = "disinherit"
    /\ LET h == xMutexHolder[wants[t]]
           p == HighestWaiting(wants[t])
       IN /\ uxPriority' = IF h # NULL /\ uxMutexesHeld[h] = 1
                           THEN [uxPriority EXCEPT ![h] = IF Base[h] < p THEN p ELSE Base[h]]
                           ELSE uxPriority
          /\ slipped' = (slipped \/ (h \in ready /\ uxPriority'[h] > uxPriority[t]))
    /\ Return(t)
    /\ UNCHANGED <<sched, uxMutexesHeld, mutexes, retaken>>

\* Mutant: the priority goes with the first mutex given back.
DisinheritedAtOnce(t) == [uxPriority EXCEPT ![t] = Base[t]]

\* xTaskPriorityDisinherit: the priority goes with the last mutex.
Disinherited(t) ==
    IF uxMutexesHeld[t] = 1 THEN [uxPriority EXCEPT ![t] = Base[t]] ELSE uxPriority

\* Mutant: only a task that has inherited a priority counts its mutexes down.
OneFewerIfInherited(t) ==
    [uxMutexesHeld EXCEPT ![t] = IF uxPriority[t] # Base[t] THEN @ - 1 ELSE @]

OneFewer(t) == [uxMutexesHeld EXCEPT ![t] = @ - 1]

\* Mutant: compared with the priority the giver has inherited.
WokenOutranksBefore(w, t) == uxPriority[w] > uxPriority[t]

\* What xTaskRemoveFromEventList returns, the giver's priority having fallen.
WokenOutranks(w, t) == uxPriority'[w] > uxPriority'[t]

\* xQueueGenericSend gives the mutex back.  With a task waiting the switch
\* depends on that task alone, and the one that was due to the fall of the
\* priority is dropped.
Give(t, m) ==
    /\ Runs(t) /\ pc[t] = "app" /\ xMutexHolder[m] = t
    /\ uxPriority' = Disinherited(t)
    /\ uxMutexesHeld' = OneFewer(t)
    /\ xMutexHolder' = [xMutexHolder EXCEPT ![m] = NULL]
    /\ held' = [held EXCEPT ![t] = RemoveFirst(@, m)]
    /\ retaken' = retaken \ {m}
    /\ LET fell == uxPriority' # uxPriority
       IN IF xTasksWaitingToReceive[m] = <<>>
          THEN /\ pendSV' = fell
               /\ UNCHANGED <<ready, xTasksWaitingToReceive, slipped>>
          ELSE LET w == Head(xTasksWaitingToReceive[m])
               IN /\ ready' = ready \cup {w}
                  /\ Leave(w)
                  /\ pendSV' = WokenOutranks(w, t)
                  /\ slipped' = (slipped \/ (fell /\ uxPriority'[w] <= uxPriority'[t]))
    /\ UNCHANGED <<pxCurrentTCB, calls>>

taskYIELD(t) ==
    /\ Runs(t) /\ pc[t] = "app"
    /\ pendSV' = TRUE
    /\ UNCHANGED <<pxCurrentTCB, ready, uxPriority, uxMutexesHeld, mutexes, calls, history>>

Next ==
    \/ vTaskSwitchContext
    \/ xTaskIncrementTick
    \/ \E t \in Task :
          \/ vTaskDelay(t)
          \/ \E m \in Mutex, limit \in {"some", "forever"} : xQueueSemaphoreTake(t, m, limit)
          \/ TakeAgain(t)
          \/ Window(t)
          \/ Late(t)
          \/ vTaskPriorityDisinheritAfterTimeout(t)
          \/ \E m \in Mutex : Give(t, m)
          \/ taskYIELD(t)

Spec == Init /\ [][Next]_vars

-----------------------------------------------------------------------------
\* The holder of a mutex is as high as every task that waits for it, or a
\* task as high is ready and about to see to it; except of a mutex that was
\* taken while a switch was owed.
HolderAsHigh ==
    \A m \in Mutex \ retaken : xMutexHolder[m] # NULL =>
        \A i \in DOMAIN xTasksWaitingToReceive[m] :
            LET w == xTasksWaitingToReceive[m][i]
            IN \/ uxPriority[xMutexHolder[m]] >= Base[w]
               \/ \E u \in ready : wants[u] = m /\ uxPriority[u] >= Base[w]

\* Nobody is below its own priority, or above it without a mutex, and a task
\* that never holds two is above it only while a call wants its mutex.
PriorityGivenBack ==
    \A t \in Task :
        /\ uxPriority[t] >= Base[t]
        /\ uxPriority[t] > Base[t] =>
            /\ held[t] # <<>>
            /\ \/ \E s \in Takes[t] : Len(s) > 1
               \/ Head(held[t]) \in retaken
               \/ \E u \in Task : wants[u] = Head(held[t])

(* No inversion: whoever waits for a mutex, of whatever priority, and       *)
(* whichever of the waiting tasks give up, the holder is as high as each of *)
(* those that wait on; and the inherited priority does not outlive its      *)
(* cause.                                                                   *)
NoInversion == HolderAsHigh /\ PriorityGivenBack

(* No ready task outranks the running one, with the priorities of the       *)
(* moment, however they came about; except until the next switch after one  *)
(* was dropped: when a mutex is given to a waiting task of a low priority,  *)
(* or the end of a limit has raised the holder.                             *)
HighestPriorityRuns ==
    ~pendSV /\ ~slipped => pxCurrentTCB \in HighestReady
=============================================================================
