-------------------------- MODULE KernelQueueProofs --------------------------
(***************************************************************************)
(* Proofs about KernelQueue, for every set of tasks, priorities and queue   *)
(* length.                                                                  *)
(***************************************************************************)
EXTENDS KernelQueue, FiniteSetTheorems, TLAPS

-----------------------------------------------------------------------------
(* Facts about the operators of the model. *)

\* The woken tasks come from the event list; all of them, or exactly k.
LEMMA HeadsFact ==
    ASSUME NEW A, NEW k, NEW W \in Heads(A, k)
    PROVE  /\ W \subseteq A
           /\ W = A \/ Cardinality(W) = k
  BY DEF Heads

\* The numbers of waiting or running tasks can be compared.
LEMMA CardinalityNat ==
    ASSUME NEW L, L \subseteq Task
    PROVE  IsFiniteSet(L) /\ Cardinality(L) \in Nat
  BY QueueAssumption, FS_Subset, FS_CardinalityType

LEMMA CardinalityGrows ==
    ASSUME NEW L, NEW M, L \subseteq M, M \subseteq Task
    PROVE  Cardinality(L) <= Cardinality(M)
  BY CardinalityNat, FS_Subset

LEMMA CardinalityGrowsBy ==
    ASSUME NEW L, NEW W, NEW M, L \cup W \subseteq M, M \subseteq Task, L \cap W = {}
    PROVE  Cardinality(L) + Cardinality(W) <= Cardinality(M)
  <1>1. IsFiniteSet(L) /\ IsFiniteSet(W)
    BY CardinalityNat
  <1>2. Cardinality(L \cup W) = Cardinality(L) + Cardinality(W)
    <2>1. Cardinality(L \cap W) = 0
      <3>1. L \cap W = {}
        OBVIOUS
      <3> QED
        BY <3>1, FS_EmptySet, Zenon
    <2>2. Cardinality(L \cup W) = Cardinality(L) + Cardinality(W) - Cardinality(L \cap W)
      BY <1>1, FS_Union
    <2> QED
      BY <2>1, <2>2, CardinalityNat
  <1> QED
    BY <1>2, CardinalityGrows

LEMMA CardinalityDrops ==
    ASSUME NEW L, NEW M, NEW t, L \subseteq Task, M \subseteq Task, L \ {t} \subseteq M
    PROVE  Cardinality(L) <= Cardinality(M) + 1
  <1>1. CASE t \in L
    <2>1. Cardinality(L \ {t}) = Cardinality(L) - 1
      BY <1>1, CardinalityNat, FS_RemoveElement
    <2>2. Cardinality(L \ {t}) <= Cardinality(M)
      BY CardinalityGrows
    <2> QED
      BY <2>1, <2>2, CardinalityNat
  <1>2. CASE t \notin L
    BY <1>2, CardinalityGrows, CardinalityNat
  <1> QED
    BY <1>1, <1>2

-----------------------------------------------------------------------------
(* What the steps with two outcomes do. *)

LEMMA CheckStep ==
    ASSUME NEW t \in Task, xTaskCheckForTimeOut(t)
    PROVE  \/ /\ pc' = [pc EXCEPT ![t] = "unlockTx"] /\ exit' = [exit EXCEPT ![t] = "timeout"]
              /\ clock[t] = "expired" /\ wait' = [wait EXCEPT ![t] = "zero"]
           \/ /\ pc' = [pc EXCEPT ![t] = "test"] /\ UNCHANGED <<exit, wait>>
  BY DEF xTaskCheckForTimeOut, Goto

LEMMA TestStep ==
    ASSUME NEW t \in Task, TestBeforeBlocking(t)
    PROVE  \/ /\ pc' = [pc EXCEPT ![t] = "place"] /\ UNCHANGED exit
              /\ Refused(t)
           \/ /\ pc' = [pc EXCEPT ![t] = "unlockTx"] /\ exit' = [exit EXCEPT ![t] = "retry"]
  BY DEF TestBeforeBlocking, Goto

LEMMA TimedOutStep ==
    ASSUME NEW t \in Task, TimedOut(t)
    PROVE  \/ Return(t)
           \/ /\ pc' = [pc EXCEPT ![t] = "enter"] /\ UNCHANGED <<op, arg, wait, clock, exit>>
              /\ op[t] # "send" /\ ~Refused(t)
  BY DEF TimedOut, Goto

-----------------------------------------------------------------------------
(* Type correctness. *)

LEMMA TypeInit == Init => TypeOK
  <1> SUFFICES ASSUME Init PROVE TypeOK
    OBVIOUS
  <1>1. items \in Seq(Item) /\ Len(items) <= Length
    BY QueueAssumption DEF Init
  <1>2. cRxLock \in queueUNLOCKED .. LockMax /\ cTxLock \in queueUNLOCKED .. LockMax
    BY QueueAssumption DEF Init, queueUNLOCKED
  <1>3. pxCurrentTCB \in Task
    BY DEF Init, HighestReady
  <1> QED
    BY <1>1, <1>2, <1>3 DEF Init, TypeOK, PCs

LEMMA TypeNext == TypeOK /\ [Next]_vars => TypeOK'
  <1> SUFFICES ASSUME TypeOK, [Next]_vars
               PROVE  TypeOK'
    OBVIOUS
  <1> USE QueueAssumption DEF TypeOK, PCs, queueUNLOCKED, queueLOCKED_UNMODIFIED,
          Runs, Goto, Return, eventLists, queueVars, schedVars, callVars,
          xTaskRemoveFromEventList, WakeFromTask, Outranks
  <1>1. CASE vTaskSwitchContext
    <2>1. pxCurrentTCB' \in Task
      BY <1>1 DEF vTaskSwitchContext, HighestReady
    <2>2. pendSV' \in BOOLEAN /\ xYieldPending' \in BOOLEAN
      BY <1>1 DEF vTaskSwitchContext
    <2>3. UNCHANGED <<items, cRxLock, cTxLock, xTasksWaitingToSend, xTasksWaitingToReceive,
            ready, xPendingReadyList, uxSchedulerSuspended, xPendedTicks, pc, op, arg, wait, clock, exit>>
      BY <1>1 DEF vTaskSwitchContext
    <2> QED
      BY <2>1, <2>2, <2>3
  <1>2. CASE xTaskIncrementTick
    <2>1. UNCHANGED <<items, cRxLock, cTxLock, pxCurrentTCB, xPendingReadyList,
                      uxSchedulerSuspended, xYieldPending, pc, op, arg, wait, exit>>
      BY <1>2 DEF xTaskIncrementTick
    <2>2. CASE uxSchedulerSuspended
      BY <1>2, <2>1, <2>2 DEF xTaskIncrementTick
    <2>3. CASE ~uxSchedulerSuspended
      <3>1. PICK S \in SUBSET Expiring :
               /\ Unblock(S, ready)
               /\ pendSV' = (pendSV \/ xYieldPending \/ SwitchRequired(S, ready))
        BY <1>2, <2>3 DEF xTaskIncrementTick
      <3>2. pendSV' \in BOOLEAN
        BY <3>1 DEF SwitchRequired
      <3>3. S \subseteq Task
        BY <3>1 DEF Expiring
      <3>4. /\ clock' \in [Task -> {"off", "running", "expired"}]
            /\ ready' \subseteq Task
            /\ xTasksWaitingToSend' \subseteq Task
            /\ xTasksWaitingToReceive' \subseteq Task
        BY <3>1, <3>3 DEF Unblock
      <3>5. UNCHANGED xPendedTicks
        BY <1>2, <2>3 DEF xTaskIncrementTick
      <3> QED
        BY <2>1, <3>2, <3>4, <3>5
    <2> QED
      BY <2>2, <2>3
  <1>3. CASE ReceiveFromISR \/ ReceiveFromISRLocked
    <2>1. CASE ReceiveFromISR
      <3>1. items' \in Seq(Item) /\ Len(items') <= Length
        BY <2>1 DEF ReceiveFromISR
      <3>2. /\ xTasksWaitingToSend' \subseteq Task
            /\ ready' \subseteq Task
            /\ xPendingReadyList' \subseteq Task
            /\ xYieldPending' \in BOOLEAN
        BY <2>1, HeadsFact DEF ReceiveFromISR
      <3>3. pendSV' \in BOOLEAN
        BY <2>1 DEF ReceiveFromISR, portYIELD_FROM_ISR
      <3>4. UNCHANGED <<cRxLock, cTxLock, xTasksWaitingToReceive, pxCurrentTCB,
                   uxSchedulerSuspended, xPendedTicks, pc, op, arg, wait, clock, exit>>
        BY <2>1 DEF ReceiveFromISR
      <3> QED
        BY <3>1, <3>2, <3>3, <3>4
    <2>2. CASE ReceiveFromISRLocked
      BY <2>2 DEF ReceiveFromISRLocked, Count, portYIELD_FROM_ISR
    <2> QED
      BY <1>3, <2>1, <2>2
  <1>4. ASSUME NEW i \in Item, SendFromISR(i) \/ SendFromISRLocked(i)
        PROVE  TypeOK'
    <2>1. CASE SendFromISR(i)
      <3>1. items' \in Seq(Item) /\ Len(items') <= Length
        BY <2>1 DEF SendFromISR
      <3>2. /\ xTasksWaitingToReceive' \subseteq Task
            /\ ready' \subseteq Task
            /\ xPendingReadyList' \subseteq Task
            /\ xYieldPending' \in BOOLEAN
        BY <2>1, HeadsFact DEF SendFromISR
      <3>3. pendSV' \in BOOLEAN
        BY <2>1 DEF SendFromISR, portYIELD_FROM_ISR
      <3>4. UNCHANGED <<cRxLock, cTxLock, xTasksWaitingToSend, pxCurrentTCB,
                   uxSchedulerSuspended, xPendedTicks, pc, op, arg, wait, clock, exit>>
        BY <2>1 DEF SendFromISR
      <3> QED
        BY <3>1, <3>2, <3>3, <3>4
    <2>2. CASE SendFromISRLocked(i)
      BY <2>2 DEF SendFromISRLocked, Count, portYIELD_FROM_ISR
    <2> QED
      BY <1>4, <2>1, <2>2
  <1>8. CASE RefusedFromISR
    BY <1>8 DEF RefusedFromISR, portYIELD_FROM_ISR
  <1>5. ASSUME NEW t \in Task, NewCall(t)
        PROVE  TypeOK'
    <2>1. CASE CallDelay(t)
      BY <2>1 DEF CallDelay
    <2>2. CASE ~CallDelay(t)
      <3>1. PICK o, i, w : /\ Call(t, o, i, w)
                           /\ w \in {"zero", "finite", "forever"}
                           /\ \/ o = "receive" /\ i = NoItem
                              \/ o = "send" /\ i \in Item
        BY <1>5, <2>2 DEF NewCall
      <3> QED
        BY <3>1 DEF Call
    <2> QED
      BY <2>1, <2>2
  <1>6. ASSUME NEW t \in Task, CallStep(t)
        PROVE  TypeOK'
    <2>1. CASE SendPass(t)
      BY <2>1, HeadsFact DEF SendPass, Refused
    <2>2. CASE ReceivePass(t)
      BY <2>2, HeadsFact DEF ReceivePass, Refused
    <2>3. CASE EnterFail(t)
      BY <2>3 DEF EnterFail
    <2>4. CASE EnterWait(t)
      BY <2>4 DEF EnterWait
    <2>5. CASE vTaskSuspendAll(t)
      BY <2>5 DEF vTaskSuspendAll
    <2>6. CASE prvLockQueue(t)
      BY <2>6 DEF prvLockQueue, LockIfUnlocked
    <2>7. CASE xTaskCheckForTimeOut(t)
      BY <2>7 DEF xTaskCheckForTimeOut
    <2>8. CASE TestBeforeBlocking(t)
      BY <2>8 DEF TestBeforeBlocking
    <2>9. CASE vTaskPlaceOnEventList(t)
      BY <2>9 DEF vTaskPlaceOnEventList
    <2>10. CASE UnlockTx(t)
      BY <2>10, HeadsFact DEF UnlockTx
    <2>11. CASE UnlockRx(t)
      BY <2>11, HeadsFact DEF UnlockRx
    <2>12. CASE xTaskResumeAll(t)
      BY <2>12 DEF xTaskResumeAll, Unblock, Expiring, SwitchRequired, AfterResume
    <2>13. CASE portYIELD(t)
      BY <2>13 DEF portYIELD
    <2>14. CASE TimedOut(t)
      <3>1. UNCHANGED <<queueVars, eventLists, schedVars>>
        BY <2>14 DEF TimedOut
      <3>2. CASE Return(t)
        BY <3>1, <3>2
      <3>3. CASE /\ pc' = [pc EXCEPT ![t] = "enter"]
                 /\ UNCHANGED <<op, arg, wait, clock, exit>>
        BY <3>1, <3>3
      <3> QED
        BY <2>14, <3>2, <3>3, TimedOutStep
    <2>15. CASE DelayPlace(t)
      BY <2>15 DEF DelayPlace
    <2>16. CASE DelayReturn(t)
      BY <2>16 DEF DelayReturn
    <2> QED
      BY <1>6, <2>1, <2>2, <2>3, <2>4, <2>5, <2>6, <2>7, <2>8, <2>9, <2>10,
         <2>11, <2>12, <2>13, <2>14, <2>15, <2>16 DEF CallStep
  <1>7. CASE UNCHANGED vars
    BY <1>7 DEF vars
  <1> QED
    BY <1>1, <1>2, <1>3, <1>4, <1>5, <1>6, <1>7, <1>8 DEF Next, Interrupt

THEOREM TypeCorrect == Spec => []TypeOK
  BY TypeInit, TypeNext, PTL DEF Spec

-----------------------------------------------------------------------------
(* The suspended window. *)

LEMMA WindowInit == Init => WindowInv
  BY DEF Init, WindowInv, Suspending, HighestReady

LEMMA WindowNext == TypeOK /\ WindowInv /\ [Next]_vars => WindowInv'
  <1> SUFFICES ASSUME TypeOK, WindowInv, [Next]_vars
               PROVE  WindowInv'
    OBVIOUS
  <1> USE QueueAssumption DEF TypeOK, PCs, WindowInv, Suspending, queueUNLOCKED,
          queueLOCKED_UNMODIFIED, Runs, Goto, Return, queueVars, eventLists, schedVars, callVars
  <1>1. CASE vTaskSwitchContext
    BY <1>1 DEF vTaskSwitchContext, HighestReady
  <1>2. CASE xTaskIncrementTick
    BY <1>2 DEF xTaskIncrementTick
  <1>3. CASE ReceiveFromISR \/ ReceiveFromISRLocked
    BY <1>3 DEF ReceiveFromISR, ReceiveFromISRLocked, Count
  <1>4. ASSUME NEW i \in Item, SendFromISR(i) \/ SendFromISRLocked(i)
        PROVE  WindowInv'
    BY <1>4 DEF SendFromISR, SendFromISRLocked, Count
  <1>5. CASE RefusedFromISR
    BY <1>5 DEF RefusedFromISR
  <1>6. ASSUME NEW t \in Task, NewCall(t)
        PROVE  WindowInv'
    <2>1. CASE CallDelay(t)
      BY <2>1 DEF CallDelay
    <2>2. CASE ~CallDelay(t)
      <3>1. PICK o, i, w : Call(t, o, i, w)
        BY <1>6, <2>2 DEF NewCall
      <3> QED
        BY <3>1 DEF Call
    <2> QED
      BY <2>1, <2>2
  <1>7. ASSUME NEW t \in Task, CallStep(t)
        PROVE  WindowInv'
    <2>1. CASE SendPass(t)
      BY <2>1 DEF SendPass, WakeFromTask
    <2>2. CASE ReceivePass(t)
      BY <2>2 DEF ReceivePass, WakeFromTask
    <2>3. CASE EnterFail(t) \/ EnterWait(t)
      BY <2>3 DEF EnterFail, EnterWait
    <2>4. CASE vTaskSuspendAll(t)
      BY <2>4 DEF vTaskSuspendAll
    <2>5. CASE prvLockQueue(t)
      BY <2>5 DEF prvLockQueue, LockIfUnlocked
    <2>6. CASE xTaskCheckForTimeOut(t)
      <3>1. \/ /\ pc' = [pc EXCEPT ![t] = "unlockTx"]
               /\ exit' = [exit EXCEPT ![t] = "timeout"]
            \/ /\ pc' = [pc EXCEPT ![t] = "test"]
               /\ UNCHANGED exit
        BY <2>6, CheckStep
      <3>2. /\ Runs(t) /\ pc[t] = "check"
            /\ UNCHANGED <<pxCurrentTCB, uxSchedulerSuspended, cTxLock, cRxLock>>
        BY <2>6 DEF xTaskCheckForTimeOut
      <3>3. CASE pc' = [pc EXCEPT ![t] = "unlockTx"] /\ exit' = [exit EXCEPT ![t] = "timeout"]
        BY <3>2, <3>3
      <3>4. CASE pc' = [pc EXCEPT ![t] = "test"] /\ UNCHANGED exit
        <4>1. pc'[t] = "test" /\ \A u \in Task \ {t} : pc'[u] = pc[u]
          BY <3>4
        <4>2. exit' = exit /\ t = pxCurrentTCB /\ uxSchedulerSuspended
          BY <3>2, <3>4
        <4> QED
          BY <4>1, <4>2, <3>2
      <3> QED
        BY <3>1, <3>3, <3>4
    <2>7. CASE TestBeforeBlocking(t)
      <3>1. \/ /\ pc' = [pc EXCEPT ![t] = "place"]
               /\ UNCHANGED exit
            \/ /\ pc' = [pc EXCEPT ![t] = "unlockTx"]
               /\ exit' = [exit EXCEPT ![t] = "retry"]
        BY <2>7, TestStep
      <3>2. /\ Runs(t) /\ pc[t] = "test"
            /\ UNCHANGED <<pxCurrentTCB, uxSchedulerSuspended, cTxLock, cRxLock>>
        BY <2>7 DEF TestBeforeBlocking
      <3>3. CASE pc' = [pc EXCEPT ![t] = "place"] /\ UNCHANGED exit
        <4>1. pc'[t] = "place" /\ \A u \in Task \ {t} : pc'[u] = pc[u]
          BY <3>3
        <4>2. exit' = exit /\ t = pxCurrentTCB /\ uxSchedulerSuspended
          BY <3>2, <3>3
        <4> QED
          BY <4>1, <4>2, <3>2
      <3>4. CASE pc' = [pc EXCEPT ![t] = "unlockTx"] /\ exit' = [exit EXCEPT ![t] = "retry"]
        BY <3>2, <3>4
      <3> QED
        BY <3>1, <3>3, <3>4
    <2>8. CASE vTaskPlaceOnEventList(t)
      BY <2>8 DEF vTaskPlaceOnEventList
    <2>9. CASE UnlockTx(t)
      BY <2>9 DEF UnlockTx
    <2>10. CASE UnlockRx(t)
      BY <2>10 DEF UnlockRx
    <2>11. CASE xTaskResumeAll(t)
      BY <2>11 DEF xTaskResumeAll, AfterResume
    <2>12. CASE portYIELD(t)
      BY <2>12 DEF portYIELD
    <2>13. CASE TimedOut(t)
      <3>1. \/ /\ pc' = [pc EXCEPT ![t] = "app"]
               /\ exit' = [exit EXCEPT ![t] = "none"]
            \/ /\ pc' = [pc EXCEPT ![t] = "enter"]
               /\ UNCHANGED exit
        BY <2>13, TimedOutStep
      <3>2. /\ Runs(t) /\ pc[t] = "recheck"
            /\ UNCHANGED <<pxCurrentTCB, uxSchedulerSuspended, cTxLock, cRxLock>>
        BY <2>13 DEF TimedOut
      <3>3. CASE pc' = [pc EXCEPT ![t] = "app"] /\ exit' = [exit EXCEPT ![t] = "none"]
        BY <3>2, <3>3
      <3>4. CASE pc' = [pc EXCEPT ![t] = "enter"] /\ UNCHANGED exit
        <4>1. \A u \in Task : pc'[u] = IF u = t THEN "enter" ELSE pc[u]
          BY <3>4
        <4>2. t = pxCurrentTCB /\ exit[t] = "none" /\ ~uxSchedulerSuspended
          BY <3>2
        <4>3. /\ \A u \in Task \ {pxCurrentTCB'} : pc'[u] \notin Suspending
              /\ \A u \in Task : exit'[u] # "none" <=> pc'[u] \in {"unlockTx", "unlockRx", "resume"}
          BY <3>2, <3>4, <4>1, <4>2
        <4> QED
          BY <3>2, <4>1, <4>2, <4>3
      <3> QED
        BY <3>1, <3>3, <3>4
    <2>14. CASE DelayPlace(t)
      BY <2>14 DEF DelayPlace
    <2>15. CASE DelayReturn(t)
      BY <2>15 DEF DelayReturn
    <2> QED
      BY <1>7, <2>1, <2>2, <2>3, <2>4, <2>5, <2>6, <2>7, <2>8, <2>9, <2>10,
         <2>11, <2>12, <2>13, <2>14, <2>15 DEF CallStep
  <1>8. CASE UNCHANGED vars
    BY <1>8 DEF vars
  <1> QED
    BY <1>1, <1>2, <1>3, <1>4, <1>5, <1>6, <1>7, <1>8 DEF Next, Interrupt

-----------------------------------------------------------------------------
(* How far each call can have got. *)

LEMMA CallInit == Init => CallInv
  BY QueueAssumption DEF Init, CallInv

LEMMA CallNext == TypeOK /\ WindowInv /\ CallInv /\ [Next]_vars => CallInv'
  <1> SUFFICES ASSUME TypeOK, WindowInv, CallInv, [Next]_vars
               PROVE  CallInv'
    OBVIOUS
  <1> USE QueueAssumption DEF TypeOK, PCs, CallInv, Runs, Goto, Return,
          queueVars, eventLists, schedVars, callVars
  <1>1. CASE vTaskSwitchContext
    BY <1>1 DEF vTaskSwitchContext
  <1>2. CASE xTaskIncrementTick
    BY <1>2 DEF xTaskIncrementTick
  <1>3. CASE ReceiveFromISR \/ ReceiveFromISRLocked
    BY <1>3 DEF ReceiveFromISR, ReceiveFromISRLocked
  <1>4. ASSUME NEW i \in Item, SendFromISR(i) \/ SendFromISRLocked(i)
        PROVE  CallInv'
    BY <1>4 DEF SendFromISR, SendFromISRLocked
  <1>5. CASE RefusedFromISR
    BY <1>5 DEF RefusedFromISR
  <1>6. ASSUME NEW t \in Task, NewCall(t)
        PROVE  CallInv'
    <2>1. CASE CallDelay(t)
      BY <2>1 DEF CallDelay
    <2>2. CASE ~CallDelay(t)
      <3>1. PICK o, i, w : Call(t, o, i, w) /\ o \in {"send", "receive"} /\ t # Idle
                           /\ (o # "send" => i = NoItem)
        BY <1>6, <2>2 DEF NewCall
      <3> QED
        BY <3>1 DEF Call
    <2> QED
      BY <2>1, <2>2
  <1>7. ASSUME NEW t \in Task, CallStep(t)
        PROVE  CallInv'
    <2>1. CASE SendPass(t)
      BY <2>1 DEF SendPass
    <2>2. CASE ReceivePass(t)
      BY <2>2 DEF ReceivePass
    <2>3. CASE EnterFail(t)
      BY <2>3 DEF EnterFail
    <2>4. CASE EnterWait(t)
      BY <2>4 DEF EnterWait, Refused
    <2>5. CASE vTaskSuspendAll(t)
      BY <2>5 DEF vTaskSuspendAll
    <2>6. CASE prvLockQueue(t)
      BY <2>6 DEF prvLockQueue
    <2>7. CASE xTaskCheckForTimeOut(t)
      <3>1. op[t] # "delay" /\ op[t] # "none"
        BY <2>7 DEF xTaskCheckForTimeOut
      <3>2. CASE pc' = [pc EXCEPT ![t] = "unlockTx"] /\ exit' = [exit EXCEPT ![t] = "timeout"]
        BY <2>7, <3>1, <3>2 DEF xTaskCheckForTimeOut
      <3>3. CASE pc' = [pc EXCEPT ![t] = "test"] /\ UNCHANGED exit
        BY <2>7, <3>1, <3>3 DEF xTaskCheckForTimeOut
      <3> QED
        BY <2>7, <3>2, <3>3, CheckStep
    <2>8. CASE TestBeforeBlocking(t)
      <3>1. op[t] # "delay" /\ op[t] # "none"
        BY <2>8 DEF TestBeforeBlocking
      <3>2. CASE pc' = [pc EXCEPT ![t] = "place"] /\ UNCHANGED exit
        BY <2>8, <3>1, <3>2 DEF TestBeforeBlocking
      <3>3. CASE pc' = [pc EXCEPT ![t] = "unlockTx"] /\ exit' = [exit EXCEPT ![t] = "retry"]
        BY <2>8, <3>1, <3>3 DEF TestBeforeBlocking
      <3> QED
        BY <2>8, <3>2, <3>3, TestStep
    <2>9. CASE vTaskPlaceOnEventList(t)
      <3>1. /\ pc' = [pc EXCEPT ![t] = "unlockTx"] /\ UNCHANGED <<op, arg>>
            /\ \A u \in Task \ {t} : exit'[u] = exit[u]
            /\ pc[t] = "place"
        BY <2>9 DEF vTaskPlaceOnEventList
      <3>2. op[t] \notin {"delay", "none"} /\ t # Idle
        BY <3>1
      <3> QED
        BY <3>1, <3>2
    <2>10. CASE UnlockTx(t)
      <3>1. /\ pc' = [pc EXCEPT ![t] = "unlockRx"] /\ UNCHANGED <<op, arg>>
            /\ \A u \in Task \ {t} : exit'[u] = exit[u]
            /\ pc[t] = "unlockTx"
        BY <2>10 DEF UnlockTx
      <3>2. op[t] \notin {"delay", "none"} /\ t # Idle
        BY <3>1
      <3> QED
        BY <3>1, <3>2
    <2>11. CASE UnlockRx(t)
      <3>1. /\ pc' = [pc EXCEPT ![t] = "resume"] /\ UNCHANGED <<op, arg>>
            /\ \A u \in Task \ {t} : exit'[u] = exit[u]
            /\ pc[t] = "unlockRx"
        BY <2>11 DEF UnlockRx
      <3>2. op[t] \notin {"delay", "none"} /\ t # Idle
        BY <3>1
      <3> QED
        BY <3>1, <3>2
    <2>12. CASE xTaskResumeAll(t)
      <3>1. /\ UNCHANGED <<op, arg>> /\ pc[t] = "resume"
            /\ \A u \in Task \ {t} : pc'[u] = pc[u] /\ exit'[u] = exit[u]
            /\ op[t] = "delay" => pc'[t] \in {"yield", "enter"}
            /\ pc'[t] \in {"recheck", "yield", "enter"}
        BY <2>12 DEF xTaskResumeAll, AfterResume
      <3>2. op[t] # "none" /\ t # Idle
        BY <3>1
      <3>3. /\ pc'[Idle] = "app"
            /\ \A u \in Task : op'[u] = "none" <=> pc'[u] = "app"
            /\ \A u \in Task : op'[u] # "send" => arg'[u] = NoItem
        BY <3>1, <3>2
      <3>4. \A u \in Task : pc'[u] \in {"delaySuspend", "delayPlace"} => op'[u] = "delay"
        BY <3>1, <3>2
      <3>5. \A u \in Task \ {t} : op'[u] = "delay" =>
               \/ pc'[u] \in {"delaySuspend", "delayPlace", "yield", "enter"}
               \/ pc'[u] = "resume" /\ exit'[u] = "block"
        BY <3>1
      <3>6. op'[t] = "delay" => pc'[t] \in {"yield", "enter"}
        BY <3>1
      <3> QED
        BY <3>3, <3>4, <3>5, <3>6
    <2>13. CASE portYIELD(t)
      BY <2>13 DEF portYIELD
    <2>14. CASE TimedOut(t)
      <3>1. op[t] # "delay" /\ op[t] # "none" /\ t # Idle
        BY <2>14 DEF TimedOut
      <3>2. CASE Return(t)
        BY <3>1, <3>2
      <3>3. CASE pc' = [pc EXCEPT ![t] = "enter"] /\ UNCHANGED <<op, arg, exit>>
        BY <3>1, <3>3
      <3> QED
        BY <2>14, <3>2, <3>3, TimedOutStep
    <2>15. CASE DelayPlace(t)
      BY <2>15 DEF DelayPlace
    <2>16. CASE DelayReturn(t)
      BY <2>16 DEF DelayReturn
    <2> QED
      BY <1>7, <2>1, <2>2, <2>3, <2>4, <2>5, <2>6, <2>7, <2>8, <2>9, <2>10,
         <2>11, <2>12, <2>13, <2>14, <2>15, <2>16 DEF CallStep
  <1>8. CASE UNCHANGED vars
    BY <1>8 DEF vars
  <1> QED
    BY <1>1, <1>2, <1>3, <1>4, <1>5, <1>6, <1>7, <1>8 DEF Next, Interrupt

-----------------------------------------------------------------------------
(* Waits and clocks. *)

LEMMA ClockInit == Init => ClockInv
  BY DEF Init, ClockInv

LEMMA ClockNext == TypeOK /\ WindowInv /\ CallInv /\ ClockInv /\ [Next]_vars => ClockInv'
  <1> SUFFICES ASSUME TypeOK, WindowInv, CallInv, ClockInv, [Next]_vars
               PROVE  ClockInv'
    OBVIOUS
  <1> USE QueueAssumption DEF TypeOK, PCs, ClockInv, Runs, Goto, Return,
          queueVars, eventLists, schedVars, callVars
  <1>1. CASE vTaskSwitchContext
    BY <1>1 DEF vTaskSwitchContext
  <1>2. CASE xTaskIncrementTick
    BY <1>2 DEF xTaskIncrementTick, Unblock, Expiring
  <1>3. CASE ReceiveFromISR \/ ReceiveFromISRLocked
    BY <1>3 DEF ReceiveFromISR, ReceiveFromISRLocked
  <1>4. ASSUME NEW i \in Item, SendFromISR(i) \/ SendFromISRLocked(i)
        PROVE  ClockInv'
    BY <1>4 DEF SendFromISR, SendFromISRLocked
  <1>5. CASE RefusedFromISR
    BY <1>5 DEF RefusedFromISR
  <1>6. ASSUME NEW t \in Task, NewCall(t)
        PROVE  ClockInv'
    <2>0. pc[t] = "app" => exit[t] = "none"
      BY DEF WindowInv
    <2>1. CASE CallDelay(t)
      BY <2>0, <2>1 DEF CallDelay
    <2>2. CASE ~CallDelay(t)
      <3>1. PICK o \in {"send", "receive"}, i \in Item \cup {NoItem},
                 w \in {"zero", "finite", "forever"} : Call(t, o, i, w)
        BY <1>6, <2>2 DEF NewCall
      <3>2. t = pxCurrentTCB /\ pc[t] = "app" /\ exit[t] = "none" /\ clock[t] = "off"
        BY <2>0, <3>1 DEF Call
      <3>3. /\ pc' = [pc EXCEPT ![t] = "enter"]
            /\ op' = [op EXCEPT ![t] = o]
            /\ wait' = [wait EXCEPT ![t] = w]
            /\ UNCHANGED <<clock, exit>>
        BY <3>1 DEF Call
      <3>4. ASSUME NEW u \in Task
            PROVE  /\ pc'[u] = "app" => wait'[u] = "zero" /\ clock'[u] = "off"
                   /\ op'[u] = "delay" => wait'[u] = "finite"
                   /\ clock'[u] = "expired" => wait'[u] # "forever"
                   /\ exit'[u] = "timeout" \/ pc'[u] = "recheck" =>
                         wait'[u] = "zero" /\ clock'[u] = "expired"
        BY <3>2, <3>3
      <3> QED
        BY <3>4
    <2> QED
      BY <2>1, <2>2
  <1>7. ASSUME NEW t \in Task, CallStep(t)
        PROVE  ClockInv'
    <2>1. CASE SendPass(t)
      BY <2>1 DEF SendPass
    <2>2. CASE ReceivePass(t)
      BY <2>2 DEF ReceivePass
    <2>3. CASE EnterFail(t)
      BY <2>3 DEF EnterFail
    <2>4. CASE EnterWait(t)
      BY <2>4 DEF EnterWait
    <2>5. CASE vTaskSuspendAll(t)
      BY <2>5 DEF vTaskSuspendAll
    <2>6. CASE prvLockQueue(t)
      BY <2>6 DEF prvLockQueue
    <2>7. CASE xTaskCheckForTimeOut(t)
      <3>1. CASE UNCHANGED <<exit, wait>> /\ pc' = [pc EXCEPT ![t] = "test"]
        BY <2>7, <3>1 DEF xTaskCheckForTimeOut
      <3>2. CASE /\ pc' = [pc EXCEPT ![t] = "unlockTx"] /\ exit' = [exit EXCEPT ![t] = "timeout"]
                 /\ clock[t] = "expired" /\ wait' = [wait EXCEPT ![t] = "zero"]
        <4>1. op[t] # "delay"
          BY <2>7 DEF xTaskCheckForTimeOut, CallInv
        <4> QED
          BY <2>7, <3>2, <4>1 DEF xTaskCheckForTimeOut
      <3> QED
        BY <2>7, <3>1, <3>2, CheckStep
    <2>8. CASE TestBeforeBlocking(t)
      BY <2>8, TestStep DEF TestBeforeBlocking
    <2>9. CASE vTaskPlaceOnEventList(t)
      BY <2>9 DEF vTaskPlaceOnEventList
    <2>10. CASE UnlockTx(t)
      BY <2>10 DEF UnlockTx
    <2>11. CASE UnlockRx(t)
      BY <2>11 DEF UnlockRx
    <2>12. CASE xTaskResumeAll(t)
      BY <2>12 DEF xTaskResumeAll, Unblock, Expiring, AfterResume
    <2>13. CASE portYIELD(t)
      BY <2>13 DEF portYIELD
    <2>14. CASE TimedOut(t)
      <3>1. CASE Return(t)
        BY <2>14, <3>1 DEF TimedOut
      <3>2. CASE pc' = [pc EXCEPT ![t] = "enter"] /\ UNCHANGED <<op, wait, clock, exit>>
        BY <2>14, <3>2 DEF TimedOut
      <3> QED
        BY <2>14, <3>1, <3>2, TimedOutStep
    <2>15. CASE DelayPlace(t)
      BY <2>15 DEF DelayPlace
    <2>16. CASE DelayReturn(t)
      BY <2>16 DEF DelayReturn
    <2> QED
      BY <1>7, <2>1, <2>2, <2>3, <2>4, <2>5, <2>6, <2>7, <2>8, <2>9, <2>10,
         <2>11, <2>12, <2>13, <2>14, <2>15, <2>16 DEF CallStep
  <1>8. CASE UNCHANGED vars
    BY <1>8 DEF vars
  <1> QED
    BY <1>1, <1>2, <1>3, <1>4, <1>5, <1>6, <1>7, <1>8 DEF Next, Interrupt

-----------------------------------------------------------------------------
(* What a task about to sleep has seen. *)

LEMMA PlaceInit == Init => PlaceInv
  BY DEF Init, PlaceInv

LEMMA PlaceNext == TypeOK /\ WindowInv /\ PlaceInv /\ [Next]_vars => PlaceInv'
  <1> SUFFICES ASSUME TypeOK, WindowInv, PlaceInv, [Next]_vars
               PROVE  PlaceInv'
    OBVIOUS
  <1> USE QueueAssumption DEF TypeOK, PCs, WindowInv, Suspending, queueUNLOCKED, PlaceInv, Runs, Goto, Return,
          queueVars, eventLists, schedVars, callVars
  <1>1. CASE vTaskSwitchContext
    BY <1>1 DEF vTaskSwitchContext
  <1>2. CASE xTaskIncrementTick
    BY <1>2 DEF xTaskIncrementTick
  <1>3. CASE ReceiveFromISR \/ ReceiveFromISRLocked
    BY <1>3 DEF ReceiveFromISR, ReceiveFromISRLocked, Count
  <1>4. ASSUME NEW i \in Item, SendFromISR(i) \/ SendFromISRLocked(i)
        PROVE  PlaceInv'
    BY <1>4 DEF SendFromISR, SendFromISRLocked, Count
  <1>5. CASE RefusedFromISR
    BY <1>5 DEF RefusedFromISR
  <1>6. ASSUME NEW t \in Task, NewCall(t)
        PROVE  PlaceInv'
    <2>1. CASE CallDelay(t)
      BY <2>1 DEF CallDelay
    <2>2. CASE ~CallDelay(t)
      <3>1. PICK o, i, w : Call(t, o, i, w) /\ o \in {"send", "receive"} /\ t # Idle
        BY <1>6, <2>2 DEF NewCall
      <3> QED
        BY <3>1 DEF Call
    <2> QED
      BY <2>1, <2>2
  <1>7. ASSUME NEW t \in Task, CallStep(t)
        PROVE  PlaceInv'
    <2>1. CASE SendPass(t)
      BY <2>1 DEF SendPass
    <2>2. CASE ReceivePass(t)
      BY <2>2 DEF ReceivePass
    <2>3. CASE EnterFail(t)
      BY <2>3 DEF EnterFail
    <2>4. CASE EnterWait(t)
      BY <2>4 DEF EnterWait
    <2>5. CASE vTaskSuspendAll(t)
      BY <2>5 DEF vTaskSuspendAll
    <2>6. CASE prvLockQueue(t)
      BY <2>6 DEF prvLockQueue
    <2>7. CASE xTaskCheckForTimeOut(t)
      BY <2>7, CheckStep DEF xTaskCheckForTimeOut
    <2>8. CASE TestBeforeBlocking(t)
      <3>1. UNCHANGED <<items, cTxLock, cRxLock, op>> /\ cTxLock >= 0 /\ cRxLock >= 0
        BY <2>8 DEF TestBeforeBlocking
      <3>2. CASE pc' = [pc EXCEPT ![t] = "place"] /\ Refused(t)
        <4>1. /\ op[t] = "receive" => Len(items) = 0
              /\ op[t] = "send" => Len(items) = Length
          BY <3>2 DEF Refused
        <4> QED
          BY <2>8, <3>1, <3>2, <4>1 DEF TestBeforeBlocking
      <3>3. CASE pc' = [pc EXCEPT ![t] = "unlockTx"]
        BY <2>8, <3>1, <3>3 DEF TestBeforeBlocking
      <3> QED
        BY <2>8, <3>2, <3>3, TestStep
    <2>9. CASE vTaskPlaceOnEventList(t)
      BY <2>9 DEF vTaskPlaceOnEventList
    <2>10. CASE UnlockTx(t)
      BY <2>10 DEF UnlockTx
    <2>11. CASE UnlockRx(t)
      BY <2>11 DEF UnlockRx
    <2>12. CASE xTaskResumeAll(t)
      BY <2>12 DEF xTaskResumeAll, AfterResume
    <2>13. CASE portYIELD(t)
      BY <2>13 DEF portYIELD
    <2>14. CASE TimedOut(t)
      BY <2>14, TimedOutStep DEF TimedOut
    <2>15. CASE DelayPlace(t)
      BY <2>15 DEF DelayPlace
    <2>16. CASE DelayReturn(t)
      BY <2>16 DEF DelayReturn
    <2> QED
      BY <1>7, <2>1, <2>2, <2>3, <2>4, <2>5, <2>6, <2>7, <2>8, <2>9, <2>10,
         <2>11, <2>12, <2>13, <2>14, <2>15, <2>16 DEF CallStep
  <1>8. CASE UNCHANGED vars
    BY <1>8 DEF vars
  <1> QED
    BY <1>1, <1>2, <1>3, <1>4, <1>5, <1>6, <1>7, <1>8 DEF Next, Interrupt

-----------------------------------------------------------------------------
(* A due switch is never lost. *)

LEMMA YieldInit == Init => YieldInv
  BY DEF Init, YieldInv, HighestReady

LEMMA YieldNext == TypeOK /\ WindowInv /\ YieldInv /\ [Next]_vars => YieldInv'
  <1> SUFFICES ASSUME TypeOK, WindowInv, YieldInv, [Next]_vars
               PROVE  YieldInv'
    OBVIOUS
  <1> USE QueueAssumption DEF TypeOK, YieldInv, Runs,
          queueVars, eventLists, schedVars, callVars
  <1>1. CASE vTaskSwitchContext
    BY <1>1 DEF vTaskSwitchContext, HighestReady
  <1>2. CASE xTaskIncrementTick
    <2>1. CASE uxSchedulerSuspended
      BY <1>2, <2>1 DEF xTaskIncrementTick
    <2>2. CASE ~uxSchedulerSuspended
      <3>1. PICK S \in SUBSET Expiring :
               /\ Unblock(S, ready)
               /\ pendSV' = (pendSV \/ xYieldPending \/ SwitchRequired(S, ready))
        BY <1>2, <2>2 DEF xTaskIncrementTick
      <3>2. UNCHANGED pxCurrentTCB /\ ready' = ready \cup S /\ S \subseteq Task
        BY <1>2, <3>1 DEF xTaskIncrementTick, Unblock, Expiring
      <3>3. SUFFICES ASSUME ~pendSV' PROVE \A u \in ready' : Prio[u] <= Prio[pxCurrentTCB]
        BY <3>2
      <3>4. ~SwitchRequired(S, ready) /\ ~pendSV
        BY <3>1, <3>3
      <3>5. \A u \in S \ ready : Prio[u] <= Prio[pxCurrentTCB]
        BY <3>2, <3>4 DEF SwitchRequired
      <3> QED
        BY <2>2, <3>2, <3>4, <3>5
    <2> QED
      BY <2>1, <2>2
  <1>3. CASE ReceiveFromISR \/ ReceiveFromISRLocked
    <2>1. CASE ReceiveFromISR
      <3>1. PICK W \in Heads(xTasksWaitingToSend, 1) : xTaskRemoveFromEventList(W) /\ portYIELD_FROM_ISR(W)
        BY <2>1 DEF ReceiveFromISR
      <3>2. UNCHANGED <<pxCurrentTCB, uxSchedulerSuspended>> /\ W \subseteq Task
        BY <2>1, HeadsFact DEF ReceiveFromISR
      <3>3. CASE Outranks(W)
        BY <3>1, <3>2, <3>3 DEF portYIELD_FROM_ISR, xTaskRemoveFromEventList
      <3>4. CASE ~Outranks(W)
        <4>1. \A w \in W : Prio[w] <= Prio[pxCurrentTCB]
          BY <3>2, <3>4 DEF Outranks
        <4> QED
          BY <3>1, <3>2, <4>1 DEF portYIELD_FROM_ISR, xTaskRemoveFromEventList
      <3> QED
        BY <3>3, <3>4
    <2>2. CASE ReceiveFromISRLocked
      BY <2>2 DEF ReceiveFromISRLocked, portYIELD_FROM_ISR
    <2> QED
      BY <1>3, <2>1, <2>2
  <1>4. ASSUME NEW i \in Item, SendFromISR(i) \/ SendFromISRLocked(i)
        PROVE  YieldInv'
    <2>1. CASE SendFromISR(i)
      <3>1. PICK W \in Heads(xTasksWaitingToReceive, 1) : xTaskRemoveFromEventList(W) /\ portYIELD_FROM_ISR(W)
        BY <2>1 DEF SendFromISR
      <3>2. UNCHANGED <<pxCurrentTCB, uxSchedulerSuspended>> /\ W \subseteq Task
        BY <2>1, HeadsFact DEF SendFromISR
      <3>3. CASE Outranks(W)
        BY <3>1, <3>2, <3>3 DEF portYIELD_FROM_ISR, xTaskRemoveFromEventList
      <3>4. CASE ~Outranks(W)
        <4>1. \A w \in W : Prio[w] <= Prio[pxCurrentTCB]
          BY <3>2, <3>4 DEF Outranks
        <4> QED
          BY <3>1, <3>2, <4>1 DEF portYIELD_FROM_ISR, xTaskRemoveFromEventList
      <3> QED
        BY <3>3, <3>4
    <2>2. CASE SendFromISRLocked(i)
      BY <2>2 DEF SendFromISRLocked, portYIELD_FROM_ISR
    <2> QED
      BY <1>4, <2>1, <2>2
  <1>5. CASE RefusedFromISR
    BY <1>5 DEF RefusedFromISR, portYIELD_FROM_ISR
  <1>6. ASSUME NEW t \in Task, NewCall(t)
        PROVE  YieldInv'
    <2>1. CASE CallDelay(t)
      BY <2>1 DEF CallDelay
    <2>2. CASE ~CallDelay(t)
      <3>1. PICK o, i, w : Call(t, o, i, w) /\ o \in {"send", "receive"} /\ t # Idle
        BY <1>6, <2>2 DEF NewCall
      <3> QED
        BY <3>1 DEF Call
    <2> QED
      BY <2>1, <2>2
  <1>7. ASSUME NEW t \in Task, CallStep(t)
        PROVE  YieldInv'
    <2>1. CASE SendPass(t)
      <3>1. PICK W \in Heads(xTasksWaitingToReceive, 1) : WakeFromTask(W)
        BY <2>1 DEF SendPass
      <3>2. W \subseteq Task /\ ~pendSV /\ ~uxSchedulerSuspended
        BY <2>1, HeadsFact DEF SendPass, WindowInv, Suspending
      <3>3. CASE Outranks(W)
        BY <3>1, <3>3 DEF WakeFromTask
      <3>4. CASE ~Outranks(W)
        <4>1. \A w \in W : Prio[w] <= Prio[pxCurrentTCB]
          BY <3>2, <3>4 DEF Outranks
        <4> QED
          BY <3>1, <3>2, <4>1 DEF WakeFromTask, xTaskRemoveFromEventList
      <3> QED
        BY <3>3, <3>4
    <2>2. CASE ReceivePass(t)
      <3>1. PICK W \in Heads(xTasksWaitingToSend, 1) : WakeFromTask(W)
        BY <2>2 DEF ReceivePass
      <3>2. W \subseteq Task /\ ~pendSV /\ ~uxSchedulerSuspended
        BY <2>2, HeadsFact DEF ReceivePass, WindowInv, Suspending
      <3>3. CASE Outranks(W)
        BY <3>1, <3>3 DEF WakeFromTask
      <3>4. CASE ~Outranks(W)
        <4>1. \A w \in W : Prio[w] <= Prio[pxCurrentTCB]
          BY <3>2, <3>4 DEF Outranks
        <4> QED
          BY <3>1, <3>2, <4>1 DEF WakeFromTask, xTaskRemoveFromEventList
      <3> QED
        BY <3>3, <3>4
    <2>3. CASE EnterFail(t)
      BY <2>3 DEF EnterFail
    <2>4. CASE EnterWait(t)
      BY <2>4 DEF EnterWait
    <2>5. CASE vTaskSuspendAll(t)
      BY <2>5 DEF vTaskSuspendAll, WindowInv, Suspending
    <2>6. CASE prvLockQueue(t)
      BY <2>6 DEF prvLockQueue
    <2>7. CASE xTaskCheckForTimeOut(t)
      BY <2>7 DEF xTaskCheckForTimeOut
    <2>8. CASE TestBeforeBlocking(t)
      BY <2>8 DEF TestBeforeBlocking
    <2>9. CASE vTaskPlaceOnEventList(t)
      BY <2>9 DEF vTaskPlaceOnEventList
    <2>10. CASE UnlockTx(t)
      <3>1. PICK W \in Heads(xTasksWaitingToReceive, cTxLock) : xTaskRemoveFromEventList(W)
        BY <2>10 DEF UnlockTx
      <3>2. uxSchedulerSuspended /\ UNCHANGED <<pxCurrentTCB, uxSchedulerSuspended, pendSV>>
        BY <2>10 DEF UnlockTx, WindowInv, Suspending
      <3> QED
        BY <3>1, <3>2 DEF xTaskRemoveFromEventList
    <2>11. CASE UnlockRx(t)
      <3>1. PICK W \in Heads(xTasksWaitingToSend, cRxLock) : xTaskRemoveFromEventList(W)
        BY <2>11 DEF UnlockRx
      <3>2. uxSchedulerSuspended /\ UNCHANGED <<pxCurrentTCB, uxSchedulerSuspended, pendSV>>
        BY <2>11 DEF UnlockRx, WindowInv, Suspending
      <3> QED
        BY <3>1, <3>2 DEF xTaskRemoveFromEventList
    <2>12. CASE xTaskResumeAll(t)
      <3>1. ~pendSV /\ uxSchedulerSuspended /\ t = pxCurrentTCB /\ UNCHANGED pxCurrentTCB
        BY <2>12 DEF xTaskResumeAll, WindowInv, Suspending
      <3>2. PICK S \in SUBSET Expiring :
               /\ ~xPendedTicks => S = {}
               /\ Unblock(S, ready \cup xPendingReadyList)
               /\ pendSV' = \/ xYieldPending
                            \/ \E p \in xPendingReadyList : Prio[p] >= Prio[t]
                            \/ xPendedTicks /\ SwitchRequired(S, ready \cup xPendingReadyList)
        BY <2>12 DEF xTaskResumeAll
      <3>3. SUFFICES ASSUME ~pendSV' PROVE \A u \in ready' : Prio[u] <= Prio[pxCurrentTCB]
        BY <3>1
      <3>4. /\ \A u \in ready : Prio[u] <= Prio[pxCurrentTCB]
            /\ \A u \in xPendingReadyList : Prio[u] <= Prio[pxCurrentTCB]
        BY <3>1, <3>2, <3>3
      <3>5. ready' = ready \cup xPendingReadyList \cup S /\ S \subseteq Task
        BY <3>2 DEF Unblock, Expiring
      <3>6. CASE S = {}
        BY <3>4, <3>5, <3>6
      <3>7. CASE S # {}
        <4>1. ~SwitchRequired(S, ready \cup xPendingReadyList)
          BY <3>2, <3>3, <3>7
        <4>2. \A u \in S \ (ready \cup xPendingReadyList) : Prio[u] <= Prio[pxCurrentTCB]
          BY <3>5, <4>1 DEF SwitchRequired
        <4> QED
          BY <3>4, <3>5, <4>2
      <3> QED
        BY <3>6, <3>7
    <2>13. CASE portYIELD(t)
      BY <2>13 DEF portYIELD
    <2>14. CASE TimedOut(t)
      BY <2>14 DEF TimedOut
    <2>15. CASE DelayPlace(t)
      BY <2>15 DEF DelayPlace
    <2>16. CASE DelayReturn(t)
      BY <2>16 DEF DelayReturn
    <2> QED
      BY <1>7, <2>1, <2>2, <2>3, <2>4, <2>5, <2>6, <2>7, <2>8, <2>9, <2>10,
         <2>11, <2>12, <2>13, <2>14, <2>15, <2>16 DEF CallStep
  <1>8. CASE UNCHANGED vars
    BY <1>8 DEF vars
  <1> QED
    BY <1>1, <1>2, <1>3, <1>4, <1>5, <1>6, <1>7, <1>8 DEF Next, Interrupt

-----------------------------------------------------------------------------
(* Where each task is. *)

LEMMA ListInit == Init => ListInv
  BY QueueAssumption DEF Init, ListInv

\* A task that executes code outside the locked window is ready.
LEMMA RunningIsReady ==
    ASSUME ListInv, NEW t \in Task, Runs(t),
           pc[t] \notin {"yield", "unlockTx", "unlockRx", "resume"}
    PROVE  t \in ready
  BY DEF ListInv, Runs

LEMMA ListNext == TypeOK /\ WindowInv /\ CallInv /\ ListInv /\ [Next]_vars => ListInv'
  <1> SUFFICES ASSUME TypeOK, WindowInv, CallInv, ListInv, [Next]_vars
               PROVE  ListInv'
    OBVIOUS
  <1> USE QueueAssumption DEF TypeOK, PCs, ListInv, Runs, Goto, Return,
          queueVars, eventLists, schedVars, callVars
  <1>1. CASE vTaskSwitchContext
    BY <1>1 DEF vTaskSwitchContext, HighestReady, WindowInv, Suspending
  <1>2. CASE xTaskIncrementTick
    <2>1. CASE uxSchedulerSuspended
      BY <1>2, <2>1 DEF xTaskIncrementTick
    <2>2. CASE ~uxSchedulerSuspended
      <3>1. PICK S \in SUBSET Expiring :
               /\ Unblock(S, ready)
               /\ pendSV' = (pendSV \/ xYieldPending \/ SwitchRequired(S, ready))
        BY <1>2, <2>2 DEF xTaskIncrementTick
      <3>2. pendSV => pendSV'
        BY <3>1
      <3>3. UNCHANGED <<pc, op, exit, pxCurrentTCB, xPendingReadyList, uxSchedulerSuspended>>
        BY <1>2 DEF xTaskIncrementTick
      <3> QED
        BY <2>2, <3>1, <3>2, <3>3 DEF Unblock
    <2> QED
      BY <2>1, <2>2
  <1>3. CASE ReceiveFromISR \/ ReceiveFromISRLocked
    <2>1. CASE ReceiveFromISR
      <3>1. PICK W \in Heads(xTasksWaitingToSend, 1) : /\ xTasksWaitingToSend' = xTasksWaitingToSend \ W
                                  /\ xTaskRemoveFromEventList(W) /\ portYIELD_FROM_ISR(W)
        BY <2>1 DEF ReceiveFromISR
      <3>2. UNCHANGED <<xTasksWaitingToReceive, pc, op, exit, pxCurrentTCB, uxSchedulerSuspended>>
        BY <2>1 DEF ReceiveFromISR
      <3>3. W \subseteq xTasksWaitingToSend /\ (pendSV => pendSV')
        BY <3>1, HeadsFact DEF portYIELD_FROM_ISR
      <3>4. CASE uxSchedulerSuspended
        BY <3>1, <3>2, <3>3, <3>4 DEF xTaskRemoveFromEventList
      <3>5. CASE ~uxSchedulerSuspended
        BY <3>1, <3>2, <3>3, <3>5 DEF xTaskRemoveFromEventList
      <3> QED
        BY <3>4, <3>5
    <2>2. CASE ReceiveFromISRLocked
      BY <2>2 DEF ReceiveFromISRLocked, portYIELD_FROM_ISR
    <2> QED
      BY <1>3, <2>1, <2>2
  <1>4. ASSUME NEW i \in Item, SendFromISR(i) \/ SendFromISRLocked(i)
        PROVE  ListInv'
    <2>1. CASE SendFromISR(i)
      <3>1. PICK W \in Heads(xTasksWaitingToReceive, 1) : /\ xTasksWaitingToReceive' = xTasksWaitingToReceive \ W
                                  /\ xTaskRemoveFromEventList(W) /\ portYIELD_FROM_ISR(W)
        BY <2>1 DEF SendFromISR
      <3>2. UNCHANGED <<xTasksWaitingToSend, pc, op, exit, pxCurrentTCB, uxSchedulerSuspended>>
        BY <2>1 DEF SendFromISR
      <3>3. W \subseteq xTasksWaitingToReceive /\ (pendSV => pendSV')
        BY <3>1, HeadsFact DEF portYIELD_FROM_ISR
      <3>4. CASE uxSchedulerSuspended
        BY <3>1, <3>2, <3>3, <3>4 DEF xTaskRemoveFromEventList
      <3>5. CASE ~uxSchedulerSuspended
        BY <3>1, <3>2, <3>3, <3>5 DEF xTaskRemoveFromEventList
      <3> QED
        BY <3>4, <3>5
    <2>2. CASE SendFromISRLocked(i)
      BY <2>2 DEF SendFromISRLocked, portYIELD_FROM_ISR
    <2> QED
      BY <1>4, <2>1, <2>2
  <1>5. CASE RefusedFromISR
    BY <1>5 DEF RefusedFromISR, portYIELD_FROM_ISR
  <1>6. ASSUME NEW t \in Task, NewCall(t)
        PROVE  ListInv'
    <2>1. UNCHANGED <<eventLists, schedVars, exit>> /\ Runs(t) /\ pc[t] = "app"
      BY <1>6 DEF NewCall, Call, CallDelay
    <2>2. t \in ready
      BY <2>1, RunningIsReady
    <2>3. \A u \in Task \ {t} : pc'[u] = pc[u] /\ op'[u] = op[u]
      BY <1>6 DEF NewCall, Call, CallDelay
    <2> QED
      BY <2>1, <2>2, <2>3
  <1>7. ASSUME NEW t \in Task, CallStep(t)
        PROVE  ListInv'
    <2>1. CASE SendPass(t)
      <3>1. PICK W \in Heads(xTasksWaitingToReceive, 1) : /\ xTasksWaitingToReceive' = xTasksWaitingToReceive \ W
                                                   /\ WakeFromTask(W)
        BY <2>1 DEF SendPass
      <3>2. /\ W \subseteq xTasksWaitingToReceive
            /\ t \in ready /\ ~pendSV /\ ~uxSchedulerSuspended
        BY <2>1, HeadsFact, RunningIsReady DEF SendPass, WindowInv, Suspending
      <3>3. /\ \A u \in Task \ {t} : pc'[u] = pc[u] /\ op'[u] = op[u] /\ exit'[u] = exit[u]
            /\ UNCHANGED <<xTasksWaitingToSend, pxCurrentTCB, uxSchedulerSuspended>>
        BY <2>1, <3>1 DEF SendPass, WakeFromTask
      <3>4. ready' = ready \cup W /\ UNCHANGED xPendingReadyList
        BY <3>1, <3>2 DEF WakeFromTask, xTaskRemoveFromEventList
      <3> QED
        BY <3>1, <3>2, <3>3, <3>4
    <2>2. CASE ReceivePass(t)
      <3>1. PICK W \in Heads(xTasksWaitingToSend, 1) : /\ xTasksWaitingToSend' = xTasksWaitingToSend \ W
                                                   /\ WakeFromTask(W)
        BY <2>2 DEF ReceivePass
      <3>2. /\ W \subseteq xTasksWaitingToSend
            /\ t \in ready /\ ~pendSV /\ ~uxSchedulerSuspended
        BY <2>2, HeadsFact, RunningIsReady DEF ReceivePass, WindowInv, Suspending
      <3>3. /\ \A u \in Task \ {t} : pc'[u] = pc[u] /\ op'[u] = op[u] /\ exit'[u] = exit[u]
            /\ UNCHANGED <<xTasksWaitingToReceive, pxCurrentTCB, uxSchedulerSuspended>>
        BY <2>2, <3>1 DEF ReceivePass, WakeFromTask
      <3>4. ready' = ready \cup W /\ UNCHANGED xPendingReadyList
        BY <3>1, <3>2 DEF WakeFromTask, xTaskRemoveFromEventList
      <3> QED
        BY <3>1, <3>2, <3>3, <3>4
    <2>3. CASE EnterFail(t)
      <3>1. t \in ready
        BY <2>3, RunningIsReady DEF EnterFail
      <3> QED
        BY <2>3, <3>1 DEF EnterFail
    <2>4. CASE EnterWait(t)
      <3>1. t \in ready
        BY <2>4, RunningIsReady DEF EnterWait
      <3> QED
        BY <2>4, <3>1 DEF EnterWait
    <2>5. CASE vTaskSuspendAll(t)
      <3>1. t \in ready
        BY <2>5, RunningIsReady DEF vTaskSuspendAll
      <3> QED
        BY <2>5, <3>1 DEF vTaskSuspendAll, WindowInv, Suspending
    <2>6. CASE prvLockQueue(t)
      <3>1. t \in ready
        BY <2>6, RunningIsReady DEF prvLockQueue
      <3> QED
        BY <2>6, <3>1 DEF prvLockQueue
    <2>7. CASE xTaskCheckForTimeOut(t)
      <3>1. t \in ready
        BY <2>7, RunningIsReady DEF xTaskCheckForTimeOut
      <3>2. /\ UNCHANGED <<eventLists, schedVars>>
            /\ \A u \in Task \ {t} : pc'[u] = pc[u] /\ op'[u] = op[u] /\ exit'[u] = exit[u]
            /\ t \in xTasksWaitingToSend \cup xTasksWaitingToReceive => op'[t] = op[t]
        BY <2>7, <3>1, CheckStep DEF xTaskCheckForTimeOut
      <3> QED
        BY <3>1, <3>2
    <2>8. CASE TestBeforeBlocking(t)
      <3>1. t \in ready
        BY <2>8, RunningIsReady DEF TestBeforeBlocking
      <3>2. /\ UNCHANGED <<eventLists, schedVars>>
            /\ \A u \in Task \ {t} : pc'[u] = pc[u] /\ op'[u] = op[u] /\ exit'[u] = exit[u]
            /\ t \in xTasksWaitingToSend \cup xTasksWaitingToReceive => op'[t] = op[t]
        BY <2>8, <3>1, TestStep DEF TestBeforeBlocking
      <3> QED
        BY <3>1, <3>2
    <2>9. CASE vTaskPlaceOnEventList(t)
      <3>1. t \in ready /\ t # Idle /\ op[t] \in {"send", "receive"}
        BY <2>9, RunningIsReady DEF vTaskPlaceOnEventList, CallInv
      <3>2. ready' = ready \ {t} /\ exit' = [exit EXCEPT ![t] = "block"] /\ pc' = [pc EXCEPT ![t] = "unlockTx"]
            /\ UNCHANGED <<op, pxCurrentTCB, xPendingReadyList, uxSchedulerSuspended, pendSV>>
        BY <2>9 DEF vTaskPlaceOnEventList
      <3>3. CASE op[t] = "send"
        BY <2>9, <3>1, <3>2, <3>3 DEF vTaskPlaceOnEventList
      <3>4. CASE op[t] = "receive"
        BY <2>9, <3>1, <3>2, <3>4 DEF vTaskPlaceOnEventList
      <3> QED
        BY <3>1, <3>3, <3>4
    <2>10. CASE UnlockTx(t)
      <3>1. PICK W \in Heads(xTasksWaitingToReceive, cTxLock) : /\ xTasksWaitingToReceive' = xTasksWaitingToReceive \ W
                                                         /\ xTaskRemoveFromEventList(W)
        BY <2>10 DEF UnlockTx
      <3>2. /\ uxSchedulerSuspended /\ W \subseteq xTasksWaitingToReceive /\ pc[t] = "unlockTx"
            /\ UNCHANGED <<xTasksWaitingToSend, pxCurrentTCB, uxSchedulerSuspended, pendSV, op, exit>>
            /\ pc' = [pc EXCEPT ![t] = "unlockRx"]
        BY <2>10, HeadsFact DEF UnlockTx, WindowInv, Suspending
      <3>3. UNCHANGED ready /\ xPendingReadyList' = xPendingReadyList \cup W
        BY <3>1, <3>2 DEF xTaskRemoveFromEventList
      <3> QED
        BY <3>1, <3>2, <3>3
    <2>11. CASE UnlockRx(t)
      <3>1. PICK W \in Heads(xTasksWaitingToSend, cRxLock) : /\ xTasksWaitingToSend' = xTasksWaitingToSend \ W
                                                         /\ xTaskRemoveFromEventList(W)
        BY <2>11 DEF UnlockRx
      <3>2. /\ uxSchedulerSuspended /\ W \subseteq xTasksWaitingToSend /\ pc[t] = "unlockRx"
            /\ UNCHANGED <<xTasksWaitingToReceive, pxCurrentTCB, uxSchedulerSuspended, pendSV, op, exit>>
            /\ pc' = [pc EXCEPT ![t] = "resume"]
        BY <2>11, HeadsFact DEF UnlockRx, WindowInv, Suspending
      <3>3. UNCHANGED ready /\ xPendingReadyList' = xPendingReadyList \cup W
        BY <3>1, <3>2 DEF xTaskRemoveFromEventList
      <3> QED
        BY <3>1, <3>2, <3>3
    <2>12. CASE xTaskResumeAll(t)
      <3>1. /\ Runs(t) /\ pc[t] = "resume" /\ uxSchedulerSuspended' = FALSE
            /\ xPendingReadyList' = {} /\ UNCHANGED <<op, pxCurrentTCB>>
        BY <2>12 DEF xTaskResumeAll
      <3>2. PICK S \in SUBSET Expiring : Unblock(S, ready \cup xPendingReadyList)
        BY <2>12 DEF xTaskResumeAll
      <3>3. /\ ready' = ready \cup xPendingReadyList \cup S
            /\ xTasksWaitingToSend' = xTasksWaitingToSend \ (S \ (ready \cup xPendingReadyList))
            /\ xTasksWaitingToReceive' = xTasksWaitingToReceive \ (S \ (ready \cup xPendingReadyList))
        BY <3>2 DEF Unblock
      <3>4. /\ \A u \in Task \ {t} : pc'[u] = pc[u] /\ exit'[u] = exit[u]
            /\ exit[t] = "block" => IF pendSV' THEN pc'[t] = "enter" ELSE pc'[t] = "yield"
        BY <2>12 DEF xTaskResumeAll, AfterResume
      <3>5. t \notin ready => exit[t] = "block"
        BY <3>1
      <3>6. t \notin ready' => (pc'[t] = "enter" /\ pendSV') \/ pc'[t] = "yield"
        BY <3>3, <3>4, <3>5
      <3>7. \A u \in Task \ ready' : u # t =>
               \/ pc'[u] = "enter" \/ pc'[u] = "yield"
               \/ pc'[u] \in {"unlockTx", "unlockRx", "resume"} /\ exit'[u] = "block"
        BY <3>3, <3>4
      <3> QED
        BY <3>1, <3>3, <3>6, <3>7
    <2>13. CASE portYIELD(t)
      BY <2>13 DEF portYIELD
    <2>14. CASE TimedOut(t)
      <3>1. t \in ready
        BY <2>14, RunningIsReady DEF TimedOut
      <3>2. /\ UNCHANGED <<eventLists, schedVars>>
            /\ \A u \in Task \ {t} : pc'[u] = pc[u] /\ op'[u] = op[u] /\ exit'[u] = exit[u]
            /\ t \in xTasksWaitingToSend \cup xTasksWaitingToReceive => op'[t] = op[t]
        BY <2>14, <3>1, TimedOutStep DEF TimedOut
      <3> QED
        BY <3>1, <3>2
    <2>15. CASE DelayPlace(t)
      <3>1. t \in ready /\ t # Idle
        BY <2>15, RunningIsReady DEF DelayPlace, CallInv
      <3> QED
        BY <2>15, <3>1 DEF DelayPlace
    <2>16. CASE DelayReturn(t)
      <3>1. t \in ready
        BY <2>16, RunningIsReady DEF DelayReturn
      <3> QED
        BY <2>16, <3>1 DEF DelayReturn
    <2> QED
      BY <1>7, <2>1, <2>2, <2>3, <2>4, <2>5, <2>6, <2>7, <2>8, <2>9, <2>10,
         <2>11, <2>12, <2>13, <2>14, <2>15, <2>16 DEF CallStep
  <1>8. CASE UNCHANGED vars
    BY <1>8 DEF vars
  <1> QED
    BY <1>1, <1>2, <1>3, <1>4, <1>5, <1>6, <1>7, <1>8 DEF Next, Interrupt

-----------------------------------------------------------------------------
(* No wakeup is lost: the inductive step of NoLostReceiver and NoLostSender *)
(* (KernelQueue), the whole inductive invariant, and the theorems that      *)
(* follow from it.                                                          *)


-----------------------------------------------------------------------------
(* Counting the tasks on their way to the queue. *)

LEMMA LookersAreTasks ==
    ASSUME NEW o
    PROVE  /\ WillLook(o) \subseteq Task /\ WillLook(o)' \subseteq Task
           /\ Cardinality(WillLook(o)) \in Nat /\ Cardinality(WillLook(o)') \in Nat
  <1>1. WillLook(o) \subseteq Task /\ WillLook(o)' \subseteq Task
    BY DEF WillLook
  <1> QED
    BY <1>1, CardinalityNat

LEMMA OneLess ==
    ASSUME NEW n \in Int, NEW c \in Int, NEW d \in Int, NEW k \in Int,
           n <= c + k, c <= d + 1
    PROVE  n - 1 <= d + k
  OBVIOUS

-----------------------------------------------------------------------------
(* NoLostReceiver *)

\* Nobody falls asleep, nobody turns away, and an item that comes in is counted.
LEMMA KeptNoLostReceiver ==
    ASSUME TypeOK, TypeOK', NoLostReceiver,
           xTasksWaitingToReceive' \subseteq xTasksWaitingToReceive,
           WillLook("receive") \subseteq WillLook("receive")',
           Len(items') - CountedBy(cTxLock)' <= Len(items) - CountedBy(cTxLock)
    PROVE  NoLostReceiver'
  <1> USE QueueAssumption
  <1>1. /\ Len(items') \in Int /\ Len(items) \in Int
        /\ CountedBy(cTxLock)' \in Int /\ CountedBy(cTxLock) \in Int
    BY DEF TypeOK, CountedBy, queueUNLOCKED
  <1>2. Cardinality(WillLook("receive")) <= Cardinality(WillLook("receive")')
    BY LookersAreTasks, CardinalityGrows
  <1>3. SUFFICES ASSUME xTasksWaitingToReceive' # {}
                 PROVE  Len(items') <= Cardinality(WillLook("receive")') + CountedBy(cTxLock)'
    BY DEF NoLostReceiver
  <1>4. Len(items) <= Cardinality(WillLook("receive")) + CountedBy(cTxLock)
    BY <1>3 DEF NoLostReceiver
  <1> QED
    BY <1>1, <1>2, <1>4, LookersAreTasks

\* The tasks of W are woken, or all that sleep.
LEMMA WokenNoLostReceiver ==
    ASSUME TypeOK, TypeOK', NoLostReceiver, NEW k \in Nat, NEW W \in Heads(xTasksWaitingToReceive, k),
           xTasksWaitingToReceive' = xTasksWaitingToReceive \ W,
           WillLook("receive") \cup W \subseteq WillLook("receive")',
           WillLook("receive") \cap W = {},
           Len(items') - CountedBy(cTxLock)' <= Len(items) - CountedBy(cTxLock) + k
    PROVE  NoLostReceiver'
  <1> USE QueueAssumption
  <1>1. /\ Len(items') \in Int /\ Len(items) \in Int
        /\ CountedBy(cTxLock)' \in Int /\ CountedBy(cTxLock) \in Int
    BY DEF TypeOK, CountedBy, queueUNLOCKED
  <1>2. SUFFICES ASSUME xTasksWaitingToReceive' # {}
                 PROVE  Len(items') <= Cardinality(WillLook("receive")') + CountedBy(cTxLock)'
    BY DEF NoLostReceiver
  <1>3. W \subseteq xTasksWaitingToReceive /\ Cardinality(W) = k
    BY <1>2, HeadsFact
  <1>4. Cardinality(WillLook("receive")) + Cardinality(W) <= Cardinality(WillLook("receive")')
    BY LookersAreTasks, CardinalityGrowsBy
  <1>5. Len(items) <= Cardinality(WillLook("receive")) + CountedBy(cTxLock)
    BY <1>2 DEF NoLostReceiver
  <1> QED
    BY <1>1, <1>3, <1>4, <1>5, LookersAreTasks

LEMMA NoLostReceiverNext ==
    TypeOK /\ TypeOK' /\ WindowInv /\ CallInv /\ ListInv /\ PlaceInv /\ NoLostReceiver /\ [Next]_vars
        => NoLostReceiver'
  <1> SUFFICES ASSUME TypeOK, TypeOK', WindowInv, CallInv, ListInv, PlaceInv, NoLostReceiver, [Next]_vars
               PROVE  NoLostReceiver'
    OBVIOUS
  <1> USE QueueAssumption DEF TypeOK, PCs, Runs, Goto, Return,
          queueVars, eventLists, schedVars, callVars
  <1>1. CASE vTaskSwitchContext
    <2>1. UNCHANGED <<items, cTxLock, eventLists, pc, op, exit>>
      BY <1>1 DEF vTaskSwitchContext
    <2> QED
      BY <2>1, KeptNoLostReceiver DEF WillLook, CountedBy
  <1>2. CASE xTaskIncrementTick
    <2>1. UNCHANGED <<items, cTxLock, pc, op, exit>>
      BY <1>2 DEF xTaskIncrementTick
    <2>2. CASE uxSchedulerSuspended
      <3>1. UNCHANGED eventLists
        BY <1>2, <2>2 DEF xTaskIncrementTick
      <3> QED
        BY <2>1, <3>1, KeptNoLostReceiver DEF WillLook, CountedBy
    <2>3. CASE ~uxSchedulerSuspended
      <3>1. /\ xTasksWaitingToSend' \subseteq xTasksWaitingToSend
            /\ xTasksWaitingToReceive' \subseteq xTasksWaitingToReceive
        BY <1>2, <2>3 DEF xTaskIncrementTick, Unblock
      <3>2. WillLook("receive") \subseteq WillLook("receive")'
        BY <2>1, <3>1 DEF WillLook
      <3> QED
        BY <2>1, <3>1, <3>2, KeptNoLostReceiver DEF CountedBy
    <2> QED
      BY <2>2, <2>3
  <1>3. CASE ReceiveFromISR \/ ReceiveFromISRLocked
    <2>1. /\ UNCHANGED <<cTxLock, xTasksWaitingToReceive, pc, op, exit>>
          /\ Len(items') = Len(items) - 1
          /\ xTasksWaitingToSend' \subseteq xTasksWaitingToSend
      <3>1. CASE ReceiveFromISR
        BY <3>1, HeadsFact DEF ReceiveFromISR
      <3>2. CASE ReceiveFromISRLocked
        BY <3>2 DEF ReceiveFromISRLocked
      <3> QED
        BY <1>3, <3>1, <3>2
    <2>2. WillLook("receive") \subseteq WillLook("receive")'
      BY <2>1 DEF WillLook
    <2>3. Len(items') - CountedBy(cTxLock)' <= Len(items) - CountedBy(cTxLock)
      BY <2>1 DEF CountedBy
    <2> QED
      BY <2>1, <2>2, <2>3, KeptNoLostReceiver
  <1>4. ASSUME NEW i \in Item, SendFromISR(i) \/ SendFromISRLocked(i)
        PROVE  NoLostReceiver'
    <2>1. CASE SendFromISR(i)
      <3>1. PICK W \in Heads(xTasksWaitingToReceive, 1) : xTasksWaitingToReceive' = xTasksWaitingToReceive \ W
        BY <2>1 DEF SendFromISR
      <3>2. /\ UNCHANGED <<cTxLock, xTasksWaitingToSend, pc, op, exit>>
            /\ Len(items') = Len(items) + 1
        BY <2>1 DEF SendFromISR
      <3>3. /\ WillLook("receive") \cap W = {}
            /\ WillLook("receive") \cup W \subseteq WillLook("receive")'
        <4>1. W \subseteq xTasksWaitingToReceive
          BY HeadsFact
        <4>2. WillLook("receive") \cap W = {} /\ WillLook("receive") \subseteq WillLook("receive")'
          BY <3>1, <3>2, <4>1 DEF WillLook
        <4>3. W \subseteq WillLook("receive")'
          BY <3>1, <3>2, <4>1 DEF WillLook, ListInv
        <4> QED
          BY <4>2, <4>3
      <3>4. Len(items') - CountedBy(cTxLock)' <= Len(items) - CountedBy(cTxLock) + 1
        BY <3>2 DEF CountedBy
      <3> QED
        BY <3>1, <3>3, <3>4, WokenNoLostReceiver
    <2>2. CASE SendFromISRLocked(i)
      <3>1. /\ UNCHANGED <<eventLists, pc, op, exit>>
            /\ Len(items') = Len(items) + 1
            /\ CountedBy(cTxLock)' = CountedBy(cTxLock) + 1
        BY <2>2 DEF SendFromISRLocked, Count, CountedBy
      <3>2. WillLook("receive")' = WillLook("receive")
        BY <3>1 DEF WillLook
      <3>3. Len(items') - CountedBy(cTxLock)' <= Len(items) - CountedBy(cTxLock)
        BY <3>1 DEF CountedBy
      <3> QED
        BY <3>1, <3>2, <3>3, KeptNoLostReceiver
    <2> QED
      BY <1>4, <2>1, <2>2
  <1>5. CASE RefusedFromISR
    <2>1. UNCHANGED <<items, cTxLock, eventLists, pc, op, exit>>
      BY <1>5 DEF RefusedFromISR
    <2> QED
      BY <2>1, KeptNoLostReceiver DEF WillLook, CountedBy
  <1>6. ASSUME NEW t \in Task, NewCall(t)
        PROVE  NoLostReceiver'
    <2>1. /\ UNCHANGED <<items, cTxLock, eventLists, exit>> /\ Runs(t) /\ pc[t] = "app"
          /\ \A u \in Task \ {t} : pc'[u] = pc[u] /\ op'[u] = op[u]
      BY <1>6 DEF NewCall, Call, CallDelay
    <2>2. WillLook("receive") \subseteq WillLook("receive")'
      BY <2>1 DEF WillLook
    <2> QED
      BY <2>1, <2>2, KeptNoLostReceiver DEF CountedBy
  <1>7. ASSUME NEW t \in Task, CallStep(t)
        PROVE  NoLostReceiver'
    <2>1. CASE SendPass(t)
      <3>1. PICK W \in Heads(xTasksWaitingToReceive, 1) : xTasksWaitingToReceive' = xTasksWaitingToReceive \ W
        BY <2>1 DEF SendPass
      <3>2. /\ UNCHANGED <<cTxLock, xTasksWaitingToSend>> /\ t \in ready /\ op[t] = "send"
            /\ \A u \in Task \ {t} : pc'[u] = pc[u] /\ op'[u] = op[u] /\ exit'[u] = exit[u]
        BY <2>1, RunningIsReady DEF SendPass
      <3>3. Len(items') = Len(items) + 1
        BY <2>1 DEF SendPass, Refused
      <3>4. /\ WillLook("receive") \cap W = {}
            /\ WillLook("receive") \cup W \subseteq WillLook("receive")'
        <4>1. W \subseteq xTasksWaitingToReceive /\ t \notin W
          BY <3>2, HeadsFact DEF ListInv
        <4>2. WillLook("receive") \cap W = {} /\ WillLook("receive") \subseteq WillLook("receive")'
          BY <3>1, <3>2, <4>1 DEF WillLook
        <4>3. W \subseteq WillLook("receive")'
          BY <3>1, <3>2, <4>1 DEF WillLook, ListInv
        <4> QED
          BY <4>2, <4>3
      <3>5. Len(items') - CountedBy(cTxLock)' <= Len(items) - CountedBy(cTxLock) + 1
        BY <3>2, <3>3 DEF CountedBy
      <3> QED
        BY <3>1, <3>4, <3>5, WokenNoLostReceiver
    <2>2. CASE ReceivePass(t)
      <3>1. SUFFICES ASSUME xTasksWaitingToReceive' # {}
                     PROVE  Len(items') <= Cardinality(WillLook("receive")') + CountedBy(cTxLock)'
        BY DEF NoLostReceiver
      <3>2. /\ UNCHANGED <<cTxLock, xTasksWaitingToReceive>> /\ Len(items') = Len(items) - 1
            /\ xTasksWaitingToSend' \subseteq xTasksWaitingToSend
            /\ \A u \in Task \ {t} : pc'[u] = pc[u] /\ op'[u] = op[u] /\ exit'[u] = exit[u]
        BY <2>2, HeadsFact DEF ReceivePass, Refused
      <3>3. WillLook("receive") \ {t} \subseteq WillLook("receive")'
        BY <3>2 DEF WillLook
      <3>4. Cardinality(WillLook("receive")) <= Cardinality(WillLook("receive")') + 1
        BY <3>3, LookersAreTasks, CardinalityDrops
      <3>5. Len(items) <= Cardinality(WillLook("receive")) + CountedBy(cTxLock)
        BY <3>1, <3>2 DEF NoLostReceiver
      <3>6. CountedBy(cTxLock)' = CountedBy(cTxLock) /\ CountedBy(cTxLock) \in Int
        BY <3>2 DEF CountedBy, queueUNLOCKED
      <3>7. /\ Cardinality(WillLook("receive")) \in Int /\ Cardinality(WillLook("receive")') \in Int
            /\ Len(items) \in Int
        BY LookersAreTasks
      <3>8. Len(items) - 1 <= Cardinality(WillLook("receive")') + CountedBy(cTxLock)
        BY <3>4, <3>5, <3>6, <3>7, OneLess
      <3> QED
        BY <3>2, <3>6, <3>8
    <2>3. CASE EnterFail(t)
      <3>1. /\ UNCHANGED <<items, cTxLock, eventLists>> /\ Runs(t) /\ Refused(t)
            /\ \A u \in Task \ {t} : pc'[u] = pc[u] /\ op'[u] = op[u] /\ exit'[u] = exit[u]
        BY <2>3 DEF EnterFail
      <3>2. CASE op[t] = "receive"
        <4>1. Len(items') = 0
          BY <3>1, <3>2 DEF Refused
        <4>2. CountedBy(cTxLock)' \in Nat
          BY <3>1 DEF CountedBy, queueUNLOCKED
        <4> QED
          BY <4>1, <4>2, LookersAreTasks DEF NoLostReceiver
      <3>3. CASE op[t] # "receive"
        <4>1. WillLook("receive") \subseteq WillLook("receive")'
          BY <3>1, <3>3 DEF WillLook
        <4> QED
          BY <3>1, <4>1, KeptNoLostReceiver DEF CountedBy
      <3> QED
        BY <3>2, <3>3
    <2>4. CASE EnterWait(t)
      <3>1. /\ UNCHANGED <<items, cTxLock, eventLists>> /\ Runs(t) /\ Refused(t)
            /\ \A u \in Task \ {t} : pc'[u] = pc[u] /\ op'[u] = op[u] /\ exit'[u] = exit[u]
        BY <2>4 DEF EnterWait
      <3>2. CASE op[t] = "receive"
        <4>1. Len(items') = 0
          BY <3>1, <3>2 DEF Refused
        <4>2. CountedBy(cTxLock)' \in Nat
          BY <3>1 DEF CountedBy, queueUNLOCKED
        <4> QED
          BY <4>1, <4>2, LookersAreTasks DEF NoLostReceiver
      <3>3. CASE op[t] # "receive"
        <4>1. WillLook("receive") \subseteq WillLook("receive")'
          BY <3>1, <3>3 DEF WillLook
        <4> QED
          BY <3>1, <4>1, KeptNoLostReceiver DEF CountedBy
      <3> QED
        BY <3>2, <3>3
    <2>5. CASE vTaskSuspendAll(t)
      <3>1. /\ UNCHANGED <<items, eventLists>> /\ CountedBy(cTxLock)' = CountedBy(cTxLock)
        BY <2>5 DEF vTaskSuspendAll, CountedBy
      <3>2. WillLook("receive") \subseteq WillLook("receive")'
        BY <2>5 DEF vTaskSuspendAll, WillLook
      <3>3. Len(items') - CountedBy(cTxLock)' <= Len(items) - CountedBy(cTxLock)
        BY <3>1 DEF CountedBy
      <3> QED
        BY <3>1, <3>2, <3>3, KeptNoLostReceiver
    <2>6. CASE prvLockQueue(t)
      <3>1. /\ UNCHANGED <<items, eventLists>> /\ CountedBy(cTxLock)' = CountedBy(cTxLock)
        BY <2>6 DEF prvLockQueue, CountedBy, LockIfUnlocked, queueUNLOCKED, queueLOCKED_UNMODIFIED, WindowInv
      <3>2. WillLook("receive") \subseteq WillLook("receive")'
        BY <2>6 DEF prvLockQueue, WillLook, LockIfUnlocked, queueUNLOCKED, queueLOCKED_UNMODIFIED, WindowInv
      <3>3. Len(items') - CountedBy(cTxLock)' <= Len(items) - CountedBy(cTxLock)
        BY <3>1 DEF CountedBy
      <3> QED
        BY <3>1, <3>2, <3>3, KeptNoLostReceiver
    <2>7. CASE xTaskCheckForTimeOut(t)
      <3>1. /\ UNCHANGED <<items, eventLists>> /\ CountedBy(cTxLock)' = CountedBy(cTxLock)
        BY <2>7, CheckStep DEF xTaskCheckForTimeOut, CountedBy
      <3>2. WillLook("receive") \subseteq WillLook("receive")'
        BY <2>7, CheckStep DEF xTaskCheckForTimeOut, WillLook
      <3>3. Len(items') - CountedBy(cTxLock)' <= Len(items) - CountedBy(cTxLock)
        BY <3>1 DEF CountedBy
      <3> QED
        BY <3>1, <3>2, <3>3, KeptNoLostReceiver
    <2>8. CASE TestBeforeBlocking(t)
      <3>1. /\ UNCHANGED <<items, eventLists>> /\ CountedBy(cTxLock)' = CountedBy(cTxLock)
        BY <2>8, TestStep DEF TestBeforeBlocking, CountedBy
      <3>2. WillLook("receive") \subseteq WillLook("receive")'
        BY <2>8, TestStep DEF TestBeforeBlocking, WillLook
      <3>3. Len(items') - CountedBy(cTxLock)' <= Len(items) - CountedBy(cTxLock)
        BY <3>1 DEF CountedBy
      <3> QED
        BY <3>1, <3>2, <3>3, KeptNoLostReceiver
    <2>9. CASE vTaskPlaceOnEventList(t)
      <3>1. UNCHANGED <<items, cTxLock, op>> /\ pc[t] = "place" /\ t = pxCurrentTCB
        BY <2>9 DEF vTaskPlaceOnEventList
      <3>2. CASE op[t] = "receive"
        <4>1. cTxLock # queueUNLOCKED /\ Len(items) <= cTxLock
          BY <3>1, <3>2 DEF PlaceInv, WindowInv
        <4>2. CountedBy(cTxLock)' \in Int /\ Len(items') \in Int
          BY <3>1 DEF CountedBy, queueUNLOCKED
        <4> QED
          BY <3>1, <4>1, <4>2, LookersAreTasks DEF NoLostReceiver, CountedBy
      <3>3. CASE op[t] # "receive"
        <4>1. op[t] = "send"
          BY <3>1, <3>3 DEF CallInv
        <4>2. UNCHANGED xTasksWaitingToReceive /\ xTasksWaitingToSend' = xTasksWaitingToSend \cup {t}
          BY <2>9, <4>1 DEF vTaskPlaceOnEventList
        <4>3. \A u \in Task \ {t} : pc'[u] = pc[u] /\ exit'[u] = exit[u]
          BY <2>9 DEF vTaskPlaceOnEventList
        <4>4. WillLook("receive") \subseteq WillLook("receive")'
          BY <3>1, <3>3, <4>2, <4>3 DEF WillLook
        <4> QED
          BY <3>1, <4>2, <4>4, KeptNoLostReceiver DEF CountedBy
      <3> QED
        BY <3>2, <3>3
    <2>10. CASE UnlockTx(t)
      <3>1. PICK W \in Heads(xTasksWaitingToReceive, cTxLock) : xTasksWaitingToReceive' = xTasksWaitingToReceive \ W
        BY <2>10 DEF UnlockTx
      <3>2. /\ UNCHANGED <<items, xTasksWaitingToSend, op, exit>> /\ cTxLock' = queueUNLOCKED /\ cTxLock \in Nat
            /\ pc[t] = "unlockTx" /\ pc' = [pc EXCEPT ![t] = "unlockRx"]
        BY <2>10 DEF UnlockTx, WindowInv, queueUNLOCKED
      <3>3. /\ WillLook("receive") \cap W = {}
            /\ WillLook("receive") \cup W \subseteq WillLook("receive")'
        <4>1. W \subseteq xTasksWaitingToReceive
          BY HeadsFact
        <4>2. WillLook("receive") \cap W = {} /\ WillLook("receive") \subseteq WillLook("receive")'
          BY <3>1, <3>2, <4>1 DEF WillLook
        <4>3. W \subseteq WillLook("receive")'
          BY <3>1, <3>2, <4>1 DEF WillLook, ListInv
        <4> QED
          BY <4>2, <4>3
      <3>4. Len(items') - CountedBy(cTxLock)' <= Len(items) - CountedBy(cTxLock) + cTxLock
        BY <3>2 DEF CountedBy, queueUNLOCKED
      <3> QED
        BY <3>1, <3>2, <3>3, <3>4, WokenNoLostReceiver
    <2>11. CASE UnlockRx(t)
      <3>1. /\ UNCHANGED <<items, cTxLock, xTasksWaitingToReceive, op, exit>> /\ xTasksWaitingToSend' \subseteq xTasksWaitingToSend
            /\ pc[t] = "unlockRx" /\ pc' = [pc EXCEPT ![t] = "resume"]
        BY <2>11, HeadsFact DEF UnlockRx
      <3>2. WillLook("receive") \subseteq WillLook("receive")'
        BY <3>1 DEF WillLook
      <3> QED
        BY <3>1, <3>2, KeptNoLostReceiver DEF CountedBy
    <2>12. CASE xTaskResumeAll(t)
      <3>1. /\ UNCHANGED <<items, cTxLock, op>> /\ pc[t] = "resume"
            /\ xTasksWaitingToSend' \subseteq xTasksWaitingToSend
            /\ xTasksWaitingToReceive' \subseteq xTasksWaitingToReceive
            /\ \A u \in Task \ {t} : pc'[u] = pc[u] /\ exit'[u] = exit[u]
            /\ exit[t] = "block" => pc'[t] \in {"enter", "yield"}
        BY <2>12 DEF xTaskResumeAll, Unblock, AfterResume
      <3>2. WillLook("receive") \subseteq WillLook("receive")'
        BY <3>1 DEF WillLook
      <3> QED
        BY <3>1, <3>2, KeptNoLostReceiver DEF CountedBy
    <2>13. CASE portYIELD(t)
      <3>1. /\ UNCHANGED <<items, eventLists>> /\ CountedBy(cTxLock)' = CountedBy(cTxLock)
        BY <2>13 DEF portYIELD, CountedBy, ListInv
      <3>2. WillLook("receive") \subseteq WillLook("receive")'
        BY <2>13 DEF portYIELD, WillLook, ListInv
      <3>3. Len(items') - CountedBy(cTxLock)' <= Len(items) - CountedBy(cTxLock)
        BY <3>1 DEF CountedBy
      <3> QED
        BY <3>1, <3>2, <3>3, KeptNoLostReceiver
    <2>14. CASE TimedOut(t)
      <3>1. /\ UNCHANGED <<items, eventLists>> /\ CountedBy(cTxLock)' = CountedBy(cTxLock)
        BY <2>14, TimedOutStep DEF TimedOut, CountedBy
      <3>2. WillLook("receive") \subseteq WillLook("receive")'
        BY <2>14, TimedOutStep DEF TimedOut, WillLook
      <3>3. Len(items') - CountedBy(cTxLock)' <= Len(items) - CountedBy(cTxLock)
        BY <3>1 DEF CountedBy
      <3> QED
        BY <3>1, <3>2, <3>3, KeptNoLostReceiver
    <2>15. CASE DelayPlace(t)
      <3>1. /\ UNCHANGED <<items, eventLists>> /\ CountedBy(cTxLock)' = CountedBy(cTxLock)
        BY <2>15 DEF DelayPlace, CountedBy, WindowInv
      <3>2. WillLook("receive") \subseteq WillLook("receive")'
        BY <2>15 DEF DelayPlace, WillLook, WindowInv
      <3>3. Len(items') - CountedBy(cTxLock)' <= Len(items) - CountedBy(cTxLock)
        BY <3>1 DEF CountedBy
      <3> QED
        BY <3>1, <3>2, <3>3, KeptNoLostReceiver
    <2>16. CASE DelayReturn(t)
      <3>1. /\ UNCHANGED <<items, eventLists>> /\ CountedBy(cTxLock)' = CountedBy(cTxLock)
        BY <2>16 DEF DelayReturn, CountedBy
      <3>2. WillLook("receive") \subseteq WillLook("receive")'
        BY <2>16 DEF DelayReturn, WillLook
      <3>3. Len(items') - CountedBy(cTxLock)' <= Len(items) - CountedBy(cTxLock)
        BY <3>1 DEF CountedBy
      <3> QED
        BY <3>1, <3>2, <3>3, KeptNoLostReceiver
    <2> QED
      BY <1>7, <2>1, <2>2, <2>3, <2>4, <2>5, <2>6, <2>7, <2>8, <2>9, <2>10,
         <2>11, <2>12, <2>13, <2>14, <2>15, <2>16 DEF CallStep
  <1>8. CASE UNCHANGED vars
    BY <1>8, KeptNoLostReceiver DEF vars, WillLook, CountedBy
  <1> QED
    BY <1>1, <1>2, <1>3, <1>4, <1>5, <1>6, <1>7, <1>8 DEF Next, Interrupt

-----------------------------------------------------------------------------
(* NoLostSender *)

\* Nobody falls asleep, nobody turns away, and a slot that comes free is counted.
LEMMA KeptNoLostSender ==
    ASSUME TypeOK, TypeOK', NoLostSender,
           xTasksWaitingToSend' \subseteq xTasksWaitingToSend,
           WillLook("send") \subseteq WillLook("send")',
           (Length - Len(items')) - CountedBy(cRxLock)' <= (Length - Len(items)) - CountedBy(cRxLock)
    PROVE  NoLostSender'
  <1> USE QueueAssumption
  <1>1. /\ (Length - Len(items')) \in Int /\ (Length - Len(items)) \in Int
        /\ CountedBy(cRxLock)' \in Int /\ CountedBy(cRxLock) \in Int
    BY DEF TypeOK, CountedBy, queueUNLOCKED
  <1>2. Cardinality(WillLook("send")) <= Cardinality(WillLook("send")')
    BY LookersAreTasks, CardinalityGrows
  <1>3. SUFFICES ASSUME xTasksWaitingToSend' # {}
                 PROVE  (Length - Len(items')) <= Cardinality(WillLook("send")') + CountedBy(cRxLock)'
    BY DEF NoLostSender
  <1>4. (Length - Len(items)) <= Cardinality(WillLook("send")) + CountedBy(cRxLock)
    BY <1>3 DEF NoLostSender
  <1> QED
    BY <1>1, <1>2, <1>4, LookersAreTasks

\* The tasks of W are woken, or all that sleep.
LEMMA WokenNoLostSender ==
    ASSUME TypeOK, TypeOK', NoLostSender, NEW k \in Nat, NEW W \in Heads(xTasksWaitingToSend, k),
           xTasksWaitingToSend' = xTasksWaitingToSend \ W,
           WillLook("send") \cup W \subseteq WillLook("send")',
           WillLook("send") \cap W = {},
           (Length - Len(items')) - CountedBy(cRxLock)' <= (Length - Len(items)) - CountedBy(cRxLock) + k
    PROVE  NoLostSender'
  <1> USE QueueAssumption
  <1>1. /\ (Length - Len(items')) \in Int /\ (Length - Len(items)) \in Int
        /\ CountedBy(cRxLock)' \in Int /\ CountedBy(cRxLock) \in Int
    BY DEF TypeOK, CountedBy, queueUNLOCKED
  <1>2. SUFFICES ASSUME xTasksWaitingToSend' # {}
                 PROVE  (Length - Len(items')) <= Cardinality(WillLook("send")') + CountedBy(cRxLock)'
    BY DEF NoLostSender
  <1>3. W \subseteq xTasksWaitingToSend /\ Cardinality(W) = k
    BY <1>2, HeadsFact
  <1>4. Cardinality(WillLook("send")) + Cardinality(W) <= Cardinality(WillLook("send")')
    BY LookersAreTasks, CardinalityGrowsBy
  <1>5. (Length - Len(items)) <= Cardinality(WillLook("send")) + CountedBy(cRxLock)
    BY <1>2 DEF NoLostSender
  <1> QED
    BY <1>1, <1>3, <1>4, <1>5, LookersAreTasks

LEMMA NoLostSenderNext ==
    TypeOK /\ TypeOK' /\ WindowInv /\ CallInv /\ ListInv /\ PlaceInv /\ NoLostSender /\ [Next]_vars
        => NoLostSender'
  <1> SUFFICES ASSUME TypeOK, TypeOK', WindowInv, CallInv, ListInv, PlaceInv, NoLostSender, [Next]_vars
               PROVE  NoLostSender'
    OBVIOUS
  <1> USE QueueAssumption DEF TypeOK, PCs, Runs, Goto, Return,
          queueVars, eventLists, schedVars, callVars
  <1>1. CASE vTaskSwitchContext
    <2>1. UNCHANGED <<items, cRxLock, eventLists, pc, op, exit>>
      BY <1>1 DEF vTaskSwitchContext
    <2> QED
      BY <2>1, KeptNoLostSender DEF WillLook, CountedBy
  <1>2. CASE xTaskIncrementTick
    <2>1. UNCHANGED <<items, cRxLock, pc, op, exit>>
      BY <1>2 DEF xTaskIncrementTick
    <2>2. CASE uxSchedulerSuspended
      <3>1. UNCHANGED eventLists
        BY <1>2, <2>2 DEF xTaskIncrementTick
      <3> QED
        BY <2>1, <3>1, KeptNoLostSender DEF WillLook, CountedBy
    <2>3. CASE ~uxSchedulerSuspended
      <3>1. /\ xTasksWaitingToSend' \subseteq xTasksWaitingToSend
            /\ xTasksWaitingToReceive' \subseteq xTasksWaitingToReceive
        BY <1>2, <2>3 DEF xTaskIncrementTick, Unblock
      <3>2. WillLook("send") \subseteq WillLook("send")'
        BY <2>1, <3>1 DEF WillLook
      <3> QED
        BY <2>1, <3>1, <3>2, KeptNoLostSender DEF CountedBy
    <2> QED
      BY <2>2, <2>3
  <1>3. CASE ReceiveFromISR \/ ReceiveFromISRLocked
    <2>1. CASE ReceiveFromISR
      <3>1. PICK W \in Heads(xTasksWaitingToSend, 1) : xTasksWaitingToSend' = xTasksWaitingToSend \ W
        BY <2>1 DEF ReceiveFromISR
      <3>2. /\ UNCHANGED <<cRxLock, xTasksWaitingToReceive, pc, op, exit>>
            /\ (Length - Len(items')) = (Length - Len(items)) + 1
        BY <2>1 DEF ReceiveFromISR
      <3>3. /\ WillLook("send") \cap W = {}
            /\ WillLook("send") \cup W \subseteq WillLook("send")'
        <4>1. W \subseteq xTasksWaitingToSend
          BY HeadsFact
        <4>2. WillLook("send") \cap W = {} /\ WillLook("send") \subseteq WillLook("send")'
          BY <3>1, <3>2, <4>1 DEF WillLook
        <4>3. W \subseteq WillLook("send")'
          BY <3>1, <3>2, <4>1 DEF WillLook, ListInv
        <4> QED
          BY <4>2, <4>3
      <3>4. (Length - Len(items')) - CountedBy(cRxLock)' <= (Length - Len(items)) - CountedBy(cRxLock) + 1
        BY <3>2 DEF CountedBy
      <3> QED
        BY <3>1, <3>3, <3>4, WokenNoLostSender
    <2>2. CASE ReceiveFromISRLocked
      <3>1. /\ UNCHANGED <<eventLists, pc, op, exit>>
            /\ (Length - Len(items')) = (Length - Len(items)) + 1
            /\ CountedBy(cRxLock)' = CountedBy(cRxLock) + 1
        BY <2>2 DEF ReceiveFromISRLocked, Count, CountedBy
      <3>2. WillLook("send")' = WillLook("send")
        BY <3>1 DEF WillLook
      <3>3. (Length - Len(items')) - CountedBy(cRxLock)' <= (Length - Len(items)) - CountedBy(cRxLock)
        BY <3>1 DEF CountedBy
      <3> QED
        BY <3>1, <3>2, <3>3, KeptNoLostSender
    <2> QED
      BY <1>3, <2>1, <2>2
  <1>4. ASSUME NEW i \in Item, SendFromISR(i) \/ SendFromISRLocked(i)
        PROVE  NoLostSender'
    <2>1. /\ UNCHANGED <<cRxLock, xTasksWaitingToSend, pc, op, exit>>
          /\ (Length - Len(items')) = (Length - Len(items)) - 1
          /\ xTasksWaitingToReceive' \subseteq xTasksWaitingToReceive
      <3>1. CASE SendFromISR(i)
        BY <3>1, HeadsFact DEF SendFromISR
      <3>2. CASE SendFromISRLocked(i)
        BY <3>2 DEF SendFromISRLocked
      <3> QED
        BY <1>4, <3>1, <3>2
    <2>2. WillLook("send") \subseteq WillLook("send")'
      BY <2>1 DEF WillLook
    <2>3. (Length - Len(items')) - CountedBy(cRxLock)' <= (Length - Len(items)) - CountedBy(cRxLock)
      BY <2>1 DEF CountedBy
    <2> QED
      BY <2>1, <2>2, <2>3, KeptNoLostSender
  <1>5. CASE RefusedFromISR
    <2>1. UNCHANGED <<items, cRxLock, eventLists, pc, op, exit>>
      BY <1>5 DEF RefusedFromISR
    <2> QED
      BY <2>1, KeptNoLostSender DEF WillLook, CountedBy
  <1>6. ASSUME NEW t \in Task, NewCall(t)
        PROVE  NoLostSender'
    <2>1. /\ UNCHANGED <<items, cRxLock, eventLists, exit>> /\ Runs(t) /\ pc[t] = "app"
          /\ \A u \in Task \ {t} : pc'[u] = pc[u] /\ op'[u] = op[u]
      BY <1>6 DEF NewCall, Call, CallDelay
    <2>2. WillLook("send") \subseteq WillLook("send")'
      BY <2>1 DEF WillLook
    <2> QED
      BY <2>1, <2>2, KeptNoLostSender DEF CountedBy
  <1>7. ASSUME NEW t \in Task, CallStep(t)
        PROVE  NoLostSender'
    <2>1. CASE SendPass(t)
      <3>1. SUFFICES ASSUME xTasksWaitingToSend' # {}
                     PROVE  (Length - Len(items')) <= Cardinality(WillLook("send")') + CountedBy(cRxLock)'
        BY DEF NoLostSender
      <3>2. /\ UNCHANGED <<cRxLock, xTasksWaitingToSend>> /\ (Length - Len(items')) = (Length - Len(items)) - 1
            /\ xTasksWaitingToReceive' \subseteq xTasksWaitingToReceive
            /\ \A u \in Task \ {t} : pc'[u] = pc[u] /\ op'[u] = op[u] /\ exit'[u] = exit[u]
        BY <2>1, HeadsFact DEF SendPass, Refused
      <3>3. WillLook("send") \ {t} \subseteq WillLook("send")'
        BY <3>2 DEF WillLook
      <3>4. Cardinality(WillLook("send")) <= Cardinality(WillLook("send")') + 1
        BY <3>3, LookersAreTasks, CardinalityDrops
      <3>5. (Length - Len(items)) <= Cardinality(WillLook("send")) + CountedBy(cRxLock)
        BY <3>1, <3>2 DEF NoLostSender
      <3>6. CountedBy(cRxLock)' = CountedBy(cRxLock) /\ CountedBy(cRxLock) \in Int
        BY <3>2 DEF CountedBy, queueUNLOCKED
      <3>7. /\ Cardinality(WillLook("send")) \in Int /\ Cardinality(WillLook("send")') \in Int
            /\ (Length - Len(items)) \in Int
        BY LookersAreTasks
      <3>8. (Length - Len(items)) - 1 <= Cardinality(WillLook("send")') + CountedBy(cRxLock)
        BY <3>4, <3>5, <3>6, <3>7, OneLess
      <3> QED
        BY <3>2, <3>6, <3>8
    <2>2. CASE ReceivePass(t)
      <3>1. PICK W \in Heads(xTasksWaitingToSend, 1) : xTasksWaitingToSend' = xTasksWaitingToSend \ W
        BY <2>2 DEF ReceivePass
      <3>2. /\ UNCHANGED <<cRxLock, xTasksWaitingToReceive>> /\ t \in ready /\ op[t] = "receive"
            /\ \A u \in Task \ {t} : pc'[u] = pc[u] /\ op'[u] = op[u] /\ exit'[u] = exit[u]
        BY <2>2, RunningIsReady DEF ReceivePass
      <3>3. (Length - Len(items')) = (Length - Len(items)) + 1
        BY <2>2 DEF ReceivePass, Refused
      <3>4. /\ WillLook("send") \cap W = {}
            /\ WillLook("send") \cup W \subseteq WillLook("send")'
        <4>1. W \subseteq xTasksWaitingToSend /\ t \notin W
          BY <3>2, HeadsFact DEF ListInv
        <4>2. WillLook("send") \cap W = {} /\ WillLook("send") \subseteq WillLook("send")'
          BY <3>1, <3>2, <4>1 DEF WillLook
        <4>3. W \subseteq WillLook("send")'
          BY <3>1, <3>2, <4>1 DEF WillLook, ListInv
        <4> QED
          BY <4>2, <4>3
      <3>5. (Length - Len(items')) - CountedBy(cRxLock)' <= (Length - Len(items)) - CountedBy(cRxLock) + 1
        BY <3>2, <3>3 DEF CountedBy
      <3> QED
        BY <3>1, <3>4, <3>5, WokenNoLostSender
    <2>3. CASE EnterFail(t)
      <3>1. /\ UNCHANGED <<items, cRxLock, eventLists>> /\ Runs(t) /\ Refused(t)
            /\ \A u \in Task \ {t} : pc'[u] = pc[u] /\ op'[u] = op[u] /\ exit'[u] = exit[u]
        BY <2>3 DEF EnterFail
      <3>2. CASE op[t] = "send"
        <4>1. (Length - Len(items')) = 0
          BY <3>1, <3>2 DEF Refused
        <4>2. CountedBy(cRxLock)' \in Nat
          BY <3>1 DEF CountedBy, queueUNLOCKED
        <4> QED
          BY <4>1, <4>2, LookersAreTasks DEF NoLostSender
      <3>3. CASE op[t] # "send"
        <4>1. WillLook("send") \subseteq WillLook("send")'
          BY <3>1, <3>3 DEF WillLook
        <4> QED
          BY <3>1, <4>1, KeptNoLostSender DEF CountedBy
      <3> QED
        BY <3>2, <3>3
    <2>4. CASE EnterWait(t)
      <3>1. /\ UNCHANGED <<items, cRxLock, eventLists>> /\ Runs(t) /\ Refused(t)
            /\ \A u \in Task \ {t} : pc'[u] = pc[u] /\ op'[u] = op[u] /\ exit'[u] = exit[u]
        BY <2>4 DEF EnterWait
      <3>2. CASE op[t] = "send"
        <4>1. (Length - Len(items')) = 0
          BY <3>1, <3>2 DEF Refused
        <4>2. CountedBy(cRxLock)' \in Nat
          BY <3>1 DEF CountedBy, queueUNLOCKED
        <4> QED
          BY <4>1, <4>2, LookersAreTasks DEF NoLostSender
      <3>3. CASE op[t] # "send"
        <4>1. WillLook("send") \subseteq WillLook("send")'
          BY <3>1, <3>3 DEF WillLook
        <4> QED
          BY <3>1, <4>1, KeptNoLostSender DEF CountedBy
      <3> QED
        BY <3>2, <3>3
    <2>5. CASE vTaskSuspendAll(t)
      <3>1. /\ UNCHANGED <<items, eventLists>> /\ CountedBy(cRxLock)' = CountedBy(cRxLock)
        BY <2>5 DEF vTaskSuspendAll, CountedBy
      <3>2. WillLook("send") \subseteq WillLook("send")'
        BY <2>5 DEF vTaskSuspendAll, WillLook
      <3>3. (Length - Len(items')) - CountedBy(cRxLock)' <= (Length - Len(items)) - CountedBy(cRxLock)
        BY <3>1 DEF CountedBy
      <3> QED
        BY <3>1, <3>2, <3>3, KeptNoLostSender
    <2>6. CASE prvLockQueue(t)
      <3>1. /\ UNCHANGED <<items, eventLists>> /\ CountedBy(cRxLock)' = CountedBy(cRxLock)
        BY <2>6 DEF prvLockQueue, CountedBy, LockIfUnlocked, queueUNLOCKED, queueLOCKED_UNMODIFIED, WindowInv
      <3>2. WillLook("send") \subseteq WillLook("send")'
        BY <2>6 DEF prvLockQueue, WillLook, LockIfUnlocked, queueUNLOCKED, queueLOCKED_UNMODIFIED, WindowInv
      <3>3. (Length - Len(items')) - CountedBy(cRxLock)' <= (Length - Len(items)) - CountedBy(cRxLock)
        BY <3>1 DEF CountedBy
      <3> QED
        BY <3>1, <3>2, <3>3, KeptNoLostSender
    <2>7. CASE xTaskCheckForTimeOut(t)
      <3>1. /\ UNCHANGED <<items, eventLists>> /\ CountedBy(cRxLock)' = CountedBy(cRxLock)
        BY <2>7, CheckStep DEF xTaskCheckForTimeOut, CountedBy
      <3>2. WillLook("send") \subseteq WillLook("send")'
        BY <2>7, CheckStep DEF xTaskCheckForTimeOut, WillLook
      <3>3. (Length - Len(items')) - CountedBy(cRxLock)' <= (Length - Len(items)) - CountedBy(cRxLock)
        BY <3>1 DEF CountedBy
      <3> QED
        BY <3>1, <3>2, <3>3, KeptNoLostSender
    <2>8. CASE TestBeforeBlocking(t)
      <3>1. /\ UNCHANGED <<items, eventLists>> /\ CountedBy(cRxLock)' = CountedBy(cRxLock)
        BY <2>8, TestStep DEF TestBeforeBlocking, CountedBy
      <3>2. WillLook("send") \subseteq WillLook("send")'
        BY <2>8, TestStep DEF TestBeforeBlocking, WillLook
      <3>3. (Length - Len(items')) - CountedBy(cRxLock)' <= (Length - Len(items)) - CountedBy(cRxLock)
        BY <3>1 DEF CountedBy
      <3> QED
        BY <3>1, <3>2, <3>3, KeptNoLostSender
    <2>9. CASE vTaskPlaceOnEventList(t)
      <3>1. UNCHANGED <<items, cRxLock, op>> /\ pc[t] = "place" /\ t = pxCurrentTCB
        BY <2>9 DEF vTaskPlaceOnEventList
      <3>2. CASE op[t] = "send"
        <4>1. cRxLock # queueUNLOCKED /\ (Length - Len(items)) <= cRxLock
          BY <3>1, <3>2 DEF PlaceInv, WindowInv
        <4>2. CountedBy(cRxLock)' \in Int /\ (Length - Len(items')) \in Int
          BY <3>1 DEF CountedBy, queueUNLOCKED
        <4> QED
          BY <3>1, <4>1, <4>2, LookersAreTasks DEF NoLostSender, CountedBy
      <3>3. CASE op[t] # "send"
        <4>1. op[t] = "receive"
          BY <3>1, <3>3 DEF CallInv
        <4>2. UNCHANGED xTasksWaitingToSend /\ xTasksWaitingToReceive' = xTasksWaitingToReceive \cup {t}
          BY <2>9, <4>1 DEF vTaskPlaceOnEventList
        <4>3. \A u \in Task \ {t} : pc'[u] = pc[u] /\ exit'[u] = exit[u]
          BY <2>9 DEF vTaskPlaceOnEventList
        <4>4. WillLook("send") \subseteq WillLook("send")'
          BY <3>1, <3>3, <4>2, <4>3 DEF WillLook
        <4> QED
          BY <3>1, <4>2, <4>4, KeptNoLostSender DEF CountedBy
      <3> QED
        BY <3>2, <3>3
    <2>10. CASE UnlockTx(t)
      <3>1. /\ UNCHANGED <<items, cRxLock, xTasksWaitingToSend, op, exit>> /\ xTasksWaitingToReceive' \subseteq xTasksWaitingToReceive
            /\ pc[t] = "unlockTx" /\ pc' = [pc EXCEPT ![t] = "unlockRx"]
        BY <2>10, HeadsFact DEF UnlockTx
      <3>2. WillLook("send") \subseteq WillLook("send")'
        BY <3>1 DEF WillLook
      <3> QED
        BY <3>1, <3>2, KeptNoLostSender DEF CountedBy
    <2>11. CASE UnlockRx(t)
      <3>1. PICK W \in Heads(xTasksWaitingToSend, cRxLock) : xTasksWaitingToSend' = xTasksWaitingToSend \ W
        BY <2>11 DEF UnlockRx
      <3>2. /\ UNCHANGED <<items, xTasksWaitingToReceive, op, exit>> /\ cRxLock' = queueUNLOCKED /\ cRxLock \in Nat
            /\ pc[t] = "unlockRx" /\ pc' = [pc EXCEPT ![t] = "resume"]
        BY <2>11 DEF UnlockRx, WindowInv, queueUNLOCKED
      <3>3. /\ WillLook("send") \cap W = {}
            /\ WillLook("send") \cup W \subseteq WillLook("send")'
        <4>1. W \subseteq xTasksWaitingToSend
          BY HeadsFact
        <4>2. WillLook("send") \cap W = {} /\ WillLook("send") \subseteq WillLook("send")'
          BY <3>1, <3>2, <4>1 DEF WillLook
        <4>3. W \subseteq WillLook("send")'
          BY <3>1, <3>2, <4>1 DEF WillLook, ListInv
        <4> QED
          BY <4>2, <4>3
      <3>4. (Length - Len(items')) - CountedBy(cRxLock)' <= (Length - Len(items)) - CountedBy(cRxLock) + cRxLock
        BY <3>2 DEF CountedBy, queueUNLOCKED
      <3> QED
        BY <3>1, <3>2, <3>3, <3>4, WokenNoLostSender
    <2>12. CASE xTaskResumeAll(t)
      <3>1. /\ UNCHANGED <<items, cRxLock, op>> /\ pc[t] = "resume"
            /\ xTasksWaitingToSend' \subseteq xTasksWaitingToSend
            /\ xTasksWaitingToReceive' \subseteq xTasksWaitingToReceive
            /\ \A u \in Task \ {t} : pc'[u] = pc[u] /\ exit'[u] = exit[u]
            /\ exit[t] = "block" => pc'[t] \in {"enter", "yield"}
        BY <2>12 DEF xTaskResumeAll, Unblock, AfterResume
      <3>2. WillLook("send") \subseteq WillLook("send")'
        BY <3>1 DEF WillLook
      <3> QED
        BY <3>1, <3>2, KeptNoLostSender DEF CountedBy
    <2>13. CASE portYIELD(t)
      <3>1. /\ UNCHANGED <<items, eventLists>> /\ CountedBy(cRxLock)' = CountedBy(cRxLock)
        BY <2>13 DEF portYIELD, CountedBy, ListInv
      <3>2. WillLook("send") \subseteq WillLook("send")'
        BY <2>13 DEF portYIELD, WillLook, ListInv
      <3>3. (Length - Len(items')) - CountedBy(cRxLock)' <= (Length - Len(items)) - CountedBy(cRxLock)
        BY <3>1 DEF CountedBy
      <3> QED
        BY <3>1, <3>2, <3>3, KeptNoLostSender
    <2>14. CASE TimedOut(t)
      <3>1. /\ UNCHANGED <<items, eventLists>> /\ CountedBy(cRxLock)' = CountedBy(cRxLock)
        BY <2>14, TimedOutStep DEF TimedOut, CountedBy
      <3>2. WillLook("send") \subseteq WillLook("send")'
        BY <2>14, TimedOutStep DEF TimedOut, WillLook
      <3>3. (Length - Len(items')) - CountedBy(cRxLock)' <= (Length - Len(items)) - CountedBy(cRxLock)
        BY <3>1 DEF CountedBy
      <3> QED
        BY <3>1, <3>2, <3>3, KeptNoLostSender
    <2>15. CASE DelayPlace(t)
      <3>1. /\ UNCHANGED <<items, eventLists>> /\ CountedBy(cRxLock)' = CountedBy(cRxLock)
        BY <2>15 DEF DelayPlace, CountedBy, WindowInv
      <3>2. WillLook("send") \subseteq WillLook("send")'
        BY <2>15 DEF DelayPlace, WillLook, WindowInv
      <3>3. (Length - Len(items')) - CountedBy(cRxLock)' <= (Length - Len(items)) - CountedBy(cRxLock)
        BY <3>1 DEF CountedBy
      <3> QED
        BY <3>1, <3>2, <3>3, KeptNoLostSender
    <2>16. CASE DelayReturn(t)
      <3>1. /\ UNCHANGED <<items, eventLists>> /\ CountedBy(cRxLock)' = CountedBy(cRxLock)
        BY <2>16 DEF DelayReturn, CountedBy
      <3>2. WillLook("send") \subseteq WillLook("send")'
        BY <2>16 DEF DelayReturn, WillLook
      <3>3. (Length - Len(items')) - CountedBy(cRxLock)' <= (Length - Len(items)) - CountedBy(cRxLock)
        BY <3>1 DEF CountedBy
      <3> QED
        BY <3>1, <3>2, <3>3, KeptNoLostSender
    <2> QED
      BY <1>7, <2>1, <2>2, <2>3, <2>4, <2>5, <2>6, <2>7, <2>8, <2>9, <2>10,
         <2>11, <2>12, <2>13, <2>14, <2>15, <2>16 DEF CallStep
  <1>8. CASE UNCHANGED vars
    BY <1>8, KeptNoLostSender DEF vars, WillLook, CountedBy
  <1> QED
    BY <1>1, <1>2, <1>3, <1>4, <1>5, <1>6, <1>7, <1>8 DEF Next, Interrupt

-----------------------------------------------------------------------------
(* The inductive invariant, and what follows from it. *)

LEMMA IInvInit == Init => IInv
  <1> SUFFICES ASSUME Init PROVE IInv
    OBVIOUS
  <1>1. NoLostReceiver /\ NoLostSender
    BY DEF Init, NoLostReceiver, NoLostSender
  <1> QED
    BY <1>1, TypeInit, WindowInit, CallInit, ListInit, YieldInit, ClockInit, PlaceInit
       DEF IInv

LEMMA IInvNext == IInv /\ [Next]_vars => IInv'
  <1> SUFFICES ASSUME IInv, [Next]_vars PROVE IInv'
    OBVIOUS
  <1>1. TypeOK' /\ WindowInv' /\ CallInv' /\ ListInv' /\ YieldInv' /\ ClockInv' /\ PlaceInv'
    BY TypeNext, WindowNext, CallNext, ListNext, YieldNext, ClockNext, PlaceNext DEF IInv
  <1>2. NoLostReceiver' /\ NoLostSender'
    BY <1>1, NoLostReceiverNext, NoLostSenderNext DEF IInv
  <1> QED
    BY <1>1, <1>2 DEF IInv

\* In every reachable state the window, the lists, the pending switch, the
\* clocks and the counts of interrupts fit together.
THEOREM Inductive == Spec => []IInv
  BY IInvInit, IInvNext, PTL DEF Spec

\* While receivers sleep every stored item has a receiver on its way to it, for
\* any number of tasks and interrupts and any uxLength.
THEOREM ReceiversWoken == Spec => []NoLostReceiver
  <1>1. IInv => NoLostReceiver
    BY DEF IInv
  <1> QED
    BY <1>1, Inductive, PTL

\* The same for senders and free slots.
THEOREM SendersWoken == Spec => []NoLostSender
  <1>1. IInv => NoLostSender
    BY DEF IInv
  <1> QED
    BY <1>1, Inductive, PTL

\* A task that has put itself to sleep executes no more than what is left of
\* the locked window and the yield.
THEOREM SleepersStop == Spec => []BlockedTaskDoesNotRun
  <1>1. IInv => BlockedTaskDoesNotRun
    BY DEF IInv, TypeOK, WindowInv, Suspending, ListInv, BlockedTaskDoesNotRun
  <1> QED
    BY <1>1, Inductive, PTL

\* Fixed-priority preemption, through every wakeup, tick and suspended window.
THEOREM Preemptive == Spec => []HighestPriorityRuns
  <1>1. IInv => HighestPriorityRuns
    BY DEF IInv, YieldInv, HighestPriorityRuns
  <1> QED
    BY <1>1, Inductive, PTL

LEMMA ForeverStep == IInv /\ [Next]_vars =>
    \A p \in Task : wait[p] = "forever" /\ wait'[p] # "forever" => items' # items
  <1> SUFFICES ASSUME IInv, [Next]_vars
               PROVE  \A p \in Task : wait[p] = "forever" /\ wait'[p] # "forever" => items' # items
    OBVIOUS
  <1>0. TypeOK /\ ClockInv
    BY DEF IInv
  <1> USE <1>0, QueueAssumption DEF TypeOK, PCs, Runs, Goto, Return,
          queueVars, eventLists, schedVars, callVars
  <1>1. CASE vTaskSwitchContext
    BY <1>1 DEF vTaskSwitchContext
  <1>2. CASE xTaskIncrementTick
    BY <1>2 DEF xTaskIncrementTick
  <1>3. CASE ReceiveFromISR \/ ReceiveFromISRLocked
    BY <1>3 DEF ReceiveFromISR, ReceiveFromISRLocked
  <1>4. ASSUME NEW i \in Item, SendFromISR(i) \/ SendFromISRLocked(i)
        PROVE  \A p \in Task : wait[p] = "forever" /\ wait'[p] # "forever" => items' # items
    BY <1>4 DEF SendFromISR, SendFromISRLocked
  <1>5. CASE RefusedFromISR
    BY <1>5 DEF RefusedFromISR
  <1>6. ASSUME NEW t \in Task, NewCall(t)
        PROVE  \A p \in Task : wait[p] = "forever" /\ wait'[p] # "forever" => items' # items
    <2>1. pc[t] = "app" /\ \A u \in Task \ {t} : wait'[u] = wait[u]
      BY <1>6 DEF NewCall, Call, CallDelay
    <2>2. wait[t] = "zero"
      BY <2>1 DEF ClockInv
    <2> QED
      BY <2>1, <2>2
  <1>7. ASSUME NEW t \in Task, CallStep(t)
        PROVE  \A p \in Task : wait[p] = "forever" /\ wait'[p] # "forever" => items' # items
    <2>1. CASE SendPass(t)
      <3>1. Len(items') = Len(items) + 1
        BY <2>1 DEF SendPass, Refused
      <3> QED
        BY <3>1
    <2>2. CASE ReceivePass(t)
      <3>1. Len(items') = Len(items) - 1
        BY <2>2 DEF ReceivePass, Refused
      <3> QED
        BY <3>1
    <2>3. CASE EnterFail(t)
      BY <2>3 DEF EnterFail
    <2>4. CASE EnterWait(t)
      BY <2>4 DEF EnterWait
    <2>5. CASE vTaskSuspendAll(t)
      BY <2>5 DEF vTaskSuspendAll
    <2>6. CASE prvLockQueue(t)
      BY <2>6 DEF prvLockQueue
    <2>7. CASE xTaskCheckForTimeOut(t)
      BY <2>7, CheckStep DEF xTaskCheckForTimeOut, ClockInv
    <2>8. CASE TestBeforeBlocking(t)
      BY <2>8 DEF TestBeforeBlocking
    <2>9. CASE vTaskPlaceOnEventList(t)
      BY <2>9 DEF vTaskPlaceOnEventList
    <2>10. CASE UnlockTx(t)
      BY <2>10 DEF UnlockTx
    <2>11. CASE UnlockRx(t)
      BY <2>11 DEF UnlockRx
    <2>12. CASE xTaskResumeAll(t)
      BY <2>12 DEF xTaskResumeAll
    <2>13. CASE portYIELD(t)
      BY <2>13 DEF portYIELD
    <2>14. CASE TimedOut(t)
      BY <2>14, TimedOutStep DEF TimedOut, ClockInv
    <2>15. CASE DelayPlace(t)
      BY <2>15 DEF DelayPlace
    <2>16. CASE DelayReturn(t)
      BY <2>16 DEF DelayReturn, ClockInv
    <2> QED
      BY <1>7, <2>1, <2>2, <2>3, <2>4, <2>5, <2>6, <2>7, <2>8, <2>9, <2>10,
         <2>11, <2>12, <2>13, <2>14, <2>15, <2>16 DEF CallStep
  <1>8. CASE UNCHANGED vars
    BY <1>8 DEF vars
  <1> QED
    BY <1>1, <1>2, <1>3, <1>4, <1>5, <1>6, <1>7, <1>8 DEF Next, Interrupt

\* A call with portMAX_DELAY only comes back by taking effect.
THEOREM ForeverWaits == Spec => ForeverNeverFails
  <1>1. IInv /\ [Next]_vars => [EndsByMoving]_vars
    BY ForeverStep DEF EndsByMoving
  <1> QED
    BY <1>1, Inductive, PTL DEF Spec, ForeverNeverFails

-----------------------------------------------------------------------------
(* The chain of critical sections implements BoundedQueue: every step of    *)
(* KernelQueue is a step of the abstract queue or changes nothing of it.    *)


\* The values the abstract variables have (the substitution of Abstract).
call == [t \in Task |-> IF op[t] = "delay" THEN "none" ELSE op[t]]
patient == [t \in Task |-> wait[t] = "forever"]
refused == [t \in Task |-> op[t] # "delay" /\ clock[t] # "off"]
abstractVars == <<items, call, arg, patient, refused>>

-----------------------------------------------------------------------------

LEMMA InitMaps == Init => Abstract!Init
  <1> SUFFICES ASSUME Init PROVE Abstract!Init
    OBVIOUS
  <1>1. items = <<>> /\ arg = [t \in Task |-> NoItem]
    BY DEF Init
  <1>2. call = [t \in Task |-> "none"]
    BY DEF Init, call
  <1>3. patient = [t \in Task |-> FALSE]
    BY DEF Init, patient
  <1>4. refused = [t \in Task |-> FALSE]
    BY DEF Init, refused
  <1> QED
    BY <1>1, <1>2, <1>3, <1>4 DEF Abstract!Init, call, patient, refused

\* A step that leaves items and arg alone, and op, wait and clock up to what
\* the mapping tells apart, is a stuttering step.
LEMMA Stutter ==
    ASSUME UNCHANGED <<items, arg>>,
           \A t \in Task : call'[t] = call[t],
           \A t \in Task : patient'[t] = patient[t],
           \A t \in Task : refused'[t] = refused[t]
    PROVE  UNCHANGED abstractVars
  <1>1. call' = call
    BY DEF call
  <1>2. patient' = patient
    BY DEF patient
  <1>3. refused' = refused
    BY DEF refused
  <1> QED
    BY <1>1, <1>2, <1>3 DEF abstractVars

\* Returning ends the abstract call.
LEMMA ReturnFinishes ==
    ASSUME TypeOK, NEW t \in Task, Return(t)
    PROVE  Abstract!Finish(t)
  <1> USE DEF TypeOK, Return
  <1>1. call' = [call EXCEPT ![t] = "none"]
    BY DEF call
  <1>2. arg' = [arg EXCEPT ![t] = NoItem]
    OBVIOUS
  <1>3. patient' = [patient EXCEPT ![t] = FALSE]
    BY DEF patient
  <1>4. refused' = [refused EXCEPT ![t] = FALSE]
    BY DEF refused
  <1> QED
    BY <1>1, <1>2, <1>3, <1>4 DEF Abstract!Finish, call, patient, refused

\* The two ways of saying that the queue is in the way agree.
LEMMA RefusedIsBlocked ==
    ASSUME NEW t \in Task
    PROVE  Refused(t) <=> Abstract!Blocked(t)
  BY DEF Refused, Abstract!Blocked

-----------------------------------------------------------------------------
LEMMA StepMaps == IInv /\ [Next]_vars => Abstract!Next \/ UNCHANGED abstractVars
  <1> SUFFICES ASSUME IInv, [Next]_vars
               PROVE  Abstract!Next \/ UNCHANGED abstractVars
    OBVIOUS
  <1>0. TypeOK /\ CallInv /\ ClockInv
    BY DEF IInv
  <1> USE <1>0, QueueAssumption DEF TypeOK, PCs, Runs, Goto, Return,
          queueVars, eventLists, schedVars, callVars
  <1>1. CASE vTaskSwitchContext
    <2>1. /\ UNCHANGED <<items, arg, op, wait>>
          /\ \A u \in Task : clock'[u] # "off" <=> clock[u] # "off"
      BY <1>1 DEF vTaskSwitchContext
    <2> QED
      BY <2>1, Stutter DEF call, patient, refused
  <1>2. CASE xTaskIncrementTick
    <2>1. UNCHANGED <<items, arg, op, wait>>
      BY <1>2 DEF xTaskIncrementTick
    <2>2. \A u \in Task : clock'[u] # "off" <=> clock[u] # "off"
      <3>1. CASE uxSchedulerSuspended
        BY <1>2, <3>1 DEF xTaskIncrementTick
      <3>2. CASE ~uxSchedulerSuspended
        BY <1>2, <3>2 DEF xTaskIncrementTick, Unblock, Expiring
      <3> QED
        BY <3>1, <3>2
    <2> QED
      BY <2>1, <2>2, Stutter DEF call, patient, refused
  <1>3. CASE ReceiveFromISR \/ ReceiveFromISRLocked
    <2>1. /\ items # <<>> /\ items' = Tail(items)
          /\ UNCHANGED <<op, arg, wait, clock>>
      BY <1>3 DEF ReceiveFromISR, ReceiveFromISRLocked
    <2>2. UNCHANGED <<call, arg, patient, refused>>
      BY <2>1 DEF call, patient, refused
    <2>3. Abstract!Handle
      BY <2>1, <2>2 DEF Abstract!Handle, call, patient, refused
    <2> QED
      BY <2>3 DEF Abstract!Next
  <1>4. ASSUME NEW i \in Item, SendFromISR(i) \/ SendFromISRLocked(i)
        PROVE  Abstract!Next \/ UNCHANGED abstractVars
    <2>1. /\ Len(items) < Length /\ items' = Append(items, i)
          /\ UNCHANGED <<op, arg, wait, clock>>
      BY <1>4 DEF SendFromISR, SendFromISRLocked
    <2>2. UNCHANGED <<call, arg, patient, refused>>
      BY <2>1 DEF call, patient, refused
    <2>3. Abstract!Handle
      BY <2>1, <2>2 DEF Abstract!Handle, call, patient, refused
    <2> QED
      BY <2>3 DEF Abstract!Next
  <1>5. CASE RefusedFromISR
    <2>1. /\ UNCHANGED <<items, arg, op, wait>>
          /\ \A u \in Task : clock'[u] # "off" <=> clock[u] # "off"
      BY <1>5 DEF RefusedFromISR
    <2> QED
      BY <2>1, Stutter DEF call, patient, refused
  <1>6. ASSUME NEW t \in Task, NewCall(t)
        PROVE  Abstract!Next \/ UNCHANGED abstractVars
    <2>1. CASE CallDelay(t)
      <3>1. pc[t] = "app" /\ op[t] = "none" /\ wait[t] = "zero" /\ clock[t] = "off"
        BY <2>1 DEF CallDelay, CallInv, ClockInv
      <3>2. /\ UNCHANGED <<items, arg>>
            /\ \A u \in Task : call'[u] = call[u] /\ patient'[u] = patient[u] /\ refused'[u] = refused[u]
        BY <2>1, <3>1 DEF CallDelay, call, patient, refused
      <3> QED
        BY <3>2, Stutter
    <2>2. CASE ~CallDelay(t)
      <3>1. PICK w \in {"zero", "finite", "forever"} :
               \/ Call(t, "receive", NoItem, w)
               \/ \E i \in Item : Call(t, "send", i, w)
        BY <1>6, <2>2 DEF NewCall
      <3>2. /\ op[t] = "none" /\ clock[t] = "off" /\ arg[t] = NoItem
            /\ UNCHANGED <<items, clock>>
        BY <3>1 DEF Call, CallInv, ClockInv
      <3>3. patient' = [patient EXCEPT ![t] = (w = "forever")]
        BY <3>1 DEF Call, patient
      <3>4. UNCHANGED refused
        BY <3>1, <3>2 DEF Call, refused
      <3>5. call[t] = "none"
        BY <3>2 DEF call
      <3>6. CASE Call(t, "receive", NoItem, w)
        <4>1. call' = [call EXCEPT ![t] = "receive"]
          BY <3>6 DEF Call, call
        <4>2. UNCHANGED arg
          BY <3>2, <3>6 DEF Call
        <4>3. Abstract!Begin(t)
          BY <3>2, <3>3, <3>4, <3>5, <4>1, <4>2 DEF Abstract!Begin, call, patient, refused
        <4> QED
          BY <4>3 DEF Abstract!Next
      <3>7. CASE \E i \in Item : Call(t, "send", i, w)
        <4>1. PICK i \in Item : Call(t, "send", i, w)
          BY <3>7
        <4>2. call' = [call EXCEPT ![t] = "send"]
          BY <4>1 DEF Call, call
        <4>3. arg' = [arg EXCEPT ![t] = i]
          BY <4>1 DEF Call
        <4>4. Abstract!Begin(t)
          BY <3>2, <3>3, <3>4, <3>5, <4>2, <4>3 DEF Abstract!Begin, call, patient, refused
        <4> QED
          BY <4>4 DEF Abstract!Next
      <3> QED
        BY <3>1, <3>6, <3>7
    <2> QED
      BY <2>1, <2>2
  <1>7. ASSUME NEW t \in Task, CallStep(t)
        PROVE  Abstract!Next \/ UNCHANGED abstractVars
    <2>1. CASE SendPass(t)
      <3>1. Abstract!Finish(t)
        BY <2>1, ReturnFinishes DEF SendPass
      <3>2. ~Abstract!Blocked(t)
        BY <2>1, RefusedIsBlocked DEF SendPass
      <3>3. items' = Append(items, arg[t]) /\ call[t] = "send"
        BY <2>1 DEF SendPass, call
      <3>4. Abstract!Send(t)
        BY <3>1, <3>2, <3>3 DEF Abstract!Send, call
      <3> QED
        BY <3>4 DEF Abstract!Next
    <2>2. CASE ReceivePass(t)
      <3>1. Abstract!Finish(t)
        BY <2>2, ReturnFinishes DEF ReceivePass
      <3>2. ~Abstract!Blocked(t)
        BY <2>2, RefusedIsBlocked DEF ReceivePass
      <3>3. items' = Tail(items) /\ call[t] = "receive"
        BY <2>2 DEF ReceivePass, call
      <3>4. Abstract!Receive(t)
        BY <3>1, <3>2, <3>3 DEF Abstract!Receive, call
      <3> QED
        BY <3>4 DEF Abstract!Next
    <2>3. CASE EnterFail(t)
      <3>1. Abstract!Finish(t)
        BY <2>3, ReturnFinishes DEF EnterFail
      <3>2. Abstract!Blocked(t)
        BY <2>3, RefusedIsBlocked DEF EnterFail
      <3>3. call[t] # "none" /\ ~patient[t] /\ UNCHANGED items
        BY <2>3 DEF EnterFail, Refused, call, patient
      <3>4. Abstract!GiveUp(t)
        BY <3>1, <3>2, <3>3 DEF Abstract!GiveUp, call, patient
      <3> QED
        BY <3>4 DEF Abstract!Next
    <2>4. CASE EnterWait(t)
      <3>1. Abstract!Blocked(t)
        BY <2>4, RefusedIsBlocked DEF EnterWait
      <3>2. UNCHANGED <<items, op, arg, wait>> /\ op[t] # "delay"
        BY <2>4 DEF EnterWait, Refused
      <3>3. refused' = [refused EXCEPT ![t] = TRUE]
        BY <2>4, <3>2 DEF EnterWait, refused
      <3>4. UNCHANGED call /\ UNCHANGED patient
        BY <3>2 DEF call, patient
      <3>5. Abstract!Refuse(t)
        BY <3>1, <3>2, <3>3, <3>4 DEF Abstract!Refuse, call, patient, refused
      <3> QED
        BY <3>5 DEF Abstract!Next
    <2>5. CASE vTaskSuspendAll(t)
      <3>1. UNCHANGED <<items, op, arg, wait, clock>>
        BY <2>5 DEF vTaskSuspendAll
      <3> QED
        BY <3>1, Stutter DEF call, patient, refused
    <2>6. CASE prvLockQueue(t)
      <3>1. UNCHANGED <<items, op, arg, wait, clock>>
        BY <2>6 DEF prvLockQueue
      <3> QED
        BY <3>1, Stutter DEF call, patient, refused
    <2>7. CASE xTaskCheckForTimeOut(t)
      <3>1. UNCHANGED <<items, op, arg, clock>>
        BY <2>7 DEF xTaskCheckForTimeOut
      <3>2. \A u \in Task : patient'[u] = patient[u]
        BY <2>7, CheckStep DEF patient, ClockInv
      <3> QED
        BY <3>1, <3>2, Stutter DEF call, refused
    <2>8. CASE TestBeforeBlocking(t)
      <3>1. UNCHANGED <<items, op, arg, wait, clock>>
        BY <2>8 DEF TestBeforeBlocking
      <3> QED
        BY <3>1, Stutter DEF call, patient, refused
    <2>9. CASE vTaskPlaceOnEventList(t)
      <3>1. UNCHANGED <<items, op, arg, wait, clock>>
        BY <2>9 DEF vTaskPlaceOnEventList
      <3> QED
        BY <3>1, Stutter DEF call, patient, refused
    <2>10. CASE UnlockTx(t)
      <3>1. UNCHANGED <<items, op, arg, wait, clock>>
        BY <2>10 DEF UnlockTx
      <3> QED
        BY <3>1, Stutter DEF call, patient, refused
    <2>11. CASE UnlockRx(t)
      <3>1. UNCHANGED <<items, op, arg, wait, clock>>
        BY <2>11 DEF UnlockRx
      <3> QED
        BY <3>1, Stutter DEF call, patient, refused
    <2>12. CASE xTaskResumeAll(t)
      <3>1. /\ UNCHANGED <<items, op, arg, wait>>
            /\ \A u \in Task : clock'[u] # "off" <=> clock[u] # "off"
        BY <2>12 DEF xTaskResumeAll, Unblock, Expiring
      <3> QED
        BY <3>1, Stutter DEF call, patient, refused
    <2>13. CASE portYIELD(t)
      <3>1. UNCHANGED <<items, op, arg, wait, clock>>
        BY <2>13 DEF portYIELD
      <3> QED
        BY <3>1, Stutter DEF call, patient, refused
    <2>14. CASE TimedOut(t)
      <3>1. pc[t] = "recheck" /\ UNCHANGED items
        BY <2>14 DEF TimedOut
      <3>2. /\ op[t] # "none" /\ op[t] # "delay"
            /\ wait[t] = "zero" /\ clock[t] = "expired"
        BY <3>1 DEF CallInv, ClockInv
      <3>3. CASE Return(t)
        <4>1. Abstract!Finish(t)
          BY <3>3, ReturnFinishes
        <4>2. call[t] # "none" /\ ~patient[t] /\ refused[t]
          BY <3>2 DEF call, patient, refused
        <4>3. Abstract!GiveUp(t)
          BY <3>1, <4>1, <4>2 DEF Abstract!GiveUp, call, patient, refused
        <4> QED
          BY <4>3 DEF Abstract!Next
      <3>4. CASE UNCHANGED <<op, arg, wait, clock>>
        BY <3>1, <3>4, Stutter DEF call, patient, refused
      <3> QED
        BY <2>14, <3>3, <3>4, TimedOutStep
    <2>15. CASE DelayPlace(t)
      <3>1. /\ UNCHANGED <<items, op, arg, wait>> /\ op[t] = "delay"
            /\ \A u \in Task \ {t} : clock'[u] = clock[u]
        BY <2>15 DEF DelayPlace, CallInv
      <3> QED
        BY <3>1, Stutter DEF call, patient, refused
    <2>16. CASE DelayReturn(t)
      <3>1. /\ op[t] = "delay" /\ wait[t] = "finite" /\ arg[t] = NoItem /\ UNCHANGED items
            /\ op' = [op EXCEPT ![t] = "none"] /\ arg' = [arg EXCEPT ![t] = NoItem]
            /\ wait' = [wait EXCEPT ![t] = "zero"] /\ clock' = [clock EXCEPT ![t] = "off"]
        BY <2>16 DEF DelayReturn, CallInv, ClockInv
      <3>2. UNCHANGED arg
        BY <3>1
      <3> QED
        BY <3>1, <3>2, Stutter DEF call, patient, refused
    <2> QED
      BY <1>7, <2>1, <2>2, <2>3, <2>4, <2>5, <2>6, <2>7, <2>8, <2>9, <2>10,
         <2>11, <2>12, <2>13, <2>14, <2>15, <2>16 DEF CallStep
  <1>8. CASE UNCHANGED vars
    BY <1>8, Stutter DEF vars, call, patient, refused
  <1> QED
    BY <1>1, <1>2, <1>3, <1>4, <1>5, <1>6, <1>7, <1>8 DEF Next, Interrupt

\* First in first out, nothing lost or duplicated, and no call fails unless the
\* queue has been in its way: for every number of tasks, items and slots.
THEOREM Refinement == Spec => ImplementsBoundedQueue
  <1>1. Init => Abstract!Init
    BY InitMaps
  <1>2. IInv /\ [Next]_vars => [Abstract!Next]_(Abstract!vars)
    <2>1. UNCHANGED abstractVars => UNCHANGED Abstract!vars
      BY DEF Abstract!vars, abstractVars, call, patient, refused
    <2> QED
      BY <2>1, StepMaps
  <1> QED
    BY <1>1, <1>2, Inductive, PTL DEF Spec, ImplementsBoundedQueue, Abstract!Spec

=============================================================================
