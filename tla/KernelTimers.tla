---------------------------- MODULE KernelTimers ----------------------------
(***************************************************************************)
(* The software timers (FreeRTOS_202012/timers.c): the timer service task,  *)
(* which is one more task of the kernel of KernelTicks, its two lists of    *)
(* active timers, its queue of commands, and the tasks that send them.      *)
(*                                                                          *)
(* Every step of the daemon that touches the kernel is a step of            *)
(* KernelTicks.  The callbacks change nothing of this and are part of the   *)
(* step that calls them.  The due ticks and the ages of commands are        *)
(* history: no guard of the code reads them.                                *)
(***************************************************************************)
EXTENDS KernelTicks, Sequences, Functions

CONSTANTS
    Daemon,        \* the timer service task; in AtStart[p] if p uses timers
    TimerUser,     \* the tasks that start and stop timers
    Timer,
    xTimerPeriodInTicks, AutoReload,    \* of each timer; which ones reload
    xTimerQueue,   \* the object the daemon waits for
    QueueLength,   \* configTIMER_QUEUE_LENGTH
    Off,           \* due of a timer that is not running
    MaxBehind      \* bound: the ticks a timer may be overdue, or a command old

ASSUME TimersAssumption ==
    /\ Daemon \in Task \ {Idle} /\ TimerUser \subseteq Task \ {Idle, Daemon}
    /\ xTimerPeriodInTicks \in [Timer -> Time \ {0}]
    /\ AutoReload \subseteq Timer
    /\ xTimerQueue \in Object /\ Off \notin Int
    /\ QueueLength \in Nat \ {0} /\ MaxBehind \in Nat
    /\ \A m \in Timer : xTimerPeriodInTicks[m] + MaxBehind < Width

\* configTIMER_TASK_PRIORITY is the highest, nothing but timers.c knows the
\* task or its queue, and there is room for a command of each timer.
ASSUME DaemonAssumption ==
    /\ \A t \in Task \ {Daemon} : Prio[t] < Prio[Daemon]
    /\ \A p \in Program :
          /\ Does[p][Daemon] \subseteq {[op |-> "poll", on |-> xTimerQueue]}
          /\ \A t \in Task : \A c \in Does[p][t] :
                c.op \in {"suspend", "delete"} => c.task # Daemon
          /\ [op |-> "notify", on |-> xTimerQueue] \notin Handles[p]
    /\ IsFiniteSet(Timer) /\ Cardinality(Timer) <= QueueLength

VARIABLES
    commands,      \* the messages in the timer queue
    pxCurrentTimerList, pxOverflowTimerList,
    expiry,        \* the item value of a timer in a list, else 0
    xLastTime,
    daemon,        \* where the daemon is, and its local variables
    sending,       \* the command each task is about to send
    due            \* history: the ticks until each running timer is due

timerVars == <<commands, pxCurrentTimerList, pxOverflowTimerList, expiry,
               xLastTime, daemon, sending, due>>
allVars == <<vars, timerVars>>

Listed == pxCurrentTimerList \cup pxOverflowTimerList

Command == [id : {"START", "STOP", "START_DONT_TRACE"}, timer : Timer,
            value : Time, age : Nat]
NoCommand == [id |-> "none"]

\* The daemon at a step of its loop that needs no local variable.
At(step) == [step |-> step, next |-> 0, empty |-> FALSE, now |-> 0, msg |-> NoCommand]

TimersInit ==
    /\ Init
    /\ commands = <<>>
    /\ pxCurrentTimerList = {} /\ pxOverflowTimerList = {}
    /\ expiry = [m \in Timer |-> 0]
    /\ xLastTime = 0
    /\ daemon = At("loop")
    /\ sending = [t \in Task |-> NoCommand]
    /\ due = [m \in Timer |-> Off]

TimersTypeOK ==
    /\ TypeOK
    /\ commands \in Seq(Command) /\ Len(commands) <= QueueLength
    /\ Listed \subseteq Timer
    /\ expiry \in [Timer -> Time]
    /\ xLastTime \in Time
    /\ daemon.step \in {"loop", "block", "switch", "expired", "commands", "sample",
                        "apply", "fire"}
    /\ daemon.next \in Time /\ daemon.now \in Time /\ daemon.empty \in BOOLEAN
    /\ daemon.msg \in Command \cup {NoCommand}
    /\ sending \in [Task -> Command \cup {NoCommand}]
    /\ due \in [Timer -> {Off} \cup Int]

-----------------------------------------------------------------------------
(* Time. *)

Older(c, n) == IF c = NoCommand THEN c ELSE [c EXCEPT !.age = @ + n]

\* What n counted ticks do to the history of timers and commands.
Age(n) ==
    /\ due' = [m \in Timer |-> IF due[m] = Off THEN Off ELSE due[m] - n]
    /\ commands' = [i \in DOMAIN commands |-> Older(commands[i], n)]
    /\ sending' = [t \in Task |-> Older(sending[t], n)]
    /\ daemon' = [daemon EXCEPT !.msg = Older(@, n)]

\* The ticks a step of the kernel counts.
Counted == IF xTickCount' >= xTickCount THEN xTickCount' - xTickCount
                                        ELSE xTickCount' - xTickCount + Width

\* Bound: no timer and no command falls further behind, pended ticks included.
KeepsUp ==
    /\ \A m \in Timer : due[m] # Off => due[m] - xPendedTicks >= -MaxBehind
    /\ \A c \in Range(commands) \cup Range(sending) \cup {daemon.msg} :
          c # NoCommand => c.age + xPendedTicks <= MaxBehind

\* A step of the kernel that is not the daemon's own code.
KernelStep ==
    /\ \/ xPortSysTickHandler
       \/ vTaskSwitchContext
       \/ xTaskResumeFromISR
       \/ NotifyFromISR
       \/ IdleStep
       \/ \E t \in Task : Window(t)
       \/ \E t \in Task \ {Daemon} : Stay(t, "retry")
       \/ \E t \in Task \ {Daemon} :
             /\ sending[t] = NoCommand
             /\ AppCall(t) \/ \E o \in Object \ {xTimerQueue} : Notify(t, o)
    /\ Age(Counted) /\ KeepsUp'
    /\ UNCHANGED <<pxCurrentTimerList, pxOverflowTimerList, expiry, xLastTime>>

-----------------------------------------------------------------------------
(* The tasks that use timers: xTimerGenericCommand without waiting. *)

UsesTimers(t) ==
    /\ t \in TimerUser /\ {t, Daemon} \subseteq tasks
    /\ Runs(t) /\ pc[t] = "app"

\* xTimerStart reads the tick count before it is called; xTimerStop does not.
ReadTime(t) ==
    /\ UsesTimers(t) /\ sending[t] = NoCommand
    /\ \E id \in {"START", "STOP"}, m \in Timer :
          sending' = [sending EXCEPT ![t] =
              [id |-> id, timer |-> m, age |-> 0,
               value |-> IF id = "START" THEN xTickCount ELSE 0]]
    /\ UNCHANGED <<vars, commands, pxCurrentTimerList, pxOverflowTimerList, expiry,
                   xLastTime, daemon, due>>

\* The command is queued, and the daemon woken if it waits for one; or it is
\* refused, the queue being full.
xTimerGenericCommand(t) ==
    /\ UsesTimers(t) /\ sending[t] # NoCommand
    /\ sending' = [sending EXCEPT ![t] = NoCommand]
    /\ IF Len(commands) = QueueLength
       THEN UNCHANGED <<vars, commands>>
       ELSE /\ commands' = Append(commands, sending[t])
            /\ IF First(xTimerQueue) = {} THEN UNCHANGED vars ELSE Notify(t, xTimerQueue)
    /\ UNCHANGED <<pxCurrentTimerList, pxOverflowTimerList, expiry, xLastTime,
                   daemon, due>>

-----------------------------------------------------------------------------
(* The daemon: prvTimerTask. *)

DaemonAt(step) == Runs(Daemon) /\ daemon.step = step

Period(m) == xTimerPeriodInTicks[m]

\* Sum in the width of TickType_t.
Plus(a, b) == IF a + b < Width THEN a + b ELSE a + b - Width

\* The timers that may be at the head of the current list.
Heads == {m \in pxCurrentTimerList : \A k \in pxCurrentTimerList : expiry[m] <= expiry[k]}

Put(m, e, current, overflow) ==
    /\ pxCurrentTimerList' = current
    /\ pxOverflowTimerList' = overflow
    /\ expiry' = [expiry EXCEPT ![m] = e]

\* The timer is in no list.
Remove(m) == Put(m, 0, pxCurrentTimerList \ {m}, pxOverflowTimerList \ {m})

\* Mutant: a wrap of the tick count since the command is not thought of.
PassedByNoWrap(m, e, now, start) ==
    e <= now /\ (IF now >= start THEN now - start ELSE now - start + Width) >= Period(m)

\* prvInsertTimerInActiveList says that the time e came before the timer was
\* put in a list.
PassedBy(m, e, now, start) ==
    IF e <= now
    THEN (IF now >= start THEN now - start ELSE now - start + Width) >= Period(m)
    ELSE now < start /\ e >= start

\* prvInsertTimerInActiveList, when it did not.
Insert(m, e, now) ==
    IF e <= now
    THEN Put(m, e, pxCurrentTimerList \ {m}, pxOverflowTimerList \cup {m})
    ELSE Put(m, e, pxCurrentTimerList \cup {m}, pxOverflowTimerList \ {m})

\* The daemon's own START_DONT_TRACE, which it never waits for.  In the full
\* queue it would be lost: configASSERT( xResult ).
SendToSelf(m, value) ==
    /\ Len(commands) < QueueLength
    /\ commands' = Append(commands, [id |-> "START_DONT_TRACE", timer |-> m,
                                     value |-> value, age |-> 0])

\* The callback of m is called: an auto-reload timer is due again a period
\* after it was, and another runs no more.
Fired(m) == [due EXCEPT ![m] = IF m \in AutoReload THEN @ + Period(m) ELSE Off]

\* prvGetNextExpireTime, and the call of prvProcessTimerOrBlockTask.
prvGetNextExpireTime ==
    /\ DaemonAt("loop")
    /\ Poll(Daemon)
    /\ \E next \in IF pxCurrentTimerList = {} THEN {0} ELSE {expiry[m] : m \in Heads} :
          daemon' = [At("block") EXCEPT !.next = next, !.empty = (pxCurrentTimerList = {})]
    /\ UNCHANGED <<commands, pxCurrentTimerList, pxOverflowTimerList, expiry,
                   xLastTime, sending, due>>

\* prvSampleTimeNow finds that the tick count has wrapped since the daemon
\* last read it: the lists are to be switched, before the window goes on or
\* the command is processed.
SampleWrapped ==
    /\ Runs(Daemon)
    /\ \/ daemon.step = "block" /\ pc[Daemon] = "place"
       \/ daemon.step = "sample"
    /\ xTickCount < xLastTime
    /\ daemon' = [daemon EXCEPT !.step = "switch", !.now = xTickCount]
    /\ UNCHANGED <<vars, commands, pxCurrentTimerList, pxOverflowTimerList, expiry,
                   xLastTime, sending, due>>

\* prvProcessTimerOrBlockTask in the suspended window.  The time of the first
\* timer has come: it is processed when the window is closed.
BlockExpired ==
    /\ DaemonAt("block") /\ xTickCount >= xLastTime
    /\ ~daemon.empty /\ daemon.next <= xTickCount
    /\ Stay(Daemon, "retry")
    /\ daemon' = [At("expired") EXCEPT !.next = daemon.next, !.now = xTickCount]
    /\ xLastTime' = xTickCount
    /\ UNCHANGED <<commands, pxCurrentTimerList, pxOverflowTimerList, expiry, sending, due>>

\* Mutant: the timers of the other list are not thought of.
NoTimersCurrent == daemon.empty

NoTimers == daemon.empty /\ pxOverflowTimerList = {}

\* It has not come: the daemon sleeps until then, until the tick count wraps
\* if the only timers are in the other list, and without limit if there are
\* none; unless a command has arrived.
BlockWait ==
    /\ DaemonAt("block") /\ xTickCount >= xLastTime
    /\ daemon.empty \/ daemon.next > xTickCount
    /\ LET n == IF daemon.next >= xTickCount THEN daemon.next - xTickCount
                                             ELSE daemon.next - xTickCount + Width
       IN IF commands = <<>> THEN PollPlace(Daemon, n, NoTimers) ELSE Stay(Daemon, "block")
    /\ daemon' = At("commands")
    /\ xLastTime' = xTickCount
    /\ UNCHANGED <<commands, pxCurrentTimerList, pxOverflowTimerList, expiry, sending, due>>

\* The loop of prvSwitchTimerLists: the timers left in the current list have
\* expired.
SwitchFire ==
    /\ DaemonAt("switch")
    /\ \E m \in Heads :
          /\ due' = Fired(m)
          /\ IF m \notin AutoReload
             THEN Remove(m) /\ UNCHANGED commands
             ELSE IF Plus(expiry[m], Period(m)) > expiry[m]
             THEN /\ Put(m, Plus(expiry[m], Period(m)), pxCurrentTimerList, pxOverflowTimerList)
                  /\ UNCHANGED commands
             ELSE Remove(m) /\ SendToSelf(m, expiry[m])
    /\ UNCHANGED <<vars, xLastTime, daemon, sending>>

\* Its end.
SwitchLists ==
    /\ DaemonAt("switch") /\ pxCurrentTimerList = {}
    /\ pxCurrentTimerList' = pxOverflowTimerList
    /\ pxOverflowTimerList' = pxCurrentTimerList
    /\ xLastTime' = daemon.now
    /\ IF daemon.msg = NoCommand
       THEN daemon' = At("commands") /\ Stay(Daemon, "retry")
       ELSE daemon' = [daemon EXCEPT !.step = "apply"] /\ UNCHANGED vars
    /\ UNCHANGED <<commands, expiry, sending, due>>

prvProcessExpiredTimer ==
    /\ DaemonAt("expired") /\ pc[Daemon] = "app"
    /\ \E m \in Heads :
          LET e == Plus(daemon.next, Period(m))
          IN /\ due' = Fired(m)
             /\ IF m \notin AutoReload
                THEN Remove(m) /\ UNCHANGED commands
                ELSE IF PassedBy(m, e, daemon.now, daemon.next)
                THEN Remove(m) /\ SendToSelf(m, daemon.next)
                ELSE Insert(m, e, daemon.now) /\ UNCHANGED commands
    /\ daemon' = At("commands")
    /\ UNCHANGED <<vars, xLastTime, sending>>

\* prvProcessReceivedCommands: the queue is empty.
NoMoreCommands ==
    /\ DaemonAt("commands") /\ pc[Daemon] = "app" /\ commands = <<>>
    /\ daemon' = At("loop")
    /\ UNCHANGED <<vars, commands, pxCurrentTimerList, pxOverflowTimerList, expiry,
                   xLastTime, sending, due>>

\* A command is received and its timer leaves the list it is in.
ReceiveCommand ==
    /\ DaemonAt("commands") /\ pc[Daemon] = "app" /\ commands # <<>>
    /\ commands' = Tail(commands)
    /\ Remove(Head(commands).timer)
    /\ daemon' = [At("sample") EXCEPT !.msg = Head(commands)]
    /\ UNCHANGED <<vars, xLastTime, sending, due>>

SampleForCommand ==
    /\ DaemonAt("sample") /\ xTickCount >= xLastTime
    /\ xLastTime' = xTickCount
    /\ daemon' = [daemon EXCEPT !.step = "apply", !.now = xTickCount]
    /\ UNCHANGED <<vars, commands, pxCurrentTimerList, pxOverflowTimerList, expiry,
                   sending, due>>

ApplyStop ==
    /\ DaemonAt("apply") /\ daemon.msg.id = "STOP"
    /\ due' = [due EXCEPT ![daemon.msg.timer] = Off]
    /\ daemon' = At("commands")
    /\ UNCHANGED <<vars, commands, pxCurrentTimerList, pxOverflowTimerList, expiry,
                   xLastTime, sending>>

\* A timer is started or goes on, unless its time has passed already.
ApplyStart ==
    /\ DaemonAt("apply") /\ daemon.msg.id # "STOP"
    /\ LET m == daemon.msg.timer
           e == Plus(daemon.msg.value, Period(m))
       IN /\ due' = IF daemon.msg.id = "START"
                    THEN [due EXCEPT ![m] = Period(m) - daemon.msg.age] ELSE due
          /\ IF PassedBy(m, e, daemon.now, daemon.msg.value)
             THEN /\ daemon' = [daemon EXCEPT !.step = "fire"]
                  /\ UNCHANGED <<pxCurrentTimerList, pxOverflowTimerList, expiry>>
             ELSE Insert(m, e, daemon.now) /\ daemon' = At("commands")
    /\ UNCHANGED <<vars, commands, xLastTime, sending>>

\* The callback of a timer whose time had passed.
ApplyFire ==
    /\ DaemonAt("fire")
    /\ LET m == daemon.msg.timer
       IN /\ due' = Fired(m)
          /\ IF m \in AutoReload
             THEN SendToSelf(m, Plus(daemon.msg.value, Period(m)))
             ELSE UNCHANGED commands
    /\ daemon' = At("commands")
    /\ UNCHANGED <<vars, pxCurrentTimerList, pxOverflowTimerList, expiry, xLastTime,
                   sending>>

prvTimerTask ==
    \/ prvGetNextExpireTime
    \/ SampleWrapped
    \/ BlockExpired
    \/ BlockWait
    \/ SwitchFire
    \/ SwitchLists
    \/ prvProcessExpiredTimer
    \/ NoMoreCommands
    \/ ReceiveCommand
    \/ SampleForCommand
    \/ ApplyStop
    \/ ApplyStart
    \/ ApplyFire

TimersNext ==
    \/ KernelStep
    \/ \E t \in Task : ReadTime(t) \/ xTimerGenericCommand(t)
    \/ prvTimerTask

TimersSpec == TimersInit /\ [][TimersNext]_allVars

-----------------------------------------------------------------------------
\* The command the daemon is at says that timer m goes on.
InHand(m) == daemon.msg # NoCommand /\ daemon.msg.timer = m

Restarts(m) ==
    \E i \in DOMAIN commands : /\ commands[i].id = "START_DONT_TRACE"
                               /\ commands[i].timer = m

\* The turn of the tick count, after the one its lists are in, in which the
\* daemon has not found it yet.
Turn == IF daemon.step = "switch" \/ xTickCount < xLastTime THEN Width ELSE 0

(* The lists hold each running timer once, and no other, and the times in   *)
(* them mean the tick at which it is due: in the current list the turn of   *)
(* the tick count the daemon last read, in the other list the next turn,    *)
(* before and after the wrap.  A timer that is called is due, and was not   *)
(* stopped; and the daemon's commands to itself find room in the queue      *)
(* (prvProcessExpiredTimer and the others assert it).                       *)
TimerInv ==
    /\ pxCurrentTimerList \cap pxOverflowTimerList = {}
    /\ \A m \in pxCurrentTimerList : due[m] # Off /\ due[m] = expiry[m] - xTickCount - Turn
    /\ \A m \in pxOverflowTimerList :
          due[m] # Off /\ due[m] = expiry[m] - xTickCount - Turn + Width
    /\ \A m \in Timer \ Listed : due[m] # Off => InHand(m) \/ Restarts(m)
    /\ \A m \in Timer :
          /\ \/ daemon.step = "expired" /\ m \in Heads
             \/ daemon.step = "switch" /\ m \in pxCurrentTimerList
             \/ daemon.step = "fire" /\ m = daemon.msg.timer
          => due[m] # Off /\ due[m] <= 0 /\ Len(commands) < QueueLength

(* While the daemon waits with no command under way it wakes no later than  *)
(* the first timer is due, be that after the wrap.                          *)
DaemonWakesInTime ==
    xEventListItem[Daemon] = xTimerQueue =>
        /\ commands = <<>>
        /\ \A m \in Timer : due[m] # Off => Daemon \in Delayed /\ Left(Daemon) <= due[m]
=============================================================================
