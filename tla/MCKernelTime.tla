---------------------------- MODULE MCKernelTime ----------------------------
(* The programs of src/Project whose tasks sleep, wait with a limit, are     *)
(* suspended or use software timers, with their periods scaled down, and one *)
(* that makes the calls no program makes.                                    *)
EXTENDS KernelTimers

CONSTANTS start, low, mid, high, daemon_task, idle, room, item, timerQueue, once, again

MCPrio == [t \in Task |->
    CASE t = idle -> 0 [] t = start -> 1 [] t = low -> 2 [] t = mid -> 3 [] t = high -> 4 [] OTHER -> 31]

Delay(n) == [op |-> "delay", ticks |-> n]
WaitFor(o, n) == [op |-> "wait", on |-> o, ticks |-> n]
NotifyOf(o) == [op |-> "notify", on |-> o]
PollOf(o) == [op |-> "poll", on |-> o]
SuspendOf(t) == [op |-> "suspend", task |-> t]
ResumeOf(t) == [op |-> "resume", task |-> t]
DeleteOf(t) == [op |-> "delete", task |-> t]
Create(S) == [op |-> "start", new |-> S]

MCTasks == [p \in Program |->
    CASE p = "timers" -> {low}
      [] p \in {"suspend", "mix"} -> {low, mid, high}
      [] OTHER -> {low, mid}]

MCAtStart == [p \in Program |->
    CASE p = "timers" -> {start, daemon_task, idle}
      [] p = "mix"    -> {low, mid, high, idle}
      [] OTHER        -> {start, idle}]

MCDoes == [p \in Program |-> [t \in Task |->
    CASE t = start -> {Create(MCTasks[p])}
      [] p = "suspend" /\ t = low -> {Delay(1), SuspendOf(mid), ResumeOf(mid), SuspendOf(high)}
      [] p = "suspend" /\ t = mid -> {Delay(3)}
      [] p = "suspend" /\ t = high -> {Delay(2)}
      [] p = "keys" /\ t = low -> {Delay(1), WaitFor(room, 2), NotifyOf(item)}
      [] p = "keys" /\ t = mid -> {Delay(1), WaitFor(item, portMAX_DELAY), NotifyOf(room)}
      [] p = "tickless" /\ t = low -> {Delay(3)}
      [] p = "tickless" /\ t = mid -> {WaitFor(item, portMAX_DELAY), WaitFor(item, 2)}
      [] p = "timers" /\ t = low -> {Delay(1), NotifyOf(timerQueue)}
      [] p = "timers" /\ t = daemon_task -> {PollOf(timerQueue)}
      [] p = "delete" /\ t = low -> {Delay(2), DeleteOf(mid)}
      [] p = "delete" /\ t = mid -> {Delay(1), Delay(4), WaitFor(item, 3)}
      [] p = "mix" /\ t = low -> {Delay(1), SuspendOf(mid), ResumeOf(mid), NotifyOf(item)}
      [] p = "mix" /\ t = mid -> {WaitFor(item, 2), WaitFor(item, portMAX_DELAY), Delay(3)}
      [] p = "mix" /\ t = high -> {Delay(2), SuspendOf(high)}
      [] OTHER -> {}]]

MCHandles == [p \in Program |->
    CASE p = "suspend"  -> {ResumeOf(high)}
      [] p = "tickless" -> {NotifyOf(item)}
      [] p = "mix"      -> {NotifyOf(item), ResumeOf(high)}
      [] OTHER          -> {}]

MCPeriod == [m \in Timer |-> IF m = again THEN 2 ELSE 3]
=============================================================================
