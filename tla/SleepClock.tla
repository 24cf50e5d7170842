----------------------------- MODULE SleepClock -----------------------------
(***************************************************************************)
(* What the kernel promises a task that sleeps: it sleeps the ticks it      *)
(* asked for, although the clock that measures them wraps, unless its event *)
(* or a suspension ends the wait first; and a suspended task is woken by    *)
(* nothing but a resume.                                                    *)
(***************************************************************************)
EXTENDS Integers

CONSTANTS
    Task,
    Width      \* the clock counts modulo Width

VARIABLES
    now,       \* the clock
    left,      \* the ticks each task still sleeps; 0 when it does not
    stopped    \* the suspended tasks

vars == <<now, left, stopped>>

Init ==
    /\ now = 0
    /\ left = [t \in Task |-> 0]
    /\ stopped = {}

\* A task goes to sleep for n ticks.
Sleep(t, n) ==
    /\ left[t] = 0 /\ t \notin stopped
    /\ left' = [left EXCEPT ![t] = n]
    /\ UNCHANGED <<now, stopped>>

\* n ticks pass, which take no sleeper past its end.  Those that reach the
\* end are awake.
Pass(n) ==
    /\ now' = IF now + n < Width THEN now + n ELSE now + n - Width
    /\ left' = [t \in Task |-> IF left[t] = 0 THEN 0 ELSE left[t] - n]
    /\ UNCHANGED stopped

Tick == Pass(1)

\* Ticks that nobody was awake to count: they reach the end of no sleep.
Jump(n) ==
    /\ \A t \in Task : left[t] = 0 \/ left[t] > n
    /\ Pass(n)

\* The events of sleeping tasks come before their time.
Wake(S) ==
    /\ left' = [t \in Task |-> IF t \in S THEN 0 ELSE left[t]]
    /\ UNCHANGED <<now, stopped>>

\* A task, asleep or not, is suspended.
Stop(t) ==
    /\ stopped' = stopped \cup {t}
    /\ left' = [left EXCEPT ![t] = 0]
    /\ UNCHANGED now

Resume(t) ==
    /\ t \in stopped
    /\ stopped' = stopped \ {t}
    /\ UNCHANGED <<now, left>>

\* A task is deleted.
Delete(t) ==
    /\ stopped' = stopped \ {t}
    /\ left' = [left EXCEPT ![t] = 0]
    /\ UNCHANGED now

Next ==
    \/ \E t \in Task, n \in 1 .. Width - 1 : Sleep(t, n)
    \/ Tick
    \/ \E n \in 1 .. Width - 1 : Jump(n)
    \/ \E S \in SUBSET Task : Wake(S)
    \/ \E t \in Task : Stop(t) \/ Resume(t) \/ Delete(t)

Spec == Init /\ [][Next]_vars
=============================================================================
