----------------------------- MODULE LwipTimer -----------------------------
(***************************************************************************)
(* The clock of the lwIP programs: TIM6 counts lwip_timer up every 10 ms,   *)
(* and LWIP_Polling (Project/Lwip_*/User/main.c) asks timer_expired         *)
(* (LWIP/lwip_app/arch/sys_arch.c) for each of its timers in turn whether   *)
(* to run the timer's work.  The counter is unsigned and wraps, and the     *)
(* interrupt may come between the two reads of it in timer_expired.         *)
(*                                                                          *)
(* since and gap are not in the program: they count true ticks, for the     *)
(* properties and for the assumption that the main loop comes round.        *)
(***************************************************************************)
EXTENDS Integers

CONSTANTS
    Timer,       \* the timers LWIP_Polling asks for
    NoTimer,     \* none of them
    Interval,    \* Interval[i]: tmr_interval of timer i, in ticks
    Width,       \* the number of values of lwip_timer (2^32)
    MaxGap       \* the most ticks between two tests of one timer

ASSUME TimerAssumption ==
    /\ NoTimer \notin Timer
    /\ Width \in Nat \ {0} /\ MaxGap \in Nat \ {0}
    /\ Interval \in [Timer -> Nat]
    /\ \A i \in Timer : Interval[i] >= 1 /\ Interval[i] + MaxGap <= Width

VARIABLES
    lwip_timer,
    last_time,   \* last_time[i]: what timer_expired stored for timer i
    expired,     \* the timer found expired whose last_time is not stored yet
    read,        \* what lwip_timer was when it was found expired
    since,       \* true ticks since lwip_timer had the value in last_time[i]
    gap          \* true ticks since timer i was last tested

vars == <<lwip_timer, last_time, expired, read, since, gap>>

Tick == 0 .. Width - 1

TypeOK ==
    /\ lwip_timer \in Tick
    /\ last_time \in [Timer -> Tick]
    /\ expired \in Timer \cup {NoTimer}
    /\ read \in Tick
    /\ since \in [Timer -> Nat]
    /\ gap \in [Timer -> 0 .. MaxGap]

\* Unsigned addition of one, and unsigned subtraction.
Incremented(a) == IF a = Width - 1 THEN 0 ELSE a + 1
Minus(a, b) == IF a >= b THEN a - b ELSE a - b + Width

Init ==
    /\ lwip_timer = 0
    /\ last_time = [i \in Timer |-> 0]
    /\ expired = NoTimer
    /\ read = 0
    /\ since = [i \in Timer |-> 0]
    /\ gap = [i \in Timer |-> 0]

\* The interrupt.  The main loop is assumed to come round in MaxGap ticks.
TIM6_IRQHandler ==
    /\ \A i \in Timer : gap[i] < MaxGap
    /\ lwip_timer' = Incremented(lwip_timer)
    /\ since' = [i \in Timer |-> since[i] + 1]
    /\ gap' = [i \in Timer |-> gap[i] + 1]
    /\ UNCHANGED <<last_time, expired, read>>

\* Mutant: the time to expire at is computed and compared.
ExpiredByDeadline(i) == lwip_timer >= last_time[i] + Interval[i]

\* Mutant: the deadline wraps and is compared as a number.
ExpiredByWrappedDeadline(i) ==
    lwip_timer >= Minus(last_time[i] + Interval[i], Width)

\* The comparison in timer_expired.
Expired(i) == Minus(lwip_timer, last_time[i]) >= Interval[i]

\* timer_expired(i) up to its first read of lwip_timer.
Test(i) ==
    /\ expired = NoTimer
    /\ expired' = IF Expired(i) THEN i ELSE NoTimer
    /\ read' = lwip_timer
    /\ gap' = [gap EXCEPT ![i] = 0]
    /\ UNCHANGED <<lwip_timer, last_time, since>>

\* The work of timer i in LWIP_Polling.  lwip_timer is not volatile: what is
\* stored comes from a second read of it, or is the value read by the test.
Run(i) ==
    /\ expired = i
    /\ \/ /\ last_time' = [last_time EXCEPT ![i] = lwip_timer]
          /\ since' = [since EXCEPT ![i] = 0]
       \/ /\ last_time' = [last_time EXCEPT ![i] = read]
          /\ since' = [since EXCEPT ![i] = gap[i]]
    /\ expired' = NoTimer
    /\ UNCHANGED <<lwip_timer, read, gap>>

\* The processor restarts.
Restart ==
    /\ lwip_timer' = 0
    /\ last_time' = [i \in Timer |-> 0]
    /\ expired' = NoTimer
    /\ read' = 0
    /\ since' = [i \in Timer |-> 0]
    /\ gap' = [i \in Timer |-> 0]

Next ==
    \/ TIM6_IRQHandler
    \/ \E i \in Timer : Test(i) \/ Run(i)
    \/ Restart

Spec == Init /\ [][Next]_vars

-----------------------------------------------------------------------------
(* Properties. *)

\* The work of a timer never runs before its interval is over, also across the
\* wrap of lwip_timer.
NeverEarly == \A i \in Timer : expired = i => since[i] >= Interval[i]

\* No expiry is overlooked, also across the wrap: the test that finds a timer
\* expired comes at most one round of the main loop late.
NeverOverlooked ==
    \A i \in Timer : expired # i => since[i] < Interval[i] + MaxGap

-----------------------------------------------------------------------------
(* The inductive invariant: the unsigned difference is the true one. *)

DifferenceInv ==
    \A i \in Timer :
        /\ since[i] < Width => Minus(lwip_timer, last_time[i]) = since[i]
        /\ expired # i => since[i] < Interval[i] + gap[i]
        /\ expired = i => since[i] >= Interval[i] /\ Minus(lwip_timer, read) = gap[i]

TimerInv == TypeOK /\ DifferenceInv
=============================================================================
