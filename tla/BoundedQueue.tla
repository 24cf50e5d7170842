---------------------------- MODULE BoundedQueue ----------------------------
(***************************************************************************)
(* What the kernel queue promises its callers: a bounded first-in first-out *)
(* queue on which a call takes effect at one instant between its start and  *)
(* its return.  A call that returns without effect has, while it was in     *)
(* progress, found the queue full (a send) or empty (a receive), and a call *)
(* made with portMAX_DELAY never returns without effect.                    *)
(***************************************************************************)
EXTENDS Naturals, Sequences

CONSTANTS Task, Item, NoItem, Length

VARIABLES
    buffer,    \* the items in the queue, oldest first
    call,      \* what each task is asking for: "none", "send" or "receive"
    carried,   \* the item a sending task brings
    patient,   \* whether the task waits for ever
    refused    \* whether the queue has been in the way of the task's call

vars == <<buffer, call, carried, patient, refused>>

Blocked(t) ==
    \/ call[t] = "send" /\ Len(buffer) = Length
    \/ call[t] = "receive" /\ buffer = <<>>

Init ==
    /\ buffer = <<>>
    /\ call = [t \in Task |-> "none"]
    /\ carried = [t \in Task |-> NoItem]
    /\ patient = [t \in Task |-> FALSE]
    /\ refused = [t \in Task |-> FALSE]

Begin(t) ==
    /\ call[t] = "none"
    /\ \/ /\ call' = [call EXCEPT ![t] = "receive"]
          /\ UNCHANGED carried
       \/ /\ call' = [call EXCEPT ![t] = "send"]
          /\ \E i \in Item : carried' = [carried EXCEPT ![t] = i]
    /\ \E p \in BOOLEAN : patient' = [patient EXCEPT ![t] = p]
    /\ UNCHANGED <<buffer, refused>>

Finish(t) ==
    /\ call' = [call EXCEPT ![t] = "none"]
    /\ carried' = [carried EXCEPT ![t] = NoItem]
    /\ patient' = [patient EXCEPT ![t] = FALSE]
    /\ refused' = [refused EXCEPT ![t] = FALSE]

Send(t) ==
    /\ call[t] = "send" /\ ~Blocked(t)
    /\ buffer' = Append(buffer, carried[t])
    /\ Finish(t)

Receive(t) ==
    /\ call[t] = "receive" /\ ~Blocked(t)
    /\ buffer' = Tail(buffer)
    /\ Finish(t)

\* The queue is in the way of the call, at some moment while it lasts.
Refuse(t) ==
    /\ Blocked(t)
    /\ refused' = [refused EXCEPT ![t] = TRUE]
    /\ UNCHANGED <<buffer, call, carried, patient>>

GiveUp(t) ==
    /\ call[t] # "none" /\ ~patient[t]
    /\ refused[t] \/ Blocked(t)
    /\ Finish(t)
    /\ UNCHANGED buffer

\* An interrupt handler posts or removes an item.
Handle ==
    /\ \/ Len(buffer) < Length /\ \E i \in Item : buffer' = Append(buffer, i)
       \/ buffer # <<>> /\ buffer' = Tail(buffer)
    /\ UNCHANGED <<call, carried, patient, refused>>

Next ==
    \/ \E t \in Task : Begin(t) \/ Send(t) \/ Receive(t) \/ Refuse(t) \/ GiveUp(t)
    \/ Handle

Spec == Init /\ [][Next]_vars
=============================================================================
