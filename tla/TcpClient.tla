------------------------------ MODULE TcpClient ------------------------------
(***************************************************************************)
(* The TCP client: the callbacks of LWIP/lwip_app/tcp_client/tcp_client.c   *)
(* and the main loop of Project/Lwip_TCP_Client/User/main.c that sends,     *)
(* closes and reconnects.                                                   *)
(*                                                                          *)
(* Everything runs in one thread: lwIP calls the callbacks while main polls *)
(* it, any number of them between two steps of the loop, so a callback is   *)
(* one action.  Of lwIP the pool of connection blocks is modelled as it is  *)
(* linked: a free block's first word is the link to the next one, and       *)
(* nothing keeps a block from being linked in twice.  For the rest lwIP     *)
(* (when it calls what) is modelled as the client uses it.                  *)
(***************************************************************************)
EXTENDS Naturals, Sequences, SequencesExt, FiniteSets

CONSTANTS
    Pcb,       \* the connection blocks (MEMP_NUM_TCP_PCB)
    NULL,
    LocalIp,   \* the interface's address, read as a link
    Blocks     \* how many tcp_client_struct the heap has room for

ASSUME TcpAssumption ==
    /\ IsFiniteSet(Pcb) /\ Pcb # {}
    /\ NULL \notin Pcb /\ LocalIp \notin Pcb \cup {NULL}
    /\ Blocks \in Nat

VARIABLES
    state,            \* of each block: "free", "SYN_SENT", "ESTABLISHED", "CLOSE_WAIT"
    pool,             \* its head, memp_tab, and next: the first word of each block
    callbacks,        \* whether recv, err, sent and poll are set
    arg,              \* callback_arg: "NULL", or "live": the es of the block
    esState, esP,     \* es->state, and es->p: "NULL", "alloc" or "freed"
    heap,             \* the es allocated and not freed
    tcppcb,           \* main's connection block
    connectedFlag, newData, sendData,  \* the bits of tcp_client_flag
    fault,            \* what has been released that was free, of "pcb", "pbuf":
                      \* a history variable of the properties
    orderly           \* the server is always there and nobody presses KEY1

pcbVars == <<state, pool, callbacks, arg, esState, esP, heap>>
flagVars == <<connectedFlag, newData, sendData>>
vars == <<pcbVars, flagVars, tcppcb, fault, orderly>>

TypeOK ==
    /\ state \in [Pcb -> {"free", "SYN_SENT", "ESTABLISHED", "CLOSE_WAIT"}]
    /\ pool \in [head: Pcb \cup {NULL}, next: [Pcb -> Pcb \cup {NULL, LocalIp}]]
    /\ callbacks \in [Pcb -> BOOLEAN]
    /\ arg \in [Pcb -> {"NULL", "live"}]
    /\ esState \in [Pcb -> {"NONE", "CONNECTED", "CLOSING"}]
    /\ esP \in [Pcb -> {"NULL", "alloc", "freed"}]
    /\ heap \in 0 .. Blocks
    /\ tcppcb \in Pcb
    /\ connectedFlag \in BOOLEAN /\ newData \in BOOLEAN /\ sendData \in BOOLEAN
    /\ fault \subseteq {"pcb", "pbuf"}
    /\ orderly \in BOOLEAN

-----------------------------------------------------------------------------
(* lwIP, as the client uses it. *)

\* Mutant: the list is cut off behind the block.
memp_free_unlinked(list, p) == [list EXCEPT !.head = p]

\* The block becomes the head of the list, wherever it has been before.
memp_free(list, p) == [head |-> p, next |-> [list.next EXCEPT ![p] = list.head]]

\* The head of the list is handed out, and its link becomes the head.
memp_malloc(list) == [list EXCEPT !.head = list.next[list.head]]

\* In the list are the blocks of free, each once, and no other.
Link(s, i) == IF i \in DOMAIN s THEN s[i] ELSE NULL

ListIs(list, free) ==
    \E s \in SetToSeqs(free) :
        /\ list.head = Link(s, 1)
        /\ \A i \in DOMAIN s : list.next[s[i]] = Link(s, i + 1)

\* lwIP frees the block itself and calls tcp_client_error, which does nothing.
Drop(p) ==
    /\ ~orderly
    /\ state[p] # "free"
    /\ state' = [state EXCEPT ![p] = "free"]
    /\ pool' = memp_free(pool, p)
    /\ callbacks' = [callbacks EXCEPT ![p] = FALSE]
    /\ arg' = [arg EXCEPT ![p] = "NULL"]
    /\ UNCHANGED <<esState, esP, heap, flagVars, tcppcb, fault, orderly>>

-----------------------------------------------------------------------------
(* The callbacks. *)

\* Mutant: the connection is not marked as gone.
CloseKeepingFlag(p, es) ==
    /\ state' = [state EXCEPT ![p] = "free"]
    /\ pool' = memp_free(pool, p)
    /\ fault' = IF state[p] = "free" THEN fault \cup {"pcb"} ELSE fault
    /\ callbacks' = [callbacks EXCEPT ![p] = FALSE]
    /\ arg' = [arg EXCEPT ![p] = "NULL"]
    /\ heap' = IF es THEN heap - 1 ELSE heap
    /\ UNCHANGED connectedFlag

\* tcp_client_connection_close: tcp_abort, which frees the block, and only then
\* the callbacks are removed; es is freed when it has been handed over.
tcp_client_connection_close(p, es) ==
    /\ state' = [state EXCEPT ![p] = "free"]
    /\ pool' = memp_free(pool, p)
    /\ fault' = IF state[p] = "free" THEN fault \cup {"pcb"} ELSE fault
    /\ callbacks' = [callbacks EXCEPT ![p] = FALSE]
    /\ arg' = [arg EXCEPT ![p] = "NULL"]
    /\ heap' = IF es THEN heap - 1 ELSE heap
    /\ connectedFlag' = FALSE

\* Mutant: the result of mem_malloc is not looked at.
ConnectedUnchecked(p) ==
    /\ state[p] = "SYN_SENT"
    /\ state' = [state EXCEPT ![p] = "ESTABLISHED"]
    /\ heap' = heap + 1
    /\ esState' = [esState EXCEPT ![p] = "CONNECTED"]
    /\ esP' = [esP EXCEPT ![p] = "NULL"]
    /\ arg' = [arg EXCEPT ![p] = "live"]
    /\ callbacks' = [callbacks EXCEPT ![p] = TRUE]
    /\ connectedFlag' = TRUE
    /\ UNCHANGED <<pool, newData, sendData, tcppcb, fault, orderly>>

\* tcp_client_connected, with room for es on the heap ...
Connected(p) ==
    /\ state[p] = "SYN_SENT"
    /\ heap < Blocks
    /\ state' = [state EXCEPT ![p] = "ESTABLISHED"]
    /\ heap' = heap + 1
    /\ esState' = [esState EXCEPT ![p] = "CONNECTED"]
    /\ esP' = [esP EXCEPT ![p] = "NULL"]
    /\ arg' = [arg EXCEPT ![p] = "live"]
    /\ callbacks' = [callbacks EXCEPT ![p] = TRUE]
    /\ connectedFlag' = TRUE
    /\ UNCHANGED <<pool, newData, sendData, tcppcb, fault, orderly>>

\* ... and without.
ConnectedNoMemory(p) ==
    /\ state[p] = "SYN_SENT"
    /\ heap = Blocks
    /\ tcp_client_connection_close(p, FALSE)
    /\ UNCHANGED <<esState, esP, newData, sendData, tcppcb, orderly>>

\* tcp_client_recv with data.
ReceiveData(p) ==
    /\ state[p] = "ESTABLISHED" /\ callbacks[p]
    /\ newData' = (newData \/ esState[p] = "CONNECTED")
    /\ UNCHANGED <<pcbVars, connectedFlag, sendData, tcppcb, fault, orderly>>

\* tcp_client_recv with NULL: the server has closed the connection.
ReceiveClosed(p) ==
    /\ state[p] = "ESTABLISHED" /\ callbacks[p]
    /\ state' = [state EXCEPT ![p] = "CLOSE_WAIT"]
    /\ esState' = [esState EXCEPT ![p] = "CLOSING"]
    /\ esP' = [esP EXCEPT ![p] = "NULL"]
    /\ UNCHANGED <<pool, callbacks, arg, heap, flagVars, tcppcb, fault, orderly>>

\* tcp_client_poll with something to send: the data (one pbuf, or none when the
\* pool is empty) is handed to tcp_write, which takes it or is short of memory;
\* what it has not taken is freed, and es->p is left as it is.
PollSend(p) ==
    /\ state[p] \in {"ESTABLISHED", "CLOSE_WAIT"} /\ callbacks[p]
    /\ sendData
    /\ \E taken \in BOOLEAN : esP' = [esP EXCEPT ![p] = IF taken THEN "NULL" ELSE "freed"]
    /\ sendData' = FALSE
    /\ UNCHANGED <<state, pool, callbacks, arg, esState, heap, connectedFlag, newData,
                   tcppcb, fault, orderly>>

\* Mutant: es is not freed.
PollCloseLeaking(p) ==
    /\ state[p] \in {"ESTABLISHED", "CLOSE_WAIT"} /\ callbacks[p]
    /\ ~sendData /\ esState[p] = "CLOSING"
    /\ tcp_client_connection_close(p, FALSE)
    /\ UNCHANGED <<esState, esP, newData, sendData, tcppcb, orderly>>

\* tcp_client_poll on a connection the server has closed.
PollClose(p) ==
    /\ state[p] \in {"ESTABLISHED", "CLOSE_WAIT"} /\ callbacks[p]
    /\ ~sendData /\ esState[p] = "CLOSING"
    /\ tcp_client_connection_close(p, TRUE)
    /\ UNCHANGED <<esState, esP, newData, sendData, tcppcb, orderly>>

\* tcp_client_sent: the server has acknowledged data; a pbuf that es->p still
\* points to is offered to tcp_write again, and freed when it is taken.
Sent(p) ==
    /\ state[p] \in {"ESTABLISHED", "CLOSE_WAIT"} /\ callbacks[p]
    /\ \E taken \in BOOLEAN :
          esP' = [esP EXCEPT ![p] = IF taken THEN "NULL" ELSE @]
    /\ fault' = IF esP[p] = "freed" THEN fault \cup {"pbuf"} ELSE fault
    /\ UNCHANGED <<state, pool, callbacks, arg, esState, heap, flagVars, tcppcb, orderly>>

-----------------------------------------------------------------------------
(* The main loop. *)

ShowData ==
    /\ newData
    /\ newData' = FALSE
    /\ UNCHANGED <<pcbVars, connectedFlag, sendData, tcppcb, fault, orderly>>

Key0Pressed ==
    /\ sendData' = TRUE
    /\ UNCHANGED <<pcbVars, connectedFlag, newData, tcppcb, fault, orderly>>

Key1Pressed ==
    /\ ~orderly
    /\ tcp_client_connection_close(tcppcb, FALSE)
    /\ UNCHANGED <<esState, esP, newData, sendData, tcppcb, orderly>>

\* tcp_new, which finds a block in the list, and tcp_connect, which sets local_ip:
\* that is the first word of the block.
Connect(list, states) ==
    LET p == list.head IN
    /\ tcppcb' = p
    /\ pool' = [memp_malloc(list) EXCEPT !.next[p] = LocalIp]
    /\ state' = [states EXCEPT ![p] = "SYN_SENT"]

\* Mutant: a new connection is opened beside the old one.
ReconnectBeside ==
    /\ ~connectedFlag
    /\ pool.head \in Pcb
    /\ Connect(pool, state)
    /\ UNCHANGED <<callbacks, arg, heap, esState, esP, flagVars, fault, orderly>>

\* Every two hundred rounds: when it is not connected the client drops what it
\* has and tries again.  What tcp_new finds is the block dropped just before.
Reconnect ==
    /\ ~connectedFlag
    /\ Connect(memp_free(pool, tcppcb), [state EXCEPT ![tcppcb] = "free"])
    /\ fault' = IF state[tcppcb] = "free" THEN fault \cup {"pcb"} ELSE fault
    /\ callbacks' = [callbacks EXCEPT ![tcppcb] = FALSE]
    /\ arg' = [arg EXCEPT ![tcppcb] = "NULL"]
    /\ UNCHANGED <<heap, esState, esP, flagVars, orderly>>

Init ==
    /\ tcppcb \in Pcb
    /\ state = [p \in Pcb |-> IF p = tcppcb THEN "SYN_SENT" ELSE "free"]
    /\ pool \in [head: Pcb \cup {NULL}, next: [Pcb -> Pcb \cup {NULL, LocalIp}]]
    /\ ListIs(pool, Pcb \ {tcppcb}) /\ pool.next[tcppcb] = LocalIp
    /\ callbacks = [p \in Pcb |-> FALSE]
    /\ arg = [p \in Pcb |-> "NULL"]
    /\ esState = [p \in Pcb |-> "NONE"]
    /\ esP = [p \in Pcb |-> "NULL"]
    /\ heap = 0
    /\ connectedFlag = FALSE /\ newData = FALSE /\ sendData = FALSE
    /\ fault = {}
    /\ orderly \in BOOLEAN

Poll(p) == PollSend(p) \/ PollClose(p)

Next ==
    \/ \E p \in Pcb : \/ Drop(p)
                      \/ Connected(p) \/ ConnectedNoMemory(p)
                      \/ ReceiveData(p) \/ ReceiveClosed(p)
                      \/ Poll(p) \/ Sent(p)
    \/ ShowData \/ Key0Pressed \/ Key1Pressed \/ Reconnect

Spec == Init /\ [][Next]_vars

\* lwIP's timer polls the connection, twice a second, more often than a user can
\* press the key that makes it send for ever; and main's counter goes round.
FairSpec ==
    /\ Spec
    /\ \A p \in Pcb : SF_vars(PollSend(p)) /\ SF_vars(PollClose(p))
    /\ WF_vars(Reconnect)

-----------------------------------------------------------------------------
(* Properties. *)

\* What lwIP may call back into is the connection main knows, and no other is
\* open: reconnecting never leaves a second connection behind.
OneConnection == \A p \in Pcb : state[p] # "free" => p = tcppcb

\* What the double release costs (memp.c:460).  Until main releases a block that is
\* free the list holds the free blocks, each once.  From then on it is main's own
\* block alone, which links to itself while it is free and is still the head, the
\* next to be handed out, while it is in use; the other blocks are lost for good.
PoolAccounted ==
    IF "pcb" \notin fault
    THEN ListIs(pool, {p \in Pcb : state[p] = "free"})
    ELSE /\ pool.head = tcppcb
         /\ state[tcppcb] = "free" => pool.next[tcppcb] = tcppcb

\* With a server that closes in an orderly way every es on the heap belongs to
\* a connection.
NoLeak == orderly => heap = Cardinality({p \in Pcb : arg[p] = "live"})

\* With such a server a closed connection is given up and replaced.
Replaced == \A p \in Pcb : orderly /\ state[p] = "CLOSE_WAIT" ~> state[p] = "SYN_SENT"

\* The comment at tcp_client.c:14: the flag says that the client is connected.
FlagMeansConnected == connectedFlag => state[tcppcb] \in {"ESTABLISHED", "CLOSE_WAIT"}

\* include/lwip/tcp.h:103: a block that lwIP has dropped is already freed.
BlockFreedOnce == "pcb" \notin fault
=============================================================================
