-------------------------- MODULE TcpClientProofs --------------------------
(***************************************************************************)
(* Theorems of TcpClient, for every number of connection blocks and every   *)
(* size of the heap.  Each callback and each branch of main's loop keeps    *)
(* Linked and Allocated: the block, the argument of its callbacks, the heap *)
(* and the flags describe one connection.  Pooled says what the linked list *)
(* of free blocks is, before and after a block has been released twice; it  *)
(* is kept because the only block ever released is main's, which is         *)
(* therefore the head of the list while it is free.                         *)
(***************************************************************************)
EXTENDS TcpClient, FiniteSetTheorems, TLAPS

\* The callbacks use what callback_arg points to without a look: as long as lwIP
\* may call them (the assertion at tcp_client.c:52) it points to an es in use.
ArgInUse == \A p \in Pcb : callbacks[p] => arg[p] = "live"

\* Only an established connection has an es, and only a connection with an es
\* has callbacks that use one; there is one connection.
Linked ==
    /\ OneConnection /\ ArgInUse
    /\ \A p \in Pcb : arg[p] = "live" => state[p] \in {"ESTABLISHED", "CLOSE_WAIT"}

\* The es of the connection is counted; with an orderly server nothing else is,
\* and the client knows that it is connected as long as there is one, so that it
\* does not reconnect over it.
Allocated ==
    /\ arg[tcppcb] = "live" => heap > 0
    /\ orderly => /\ heap = IF arg[tcppcb] = "live" THEN 1 ELSE 0
                  /\ arg[tcppcb] = "live" => connectedFlag

\* The list of free blocks, and that main's block is its head while it is free.
Pooled ==
    /\ PoolAccounted
    /\ state[tcppcb] = "free" => pool.head = tcppcb

IInv == TypeOK /\ Linked /\ Allocated /\ Pooled

-----------------------------------------------------------------------------
(* The pool. *)

Lists == [head: Pcb \cup {NULL}, next: [Pcb -> Pcb \cup {NULL, LocalIp}]]

LEMMA FreedType ==
    ASSUME NEW list \in Lists, NEW p \in Pcb
    PROVE  /\ memp_free(list, p) \in Lists
           /\ memp_free(list, p).head = p
           /\ memp_free(list, p).next = [list.next EXCEPT ![p] = list.head]
           /\ memp_free(list, p).next[p] = list.head
  BY DEF memp_free, Lists

LEMMA SeqsOf ==
    ASSUME NEW F \in SUBSET Pcb
    PROVE  /\ Cardinality(F) \in Nat
           /\ \A s : s \in SetToSeqs(F) <=>
                     /\ s \in [1 .. Cardinality(F) -> F]
                     /\ \A i, j \in 1 .. Cardinality(F) : i # j => s[i] # s[j]
  <1>1. IsFiniteSet(F)
    BY TcpAssumption, FS_Subset
  <1> QED
    BY <1>1, FS_CardinalityType DEF SetToSeqs

\* A block that is in use is linked in before the others.
LEMMA ListFreed ==
    ASSUME NEW list \in Lists, NEW F \in SUBSET Pcb, NEW p \in Pcb \ F, ListIs(list, F)
    PROVE  ListIs(memp_free(list, p), F \cup {p})
  <1> DEFINE n == Cardinality(F)
             G == F \cup {p}
             new == memp_free(list, p)
  <1>1. PICK s \in SetToSeqs(F) :
            /\ list.head = Link(s, 1)
            /\ \A i \in DOMAIN s : list.next[s[i]] = Link(s, i + 1)
    BY DEF ListIs
  <1>2. /\ n \in Nat /\ s \in [1 .. n -> F]
        /\ \A i, j \in 1 .. n : i # j => s[i] # s[j]
    BY SeqsOf
  <1>3. Cardinality(G) = n + 1 /\ G \in SUBSET Pcb
    <2>1. IsFiniteSet(F)
      BY TcpAssumption, FS_Subset
    <2> QED
      BY <2>1, FS_AddElement
  <1> DEFINE t == [i \in 1 .. n + 1 |-> IF i = 1 THEN p ELSE s[i - 1]]
  <1>n. n \in Nat
    BY <1>2
  <1>s. DOMAIN s = 1 .. n /\ \A i \in 1 .. n : s[i] \in F
    BY <1>2
  <1> HIDE DEF n
  <1>4. \A i \in 2 .. n + 1 : i - 1 \in 1 .. n
    BY <1>n
  <1>5. t \in [1 .. n + 1 -> G]
    <2>1. ASSUME NEW i \in 1 .. n + 1 PROVE (IF i = 1 THEN p ELSE s[i - 1]) \in G
      <3>1. i # 1 => i \in 2 .. n + 1
        BY <1>n
      <3> QED
        BY <1>4, <1>s, <3>1
    <2> QED
      BY <2>1
  <1>6. ASSUME NEW i \in 1 .. n + 1, NEW j \in 1 .. n + 1, i # j PROVE t[i] # t[j]
    <2>1. /\ i = 1 \/ (i \in 2 .. n + 1 /\ i - 1 \in 1 .. n)
          /\ j = 1 \/ (j \in 2 .. n + 1 /\ j - 1 \in 1 .. n)
      BY <1>n
    <2>2. i # 1 /\ j # 1 => i - 1 # j - 1
      BY <1>6, <1>n
    <2> QED
      BY <1>2, <1>6, <1>s, <2>1, <2>2 DEF n
  <1>7. t \in SetToSeqs(G)
    BY <1>3, <1>5, <1>6, SeqsOf
  <1>8. Link(t, 1) = p /\ \A i \in 1 .. n + 1 : Link(t, i + 1) = Link(s, i)
    <2>1. DOMAIN t = 1 .. n + 1 /\ 1 \in 1 .. n + 1 /\ t[1] = p
      BY <1>n
    <2>2. ASSUME NEW i \in 1 .. n + 1 PROVE Link(t, i + 1) = Link(s, i)
      <3>1. i + 1 \in 1 .. n + 1 <=> i \in 1 .. n
        BY <1>n
      <3>2. i + 1 # 1 /\ (i + 1) - 1 = i
        BY <1>n
      <3> QED
        BY <1>s, <2>1, <3>1, <3>2 DEF Link
    <2> QED
      BY <2>1, <2>2 DEF Link
  <1>9. new.head = p /\ new.next = [list.next EXCEPT ![p] = list.head]
    BY FreedType
  <1>10. ASSUME NEW i \in 1 .. n + 1 PROVE new.next[t[i]] = Link(t, i + 1)
    <2>1. DOMAIN list.next = Pcb
      BY DEF Lists
    <2>2. CASE i = 1
      <3>1. t[i] = p /\ Link(t, i + 1) = Link(s, 1)
        BY <1>8, <2>2
      <3> QED
        BY <1>1, <1>9, <2>1, <3>1
    <2>3. CASE i # 1
      <3>1. i - 1 \in 1 .. n /\ (i - 1) + 1 = i
        BY <1>n, <2>3
      <3>2. t[i] = s[i - 1] /\ s[i - 1] \in F
        BY <1>s, <2>3, <3>1
      <3>3. new.next[t[i]] = list.next[s[i - 1]]
        BY <1>9, <2>1, <3>2
      <3>4. list.next[s[i - 1]] = Link(s, i)
        BY <1>1, <1>s, <3>1
      <3> QED
        BY <1>8, <3>3, <3>4
    <2> QED
      BY <2>2, <2>3
  <1>11. DOMAIN t = 1 .. n + 1
    OBVIOUS
  <1> HIDE DEF t, new
  <1>12. ListIs(new, G)
    BY <1>7, <1>8, <1>9, <1>10, <1>11 DEF ListIs
  <1> QED
    BY <1>12 DEF new

\* What is written to other blocks does not matter to the list.
LEMMA ListKept ==
    ASSUME NEW list \in Lists, NEW new \in Lists, NEW F \in SUBSET Pcb,
           new.head = list.head, \A q \in F : new.next[q] = list.next[q], ListIs(list, F)
    PROVE  ListIs(new, F)
  <1>1. PICK s \in SetToSeqs(F) :
            /\ list.head = Link(s, 1)
            /\ \A i \in DOMAIN s : list.next[s[i]] = Link(s, i + 1)
    BY DEF ListIs
  <1>2. \A i \in DOMAIN s : s[i] \in F
    BY SeqsOf
  <1> QED
    BY <1>1, <1>2 DEF ListIs

-----------------------------------------------------------------------------
(* The steps. *)

LEMMA InitInv == Init => IInv
  <1> SUFFICES ASSUME Init PROVE IInv
    OBVIOUS
  <1>1. Pooled
    <2>1. {p \in Pcb : state[p] = "free"} = Pcb \ {tcppcb}
      BY DEF Init
    <2>2. ListIs(pool, Pcb \ {tcppcb}) /\ "pcb" \notin fault /\ state[tcppcb] # "free"
      BY DEF Init
    <2> QED
      BY <2>1, <2>2 DEF Pooled, PoolAccounted
  <1>2. TypeOK
    <2>1. heap \in 0 .. Blocks
      BY TcpAssumption DEF Init
    <2>2. state \in [Pcb -> {"free", "SYN_SENT", "ESTABLISHED", "CLOSE_WAIT"}]
      BY DEF Init
    <2>3. callbacks \in [Pcb -> BOOLEAN]
      BY DEF Init
    <2>4. /\ arg \in [Pcb -> {"NULL", "live"}]
          /\ esState \in [Pcb -> {"NONE", "CONNECTED", "CLOSING"}]
          /\ esP \in [Pcb -> {"NULL", "alloc", "freed"}]
      BY DEF Init
    <2> QED
      BY <2>1, <2>2, <2>3, <2>4 DEF Init, TypeOK
  <1>3. Linked
    BY DEF Init, Linked, OneConnection, ArgInUse
  <1>4. Allocated
    BY DEF Init, Allocated
  <1> QED
    BY <1>1, <1>2, <1>3, <1>4 DEF IInv

\* Steps that give the connection of p up.
LEMMA GivenUp ==
    ASSUME IInv, NEW p \in Pcb,
           state' = [state EXCEPT ![p] = "free"],
           pool' = memp_free(pool, p),
           fault' = IF state[p] = "free" THEN fault \cup {"pcb"} ELSE fault,
           p = tcppcb,
           callbacks' = [callbacks EXCEPT ![p] = FALSE],
           arg' = [arg EXCEPT ![p] = "NULL"],
           tcppcb' = tcppcb
    PROVE  /\ Linked' /\ Pooled'
           /\ pool' \in Lists
           /\ state' \in [Pcb -> {"free", "SYN_SENT", "ESTABLISHED", "CLOSE_WAIT"}]
           /\ callbacks' \in [Pcb -> BOOLEAN]
           /\ arg' \in [Pcb -> {"NULL", "live"}]
           /\ fault' \subseteq {"pcb", "pbuf"}
  <1>1. Linked'
    BY DEF IInv, TypeOK, Linked, OneConnection, ArgInUse
  <1>2. /\ pool \in Lists /\ pool' \in Lists
        /\ pool'.head = p /\ pool'.next[p] = pool.head
    <2>1. pool \in Lists
      BY DEF IInv, TypeOK, Lists
    <2> QED
      BY <2>1, FreedType
  <1>3. state'[p] = "free"
    BY DEF IInv, TypeOK
  <1>4. PoolAccounted'
    <2>1. CASE "pcb" \in fault \/ state[p] = "free"
      <3>1. pool.head = tcppcb
        BY <2>1 DEF IInv, Pooled, PoolAccounted
      <3>2. "pcb" \in fault'
        BY <2>1
      <3> QED
        BY <1>2, <3>1, <3>2 DEF PoolAccounted
    <2>2. CASE "pcb" \notin fault /\ state[p] # "free"
      <3> DEFINE F == {q \in Pcb : state[q] = "free"}
      <3>1. ListIs(pool, F) /\ p \in Pcb \ F
        BY <2>2 DEF IInv, Pooled, PoolAccounted
      <3>2. ListIs(pool', F \cup {p})
        BY <1>2, <3>1, ListFreed
      <3>3. F \cup {p} = {q \in Pcb : state'[q] = "free"}
        BY DEF IInv, TypeOK
      <3>4. "pcb" \notin fault'
        BY <2>2
      <3> HIDE DEF F
      <3> QED
        BY <3>2, <3>3, <3>4 DEF PoolAccounted
    <2> QED
      BY <2>1, <2>2
  <1>5. Pooled'
    BY <1>2, <1>4 DEF Pooled
  <1> QED
    BY <1>1, <1>2, <1>5 DEF IInv, TypeOK

LEMMA DropInv == ASSUME IInv, NEW p \in Pcb, Drop(p) PROVE IInv'
  <1>1. /\ Linked' /\ Pooled' /\ pool' \in Lists
        /\ state' \in [Pcb -> {"free", "SYN_SENT", "ESTABLISHED", "CLOSE_WAIT"}]
        /\ callbacks' \in [Pcb -> BOOLEAN]
        /\ arg' \in [Pcb -> {"NULL", "live"}]
    <2>1. p = tcppcb
      BY DEF Drop, IInv, Linked, OneConnection
    <2> QED
      BY <2>1, GivenUp DEF Drop
  <1>2. TypeOK'
    BY <1>1 DEF IInv, TypeOK, Drop, flagVars, Lists
  <1>3. Allocated'
    BY DEF IInv, TypeOK, Allocated, Drop
  <1> QED
    BY <1>1, <1>2, <1>3 DEF IInv

\* Closing frees es when it is handed over; what stays on the heap is what was
\* there beside it.
LEMMA CloseInv ==
    ASSUME IInv, NEW p \in Pcb, NEW es \in BOOLEAN, tcp_client_connection_close(p, es),
           p = tcppcb, es => arg[p] = "live", orderly => es \/ arg[p] # "live",
           UNCHANGED <<esState, esP, newData, sendData, tcppcb, orderly>>
    PROVE  IInv'
  <1>1. /\ Linked' /\ Pooled' /\ pool' \in Lists
        /\ state' \in [Pcb -> {"free", "SYN_SENT", "ESTABLISHED", "CLOSE_WAIT"}]
        /\ callbacks' \in [Pcb -> BOOLEAN]
        /\ arg' \in [Pcb -> {"NULL", "live"}]
        /\ fault' \subseteq {"pcb", "pbuf"}
    BY GivenUp DEF tcp_client_connection_close
  <1>2. heap' = IF es THEN heap - 1 ELSE heap
    BY DEF tcp_client_connection_close
  <1>3. heap' \in 0 .. Blocks
    <2>1. heap \in 0 .. Blocks /\ Blocks \in Nat
      BY TcpAssumption DEF IInv, TypeOK
    <2>2. es => heap > 0
      BY DEF IInv, Allocated
    <2> QED
      BY <1>2, <2>1, <2>2
  <1>4. TypeOK'
    BY <1>1, <1>3 DEF IInv, TypeOK, tcp_client_connection_close, Lists
  <1>5. Allocated'
    <2>1. arg'[tcppcb'] = "NULL"
      BY DEF tcp_client_connection_close, IInv, TypeOK
    <2>2. orderly => heap' = 0
      BY <1>2 DEF IInv, Allocated
    <2> QED
      BY <2>1, <2>2 DEF Allocated
  <1> QED
    BY <1>1, <1>4, <1>5 DEF IInv

LEMMA ConnectedInv == ASSUME IInv, NEW p \in Pcb, Connected(p) PROVE IInv'
  <1>1. p = tcppcb /\ arg[p] # "live"
    BY DEF Connected, IInv, Linked, OneConnection
  <1>2. heap' = heap + 1 /\ heap' \in 0 .. Blocks
    <2>1. heap \in 0 .. Blocks /\ Blocks \in Nat /\ heap < Blocks
      BY TcpAssumption DEF IInv, TypeOK, Connected
    <2> QED
      BY <2>1 DEF Connected
  <1>3. TypeOK'
    BY <1>2 DEF IInv, TypeOK, Connected
  <1>4. Linked'
    BY DEF IInv, TypeOK, Linked, OneConnection, ArgInUse, Connected
  <1>5. Allocated'
    <2>1. arg'[tcppcb'] = "live"
      BY <1>1 DEF Connected, IInv, TypeOK
    <2>2. orderly => heap = 0
      BY <1>1 DEF IInv, Allocated
    <2>3. heap' > 0 /\ (orderly => heap' = 1)
      BY <1>2, <2>2 DEF IInv, TypeOK
    <2> QED
      BY <2>1, <2>3 DEF Allocated, Connected
  <1>6. Pooled'
    <2>1. \A q \in Pcb : state'[q] = "free" <=> state[q] = "free"
      BY DEF Connected, IInv, TypeOK
    <2>2. {q \in Pcb : state'[q] = "free"} = {q \in Pcb : state[q] = "free"}
      BY <2>1
    <2>3. pool' = pool /\ fault' = fault /\ tcppcb' = tcppcb /\ tcppcb \in Pcb
      BY DEF Connected, IInv, TypeOK
    <2> QED
      BY <2>1, <2>2, <2>3 DEF IInv, Pooled, PoolAccounted
  <1> QED
    BY <1>3, <1>4, <1>5, <1>6 DEF IInv

LEMMA ConnectedNoMemoryInv == ASSUME IInv, NEW p \in Pcb, ConnectedNoMemory(p) PROVE IInv'
  <1>1. p = tcppcb /\ arg[p] # "live"
    BY DEF ConnectedNoMemory, IInv, Linked, OneConnection
  <1> QED
    BY <1>1, CloseInv DEF ConnectedNoMemory

LEMMA PollCloseInv == ASSUME IInv, NEW p \in Pcb, PollClose(p) PROVE IInv'
  <1>1. p = tcppcb /\ arg[p] = "live"
    BY DEF PollClose, IInv, Linked, OneConnection, ArgInUse
  <1> QED
    BY <1>1, CloseInv DEF PollClose

LEMMA Key1Inv == ASSUME IInv, Key1Pressed PROVE IInv'
  <1>1. tcppcb \in Pcb
    BY DEF IInv, TypeOK
  <1> QED
    BY <1>1, CloseInv DEF Key1Pressed

\* The other callbacks and keys change neither the block nor its argument.
LEMMA QuietInv ==
    ASSUME IInv, NEW p \in Pcb,
           \/ ReceiveData(p) \/ ReceiveClosed(p) \/ PollSend(p) \/ Sent(p)
           \/ ShowData \/ Key0Pressed \/ UNCHANGED vars
    PROVE  IInv'
  <1>p. Pooled'
    <2>1. \A q \in Pcb : state'[q] = "free" <=> state[q] = "free"
      BY DEF ReceiveData, ReceiveClosed, PollSend, Sent, ShowData, Key0Pressed, vars, pcbVars,
             IInv, TypeOK
    <2>2. {q \in Pcb : state'[q] = "free"} = {q \in Pcb : state[q] = "free"}
      BY <2>1
    <2>3. pool' = pool /\ ("pcb" \in fault' <=> "pcb" \in fault) /\ tcppcb' = tcppcb /\ tcppcb \in Pcb
      BY DEF ReceiveData, ReceiveClosed, PollSend, Sent, ShowData, Key0Pressed, vars, pcbVars,
             IInv, TypeOK
    <2> QED
      BY <2>1, <2>2, <2>3 DEF IInv, Pooled, PoolAccounted
  <1>q. TypeOK' /\ Linked' /\ Allocated'
    <2> USE DEF IInv, TypeOK, Linked, OneConnection, ArgInUse, Allocated, pcbVars, flagVars
    <2>1. CASE ReceiveData(p)
      BY <2>1 DEF ReceiveData
    <2>2. CASE ReceiveClosed(p)
      <3>1. TypeOK'
        BY <2>2 DEF ReceiveClosed
      <3>2. Linked'
        BY <2>2 DEF ReceiveClosed
      <3> QED
        BY <2>2, <3>1, <3>2 DEF ReceiveClosed
    <2>3. CASE PollSend(p)
      BY <2>3 DEF PollSend
    <2>4. CASE Sent(p)
      BY <2>4 DEF Sent
    <2>5. CASE ShowData
      BY <2>5 DEF ShowData
    <2>6. CASE Key0Pressed
      BY <2>6 DEF Key0Pressed
    <2>7. CASE UNCHANGED vars
      BY <2>7 DEF vars
    <2> QED
      BY <2>1, <2>2, <2>3, <2>4, <2>5, <2>6, <2>7
  <1> QED
    BY <1>p, <1>q DEF IInv

\* Reconnecting: the old block is free and without callbacks before it is taken
\* again, and the rest of the list is what it was.
LEMMA ReconnectInv == ASSUME IInv, Reconnect PROVE IInv'
  <1> DEFINE p == tcppcb
             list == memp_free(pool, p)
  <1>1. pool \in Lists /\ p \in Pcb
    BY DEF IInv, TypeOK, Lists
  <1>2. /\ list \in Lists /\ list.head = p
        /\ list.next = [pool.next EXCEPT ![p] = pool.head] /\ list.next[p] = pool.head
    BY <1>1, FreedType
  <1>3. /\ tcppcb' = p
        /\ state' = [[state EXCEPT ![p] = "free"] EXCEPT ![p] = "SYN_SENT"]
        /\ callbacks' = [callbacks EXCEPT ![p] = FALSE]
        /\ arg' = [arg EXCEPT ![p] = "NULL"]
        /\ fault' = IF state[p] = "free" THEN fault \cup {"pcb"} ELSE fault
    BY <1>2 DEF Reconnect, Connect
  <1>x. pool' = [[list EXCEPT !.head = pool.head] EXCEPT !.next[p] = LocalIp]
    BY <1>2 DEF Reconnect, Connect, memp_malloc
  <1>y. /\ pool' \in Lists /\ pool'.head = pool.head
        /\ \A q \in Pcb \ {p} : pool'.next[q] = pool.next[q]
    <2> HIDE DEF list
    <2> QED
      BY <1>1, <1>2, <1>x DEF Lists
  <1>z. Pooled'
    <2>1. state'[p] # "free"
      BY <1>1, <1>3 DEF IInv, TypeOK
    <2>2. CASE "pcb" \in fault \/ state[p] = "free"
      <3>1. pool.head = p /\ "pcb" \in fault'
        BY <1>3, <2>2 DEF IInv, Pooled, PoolAccounted
      <3> QED
        BY <1>3, <1>y, <2>1, <3>1 DEF Pooled, PoolAccounted
    <2>3. CASE "pcb" \notin fault /\ state[p] # "free"
      <3> DEFINE F == {q \in Pcb : state[q] = "free"}
      <3>1. ListIs(pool, F) /\ p \notin F /\ F \in SUBSET Pcb
        BY <2>3 DEF IInv, Pooled, PoolAccounted
      <3>2. F = {q \in Pcb : state'[q] = "free"}
        BY <1>1, <1>3, <2>3 DEF IInv, TypeOK
      <3>3. "pcb" \notin fault'
        BY <1>3, <2>3
      <3> HIDE DEF F
      <3>4. ListIs(pool', F)
        BY <1>1, <1>y, <3>1, ListKept
      <3> QED
        BY <1>3, <2>1, <3>2, <3>3, <3>4 DEF Pooled, PoolAccounted
    <2> QED
      BY <2>2, <2>3
  <1>4. TypeOK'
    BY <1>1, <1>3, <1>y DEF IInv, TypeOK, Reconnect, flagVars, Lists
  <1>5. \A q \in Pcb : arg'[q] # "live"
    BY <1>3 DEF IInv, TypeOK, Linked, OneConnection
  <1>6. Linked'
    <2>1. OneConnection'
      BY <1>3 DEF IInv, TypeOK, Linked, OneConnection
    <2>2. ArgInUse'
      BY <1>3 DEF IInv, TypeOK, Linked, OneConnection, ArgInUse
    <2> QED
      BY <1>5, <2>1, <2>2 DEF Linked
  <1>7. Allocated'
    <2>1. arg'[tcppcb'] # "live"
      BY <1>1, <1>3, <1>5
    <2>2. orderly' => heap' = 0
      BY DEF Reconnect, IInv, Allocated
    <2> QED
      BY <2>1, <2>2 DEF Allocated
  <1> QED
    BY <1>4, <1>6, <1>7, <1>z DEF IInv

LEMMA Invariance == Spec => []IInv
  <1>1. IInv /\ [Next]_vars => IInv'
    <2> SUFFICES ASSUME IInv, [Next]_vars PROVE IInv'
      OBVIOUS
    <2>1. PICK q \in Pcb : TRUE
      BY TcpAssumption
    <2>2. ASSUME NEW p \in Pcb,
                 \/ Drop(p) \/ Connected(p) \/ ConnectedNoMemory(p)
                 \/ ReceiveData(p) \/ ReceiveClosed(p) \/ Poll(p) \/ Sent(p)
          PROVE  IInv'
      BY <2>2, DropInv, ConnectedInv, ConnectedNoMemoryInv, PollCloseInv, QuietInv DEF Poll
    <2> QED
      BY <2>1, <2>2, Key1Inv, ReconnectInv, QuietInv DEF Next
  <1> QED
    BY <1>1, InitInv, PTL DEF Spec

\* The heap is neither exceeded nor freed below nothing, and tcp_new never takes
\* the address that a connection has written over its link for a block.
THEOREM TypeCorrect == Spec => []TypeOK
  <1>1. IInv => TypeOK
    BY DEF IInv
  <1> QED
    BY <1>1, Invariance, PTL

\* What the list of free blocks is, also after a block has been released twice.
THEOREM PoolIsAccountedFor == Spec => []PoolAccounted
  <1>1. IInv => PoolAccounted
    BY DEF IInv, Pooled
  <1> QED
    BY <1>1, Invariance, PTL

\* Reconnecting never leaves a second connection behind.
THEOREM OneAtATime == Spec => []OneConnection
  <1>1. IInv => OneConnection
    BY DEF IInv, Linked
  <1> QED
    BY <1>1, Invariance, PTL

\* No callback is called with an argument that is gone.
THEOREM ArgumentsInUse == Spec => []ArgInUse
  <1>1. IInv => ArgInUse
    BY DEF IInv, Linked
  <1> QED
    BY <1>1, Invariance, PTL

\* An orderly server costs the client no memory.
THEOREM NothingLeaks == Spec => []NoLeak
  <1>1. IInv => NoLeak
    <2> SUFFICES ASSUME IInv, orderly
                 PROVE  heap = Cardinality({p \in Pcb : arg[p] = "live"})
      BY DEF NoLeak
    <2>1. CASE arg[tcppcb] = "live"
      <3>1. {p \in Pcb : arg[p] = "live"} = {tcppcb}
        BY <2>1 DEF IInv, TypeOK, Linked, OneConnection
      <3>2. heap = 1
        BY <2>1 DEF IInv, Allocated
      <3> QED
        BY <3>1, <3>2, FS_Singleton
    <2>2. CASE arg[tcppcb] # "live"
      <3>1. {p \in Pcb : arg[p] = "live"} = {}
        BY <2>2 DEF IInv, TypeOK, Linked, OneConnection
      <3>2. heap = 0
        BY <2>2 DEF IInv, Allocated
      <3> QED
        BY <3>1, <3>2, FS_EmptySet
    <2> QED
      BY <2>1, <2>2
  <1> QED
    BY <1>1, Invariance, PTL
=============================================================================
