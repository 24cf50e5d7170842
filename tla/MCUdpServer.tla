----------------------------- MODULE MCUdpServer -----------------------------
(* Values for UdpServer: the timer of ethernetif_input and a slower one, two *)
(* datagrams, one of which takes two units of the ring, a request, and a     *)
(* broken frame.                                                             *)
EXTENDS UdpServer

CONSTANTS input, tcp, short, long, arp, broken

MCOrder == <<input, tcp>>
MCInterval == [t \in Timer |-> IF t = input THEN 1 ELSE 2]
MCSize == [f \in Frame |-> IF f = long THEN 2 ELSE 1]
=============================================================================
