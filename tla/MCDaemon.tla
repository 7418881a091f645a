------------------------------ MODULE MCDaemon ------------------------------
(***************************************************************************)
(* One UDP socket and TCP; a client that sends a query and a malformed one *)
(* from one port to two local addresses; a response and a stray datagram.  *)
(***************************************************************************)
EXTENDS Daemon

CONSTANTS client, other, lan, vpn, ask, bad, answer, stray

MCKind == [d \in Datagrams |-> CASE d = bad -> "malformed" [] d = answer -> "response"
                                 [] d = stray -> "unusable" [] OTHER -> "query"]
MCPeerOf == [d \in Datagrams |-> IF d \in {ask, bad} THEN client ELSE other]
MCLocalOf == [d \in Datagrams |-> IF d = bad THEN vpn ELSE lan]

C(u, t, p, user, group) == [udp |-> u, tcp |-> t, prometheus |-> p, user |-> user, group |-> group]

MCConfigs ==
    {C(TRUE, TRUE, TRUE, TRUE, TRUE), C(TRUE, FALSE, FALSE, FALSE, FALSE),
     C(FALSE, TRUE, TRUE, TRUE, FALSE), C(FALSE, FALSE, TRUE, FALSE, FALSE)}

=============================================================================
