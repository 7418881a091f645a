------------------------------- MODULE Daemon -------------------------------
(***************************************************************************)
(* The life of the process and its UDP listeners: startup in the order of  *)
(* async_run, every step of which may fail while sockets bound before it   *)
(* already answer; the receive loops and the tasks of their requests; the  *)
(* supervisor of the listeners; SIGTERM; the Prometheus server, which is   *)
(* waited for at the end.                                                  *)
(*                                                                         *)
(* What happens in the loop's other branches is module Reload, and what a  *)
(* handler answers is QueryChain and Lookup.  hickory's TCP server is one  *)
(* more listener.  A SIGTERM before its handler is registered simply kills *)
(* the process, and is left out.                                           *)
(*                                                                         *)
(* A definition whose comment begins with "Mutant" is the next one with a  *)
(* plausible bug in it; no action uses it.                                 *)
(***************************************************************************)
EXTENDS Naturals, FiniteSets

CONSTANTS
    Sockets,       \* listen_addrs
    Tcp,           \* the TCP server, one listener for all addresses
    Datagrams,     \* what may arrive
    PeerOf, LocalOf, \* [Datagrams -> ...]: its addresses, interface included
    Kind,          \* [Datagrams -> Kinds]
    Tasks,         \* at most so many requests of UDP at a time
    MaxConnections, \* and so many of Prometheus
    Configs,
    NoDatagram, NoTask, NoReply

\* unusable: no or impossible packet information, or truncated; unsafe: a peer that
\* must not be answered; short: less than a header.
Kinds == {"query", "malformed", "response", "short", "unusable", "unsafe"}

ASSUME DaemonAssumption ==
    /\ Tcp \notin Sockets
    /\ Kind \in [Datagrams -> Kinds]
    /\ NoDatagram \notin Datagrams
    /\ MaxConnections \in Nat
    /\ Configs \subseteq [udp : BOOLEAN, tcp : BOOLEAN, prometheus : BOOLEAN,
                          user : BOOLEAN, group : BOOLEAN]

VARIABLES
    main,          \* where async_run is
    exit,          \* what it returned
    config,
    told,          \* SIGTERM has arrived
    cancelled,     \* the shutdown token
    listener,      \* [Sockets \cup {Tcp} -> off, serving, ended, failed]
    joined,        \* the listeners whose end the supervisor has seen
    supervisor,    \* off, running, ok, error
    prometheus,    \* off, serving, draining, stopped
    connections,   \* its open connections
    queue,         \* the next datagram of each socket
    request,       \* the tasks of the receive loops
    out,           \* the reply sent last
    owed           \* history: datagrams received, to be replied to at most once

process == <<main, exit, config, told>>
servers == <<cancelled, listener, joined, supervisor>>
metrics == <<prometheus, connections>>
udp == <<queue, request, out, owed>>
vars == <<process, servers, metrics, udp>>

Startup == {"settings", "prometheus", "udp", "tcp", "privileges", "supervise"}

Listeners == (IF config.udp THEN Sockets ELSE {}) \cup (IF config.tcp THEN {Tcp} ELSE {})

Task == [of : Sockets, bytes : Datagrams, peer : {PeerOf[d] : d \in Datagrams},
         local : {LocalOf[d] : d \in Datagrams}, aborted : BOOLEAN,
         at : {"parse", "handler", "send", "finished"}]

Reply == [id : Datagrams, to : {PeerOf[d] : d \in Datagrams},
          from : {LocalOf[d] : d \in Datagrams}]

TypeOK ==
    /\ main \in Startup \cup {"select", "join", "drain", "exited"}
    /\ exit \in {"none", "ok", "error"} /\ (exit = "none" <=> main # "exited")
    /\ config \in Configs
    /\ {told, cancelled} \subseteq BOOLEAN
    /\ listener \in [Sockets \cup {Tcp} -> {"off", "serving", "ended", "failed"}]
    /\ joined \subseteq Listeners
    /\ supervisor \in {"off", "running", "ok", "error"}
    /\ prometheus \in {"off", "serving", "draining", "stopped"}
    /\ main = "settings" => prometheus = "off"
    /\ connections \in 0..MaxConnections
    /\ connections > 0 => prometheus \in {"serving", "draining"}
    /\ queue \in [Sockets -> Datagrams \cup {NoDatagram}]
    /\ request \in [Tasks -> Task \cup {NoTask}]
    /\ out \in Reply \cup {NoReply}
    /\ owed \subseteq Sockets \X Datagrams

Init ==
    /\ main = "settings" /\ exit = "none" /\ config \in Configs
    /\ told = FALSE
    /\ cancelled = FALSE /\ listener = [l \in Sockets \cup {Tcp} |-> "off"]
    /\ joined = {} /\ supervisor = "off"
    /\ prometheus = "off" /\ connections = 0
    /\ queue = [s \in Sockets |-> NoDatagram]
    /\ request = [t \in Tasks |-> NoTask] /\ out = NoReply /\ owed = {}

\* async_run returns: the runtime is dropped, with all that runs in it.
Exit(code) ==
    /\ main' = "exited" /\ exit' = code
    /\ listener' = [l \in Sockets \cup {Tcp} |-> "off"]
    /\ joined' = {} /\ supervisor' = "off"
    /\ prometheus' = "off" /\ connections' = 0
    /\ queue' = [s \in Sockets |-> NoDatagram]
    /\ request' = [t \in Tasks |-> NoTask] /\ owed' = {}
    /\ UNCHANGED <<config, told, cancelled, out>>

-----------------------------------------------------------------------------
\* Startup.
BindPrometheus ==
    /\ main = "settings"
    /\ main' = "prometheus"
    /\ prometheus' = IF config.prometheus THEN "serving" ELSE "off"
    /\ UNCHANGED <<exit, config, told, connections, servers, udp>>

RegisterSignals ==
    /\ main = "prometheus"
    /\ main' = "udp"
    /\ UNCHANGED <<exit, config, told, servers, metrics, udp>>

\* A socket answers from the moment its loop is spawned.
BindUdp(s) ==
    /\ main = "udp" /\ config.udp
    /\ listener[s] = "off"
    /\ listener' = [listener EXCEPT ![s] = "serving"]
    /\ UNCHANGED <<process, cancelled, joined, supervisor, metrics, udp>>

UdpBound ==
    /\ main = "udp"
    /\ \A s \in Sockets : config.udp => listener[s] # "off"
    /\ main' = "tcp"
    /\ UNCHANGED <<exit, config, told, servers, metrics, udp>>

BindTcp ==
    /\ main = "tcp"
    /\ listener' = IF config.tcp THEN [listener EXCEPT ![Tcp] = "serving"] ELSE listener
    /\ main' = "privileges"
    /\ UNCHANGED <<exit, config, told, cancelled, joined, supervisor, metrics, udp>>

DropPrivileges ==
    /\ main = "privileges"
    /\ config.user = config.group
    /\ main' = "supervise"
    /\ UNCHANGED <<exit, config, told, servers, metrics, udp>>

StartupFails ==
    /\ \/ main \in {"settings", "prometheus"}
       \/ main = "udp" /\ config.udp
       \/ main = "tcp" /\ config.tcp
       \/ main = "privileges" /\ (config.user \/ config.group)
    /\ Exit("error")

Supervise ==
    /\ main = "supervise"
    /\ supervisor' = "running"
    /\ main' = "select"
    /\ UNCHANGED <<exit, config, told, cancelled, listener, joined, metrics, udp>>

Start ==
    \/ BindPrometheus \/ RegisterSignals \/ \E s \in Sockets : BindUdp(s)
    \/ UdpBound \/ BindTcp \/ DropPrivileges \/ StartupFails \/ Supervise

-----------------------------------------------------------------------------
\* The supervisor; its return drops the other listeners' tasks.
Abort(S) ==
    request' = [t \in Tasks |->
        IF request[t] # NoTask /\ request[t].of \in S
          THEN [request[t] EXCEPT !.aborted = TRUE] ELSE request[t]]

\* Mutant: a listener that ends without an error is never missed.
JoinListenerForgiving(l) ==
    /\ supervisor = "running" /\ l \in Listeners \ joined
    /\ listener[l] \in {"ended", "failed"}
    /\ joined' = joined \cup {l}
    /\ IF listener[l] = "failed"
         THEN /\ cancelled' = TRUE /\ supervisor' = "error"
              /\ Abort(Sockets)
              /\ listener' = [k \in Sockets \cup {Tcp} |->
                                IF listener[k] = "serving" THEN "ended" ELSE listener[k]]
         ELSE UNCHANGED <<cancelled, supervisor, listener, request>>
    /\ UNCHANGED <<process, metrics, queue, out, owed>>

JoinListener(l) ==
    /\ supervisor = "running" /\ l \in Listeners \ joined
    /\ listener[l] \in {"ended", "failed"}
    /\ joined' = joined \cup {l}
    /\ IF listener[l] = "failed" \/ ~cancelled
         THEN /\ cancelled' = TRUE /\ supervisor' = "error"
              /\ Abort(Sockets)
              /\ listener' = [k \in Sockets \cup {Tcp} |->
                                IF listener[k] = "serving" THEN "ended" ELSE listener[k]]
         ELSE UNCHANGED <<cancelled, supervisor, listener, request>>
    /\ UNCHANGED <<process, metrics, queue, out, owed>>

AllJoined ==
    /\ supervisor = "running" /\ joined = Listeners
    /\ supervisor' = "ok"
    /\ UNCHANGED <<process, cancelled, listener, joined, metrics, udp>>

\* hickory's server: it ends when told to; it may also stop or fail of itself.
TcpEnds ==
    /\ listener[Tcp] = "serving"
    /\ listener' = [listener EXCEPT ![Tcp] = "ended"]
    /\ UNCHANGED <<process, cancelled, joined, supervisor, metrics, udp>>

TcpFails ==
    /\ listener[Tcp] = "serving"
    /\ listener' = [listener EXCEPT ![Tcp] = "failed"]
    /\ UNCHANGED <<process, cancelled, joined, supervisor, metrics, udp>>

-----------------------------------------------------------------------------
\* The main loop, and finish_server_run.
SendTerm ==
    /\ main \in (Startup \ {"settings", "prometheus"}) \cup {"select"}
    /\ told' = TRUE
    /\ UNCHANGED <<main, exit, config, servers, metrics, udp>>

HandleTerm ==
    /\ main = "select" /\ told
    /\ cancelled' = TRUE
    /\ main' = "join"
    /\ UNCHANGED <<exit, config, told, listener, joined, supervisor, metrics, udp>>

\* Mutant: an error of the listeners is reported like a normal stop.
FinishAnyway ==
    /\ main \in {"select", "join"} /\ supervisor \in {"ok", "error"}
    /\ main' = "drain"
    /\ prometheus' = IF prometheus = "serving" THEN "draining" ELSE prometheus
    /\ UNCHANGED <<exit, config, told, connections, servers, udp>>

Finish ==
    /\ main \in {"select", "join"} /\ supervisor \in {"ok", "error"}
    /\ \/ /\ supervisor = "ok"
          /\ main' = "drain"
          /\ prometheus' = IF prometheus = "serving" THEN "draining" ELSE prometheus
          /\ UNCHANGED <<exit, config, told, connections, servers, udp>>
       \/ supervisor = "error" /\ Exit("error")

Drained ==
    /\ main = "drain" /\ prometheus \in {"off", "stopped"}
    /\ Exit("ok")

\* prometheus_server.rs: no new connections once it drains, and no end before the last.
Connect ==
    /\ prometheus = "serving" /\ connections < MaxConnections
    /\ connections' = connections + 1
    /\ UNCHANGED <<process, servers, prometheus, udp>>

Disconnect ==
    /\ connections > 0
    /\ connections' = connections - 1
    /\ UNCHANGED <<process, servers, prometheus, udp>>

PrometheusStops ==
    /\ prometheus = "draining" /\ connections = 0
    /\ prometheus' = "stopped"
    /\ UNCHANGED <<process, servers, connections, udp>>

-----------------------------------------------------------------------------
\* UdpListener::run.  The select! is biased: shutdown, then finished tasks, then
\* the socket.
Finished(s) ==
    {t \in Tasks : /\ request[t] # NoTask /\ request[t].of = s
                   /\ request[t].at = "finished" /\ ~request[t].aborted}

Shutdown(s) ==
    /\ listener[s] = "serving" /\ cancelled
    /\ listener' = [listener EXCEPT ![s] = "ended"]
    /\ Abort({s})
    /\ UNCHANGED <<process, cancelled, joined, supervisor, metrics, queue, out, owed>>

JoinRequest(s, t) ==
    /\ listener[s] = "serving" /\ ~cancelled
    /\ t \in Finished(s)
    /\ request' = [request EXCEPT ![t] = NoTask]
    /\ UNCHANGED <<process, servers, metrics, queue, out, owed>>

\* Mutant: requests are spawned on the runtime, and no JoinSet ends them.
SocketFailsDetached(s) ==
    /\ listener[s] = "serving" /\ ~cancelled /\ Finished(s) = {}
    /\ listener' = [listener EXCEPT ![s] = "failed"]
    /\ UNCHANGED <<process, cancelled, joined, supervisor, metrics, udp>>

\* The socket itself is gone: EBADF, ENOTSOCK and the like.
SocketFails(s) ==
    /\ listener[s] = "serving" /\ ~cancelled /\ Finished(s) = {}
    /\ listener' = [listener EXCEPT ![s] = "failed"]
    /\ Abort({s})
    /\ UNCHANGED <<process, cancelled, joined, supervisor, metrics, queue, out, owed>>

Receives(s) ==
    /\ listener[s] = "serving" /\ ~cancelled /\ Finished(s) = {}
    /\ queue[s] # NoDatagram
    /\ queue' = [queue EXCEPT ![s] = NoDatagram]

\* InvalidData, or ~safe_peer.
Discard(s) ==
    /\ Receives(s)
    /\ Kind[queue[s]] \in {"unusable", "unsafe"}
    /\ UNCHANGED <<process, servers, metrics, request, out, owed>>

\* Mutant: the local address is remembered by client.
SpawnedByPeer(s, d) ==
    LET T == {t \in Tasks : request[t] # NoTask /\ request[t].peer = PeerOf[d]}
    IN  [of |-> s, bytes |-> d, peer |-> PeerOf[d],
         local |-> IF T = {} THEN LocalOf[d] ELSE request[CHOOSE t \in T : TRUE].local,
         aborted |-> FALSE, at |-> "parse"]

\* What a task owns: a copy of the bytes, the peer, the packet information.
Spawned(s, d) ==
    [of |-> s, bytes |-> d, peer |-> PeerOf[d], local |-> LocalOf[d],
     aborted |-> FALSE, at |-> "parse"]

\* A task of its own for every datagram.
Spawn(s, t) ==
    /\ Receives(s)
    /\ Kind[queue[s]] \notin {"unusable", "unsafe"}
    /\ request[t] = NoTask
    /\ request' = [request EXCEPT ![t] = Spawned(s, queue[s])]
    /\ owed' = IF Kind[queue[s]] \in {"query", "malformed"}
               THEN owed \cup {<<s, queue[s]>>} ELSE owed
    /\ UNCHANGED <<process, servers, metrics, out>>

Goes(t, at) == request' = [request EXCEPT ![t].at = at]

\* handle_request up to the handler.
Parse(t) ==
    /\ request[t] # NoTask /\ request[t].at = "parse"
    /\ \/ Kind[request[t].bytes] = "query" /\ Goes(t, "handler")
       \/ Kind[request[t].bytes] = "malformed" /\ Goes(t, "send")
       \/ Kind[request[t].bytes] \in {"response", "short"} /\ Goes(t, "finished")
    /\ UNCHANGED <<process, servers, metrics, queue, out, owed>>

\* The catalog answers, or its task ends without (a panic).
HandlerAnswers(t) ==
    /\ request[t] # NoTask /\ request[t].at = "handler"
    /\ \/ Goes(t, "send")
       \/ Goes(t, "finished")
    /\ UNCHANGED <<process, servers, metrics, queue, out, owed>>

\* send_response: to the peer and from the local address of this task's datagram,
\* or nothing when the kernel refuses.
SendResponse(t) ==
    /\ request[t] # NoTask /\ request[t].at = "send"
    /\ LET r == request[t]
       IN  \/ /\ out' = [id |-> r.bytes, to |-> r.peer, from |-> r.local]
              /\ owed' = owed \ {<<r.of, r.bytes>>}
           \/ UNCHANGED <<out, owed>>
    /\ Goes(t, "finished")
    /\ UNCHANGED <<process, servers, metrics, queue>>

\* An aborted task is gone as soon as it is not being polled.
TaskDropped(t) ==
    /\ request[t] # NoTask /\ request[t].aborted
    /\ request' = [request EXCEPT ![t] = NoTask]
    /\ UNCHANGED <<process, servers, metrics, queue, out, owed>>

Arrive(s, d) ==
    /\ listener[s] = "serving" /\ queue[s] = NoDatagram
    /\ <<s, d>> \notin owed /\ \A t \in Tasks : request[t] # NoTask => request[t].bytes # d
    /\ queue' = [queue EXCEPT ![s] = d]
    /\ UNCHANGED <<process, servers, metrics, request, out, owed>>

Handle(t) == Parse(t) \/ SendResponse(t)

Receive(s) == Discard(s) \/ \E t \in Tasks : Spawn(s, t)

Supervisor == AllJoined \/ \E l \in Listeners : JoinListener(l)

Next ==
    \/ Start \/ SendTerm \/ HandleTerm \/ Finish \/ Drained
    \/ Supervisor \/ TcpEnds \/ TcpFails
    \/ Connect \/ Disconnect \/ PrometheusStops
    \/ \E s \in Sockets : \/ Shutdown(s) \/ SocketFails(s) \/ Receive(s)
                          \/ \E t \in Tasks : JoinRequest(s, t)
                          \/ \E d \in Datagrams : Arrive(s, d)
    \/ \E t \in Tasks : Handle(t) \/ HandlerAnswers(t) \/ TaskDropped(t)

Spec == Init /\ [][Next]_vars

(***************************************************************************)
(* Properties.                                                             *)
(***************************************************************************)
\* "Each response owns its received local address, even when several concurrent
\* requests share the same client IP and port": a reply goes to the peer of the
\* query it answers, from the address that query was sent to, and once; nothing is
\* sent for a response, a fragment of a header or an unsafe peer.
RepliesMatchRequests ==
    [][out' # out =>
        \E d \in Datagrams : /\ out' = [id |-> d, to |-> PeerOf[d], from |-> LocalOf[d]]
                             /\ \E s \in Sockets : <<s, d>> \in owed \ owed']_vars

\* The process reports success only if it was told to stop, all listeners have ended
\* without an error and no metrics request was cut off, or if it has no listeners.
ExitIsHonest ==
    [][exit' = "ok" /\ exit # "ok" =>
        /\ connections = 0
        /\ \A l \in Listeners : listener[l] = "ended"
        /\ told \/ Listeners = {}]_vars

\* "Do not leave TCP running with a silently dead UDP listener": once startup is over
\* every listener has been bound, so the supervisor waits for none that never was, and
\* one that is dead is still to be joined, or all have been told to stop; when the
\* supervisor has returned nobody serves any more; and no request task outlives its
\* listener, other than to be collected.
ListenersStopTogether ==
    /\ main \notin Startup \cup {"exited"} => \A l \in Listeners :
          /\ listener[l] # "off"
          /\ listener[l] # "serving" /\ ~cancelled => supervisor = "running" /\ l \notin joined
    /\ supervisor \in {"ok", "error"} =>
          \A l \in Sockets \cup {Tcp} : listener[l] # "serving"
    /\ \A t \in Tasks : request[t] # NoTask /\ ~request[t].aborted =>
          listener[request[t].of] = "serving"

\* All of this to whoever started it: the process of module Process, its exit code
\* included.
Proc == INSTANCE Process WITH
            phase <- IF main \in Startup \cup {"exited"} THEN "off" ELSE "up",
            listens <- Listeners # {},
            told <- told /\ main # "exited",
            lost <- supervisor = "error",
            exit <- IF exit = "ok" THEN "clean" ELSE exit

ImplementsProcess == Proc!Spec

(***************************************************************************)
(* Fairness: tokio runs what can run; the main loop's branches are polled  *)
(* although others are ready; a TCP server told to stop does.  Nothing is  *)
(* assumed of handlers and of the clients of Prometheus.                   *)
(***************************************************************************)
Fairness ==
    /\ WF_vars(Start) /\ SF_vars(HandleTerm) /\ WF_vars(Finish) /\ WF_vars(Drained)
    /\ WF_vars(Supervisor) /\ WF_vars(cancelled /\ TcpEnds) /\ WF_vars(PrometheusStops)
    /\ \A s \in Sockets : WF_vars(Shutdown(s))

FairSpec == Spec /\ Fairness

\* "Do not leave TCP running with a silently dead UDP listener": once a listener is
\* gone, be it during startup, or SIGTERM has come, the process ends, though
\* handlers may hang; only open metrics connections may hold it up.
Ending == main = "exited" \/ (main = "drain" /\ connections > 0)

ProcessEnds ==
    /\ told ~> Ending
    /\ \A l \in Sockets \cup {Tcp} : listener[l] \in {"ended", "failed"} ~> Ending

=============================================================================
