---------------------------- MODULE DaemonProofs ----------------------------
(***************************************************************************)
(* Proofs about Daemon, for any number of sockets, datagrams and tasks:    *)
(* what an exit with success means, and that replies go where their        *)
(* queries came from.                                                      *)
(***************************************************************************)
EXTENDS Daemon, TLAPS

\* A listener the supervisor has seen end, without giving up, ended because the
\* daemon was told to stop; the loop is left only when all of them have.
Supervised ==
    /\ main \in Startup => supervisor = "off" /\ joined = {}
    /\ main = "drain" => supervisor = "ok"
    /\ supervisor = "ok" => joined = Listeners
    /\ main # "exited" /\ supervisor # "error" =>
          /\ \A l \in joined : listener[l] = "ended"
          /\ joined # {} => cancelled
          /\ cancelled => told

\* A task works for its own datagram, alone, and owes the reply until it sends it.
OwnDatagram ==
    \A t \in Tasks : request[t] # NoTask =>
        /\ request[t].peer = PeerOf[request[t].bytes]
        /\ request[t].local = LocalOf[request[t].bytes]
        /\ \/ request[t].at \in {"handler", "send"}
           \/ request[t].at = "parse" /\ Kind[request[t].bytes] \in {"query", "malformed"}
           => <<request[t].of, request[t].bytes>> \in owed

Works(t, s, d) == request[t] # NoTask /\ request[t].of = s /\ request[t].bytes = d

OneTaskEach ==
    \A s \in Sockets, d \in Datagrams :
        /\ \A t, u \in Tasks : Works(t, s, d) /\ Works(u, s, d) => t = u
        /\ \A t \in Tasks : queue[s] = d => ~Works(t, s, d)

-----------------------------------------------------------------------------
LEMMA SpawnedType ==
  ASSUME NEW s \in Sockets, NEW d \in Datagrams
  PROVE  Spawned(s, d) \in Task
  BY DEF Spawned, Task

LEMMA GoesType ==
  ASSUME TypeOK, NEW t \in Tasks, request[t] # NoTask,
         NEW at \in {"parse", "handler", "send", "finished"}, Goes(t, at)
  PROVE  /\ request' \in [Tasks -> Task \cup {NoTask}]
         /\ request[t] \in Task /\ request'[t] \in Task
         /\ request'[t].of = request[t].of /\ request'[t].bytes = request[t].bytes
         /\ request'[t].peer = request[t].peer /\ request'[t].local = request[t].local
         /\ request'[t].at = at
         /\ \A u \in Tasks \ {t} : request'[u] = request[u]
  <1>1. request[t] \in Task /\ [request[t] EXCEPT !.at = at] \in Task
    BY DEF TypeOK, Task
  <1>2. request' = [request EXCEPT ![t] = [request[t] EXCEPT !.at = at]]
    BY DEF Goes
  <1> QED  BY <1>1, <1>2 DEF TypeOK, Task

\* Aborting marks tasks, and changes nothing they work for.
LEMMA AbortType ==
  ASSUME TypeOK, NEW S, Abort(S)
  PROVE  /\ request' \in [Tasks -> Task \cup {NoTask}]
         /\ \A t \in Tasks : \/ request'[t] = request[t]
                             \/ /\ request[t] # NoTask
                                /\ request'[t].of = request[t].of
                                /\ request'[t].bytes = request[t].bytes
                                /\ request'[t].peer = request[t].peer
                                /\ request'[t].local = request[t].local
                                /\ request'[t].at = request[t].at
  <1>1. ASSUME NEW t \in Tasks, request[t] # NoTask
        PROVE  /\ [request[t] EXCEPT !.aborted = TRUE] \in Task
               /\ request[t] \in Task
    BY <1>1 DEF TypeOK, Task
  <1> QED  BY <1>1 DEF Abort, TypeOK, Task

-----------------------------------------------------------------------------
LEMMA ExitType ==
  ASSUME TypeOK, NEW code \in {"ok", "error"}, Exit(code)
  PROVE  TypeOK'
  <1>1. 0 \in 0..MaxConnections
    BY DaemonAssumption
  <1>2. listener' \in [Sockets \cup {Tcp} -> {"off", "serving", "ended", "failed"}]
    BY DEF Exit
  <1>3. /\ queue' \in [Sockets -> Datagrams \cup {NoDatagram}]
        /\ request' \in [Tasks -> Task \cup {NoTask}]
    BY DEF Exit
  <1> QED  BY <1>1, <1>2, <1>3 DEF TypeOK, Exit, Startup

LEMMA InitTypeOK == Init => TypeOK
  <1> SUFFICES ASSUME Init PROVE TypeOK
    OBVIOUS
  <1>0. 0 \in 0..MaxConnections
    BY DaemonAssumption
  <1>1. /\ exit = "none" /\ config \in Configs
        /\ {told, cancelled} \subseteq BOOLEAN
        /\ joined \subseteq Listeners /\ supervisor = "off" /\ prometheus = "off"
        /\ connections = 0 /\ out = NoReply /\ owed = {}
    BY DEF Init
  <1>2. listener \in [Sockets \cup {Tcp} -> {"off", "serving", "ended", "failed"}]
    BY DEF Init
  <1>3. /\ queue \in [Sockets -> Datagrams \cup {NoDatagram}]
        /\ request \in [Tasks -> Task \cup {NoTask}]
    BY DEF Init
  <1>4. main \in Startup \cup {"select", "join", "drain", "exited"} /\ main # "exited"
    BY DEF Init, Startup
  <1>5. connections \in 0..MaxConnections /\ ~(connections > 0)
    BY <1>0, <1>1
  <1>6. exit \in {"none", "ok", "error"} /\ (exit = "none" <=> main # "exited")
    BY <1>1, <1>4
  <1>7. owed \subseteq Sockets \X Datagrams
    BY <1>1
  <1> QED  BY <1>1, <1>2, <1>3, <1>4, <1>5, <1>6, <1>7 DEF TypeOK

LEMMA StartTypeOK == ASSUME TypeOK, Start PROVE TypeOK'
  <1> USE DEF TypeOK, Startup, Listeners
  <1>1. CASE BindPrometheus
    BY <1>1 DEF BindPrometheus, servers, udp
  <1>2. CASE RegisterSignals
    BY <1>2 DEF RegisterSignals, servers, metrics, udp
  <1>3. ASSUME NEW s \in Sockets, BindUdp(s) PROVE TypeOK'
    BY <1>3 DEF BindUdp, process, metrics, udp
  <1>4. CASE UdpBound
    BY <1>4 DEF UdpBound, servers, metrics, udp
  <1>5. CASE BindTcp
    BY <1>5 DEF BindTcp, metrics, udp
  <1>6. CASE DropPrivileges
    BY <1>6 DEF DropPrivileges, servers, metrics, udp
  <1>7. CASE StartupFails
    BY <1>7, ExitType DEF StartupFails
  <1>8. CASE Supervise
    BY <1>8 DEF Supervise, metrics, udp
  <1> QED  BY <1>1, <1>2, <1>3, <1>4, <1>5, <1>6, <1>7, <1>8 DEF Start

LEMMA StopTypeOK ==
  ASSUME TypeOK,
         \/ SendTerm \/ HandleTerm \/ Finish \/ Drained
         \/ Supervisor \/ TcpEnds \/ TcpFails
         \/ Connect \/ Disconnect \/ PrometheusStops
  PROVE  TypeOK'
  <1> USE DEF TypeOK, Startup, Listeners
  <1>1. CASE SendTerm \/ HandleTerm
    BY <1>1 DEF SendTerm, HandleTerm, servers, metrics, udp
  <1>2. CASE Finish
    <2>1. CASE supervisor = "error" /\ Exit("error")
      BY <2>1, ExitType
    <2>2. CASE ~(supervisor = "error" /\ Exit("error"))
      <3>1. /\ main \in {"select", "join"} /\ main' = "drain"
            /\ prometheus' = IF prometheus = "serving" THEN "draining" ELSE prometheus
            /\ UNCHANGED <<exit, config, told, connections, servers, udp>>
        BY <1>2, <2>2, Zenon DEF Finish
      <3> QED  BY <3>1 DEF servers, udp
    <2> QED  BY <1>2, <2>1, <2>2 DEF Finish
  <1>3. CASE Drained
    BY <1>3, ExitType DEF Drained
  <1>4. CASE AllJoined
    BY <1>4 DEF AllJoined, process, metrics, udp
  <1>5. ASSUME NEW l \in Listeners, JoinListener(l) PROVE TypeOK'
    <2>1. UNCHANGED <<process, metrics, queue, out, owed>> /\ joined' = joined \cup {l}
      BY <1>5 DEF JoinListener
    <2>2. CASE listener[l] = "failed" \/ ~cancelled
      <3>1. request' \in [Tasks -> Task \cup {NoTask}]
        BY <1>5, <2>2, AbortType DEF JoinListener
      <3>2. listener' \in [Sockets \cup {Tcp} -> {"off", "serving", "ended", "failed"}]
            /\ cancelled' = TRUE /\ supervisor' = "error"
        BY <1>5, <2>2 DEF JoinListener
      <3> QED  BY <2>1, <3>1, <3>2 DEF process, metrics
    <2>3. CASE ~(listener[l] = "failed" \/ ~cancelled)
      BY <1>5, <2>1, <2>3 DEF JoinListener, process, metrics
    <2> QED  BY <2>2, <2>3
  <1>6. CASE TcpEnds \/ TcpFails
    BY <1>6 DEF TcpEnds, TcpFails, process, metrics, udp
  <1>7. CASE Connect \/ Disconnect \/ PrometheusStops
    BY <1>7, DaemonAssumption DEF Connect, Disconnect, PrometheusStops, process, servers, udp
  <1> QED  BY <1>1, <1>2, <1>3, <1>4, <1>5, <1>6, <1>7 DEF Supervisor

LEMMA LoopTypeOK ==
  ASSUME TypeOK, NEW s \in Sockets,
         \/ Shutdown(s) \/ SocketFails(s) \/ Receive(s)
         \/ \E t \in Tasks : JoinRequest(s, t)
         \/ \E d \in Datagrams : Arrive(s, d)
  PROVE  TypeOK'
  <1> USE DEF TypeOK, Startup, Listeners
  <1>1. CASE Shutdown(s) \/ SocketFails(s)
    <2>1. request' \in [Tasks -> Task \cup {NoTask}]
      BY <1>1, AbortType DEF Shutdown, SocketFails
    <2> QED  BY <1>1, <2>1 DEF Shutdown, SocketFails, process, metrics
  <1>2. CASE Discard(s)
    BY <1>2 DEF Discard, Receives, process, servers, metrics
  <1>3. ASSUME NEW t \in Tasks, Spawn(s, t) PROVE TypeOK'
    <2>1. queue[s] \in Datagrams
      BY <1>3 DEF Spawn, Receives
    <2>2. request' \in [Tasks -> Task \cup {NoTask}]
      BY <1>3, <2>1, SpawnedType DEF Spawn
    <2>3. owed' \subseteq Sockets \X Datagrams
      BY <1>3, <2>1 DEF Spawn
    <2> QED  BY <1>3, <2>2, <2>3 DEF Spawn, Receives, process, servers, metrics
  <1>4. ASSUME NEW t \in Tasks, JoinRequest(s, t) PROVE TypeOK'
    BY <1>4 DEF JoinRequest, process, servers, metrics
  <1>5. ASSUME NEW d \in Datagrams, Arrive(s, d) PROVE TypeOK'
    BY <1>5 DEF Arrive, process, servers, metrics
  <1> QED  BY <1>1, <1>2, <1>3, <1>4, <1>5 DEF Receive

LEMMA TaskTypeOK ==
  ASSUME TypeOK, NEW t \in Tasks, Handle(t) \/ HandlerAnswers(t) \/ TaskDropped(t)
  PROVE  TypeOK'
  <1> USE DEF TypeOK, Startup, Listeners
  <1>1. CASE Parse(t) \/ HandlerAnswers(t)
    <2>1. request' \in [Tasks -> Task \cup {NoTask}]
      BY <1>1, GoesType DEF Parse, HandlerAnswers
    <2> QED  BY <1>1, <2>1 DEF Parse, HandlerAnswers, process, servers, metrics
  <1>2. CASE SendResponse(t)
    <2>1. request' \in [Tasks -> Task \cup {NoTask}] /\ request[t] \in Task
      BY <1>2, GoesType DEF SendResponse
    <2>2. out' \in Reply \cup {NoReply} /\ owed' \subseteq Sockets \X Datagrams
      BY <1>2, <2>1 DEF SendResponse, Task, Reply
    <2> QED  BY <1>2, <2>1, <2>2 DEF SendResponse, process, servers, metrics
  <1>3. CASE TaskDropped(t)
    BY <1>3 DEF TaskDropped, process, servers, metrics
  <1> QED  BY <1>1, <1>2, <1>3 DEF Handle

LEMMA NextTypeOK == TypeOK /\ [Next]_vars => TypeOK'
  <1> SUFFICES ASSUME TypeOK, [Next]_vars PROVE TypeOK'
    OBVIOUS
  <1>1. CASE UNCHANGED vars
    BY <1>1 DEF vars, process, servers, metrics, udp, TypeOK, Listeners
  <1> QED  BY <1>1, StartTypeOK, StopTypeOK, LoopTypeOK, TaskTypeOK DEF Next

-----------------------------------------------------------------------------
\* A step that leaves the listeners and their supervisor alone.
LEMMA SupervisedSame ==
  ASSUME Supervised, UNCHANGED <<config, servers>>, told => told',
         main' = "drain" => main = "drain", main' # "exited" => main # "exited",
         main' \in Startup => main \in Startup
  PROVE  Supervised'
  BY DEF Supervised, servers, Listeners

LEMMA ExitSupervised == ASSUME NEW code, Exit(code) PROVE Supervised'
  BY DEF Exit, Supervised, Startup

LEMMA StartSupervised == ASSUME TypeOK, Supervised, Start PROVE Supervised'
  <1>1. CASE BindPrometheus \/ RegisterSignals \/ UdpBound \/ DropPrivileges
    BY <1>1, SupervisedSame
    DEF BindPrometheus, RegisterSignals, UdpBound, DropPrivileges, Startup
  <1>2. CASE StartupFails
    BY <1>2, ExitSupervised DEF StartupFails
  <1>3. CASE Supervise
    BY <1>3 DEF Supervise, Supervised, Listeners, Startup
  <1>4. CASE BindTcp \/ \E s \in Sockets : BindUdp(s)
    <2>1. /\ main \in Startup /\ main' \in Startup /\ main' \notin {"drain", "exited"}
          /\ main # "exited" /\ UNCHANGED <<told, cancelled, joined, supervisor>>
      BY <1>4 DEF BindTcp, BindUdp, Startup, process
    <2> QED  BY <2>1 DEF Supervised
  <1> QED  BY <1>1, <1>2, <1>3, <1>4 DEF Start

LEMMA NextSupervised == TypeOK /\ Supervised /\ [Next]_vars => Supervised'
  <1> SUFFICES ASSUME TypeOK, Supervised, [Next]_vars PROVE Supervised'
    OBVIOUS
  <1>1. CASE Start
    BY <1>1, StartSupervised
  <1>2. CASE SendTerm \/ Connect \/ Disconnect \/ PrometheusStops
    BY <1>2, SupervisedSame DEF SendTerm, Connect, Disconnect, PrometheusStops, process
  <1>3. CASE HandleTerm
    BY <1>3 DEF HandleTerm, Supervised, Listeners, Startup
  <1>4. CASE Finish
    <2>1. CASE Exit("error")
      BY <2>1, ExitSupervised
    <2>2. CASE ~Exit("error")
      <3>1. /\ supervisor = "ok" /\ main \in {"select", "join"} /\ main' = "drain"
            /\ UNCHANGED <<config, told, servers>>
        BY <1>4, <2>2, Zenon DEF Finish
      <3> QED  BY <3>1 DEF Supervised, Listeners, servers, Startup
    <2> QED  BY <2>1, <2>2
  <1>5. CASE Drained
    BY <1>5, ExitSupervised DEF Drained
  <1>6. CASE AllJoined
    BY <1>6 DEF AllJoined, Supervised, Listeners, Startup, process
  <1>7. ASSUME NEW l \in Listeners, JoinListener(l) PROVE Supervised'
    <2>1. CASE listener[l] = "failed" \/ ~cancelled
      BY <1>7, <2>1 DEF JoinListener, Supervised, Listeners, Startup, process
    <2>2. CASE ~(listener[l] = "failed" \/ ~cancelled)
      BY <1>7, <2>2 DEF JoinListener, Supervised, Listeners, Startup, process
    <2> QED  BY <2>1, <2>2
  <1>8. CASE TcpEnds \/ TcpFails \/ \E s \in Sockets : Shutdown(s) \/ SocketFails(s)
    <2>1. PICK l \in Sockets \cup {Tcp} : /\ listener[l] = "serving"
                  /\ \E e \in {"ended", "failed"} : listener' = [listener EXCEPT ![l] = e]
                  /\ UNCHANGED <<process, cancelled, joined, supervisor>>
      BY <1>8 DEF TcpEnds, TcpFails, Shutdown, SocketFails
    <2> QED  BY <2>1 DEF Supervised, Listeners, process, TypeOK
  <1>9. CASE \/ \E s \in Sockets : \/ Receive(s)
                                   \/ \E t \in Tasks : JoinRequest(s, t)
                                   \/ \E d \in Datagrams : Arrive(s, d)
             \/ \E t \in Tasks : Handle(t) \/ HandlerAnswers(t) \/ TaskDropped(t)
    <2>1. UNCHANGED <<process, servers>>
      BY <1>9 DEF Receive, Discard, Spawn, JoinRequest, Arrive,
                  Handle, Parse, SendResponse, HandlerAnswers, TaskDropped
    <2> QED  BY <2>1, SupervisedSame DEF process
  <1>10. CASE UNCHANGED vars
    BY <1>10, SupervisedSame DEF vars, process
  <1> QED  BY <1>1, <1>2, <1>3, <1>4, <1>5, <1>6, <1>7, <1>8, <1>9, <1>10 DEF Next, Supervisor

\* Only the end of the loop reports success, and by then all listeners have ended.
LEMMA HonestStep == TypeOK /\ Supervised /\ [Next]_vars =>
    (exit' = "ok" /\ exit # "ok" =>
        /\ connections = 0
        /\ \A l \in Listeners : listener[l] = "ended"
        /\ told \/ Listeners = {})
  <1> SUFFICES ASSUME TypeOK, Supervised, [Next]_vars, exit' = "ok", exit # "ok"
               PROVE  /\ connections = 0
                      /\ \A l \in Listeners : listener[l] = "ended"
                      /\ told \/ Listeners = {}
    OBVIOUS
  <1>1. Drained
    BY DEF Next, vars, Start, BindPrometheus, RegisterSignals, BindUdp, UdpBound, BindTcp,
           DropPrivileges, StartupFails, Supervise, SendTerm, HandleTerm, Finish, Exit,
           Supervisor, AllJoined, JoinListener, TcpEnds, TcpFails, Connect, Disconnect,
           PrometheusStops, Shutdown, SocketFails, Receive, Discard, Spawn, JoinRequest,
           Arrive, Handle, Parse, SendResponse, HandlerAnswers, TaskDropped, process
  <1>2. supervisor = "ok" /\ joined = Listeners /\ prometheus \in {"off", "stopped"}
        /\ main = "drain"
    BY <1>1 DEF Drained, Supervised
  <1>3. connections = 0
    <2>1. connections \in Nat
      BY DaemonAssumption DEF TypeOK
    <2> QED  BY <1>2, <2>1 DEF TypeOK
  <1> QED  BY <1>2, <1>3 DEF Supervised

-----------------------------------------------------------------------------
\* What ListenersStopTogether needs besides: only configured listeners are ever
\* bound, and each is once startup is past it.
Bound ==
    /\ \A l \in Sockets \cup {Tcp} : listener[l] # "off" => l \in Listeners
    /\ main \notin {"settings", "prometheus", "udp", "exited"} =>
          \A s \in Sockets \cap Listeners : listener[s] # "off"
    /\ main \in {"privileges", "supervise"} /\ Tcp \in Listeners => listener[Tcp] # "off"
    /\ main = "exited" => supervisor = "off"
    /\ main \notin Startup \cup {"exited"} => supervisor # "off"
    /\ supervisor = "error" => cancelled

\* What remains of ListenersStopTogether, the part about dead listeners following
\* from Supervised and Bound.
Stopping ==
    /\ main \notin Startup \cup {"exited"} => \A l \in Listeners : listener[l] # "off"
    /\ supervisor \in {"ok", "error"} =>
          \A l \in Sockets \cup {Tcp} : listener[l] # "serving"
    /\ \A t \in Tasks : request[t] # NoTask /\ ~request[t].aborted =>
          listener[request[t].of] = "serving"

Together == TypeOK /\ Supervised /\ Bound /\ Stopping

LEMMA DeadAreNoticed == Together => ListenersStopTogether
  BY DEF Together, TypeOK, Supervised, Bound, Stopping, ListenersStopTogether

\* A step that binds no listener, ends none and lets no task go on without one.
LEMMA TogetherSame ==
  ASSUME Together, UNCHANGED <<config, listener, supervisor>>, cancelled => cancelled',
         \/ main' = main
         \/ main' \in {"prometheus", "udp"}
         \/ main \notin Startup \cup {"exited"} /\ main' \notin Startup \cup {"exited"}
         \/ main = "privileges" /\ main' = "supervise",
         \A t \in Tasks : request'[t] # NoTask /\ ~request'[t].aborted =>
              \/ listener[request'[t].of] = "serving"
              \/ /\ request[t] # NoTask /\ ~request[t].aborted
                 /\ request'[t].of = request[t].of
  PROVE  Bound' /\ Stopping'
  BY DEF Together, Bound, Stopping, Listeners, Startup

LEMMA ExitTogether ==
  ASSUME NEW code, Exit(code) PROVE Bound' /\ Stopping'
  BY DEF Exit, Bound, Stopping, Startup

LEMMA StartTogether == ASSUME Together, Start PROVE Bound' /\ Stopping'
  <1>1. CASE BindPrometheus \/ RegisterSignals \/ DropPrivileges
    BY <1>1, TogetherSame
    DEF BindPrometheus, RegisterSignals, DropPrivileges, servers, udp
  <1>2. CASE StartupFails
    BY <1>2, ExitTogether DEF StartupFails
  <1> USE DEF Together, Bound, Stopping, Listeners, Startup, TypeOK, Task
  <1>3. ASSUME NEW s \in Sockets, BindUdp(s) PROVE Bound' /\ Stopping'
    BY <1>3, DaemonAssumption DEF BindUdp, process, udp, Supervised
  <1>4. CASE UdpBound
    BY <1>4, DaemonAssumption DEF UdpBound, servers, udp
  <1>5. CASE BindTcp
    BY <1>5, DaemonAssumption DEF BindTcp, udp, Supervised
  <1>6. CASE Supervise
    BY <1>6, DaemonAssumption DEF Supervise, udp
  <1> QED  BY <1>1, <1>2, <1>3, <1>4, <1>5, <1>6 DEF Start

\* Listeners end: the tasks of those that do are aborted.
LEMMA EndTogether ==
  ASSUME Together, NEW S,
         \A l \in Sockets \cup {Tcp} : \/ listener'[l] = listener[l]
                                       \/ /\ listener[l] = "serving" /\ l \in S
                                          /\ listener'[l] \in {"ended", "failed"},
         UNCHANGED <<main, config>>, main = "exited" => supervisor' = "off",
         supervisor' = "off" => supervisor = "off", supervisor' = "error" => cancelled',
         supervisor' \in {"ok", "error"} =>
             \A l \in Sockets \cup {Tcp} : listener'[l] # "serving",
         Abort(S \cap Sockets)
  PROVE  Bound' /\ Stopping'
  <1>1. Bound' /\ (main' \notin Startup \cup {"exited"} => \A l \in Listeners' : listener'[l] # "off")
    BY DEF Together, Bound, Stopping, Listeners
  <1>2. ASSUME NEW t \in Tasks, request'[t] # NoTask, ~request'[t].aborted
        PROVE  listener'[request'[t].of] = "serving"
    <2>1. /\ request[t] # NoTask /\ ~request[t].aborted /\ request'[t] = request[t]
          /\ request[t].of \notin S \cap Sockets /\ request[t].of \in Sockets
      BY <1>2 DEF Abort, Together, TypeOK, Task
    <2> QED  BY <2>1 DEF Together, Stopping
  <1> QED  BY <1>1, <1>2 DEF Stopping

LEMMA InitTogether == Init => Together
  <1>1. Init => Supervised /\ Bound /\ Stopping
    BY DEF Init, Supervised, Bound, Stopping, Startup
  <1> QED  BY <1>1, InitTypeOK DEF Together

LEMMA NextTogether == Together /\ [Next]_vars => Together'
  <1> SUFFICES ASSUME Together, [Next]_vars PROVE Bound' /\ Stopping'
    BY NextTypeOK, NextSupervised DEF Together
  <1>1. CASE Start
    BY <1>1, StartTogether
  <1>2. CASE SendTerm \/ HandleTerm \/ Connect \/ Disconnect \/ PrometheusStops
    BY <1>2, TogetherSame
    DEF SendTerm, HandleTerm, Connect, Disconnect, PrometheusStops, process, servers,
        metrics, udp, Startup
  <1>3. CASE Finish
    <2>1. CASE Exit("error")
      BY <2>1, ExitTogether
    <2>2. CASE ~Exit("error")
      BY <1>3, <2>2, TogetherSame DEF Finish, servers, udp, Startup
    <2> QED  BY <2>1, <2>2
  <1>4. CASE Drained
    BY <1>4, ExitTogether DEF Drained
  <1>5. CASE AllJoined
    <2>1. \A l \in Sockets \cup {Tcp} : listener[l] # "serving"
      BY <1>5 DEF AllJoined, Together, Supervised, Bound
    <2> QED  BY <1>5, <2>1 DEF AllJoined, process, udp, Together, Bound,
                              Stopping, Listeners
  <1>6. ASSUME NEW l \in Listeners, JoinListener(l) PROVE Bound' /\ Stopping'
    <2>1. CASE listener[l] = "failed" \/ ~cancelled
      <3>1. /\ UNCHANGED <<main, config>> /\ Abort((Sockets \cup {Tcp}) \cap Sockets)
            /\ \A k \in Sockets \cup {Tcp} :
                  listener'[k] = IF listener[k] = "serving" THEN "ended" ELSE listener[k]
        BY <1>6, <2>1 DEF JoinListener, process, Abort
      <3>2. main # "exited" /\ supervisor' = "error" /\ cancelled'
        BY <1>6, <2>1 DEF JoinListener, Together, Bound
      <3> QED  BY <3>1, <3>2, EndTogether
    <2>2. CASE ~(listener[l] = "failed" \/ ~cancelled)
      BY <1>6, <2>2, TogetherSame DEF JoinListener, process
    <2> QED  BY <2>1, <2>2
  <1>7. CASE TcpEnds \/ TcpFails \/ \E s \in Sockets : Shutdown(s) \/ SocketFails(s)
    <2>1. PICK l \in Sockets \cup {Tcp} :
            /\ listener[l] = "serving"
            /\ \E e \in {"ended", "failed"} : listener' = [listener EXCEPT ![l] = e]
            /\ UNCHANGED <<process, supervisor, cancelled>>
            /\ Abort({l} \cap Sockets) \/ (l = Tcp /\ UNCHANGED request)
      BY <1>7 DEF TcpEnds, TcpFails, Shutdown, SocketFails, Abort, udp
    <2>2. Abort({l} \cap Sockets)
      BY <2>1, DaemonAssumption DEF Abort, Together, TypeOK
    <2>3. supervisor \notin {"ok", "error"} /\ (main = "exited" => supervisor = "off")
      BY <2>1 DEF Together, Bound, Stopping
    <2>4. UNCHANGED <<main, config, supervisor, cancelled>>
      BY <2>1 DEF process
    <2>5. \A k \in Sockets \cup {Tcp} : \/ listener'[k] = listener[k]
                                        \/ /\ listener[k] = "serving" /\ k \in {l}
                                           /\ listener'[k] \in {"ended", "failed"}
      BY <2>1 DEF Together, TypeOK
    <2>6. /\ UNCHANGED <<main, config>> /\ supervisor' = supervisor
          /\ supervisor' = "error" => cancelled'
          /\ main = "exited" => supervisor' = "off"
          /\ supervisor' \notin {"ok", "error"}
      BY <2>3, <2>4 DEF Together, Bound
    <2> QED  BY <2>2, <2>5, <2>6, EndTogether
  <1>8. ASSUME NEW s \in Sockets,
               \/ Receive(s) \/ \E t \in Tasks : JoinRequest(s, t)
               \/ \E d \in Datagrams : Arrive(s, d)
        PROVE  Bound' /\ Stopping'
    <2>1. CASE Discard(s) \/ \E d \in Datagrams : Arrive(s, d)
      <3>1. UNCHANGED <<process, servers, request>>
        BY <2>1 DEF Discard, Arrive
      <3> QED  BY <3>1, TogetherSame DEF process, servers
    <2>2. ASSUME NEW t \in Tasks, Spawn(s, t) PROVE Bound' /\ Stopping'
      <3>1. /\ listener[s] = "serving" /\ UNCHANGED <<process, servers>>
            /\ request'[t].of = s
            /\ \A u \in Tasks \ {t} : request'[u] = request[u]
        BY <2>2 DEF Spawn, Receives, Spawned, Together, TypeOK
      <3> QED  BY <3>1, TogetherSame DEF process, servers
    <2>3. ASSUME NEW t \in Tasks, JoinRequest(s, t) PROVE Bound' /\ Stopping'
      <3>1. UNCHANGED <<process, servers>> /\ \A u \in Tasks : request'[u] \in {request[u], NoTask}
        BY <2>3 DEF JoinRequest, Together, TypeOK
      <3> QED  BY <3>1, TogetherSame DEF process, servers
    <2> QED  BY <1>8, <2>1, <2>2, <2>3 DEF Receive
  <1>9. ASSUME NEW t \in Tasks, Handle(t) \/ HandlerAnswers(t) \/ TaskDropped(t)
        PROVE  Bound' /\ Stopping'
    <2>1. UNCHANGED <<process, servers>>
      BY <1>9 DEF Handle, Parse, SendResponse, HandlerAnswers, TaskDropped
    <2>2. CASE TaskDropped(t)
      <3>1. \A u \in Tasks : request'[u] \in {request[u], NoTask}
        BY <2>2 DEF TaskDropped, Together, TypeOK
      <3> QED  BY <2>1, <3>1, TogetherSame DEF process, servers
    <2>3. CASE Handle(t) \/ HandlerAnswers(t)
      <3>1. PICK at : request[t] # NoTask /\ Goes(t, at)
        BY <2>3 DEF Handle, Parse, SendResponse, HandlerAnswers
      <3>2. request[t] \in Task
        BY <3>1 DEF Together, TypeOK
      <3>3. /\ request'[t].of = request[t].of /\ request'[t].aborted = request[t].aborted
            /\ \A u \in Tasks \ {t} : request'[u] = request[u]
        BY <3>1, <3>2 DEF Goes, Together, TypeOK, Task
      <3> QED  BY <2>1, <3>1, <3>3, TogetherSame DEF process, servers
    <2> QED  BY <1>9, <2>2, <2>3
  <1>10. CASE UNCHANGED vars
    BY <1>10, TogetherSame DEF vars, process, servers, udp
  <1> QED  BY <1>1, <1>2, <1>3, <1>4, <1>5, <1>6, <1>7, <1>8, <1>9, <1>10 DEF Next, Supervisor

-----------------------------------------------------------------------------
\* The process as whoever started it sees it.
LEMMA ExitIsDown ==
  ASSUME Exit("ok") \/ Exit("error")
  PROVE  Proc!Down(IF exit' = "ok" THEN "clean" ELSE exit')
  BY DEF Exit, Proc!Down, Listeners

LEMMA ProcessStep == ASSUME Together, [Next]_vars PROVE [Proc!Next]_(Proc!vars)
  <1> USE DEF Proc!Next, Proc!vars, Startup
  <1>0. TypeOK /\ Supervised /\ Bound
    BY DEF Together
  <1>1. CASE Start
    <2>1. CASE StartupFails
      <3>1. Exit("error") /\ exit' = "error" /\ main \in Startup
        BY <2>1 DEF StartupFails, Exit
      <3> QED  BY <3>1, ExitIsDown DEF Proc!StartFails
    <2>2. CASE Supervise
      BY <2>2, <1>0 DEF Supervise, Proc!Start, Listeners, TypeOK, Supervised
    <2>3. CASE ~StartupFails /\ ~Supervise
      BY <1>1, <2>3 DEF Start, BindPrometheus, RegisterSignals, BindUdp, UdpBound, BindTcp,
                        DropPrivileges, Listeners, process, servers
    <2> QED  BY <2>1, <2>2, <2>3
  <1>2. CASE SendTerm
    BY <1>2 DEF SendTerm, Proc!Tell, Listeners, servers
  <1>3. CASE HandleTerm
    BY <1>3 DEF HandleTerm, Listeners
  <1>4. CASE Finish
    <2>1. CASE supervisor = "error" /\ Exit("error")
      <3>1. exit' = "error" /\ main \in {"select", "join"}
        BY <1>4, <2>1 DEF Finish, Exit
      <3> QED  BY <2>1, <3>1, ExitIsDown DEF Proc!GivesUp
    <2>2. CASE ~(supervisor = "error" /\ Exit("error"))
      BY <1>4, <2>2 DEF Finish, Listeners, servers
    <2> QED  BY <2>1, <2>2
  <1>5. CASE Drained
    <2>1. /\ exit' = "ok" /\ main = "drain" /\ supervisor = "ok" /\ joined = Listeners
          /\ told \/ Listeners = {}
      BY <1>5, <1>0 DEF Drained, Exit, Supervised
    <2> QED  BY <1>5, <2>1, ExitIsDown DEF Drained, Proc!StopsCleanly
  <1>6. CASE Supervisor
    <2>1. main \notin Startup \cup {"exited"}
      BY <1>6, <1>0 DEF Supervisor, AllJoined, JoinListener, Supervised, Bound
    <2>2. CASE AllJoined
      BY <2>2 DEF AllJoined, process, Listeners
    <2>3. ASSUME NEW l \in Listeners, JoinListener(l) PROVE Proc!Lose \/ UNCHANGED Proc!vars
      BY <2>1, <2>3 DEF JoinListener, process, Listeners, Proc!Lose
    <2> QED  BY <1>6, <2>2, <2>3 DEF Supervisor
  <1>7. CASE \/ TcpEnds \/ TcpFails \/ Connect \/ Disconnect \/ PrometheusStops
             \/ \E s \in Sockets : \/ Shutdown(s) \/ SocketFails(s) \/ Receive(s)
                                   \/ \E t \in Tasks : JoinRequest(s, t)
                                   \/ \E d \in Datagrams : Arrive(s, d)
             \/ \E t \in Tasks : Handle(t) \/ HandlerAnswers(t) \/ TaskDropped(t)
             \/ UNCHANGED vars
    <2>1. UNCHANGED <<process, supervisor>>
      BY <1>7 DEF TcpEnds, TcpFails, Connect, Disconnect, PrometheusStops, Shutdown,
                  SocketFails, Receive, Discard, Spawn, JoinRequest, Arrive, Handle, Parse,
                  SendResponse, HandlerAnswers, TaskDropped, vars, servers
    <2> QED  BY <2>1 DEF process, Listeners
  <1> QED  BY <1>1, <1>2, <1>3, <1>4, <1>5, <1>6, <1>7 DEF Next

-----------------------------------------------------------------------------
Owned == TypeOK /\ OwnDatagram /\ OneTaskEach

\* A step that starts no task, lets none go on and receives nothing.
LEMMA OwnedSame ==
  ASSUME Owned,
         \A t \in Tasks : \/ request'[t] = NoTask
                          \/ request'[t] = request[t]
                          \/ /\ request[t] # NoTask
                             /\ request'[t].of = request[t].of
                             /\ request'[t].bytes = request[t].bytes
                             /\ request'[t].peer = request[t].peer
                             /\ request'[t].local = request[t].local
                             /\ request'[t].at \in {request[t].at, "finished"},
         \A s \in Sockets : queue'[s] \in {queue[s], NoDatagram},
         \/ owed' = owed
         \/ \A t \in Tasks : request'[t] = NoTask
  PROVE  OwnDatagram' /\ OneTaskEach'
  <1>1. OwnDatagram'
    BY DEF Owned, OwnDatagram
  <1>2. OneTaskEach'
    BY DaemonAssumption DEF Owned, OneTaskEach, Works
  <1> QED  BY <1>1, <1>2

LEMMA AbortOwned ==
  ASSUME Owned, NEW S, Abort(S), UNCHANGED <<queue, owed>>
  PROVE  OwnDatagram' /\ OneTaskEach'
  <1>1. \A t \in Tasks : \/ request'[t] = request[t]
                         \/ /\ request[t] # NoTask
                            /\ request'[t].of = request[t].of
                            /\ request'[t].bytes = request[t].bytes
                            /\ request'[t].peer = request[t].peer
                            /\ request'[t].local = request[t].local
                            /\ request'[t].at \in {request[t].at, "finished"}
    BY AbortType DEF Owned
  <1> QED  BY <1>1, OwnedSame

LEMMA ExitOwned == ASSUME Owned, NEW code, Exit(code) PROVE OwnDatagram' /\ OneTaskEach'
  <1>1. \A t \in Tasks : request'[t] = NoTask
    BY DEF Exit
  <1>2. \A s \in Sockets : queue'[s] \in {queue[s], NoDatagram}
    BY DEF Exit
  <1> QED  BY <1>1, <1>2, OwnedSame

\* A task moves on: what it owns stays, and its reply is owed until it is sent.
LEMMA TaskOwned ==
  ASSUME Owned, NEW t \in Tasks, Handle(t) \/ HandlerAnswers(t) \/ TaskDropped(t)
  PROVE  OwnDatagram' /\ OneTaskEach'
  <1>1. CASE TaskDropped(t)
    <2>1. \A u \in Tasks : request'[u] = NoTask \/ request'[u] = request[u]
      BY <1>1 DEF TaskDropped, Owned, TypeOK
    <2>2. owed' = owed /\ queue' = queue
      BY <1>1 DEF TaskDropped
    <2> QED  BY <2>1, <2>2, OwnedSame
  <1>2. ASSUME request[t] # NoTask, NEW at \in {"parse", "handler", "send", "finished"},
               Goes(t, at), queue' = queue,
               at # "finished" => <<request[t].of, request[t].bytes>> \in owed /\ at # "parse",
               owed' \in {owed, owed \ {<<request[t].of, request[t].bytes>>}},
               owed' # owed => at = "finished"
        PROVE  OwnDatagram' /\ OneTaskEach'
    <2>1. /\ request[t] \in Task /\ request'[t].at = at
          /\ request'[t].of = request[t].of /\ request'[t].bytes = request[t].bytes
          /\ request'[t].peer = request[t].peer /\ request'[t].local = request[t].local
          /\ \A u \in Tasks \ {t} : request'[u] = request[u]
      BY <1>2, GoesType DEF Owned
    <2>2. OneTaskEach'
      BY <1>2, <2>1 DEF Owned, OneTaskEach, Works
    <2>3. ASSUME NEW u \in Tasks, request'[u] # NoTask
          PROVE  /\ request'[u].peer = PeerOf[request'[u].bytes]
                 /\ request'[u].local = LocalOf[request'[u].bytes]
                 /\ \/ request'[u].at \in {"handler", "send"}
                    \/ request'[u].at = "parse"
                       /\ Kind[request'[u].bytes] \in {"query", "malformed"}
                    => <<request'[u].of, request'[u].bytes>> \in owed'
      <3>1. CASE u = t
        BY <1>2, <2>1, <3>1 DEF Owned, OwnDatagram
      <3>2. CASE u # t
        <4>1. request'[u] = request[u]
          BY <2>1, <3>2
        <4>2. request[u].of \in Sockets /\ request[u].bytes \in Datagrams
          BY <2>3, <4>1 DEF Owned, TypeOK, Task
        <4>3. <<request[u].of, request[u].bytes>> # <<request[t].of, request[t].bytes>>
          BY <1>2, <2>3, <3>2, <4>1, <4>2 DEF Owned, OneTaskEach, Works
        <4> QED  BY <1>2, <2>3, <4>1, <4>3 DEF Owned, OwnDatagram
      <3> QED  BY <3>1, <3>2
    <2> QED  BY <2>2, <2>3 DEF OwnDatagram
  <1>3. CASE Parse(t)
    <2>1. CASE Kind[request[t].bytes] \in {"query", "malformed"}
      <3>1. request[t].at = "parse" /\ request[t] # NoTask /\ UNCHANGED <<queue, owed>>
            /\ \E at \in {"handler", "send"} : Goes(t, at)
        BY <1>3, <2>1 DEF Parse
      <3>2. <<request[t].of, request[t].bytes>> \in owed
        BY <2>1, <3>1 DEF Owned, OwnDatagram
      <3> QED  BY <3>1, <3>2, <1>2
    <2>2. CASE Kind[request[t].bytes] \notin {"query", "malformed"}
      BY <1>2, <1>3, <2>2 DEF Parse
    <2> QED  BY <2>1, <2>2
  <1>4. CASE HandlerAnswers(t)
    <2>1. <<request[t].of, request[t].bytes>> \in owed
      BY <1>4 DEF HandlerAnswers, Owned, OwnDatagram
    <2> QED  BY <1>2, <1>4, <2>1 DEF HandlerAnswers
  <1>5. CASE SendResponse(t)
    BY <1>2, <1>5 DEF SendResponse
  <1> QED  BY <1>1, <1>3, <1>4, <1>5 DEF Handle

\* The listeners' loops: a datagram is received once, into a task of its own.
LEMMA LoopOwned ==
  ASSUME Owned, NEW s \in Sockets,
         \/ Shutdown(s) \/ SocketFails(s) \/ Receive(s)
         \/ \E t \in Tasks : JoinRequest(s, t)
         \/ \E d \in Datagrams : Arrive(s, d)
  PROVE  OwnDatagram' /\ OneTaskEach'
  <1>1. CASE Shutdown(s) \/ SocketFails(s)
    BY <1>1, AbortOwned DEF Shutdown, SocketFails
  <1>2. CASE Discard(s)
    <2>1. \A r \in Sockets : queue'[r] \in {queue[r], NoDatagram}
      BY <1>2 DEF Discard, Receives, Owned, TypeOK
    <2>2. UNCHANGED <<request, owed>>
      BY <1>2 DEF Discard
    <2> QED  BY <2>1, <2>2, OwnedSame
  <1>3. ASSUME NEW t \in Tasks, JoinRequest(s, t) PROVE OwnDatagram' /\ OneTaskEach'
    <2>1. \A u \in Tasks : request'[u] = NoTask \/ request'[u] = request[u]
      BY <1>3 DEF JoinRequest, Owned, TypeOK
    <2>2. UNCHANGED <<queue, owed>>
      BY <1>3 DEF JoinRequest
    <2> QED  BY <2>1, <2>2, OwnedSame
  <1>4. ASSUME NEW d \in Datagrams, Arrive(s, d) PROVE OwnDatagram' /\ OneTaskEach'
    <2>1. UNCHANGED <<request, owed>> /\ queue' = [queue EXCEPT ![s] = d]
          /\ \A t \in Tasks : request[t] # NoTask => request[t].bytes # d
      BY <1>4 DEF Arrive
    <2>2. OwnDatagram'
      BY <2>1 DEF Owned, OwnDatagram
    <2>3. OneTaskEach'
      BY <2>1 DEF Owned, OneTaskEach, Works, TypeOK
    <2> QED  BY <2>2, <2>3
  <1>5. ASSUME NEW t \in Tasks, Spawn(s, t) PROVE OwnDatagram' /\ OneTaskEach'
    <2> DEFINE d == queue[s]
    <2>1. /\ d \in Datagrams /\ request[t] = NoTask
          /\ queue' = [queue EXCEPT ![s] = NoDatagram]
          /\ request' = [request EXCEPT ![t] = Spawned(s, d)]
          /\ owed \subseteq owed'
          /\ Kind[d] \in {"query", "malformed"} => <<s, d>> \in owed'
      BY <1>5 DEF Spawn, Receives, Owned, TypeOK
    <2> HIDE DEF d
    <2>2. /\ Spawned(s, d).of = s /\ Spawned(s, d).bytes = d
          /\ Spawned(s, d).peer = PeerOf[d] /\ Spawned(s, d).local = LocalOf[d]
          /\ Spawned(s, d).at = "parse"
      BY DEF Spawned
    <2>3. request'[t] = Spawned(s, d) /\ \A u \in Tasks \ {t} : request'[u] = request[u]
      BY <2>1 DEF Owned, TypeOK
    <2>4. OwnDatagram'
      BY <2>1, <2>2, <2>3 DEF Owned, OwnDatagram
    <2>5. \A u \in Tasks : ~Works(u, s, d)
      BY <2>1 DEF Owned, OneTaskEach, d
    <2>6. OneTaskEach'
      <3> SUFFICES ASSUME NEW r \in Sockets, NEW e \in Datagrams
                   PROVE  /\ \A u, v \in Tasks : Works(u, r, e)' /\ Works(v, r, e)' => u = v
                          /\ \A u \in Tasks : queue'[r] = e => ~Works(u, r, e)'
        BY DEF OneTaskEach
      <3>1. queue'[r] = e => queue[r] = e /\ r # s
        BY <2>1, DaemonAssumption DEF Owned, TypeOK
      <3>2. \A u \in Tasks \ {t} : Works(u, r, e)' <=> Works(u, r, e)
        BY <2>3 DEF Works
      <3>3. Works(t, r, e)' => r = s /\ e = d
        BY <2>2, <2>3 DEF Works
      <3> QED  BY <2>5, <3>1, <3>2, <3>3 DEF Owned, OneTaskEach
    <2> QED  BY <2>4, <2>6
  <1> QED  BY <1>1, <1>2, <1>3, <1>4, <1>5 DEF Receive

LEMMA NextOwned == Owned /\ [Next]_vars => Owned'
  <1> SUFFICES ASSUME Owned, [Next]_vars PROVE OwnDatagram' /\ OneTaskEach'
    BY NextTypeOK DEF Owned
  <1>1. ASSUME UNCHANGED <<queue, request, owed>>
        PROVE  OwnDatagram' /\ OneTaskEach'
    BY <1>1, OwnedSame
  <1>2. CASE Start
    <2>1. CASE StartupFails
      BY <2>1, ExitOwned DEF StartupFails
    <2>2. CASE ~StartupFails
      <3>1. UNCHANGED udp
        BY <1>2, <2>2 DEF Start, BindPrometheus, RegisterSignals, BindUdp, UdpBound,
                          BindTcp, DropPrivileges, Supervise
      <3> QED  BY <1>1, <3>1 DEF udp
    <2> QED  BY <2>1, <2>2
  <1>3. CASE Finish \/ Drained
    <2>1. UNCHANGED udp \/ \E code \in {"ok", "error"} : Exit(code)
      BY <1>3 DEF Finish, Drained
    <2> QED  BY <1>1, <2>1, ExitOwned DEF udp
  <1>4. ASSUME NEW l \in Listeners, JoinListener(l) PROVE OwnDatagram' /\ OneTaskEach'
    <2>1. Abort(Sockets) \/ UNCHANGED request
      BY <1>4 DEF JoinListener
    <2>2. UNCHANGED <<queue, owed>>
      BY <1>4 DEF JoinListener
    <2> QED  BY <1>1, <2>1, <2>2, AbortOwned
  <1>5. CASE \/ SendTerm \/ HandleTerm \/ AllJoined \/ TcpEnds \/ TcpFails
             \/ Connect \/ Disconnect \/ PrometheusStops \/ UNCHANGED vars
    <2>1. UNCHANGED udp
      BY <1>5 DEF SendTerm, HandleTerm, AllJoined, TcpEnds, TcpFails, Connect, Disconnect,
                  PrometheusStops, vars
    <2> QED  BY <1>1, <2>1 DEF udp
  <1> QED  BY <1>2, <1>3, <1>4, <1>5, LoopOwned, TaskOwned DEF Next, Supervisor

\* Only SendResponse sends, for the task it belongs to.
LEMMA ReplyStep == Owned /\ [Next]_vars =>
    (out' # out =>
        \E d \in Datagrams : /\ out' = [id |-> d, to |-> PeerOf[d], from |-> LocalOf[d]]
                             /\ \E s \in Sockets : <<s, d>> \in owed \ owed')
  <1> SUFFICES ASSUME Owned, [Next]_vars, out' # out
               PROVE  \E d \in Datagrams :
                        /\ out' = [id |-> d, to |-> PeerOf[d], from |-> LocalOf[d]]
                        /\ \E s \in Sockets : <<s, d>> \in owed \ owed'
    OBVIOUS
  <1>1. PICK t \in Tasks : SendResponse(t)
    BY DEF Next, vars, Start, BindPrometheus, RegisterSignals, BindUdp, UdpBound, BindTcp,
           DropPrivileges, StartupFails, Supervise, SendTerm, HandleTerm, Finish, Exit,
           Supervisor, AllJoined, JoinListener, TcpEnds, TcpFails, Connect, Disconnect,
           PrometheusStops, Shutdown, SocketFails, Receive, Discard, Spawn, JoinRequest,
           Arrive, Handle, Parse, Drained, HandlerAnswers, TaskDropped, udp
  <1> DEFINE r == request[t]
  <1>2. r \in Task /\ <<r.of, r.bytes>> \in owed
        /\ r.peer = PeerOf[r.bytes] /\ r.local = LocalOf[r.bytes]
    BY <1>1 DEF SendResponse, Owned, OwnDatagram, TypeOK
  <1>3. /\ out' = [id |-> r.bytes, to |-> r.peer, from |-> r.local]
        /\ owed' = owed \ {<<r.of, r.bytes>>}
    BY <1>1 DEF SendResponse
  <1>4. r.of \in Sockets /\ r.bytes \in Datagrams
    BY <1>2 DEF Task
  <1> QED  BY <1>2, <1>3, <1>4

-----------------------------------------------------------------------------
\* Startup, shutdown and the tasks of all sockets keep the state well formed.
THEOREM TypeCorrect == Spec => []TypeOK
  BY InitTypeOK, NextTypeOK, PTL DEF Spec

\* A process that reports success was told to stop, and cut nothing off: for any set
\* of listeners, ending in any order, during startup or after it.
THEOREM HonestExit == Spec => ExitIsHonest
  <1>1. Init => Supervised
    BY DEF Init, Supervised, Startup
  <1> QED  BY <1>1, InitTypeOK, NextTypeOK, NextSupervised, HonestStep, PTL
           DEF Spec, ExitIsHonest

\* For any set of listeners, in whatever order they end: all of them were bound, they
\* stop together, and take the requests they received with them.
THEOREM StopTogether == Spec => []ListenersStopTogether
  BY InitTogether, NextTogether, DeadAreNoticed, PTL DEF Spec

\* Startup that may fail at any step, listeners that die and a SIGTERM, in any order:
\* from outside it is the process of module Process, as it is with the reloads of
\* module Reload in between.
THEOREM IsAProcess == Spec => ImplementsProcess
  <1>1. Init => Proc!Init
    BY DEF Init, Proc!Init, Startup
  <1>2. Together /\ [Next]_vars => [Proc!Next]_(Proc!vars)
    BY ProcessStep
  <1> QED  BY <1>1, <1>2, InitTogether, NextTogether, PTL
           DEF Spec, ImplementsProcess, Proc!Spec

\* However many requests of however many clients are in progress, on whatever
\* sockets and addresses, a reply goes back the way its query came, once.
THEOREM RepliesMatch == Spec => RepliesMatchRequests
  <1>1. Init => Owned
    <2>1. Init => OwnDatagram /\ OneTaskEach
      BY DaemonAssumption DEF Init, OwnDatagram, OneTaskEach, Works
    <2> QED  BY <2>1, InitTypeOK DEF Owned
  <1> QED  BY <1>1, NextOwned, ReplyStep, PTL DEF Spec, RepliesMatchRequests

=============================================================================
