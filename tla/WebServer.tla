------------------------------ MODULE WebServer ------------------------------
(***************************************************************************)
(* Starting and stopping a WebServer of @alterior/web-server through the   *)
(* role 'web-server': the listening sockets the engine opens, the server   *)
(* objects WebServer keeps, and the notification of the controllers.       *)
(*                                                                         *)
(* start() is asynchronous and notes the server it opened only when        *)
(* listen() has returned; stop() is synchronous.                           *)
(***************************************************************************)
EXTENDS Naturals, FiniteSets

CONSTANTS Calls,     \* invocations of the role's start() and stop()
          Configs,   \* the server configurations considered
          None

Configurations == [tls : BOOLEAN,           \* certificate or sniHandler given
                   h2 : BOOLEAN,            \* protocols asks for HTTP/2
                   insecurePort : BOOLEAN,
                   engineInsecure : BOOLEAN]  \* the engine has listenInsecurely()

ASSUME WebServerAssumption == Configs \subseteq Configurations /\ None \notin Calls

VARIABLES config,
          certified,     \* options has a certificate, given or generated
          open,          \* servers that listen, named by kind and by the call that opened them
          httpServer,    \* _httpServer
          insecure,      \* _insecureHttpServer
          stage,         \* progress of each call
          controllers,   \* what the controllers were told last
          lastCall,      \* history: the last call made
          overlapped,    \* history: a call was made before an earlier one had settled
          stoppedUnder,  \* history: starts that a stop() came across before they told anyone
          conflict       \* a server was told to listen on a port in use

vars == <<config, certified, open, httpServer, insecure, stage, controllers, lastCall, overlapped,
          stoppedUnder, conflict>>
history == <<lastCall, overlapped, stoppedUnder>>

InProgress == {"generating", "listening", "listeningInsecurely", "serverUp"}
Settled == {"started", "failed", "stopped"}
Servers == {"primary", "insecure"} \X Calls

TypeOK ==
    /\ config \in Configs /\ certified \in BOOLEAN
    /\ open \subseteq Servers
    /\ httpServer \in Calls \cup {None}
    /\ insecure \in Calls \cup {None}
    /\ stage \in [Calls -> {"unused"} \cup InProgress \cup Settled]
    /\ controllers \in {"none", "listening", "stopped"}
    /\ lastCall \in {"none", "start", "stop"}
    /\ overlapped \in BOOLEAN
    /\ stoppedUnder \subseteq Calls
    /\ conflict \in BOOLEAN

Init ==
    /\ config \in Configs /\ certified = config.tls
    /\ open = {} /\ httpServer = None /\ insecure = None
    /\ stage = [c \in Calls |-> "unused"]
    /\ controllers = "none" /\ lastCall = "none" /\ overlapped = FALSE
    /\ stoppedUnder = {} /\ conflict = FALSE

\* start() has its server, and the controllers do not know yet.
HasServer(c) == stage[c] \in {"listeningInsecurely", "serverUp"}

\* The role's start() or stop() is called: callers need not await the last call.
Called(c, kind) ==
    /\ stage[c] = "unused" /\ ~conflict
    /\ lastCall' = kind
    /\ overlapped' = (overlapped \/ \E d \in Calls : stage[d] \in InProgress)
    /\ stoppedUnder' = IF kind = "stop" THEN stoppedUnder \cup {d \in Calls : HasServer(d)}
                       ELSE stoppedUnder

\* Two servers cannot listen on one port; nothing handles the error event of the
\* second one.
Listen(kind, c) ==
    /\ open' = open \cup {<<kind, c>>}
    /\ conflict' = (\E s \in open : s[1] = kind)

Generates == config.h2 /\ ~certified

\* start() of the role: WebServer.start() up to its first await, and engine.listen()
\* up to the certificate it may have to generate.
Start(c) ==
    /\ Called(c, "start")
    /\ \/ /\ httpServer # None
          /\ stage' = [stage EXCEPT ![c] = "serverUp"]
          /\ UNCHANGED <<open, conflict>>
       \/ /\ httpServer = None /\ Generates
          /\ stage' = [stage EXCEPT ![c] = "generating"]
          /\ UNCHANGED <<open, conflict>>
       \/ /\ httpServer = None /\ ~Generates
          /\ Listen("primary", c)
          /\ stage' = [stage EXCEPT ![c] = "listening"]
    /\ UNCHANGED <<config, certified, httpServer, insecure, controllers>>

\* The self-signed certificate is generated and becomes an option of the server.
CertificateReady(c) ==
    /\ stage[c] = "generating" /\ ~conflict
    /\ certified' = TRUE
    /\ Listen("primary", c)
    /\ stage' = [stage EXCEPT ![c] = "listening"]
    /\ UNCHANGED <<config, httpServer, insecure, controllers, history>>

\* start() resumes with the server listen() returned, and goes on to the second
\* port if one is configured.
ListenReturns(c) ==
    /\ stage[c] = "listening" /\ ~conflict
    /\ httpServer' = c
    /\ \/ /\ ~config.insecurePort
          /\ stage' = [stage EXCEPT ![c] = "serverUp"]
          /\ UNCHANGED <<open, conflict>>
       \/ /\ config.insecurePort /\ ~config.engineInsecure
          /\ stage' = [stage EXCEPT ![c] = "failed"]
          /\ UNCHANGED <<open, conflict>>
       \/ /\ config.insecurePort /\ config.engineInsecure
          /\ Listen("insecure", c)
          /\ stage' = [stage EXCEPT ![c] = "listeningInsecurely"]
    /\ UNCHANGED <<config, certified, insecure, controllers, history>>

InsecureReturns(c) ==
    /\ stage[c] = "listeningInsecurely" /\ ~conflict
    /\ insecure' = c
    /\ stage' = [stage EXCEPT ![c] = "serverUp"]
    /\ UNCHANGED <<config, certified, open, httpServer, controllers, history, conflict>>

\* The role's start() goes on to altOnStart() and altOnListen() of the controllers.
ControllersStart(c) ==
    /\ stage[c] = "serverUp" /\ ~conflict
    /\ controllers' = "listening"
    /\ stage' = [stage EXCEPT ![c] = "started"]
    /\ UNCHANGED <<config, certified, open, httpServer, insecure, history, conflict>>

\* Variants: the port stays open; the server that was closed is still noted.
StopForgets(c) ==
    /\ Called(c, "stop")
    /\ httpServer' = None
    /\ controllers' = "stopped"
    /\ stage' = [stage EXCEPT ![c] = "stopped"]
    /\ UNCHANGED <<config, certified, open, insecure, conflict>>
StopKeepsServer(c) ==
    /\ Called(c, "stop")
    /\ open' = open \ {<<"primary", httpServer>>}
    /\ controllers' = "stopped"
    /\ stage' = [stage EXCEPT ![c] = "stopped"]
    /\ UNCHANGED <<config, certified, httpServer, insecure, conflict>>

\* stop() of the role: WebServer.stop(), then altOnStop() of the controllers.
Stop(c) ==
    /\ Called(c, "stop")
    /\ open' = open \ {<<"primary", httpServer>>}
    /\ httpServer' = None
    /\ controllers' = "stopped"
    /\ stage' = [stage EXCEPT ![c] = "stopped"]
    /\ UNCHANGED <<config, certified, insecure, conflict>>

Progress == \E c \in Calls : \/ CertificateReady(c) \/ ListenReturns(c)
                             \/ InsecureReturns(c) \/ ControllersStart(c)

Next == Progress \/ \E c \in Calls : Start(c) \/ Stop(c)

\* Promises that resolve are resumed; certificates get generated.
Spec == Init /\ [][Next]_vars /\ WF_vars(Progress)
-----------------------------------------------------------------------------
(***************************************************************************)
(* Properties                                                              *)
(***************************************************************************)
AllSettled == \A c \in Calls : stage[c] \notin InProgress

\* stop(): "The listening port will be closed".  When the last thing asked for was
\* to stop and nothing is under way, nothing listens.
StopClosesPorts == lastCall = "stop" /\ AllSettled /\ ~conflict => open = {}

\* That much is so on one port, if every call was awaited before the next.
Awaited == ~overlapped /\ ~config.insecurePort
AwaitedStopClosesPorts == Awaited => StopClosesPorts

\* A server object the WebServer keeps is listening: stop() has something to close
\* and start() a reason to return early.
NotedServerListens == httpServer # None => <<"primary", httpServer>> \in open

\* Awaited calls never ask for a port this server still listens on, however many
\* starts and stops there were.
NoConflict == Awaited => ~conflict

\* altOnListen() is called when the service is listening: however calls overlap, a
\* start() tells the controllers while the noted server listens, unless a stop() came
\* after it had its server and before it told them.
ControllersHearOfListening ==
    [][\A c \in Calls : ControllersStart(c) /\ c \notin stoppedUnder
           => httpServer # None /\ <<"primary", httpServer>> \in open]_vars

=============================================================================
