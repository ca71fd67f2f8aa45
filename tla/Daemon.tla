-------------------------------- MODULE Daemon --------------------------------
(***************************************************************************)
(* The service daemon in one process: daemon.py (server, request handlers, *)
(* client helper) and cmd_daemon_start of cli.py (the main thread).        *)
(*                                                                         *)
(* Threads: main, which starts the daemon, polls shutdown_signal and stops *)
(* it; the serve_forever thread of the socketserver library (external);    *)
(* one daemon thread per accepted connection.  Clients are other processes *)
(* whose call() gives up after its socket timeout.                         *)
(***************************************************************************)
EXTENDS Integers, FiniteSets

CONSTANTS Clients,
          MaxCalls        \* bound: calls of one client

ASSUME DaemonAssumption == MaxCalls \in Nat

VARIABLES main,       \* the main thread
          server,     \* Daemon._server: its listening socket
          serve,      \* the serve_forever thread
          shutReq,    \* BaseServer's shutdown request
          isShut,     \* BaseServer's event: serve_forever has ended
          signal,     \* _Server.shutdown_signal
          store,      \* the SystemStore's connection
          call,       \* what each client's call is doing, or its result
          cmd,        \* the request of that call
          handler,    \* its connection: queued by the system, or the handler thread
          calls       \* calls made so far

daemonVars == <<main, server, serve, shutReq, isShut, signal, store, call, cmd, handler, calls>>

\* Every request but shutdown is answered and leaves the state modelled here as
\* it is (node.generate is Node's Generate).
Requests == {"shutdown", "other"}

DaemonInit ==
    /\ main = "start" /\ server = "none" /\ serve = "none"
    /\ shutReq = FALSE /\ isShut = FALSE /\ signal = FALSE /\ store = "open"
    /\ call = [c \in Clients |-> "idle"]
    /\ cmd = [c \in Clients |-> "other"]
    /\ handler = [c \in Clients |-> "none"]
    /\ calls = [c \in Clients |-> 0]

clientVars == <<call, cmd, handler, calls>>

-----------------------------------------------------------------------------
(* The main thread: cmd_daemon_start, Daemon.start, Daemon.stop. *)

\* Daemon.start: the socket is bound and listening, the serve thread started.
Start ==
    /\ main = "start" /\ server = "none"
    /\ main' = "poll" /\ server' = "listening" /\ serve' = "started"
    /\ UNCHANGED <<shutReq, isShut, signal, store, clientVars>>

\* The polling loop ends on the signal or on KeyboardInterrupt.
LeavePoll ==
    /\ main = "poll" /\ signal
    /\ main' = "shutdown"
    /\ UNCHANGED <<server, serve, shutReq, isShut, signal, store, clientVars>>
Interrupt ==
    /\ main = "poll"
    /\ main' = "shutdown"
    /\ UNCHANGED <<server, serve, shutReq, isShut, signal, store, clientVars>>

\* Daemon.stop calls the library's shutdown: request, then wait for the event.
RequestShutdown ==
    /\ main = "shutdown"
    /\ main' = "wait" /\ shutReq' = TRUE
    /\ UNCHANGED <<server, serve, isShut, signal, store, clientVars>>
AwaitShutdown ==
    /\ main = "wait" /\ isShut
    /\ main' = "close"
    /\ UNCHANGED <<server, serve, shutReq, isShut, signal, store, clientVars>>

\* The connections of these clients are gone; who still waits gets an error.
Reset(cs) ==
    /\ handler' = [c \in Clients |-> IF c \in cs THEN "none" ELSE handler[c]]
    /\ call' = [c \in Clients |-> IF c \in cs /\ call[c] = "waiting" THEN "failed" ELSE call[c]]

\* server_close: connections nobody accepted are reset.  Handler threads are
\* daemon threads and are not waited for.
ServerClose ==
    /\ main = "close"
    /\ main' = "join" /\ server' = "closed"
    /\ Reset({c \in Clients : handler[c] = "queued"})
    /\ UNCHANGED <<serve, shutReq, isShut, signal, store, cmd, calls>>

\* join(timeout=2.0): the thread has ended, or the time is up.
Join ==
    /\ main = "join" /\ main' = "store"
    /\ UNCHANGED <<server, serve, shutReq, isShut, signal, store, clientVars>>

\* store.close(); the process ends when main returns and takes its daemon
\* threads and their connections with it.
StoreClose ==
    /\ main = "store" /\ store = "open" /\ store' = "closed"
    /\ UNCHANGED <<main, server, serve, shutReq, isShut, signal, clientVars>>
Exit ==
    /\ main = "store" /\ store = "closed"
    /\ main' = "exited" /\ serve' = "ended"
    /\ Reset(Clients)
    /\ UNCHANGED <<server, shutReq, isShut, signal, store, cmd, calls>>

-----------------------------------------------------------------------------
(* The serve_forever thread (library). *)

EnterLoop ==
    /\ serve = "started" /\ serve' = "loop" /\ isShut' = FALSE
    /\ UNCHANGED <<main, server, shutReq, signal, store, clientVars>>

\* The listening socket is readable and no shutdown is requested.  The client
\* may have given up by now: its request is in the connection all the same.
Accept(c) ==
    /\ serve = "loop" /\ ~shutReq /\ handler[c] = "queued"
    /\ handler' = [handler EXCEPT ![c] = "reading"]
    /\ UNCHANGED <<main, server, serve, shutReq, isShut, signal, store, call, cmd, calls>>

LeaveLoop ==
    /\ serve = "loop" /\ shutReq
    /\ serve' = "ended" /\ shutReq' = FALSE /\ isShut' = TRUE
    /\ UNCHANGED <<main, server, signal, store, clientVars>>

-----------------------------------------------------------------------------
(* A handler thread: _Handler.handle and dispatch. *)

\* readline and dispatch: the effect of the request.
DropsShutdown(c) == FALSE
RaisesSignal(c) == cmd[c] = "shutdown"
Dispatch(c) ==
    /\ handler[c] = "reading"
    /\ handler' = [handler EXCEPT ![c] = "answering"]
    /\ signal' = (signal \/ RaisesSignal(c))
    /\ UNCHANGED <<main, server, serve, shutReq, isShut, store, call, cmd, calls>>

\* The answer is written; if the client has gone the exception is swallowed.
Answer(c) ==
    /\ handler[c] = "answering"
    /\ handler' = [handler EXCEPT ![c] = "none"]
    /\ call' = IF call[c] = "waiting" THEN [call EXCEPT ![c] = "answered"] ELSE call
    /\ UNCHANGED <<main, server, serve, shutReq, isShut, signal, store, cmd, calls>>

-----------------------------------------------------------------------------
(* Clients: call() of daemon.py.  A client has one call at a time; a call   *)
(* that failed may be repeated, once the connection it left behind is gone. *)

Connect(c, r) ==
    /\ call[c] # "waiting" /\ handler[c] = "none"
    /\ calls[c] < MaxCalls
    /\ calls' = [calls EXCEPT ![c] = @ + 1]
    /\ cmd' = [cmd EXCEPT ![c] = r]
    /\ IF server = "listening"
       THEN call' = [call EXCEPT ![c] = "waiting"] /\ handler' = [handler EXCEPT ![c] = "queued"]
       ELSE call' = [call EXCEPT ![c] = "failed"] /\ UNCHANGED handler
    /\ UNCHANGED <<main, server, serve, shutReq, isShut, signal, store>>

\* The socket timeout: the client closes its end.  Its request was sent, so the
\* connection is still accepted, and the handler reads and dispatches it.
Timeout(c) ==
    /\ call[c] = "waiting"
    /\ call' = [call EXCEPT ![c] = "failed"]
    /\ UNCHANGED <<main, server, serve, shutReq, isShut, signal, store, cmd, handler, calls>>

MainNext == \/ Start \/ LeavePoll \/ RequestShutdown \/ AwaitShutdown
            \/ ServerClose \/ Join \/ StoreClose \/ Exit
ServeNext == EnterLoop \/ LeaveLoop

DaemonNext ==
    \/ MainNext \/ Interrupt
    \/ ServeNext
    \/ \E c \in Clients : \/ Accept(c) \/ Dispatch(c) \/ Answer(c) \/ Timeout(c)
                          \/ \E r \in Requests : Connect(c, r)

\* Threads of a live process run, and sockets time out.  Nobody is obliged to
\* connect or to interrupt.
DaemonFairness ==
    /\ WF_daemonVars(MainNext) /\ WF_daemonVars(ServeNext)
    /\ \A c \in Clients : /\ WF_daemonVars(Dispatch(c)) /\ WF_daemonVars(Answer(c))
                          /\ WF_daemonVars(Timeout(c))

DaemonSpec == DaemonInit /\ [][DaemonNext]_daemonVars /\ DaemonFairness

-----------------------------------------------------------------------------
\* A shutdown request that was dispatched ends the process: stop() does not wait
\* forever for a serve loop, whether that had started or not, and no handler or
\* queued connection holds it up.
ShutdownStops ==
    \A c \in Clients :
        (handler[c] = "answering" /\ cmd[c] = "shutdown") ~> (main = "exited")
=============================================================================
