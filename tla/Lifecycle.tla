------------------------------ MODULE Lifecycle ------------------------------
(***************************************************************************)
(* Start and end of the two libraries: json_hal_client_init / _run /       *)
(* _terminate and json_hal_server_init / _run / _terminate, the socket     *)
(* thread that run creates, and the state they share without a lock: the   *)
(* running flag, the status that terminate polls, the lists and the schema *)
(* validator.  The server is built with JSON_SCHEMA_VALIDATION_ENABLED.    *)
(*                                                                         *)
(* What the socket thread does in its callbacks is the subject of          *)
(* RequestTracking, HalEvents and RpcDispatch; here a callback is a step   *)
(* in which the thread uses the lists and the validator.                   *)
(***************************************************************************)
EXTENDS Integers

CONSTANTS Files,    \* configuration files the application may be given
          Callers,  \* application threads inside library calls
          NULL,     \* nothing stored, nobody
          MaxRuns   \* bound on the socket threads created

ASSUME LifecycleAssumption ==
    /\ MaxRuns \in Nat
    /\ NULL \notin Files /\ NULL \notin 1 .. MaxRuns
    /\ NULL \notin [schema : Files, ready : BOOLEAN]

Threads == 1 .. MaxRuns

VARIABLES
  side,       \* the library this is: "client" or "server"
  config,     \* g_hal_client_config / g_server_config: the file of each field
  port,       \* port of g_rpc_client / g_rpc_server: the file it came from
  validator,  \* NULL, or [schema, ready]: its file and whether it was read
  running,    \* RUNNING of g_rpc_client / running of g_rpc_server
  status,     \* g_rpc_client_running_status / g_rpc_server_running_status
  sock,       \* the client's socket: "invalid", "open" or "up"
  connected,  \* g_connected
  listening,  \* the thread whose socket is bound to the port
  tpc,        \* where each socket thread is
  apc,        \* where the application is: "down", "ready" (initialised), "up"
              \* (run has returned), "polling" or "freeing" (in terminate)
  caller      \* "idle", "inside" a call that uses the lists, or "stranded"

appVars  == << config, port, validator, apc >>
flagVars == << running, status >>
sockVars == << sock, connected, listening >>
vars == << side, appVars, flagVars, sockVars, tpc, caller >>

\* The fields of hal_config_t in the order json_hal_load_config stores them.
Fields == << "schema_path", "port", "version", "name" >>

Unloaded == [i \in DOMAIN Fields |-> NULL]

Init ==
    /\ side \in {"client", "server"}
    /\ config = Unloaded /\ port = NULL /\ validator = NULL
    /\ running = FALSE /\ status = FALSE
    /\ sock = "invalid" /\ connected = FALSE /\ listening = NULL
    /\ tpc = [t \in Threads |-> "none"]
    /\ apc = "down"
    /\ caller = [c \in Callers |-> "idle"]

-----------------------------------------------------------------------------
(* The application: init, run, library calls, terminate. *)

\* json_hal_load_config fails after n fields: what it has stored stays.
Loaded(f, n) == [i \in DOMAIN Fields |-> IF i <= n THEN f ELSE config[i]]

\* json_hal_client_init or json_hal_server_init returns an error because the
\* configuration or the schema file cannot be read or lacks a field.
InitFails(f) ==
    /\ apc = "down"
    /\ \E n \in 0 .. 3 : config' = Loaded(f, n)
    /\ UNCHANGED << side, port, validator, apc, flagVars, sockVars, tpc, caller >>

\* Mutant of ClientInit: the port is not taken from the new configuration.
ClientInitKeepsPort(f) ==
    /\ side = "client" /\ apc = "down"
    /\ config' = Loaded(f, 4)
    /\ port' = IF port = NULL THEN config'[2] ELSE port
    /\ apc' = "ready"
    /\ UNCHANGED << side, validator, flagVars, sockVars, tpc, caller >>

ClientInit(f) ==
    /\ side = "client" /\ apc = "down"
    /\ config' = Loaded(f, 4)
    /\ port' = config'[2]
    /\ apc' = "ready"
    /\ UNCHANGED << side, validator, flagVars, sockVars, tpc, caller >>

\* json_validator_populate_schema: the schema is read into the validator, or
\* its file is missing or holds no schema.
json_validator_populate_schema(path) == [schema : {path}, ready : BOOLEAN]

\* json_validator_init: there is a validator afterwards in either case.
json_validator_init(path) == json_validator_populate_schema(path)

json_validator_terminate == validator' = NULL

\* Mutant of ServerInit: the validator gets the schema path of before.
ServerInitOldPath(f) ==
    /\ side = "server" /\ apc = "down"
    /\ config' = Loaded(f, 4)
    /\ port' = config'[2]
    /\ running' = FALSE
    /\ validator' = [schema |-> config[1], ready |-> TRUE]
    /\ apc' = "ready"
    /\ UNCHANGED << side, status, sockVars, tpc, caller >>

\* g_rpc_server is cleared and filled in; init fails if the validator does.
ServerInit(f) ==
    /\ side = "server" /\ apc = "down"
    /\ config' = Loaded(f, 4)
    /\ port' = config'[2]
    /\ running' = FALSE
    /\ validator' \in json_validator_init(config'[1])
    /\ apc' = IF validator'.ready THEN "ready" ELSE "down"
    /\ UNCHANGED << side, status, sockVars, tpc, caller >>

\* json_rpc_client_run or json_rpc_server_run creates the socket thread.
Run(t) ==
    /\ apc = "ready"
    /\ tpc[t] = "none" /\ \A u \in 1 .. (t - 1) : tpc[u] # "none"
    /\ sock' = IF side = "client" THEN "invalid" ELSE sock
    /\ tpc' = [tpc EXCEPT ![t] = "created"]
    /\ apc' = "up"
    /\ UNCHANGED << side, config, port, validator, flagVars, connected,
                    listening, caller >>

\* pthread_create fails: run returns an error and may be called again.
RunFails ==
    /\ apc = "ready"
    /\ sock' = IF side = "client" THEN "invalid" ELSE sock
    /\ UNCHANGED << side, appVars, flagVars, connected, listening, tpc, caller >>

\* Another thread of the application enters send_and_get_reply (client) or
\* publish_event (server).
EnterCall(c) ==
    /\ apc \in {"up", "polling"}
    /\ caller[c] = "idle"
    /\ caller' = [caller EXCEPT ![c] = "inside"]
    /\ UNCHANGED << side, appVars, flagVars, sockVars, tpc >>

\* A client's call is answered, expires or fails to send its request; a
\* server's call comes to the end of its list.
LeaveCall(c) ==
    /\ caller[c] = "inside"
    /\ caller' = [caller EXCEPT ![c] = "idle"]
    /\ UNCHANGED << side, appVars, flagVars, sockVars, tpc >>

\* json_hal_client_terminate or json_hal_server_terminate tells the thread.
Terminate ==
    /\ apc = "up"
    /\ running' = FALSE
    /\ apc' = "polling"
    /\ UNCHANGED << side, config, port, validator, status, sockVars, tpc,
                    caller >>

\* It polls the status until it is FALSE ...
PollStopped ==
    /\ apc = "polling"
    /\ status = FALSE
    /\ apc' = "freeing"
    /\ UNCHANGED << side, config, port, validator, flagVars, sockVars, tpc,
                    caller >>

\* Mutant of PollGivesUp: there is no counter.
PollForever ==
    /\ apc = "polling" /\ status = TRUE
    /\ UNCHANGED vars

\* ... or IDLE_TIMEOUT_PERIOD polls of as many microseconds have passed.
PollGivesUp ==
    /\ apc = "polling"
    /\ status = TRUE
    /\ apc' = "freeing"
    /\ UNCHANGED << side, config, port, validator, flagVars, sockVars, tpc,
                    caller >>

\* The lists are freed, with the entries of calls under way, and
\* json_validator_terminate deletes the validator.
Free ==
    /\ apc = "freeing"
    /\ json_validator_terminate
    /\ caller' = [c \in Callers |->
                    IF caller[c] = "inside" THEN "stranded" ELSE caller[c]]
    /\ apc' = "down"
    /\ UNCHANGED << side, config, port, flagVars, sockVars, tpc >>

AppStep ==
    \/ \E f \in Files : InitFails(f) \/ ClientInit(f) \/ ServerInit(f)
    \/ \E t \in Threads : Run(t)
    \/ RunFails
    \/ \E c \in Callers : EnterCall(c) \/ LeaveCall(c)
    \/ Terminate \/ PollStopped \/ PollGivesUp \/ Free

-----------------------------------------------------------------------------
(* The socket thread: rpc_client_handler or rpc_server_handler. *)

At(t, label) == tpc' = [tpc EXCEPT ![t] = label]

\* The new thread sets its own running flag.
ThreadBegins(t) ==
    /\ tpc[t] = "created"
    /\ running' = TRUE
    /\ At(t, "setup")
    /\ UNCHANGED << side, appVars, status, sockVars, caller >>

ClientSetup(t) ==
    /\ side = "client" /\ tpc[t] = "setup"
    /\ status' = TRUE
    /\ At(t, "loop")
    /\ UNCHANGED << side, appVars, running, sockVars, caller >>

\* socket(), setsockopt(), ioctl(), bind() and listen() succeed; bind() does
\* so only when nobody listens on the port.
ServerSetup(t) ==
    /\ side = "server" /\ tpc[t] = "setup"
    /\ listening = NULL
    /\ listening' = t
    /\ At(t, "loop")
    /\ UNCHANGED << side, appVars, flagVars, sock, connected, caller >>

\* One of them fails and the thread ends.
ServerSetupFails(t) ==
    /\ side = "server" /\ tpc[t] = "setup"
    /\ At(t, "gone")
    /\ UNCHANGED << side, appVars, flagVars, sockVars, caller >>

\* The client's loop begins an iteration while RUNNING is TRUE ...
ClientIterates(t) ==
    /\ side = "client" /\ tpc[t] = "loop"
    /\ running = TRUE
    /\ At(t, "callback")
    /\ UNCHANGED << side, appVars, flagVars, sockVars, caller >>

ClientLeavesLoop(t) ==
    /\ side = "client" /\ tpc[t] = "loop"
    /\ running = FALSE
    /\ At(t, "close")
    /\ UNCHANGED << side, appVars, flagVars, sockVars, caller >>

\* ... makes a socket when it has none ...
ClientSocket(t) ==
    /\ side = "client" /\ tpc[t] = "callback" /\ sock = "invalid"
    /\ sock' = "open"
    /\ At(t, "loop")
    /\ UNCHANGED << side, appVars, flagVars, connected, listening, caller >>

\* ... and ends on the spot when it cannot, with the status left at TRUE.
ClientSocketFails(t) ==
    /\ side = "client" /\ tpc[t] = "callback" /\ sock = "invalid"
    /\ At(t, "gone")
    /\ UNCHANGED << side, appVars, flagVars, sockVars, caller >>

\* connect() succeeds: func_connected.
ClientConnects(t) ==
    /\ side = "client" /\ tpc[t] = "callback" /\ sock = "open"
    /\ sock' = "up" /\ connected' = TRUE
    /\ At(t, "loop")
    /\ UNCHANGED << side, appVars, flagVars, listening, caller >>

\* connect() fails with EBADF, EISCONN or EADDRNOTAVAIL: close(), and a new
\* socket is made next.
ClientConnectAborts(t) ==
    /\ side = "client" /\ tpc[t] = "callback" /\ sock = "open"
    /\ sock' = "invalid"
    /\ At(t, "loop")
    /\ UNCHANGED << side, appVars, flagVars, connected, listening, caller >>

\* recv() returns 0: func_disconnected, close().
ClientDisconnects(t) ==
    /\ side = "client" /\ tpc[t] = "callback" /\ sock = "up"
    /\ sock' = "invalid" /\ connected' = FALSE
    /\ At(t, "loop")
    /\ UNCHANGED << side, appVars, flagVars, listening, caller >>

\* func_parse and func_idle, or a connect() that fails and is tried again.
ClientCallback(t) ==
    /\ side = "client" /\ tpc[t] = "callback" /\ sock # "invalid"
    /\ At(t, "loop")
    /\ UNCHANGED << side, appVars, flagVars, sockVars, caller >>

\* An iteration of the server's do-while loop sets the status first.
ServerIterates(t) ==
    /\ side = "server" /\ tpc[t] = "loop"
    /\ status' = TRUE
    /\ At(t, "callback")
    /\ UNCHANGED << side, appVars, running, sockVars, caller >>

\* func_connect, func_process and func_disconnect, then the loop's condition.
ServerCallback(t) ==
    /\ side = "server" /\ tpc[t] = "callback"
    /\ At(t, IF running THEN "loop" ELSE "close")
    /\ UNCHANGED << side, appVars, flagVars, sockVars, caller >>

\* select() fails.
ServerSelectFails(t) ==
    /\ side = "server" /\ tpc[t] = "callback"
    /\ At(t, "close")
    /\ UNCHANGED << side, appVars, flagVars, sockVars, caller >>

\* Mutant of CloseSockets: the status is cleared before the sockets are closed.
StatusFirst(t) ==
    /\ tpc[t] = "close"
    /\ status' = FALSE
    /\ At(t, "closed")
    /\ UNCHANGED << side, appVars, running, sockVars, caller >>

\* Mutant of CloseSockets: the listening socket stays open.
CloseForgetsListener(t) ==
    /\ tpc[t] = "close"
    /\ sock' = IF side = "client" THEN "invalid" ELSE sock
    /\ At(t, "closed")
    /\ UNCHANGED << side, appVars, flagVars, connected, listening, caller >>

\* The thread closes its socket, or all of the server's sockets.
CloseSockets(t) ==
    /\ tpc[t] = "close"
    /\ sock' = IF side = "client" THEN "invalid" ELSE sock
    /\ listening' = IF listening = t THEN NULL ELSE listening
    /\ At(t, "closed")
    /\ UNCHANGED << side, appVars, flagVars, connected, caller >>

\* ... and says so.
ThreadEnds(t) ==
    /\ tpc[t] = "closed"
    /\ status' = FALSE
    /\ At(t, "gone")
    /\ UNCHANGED << side, appVars, running, sockVars, caller >>

ThreadStep(t) ==
    \/ ThreadBegins(t)
    \/ ClientSetup(t) \/ ServerSetup(t) \/ ServerSetupFails(t)
    \/ ClientIterates(t) \/ ClientLeavesLoop(t)
    \/ ClientSocket(t) \/ ClientSocketFails(t) \/ ClientConnects(t)
    \/ ClientConnectAborts(t) \/ ClientDisconnects(t) \/ ClientCallback(t)
    \/ ServerIterates(t) \/ ServerCallback(t) \/ ServerSelectFails(t)
    \/ CloseSockets(t) \/ ThreadEnds(t)

-----------------------------------------------------------------------------
Next == AppStep \/ \E t \in Threads : ThreadStep(t)

Spec == Init /\ [][Next]_vars

\* A thread that has gone into its loop and has not left the library.
Alive(t) == tpc[t] \notin {"none", "gone"}

\* What the libraries leave to the application: it calls terminate only when
\* the socket thread has reached its loop or ended and none of its threads is
\* inside a library call; it calls nothing while it terminates; callbacks end
\* before terminate stops polling.
Orderly ==
    /\ apc = "up" /\ apc' = "polling" =>
          /\ \A t \in Threads : Alive(t) => status /\ tpc[t] \notin {"created", "setup"}
          /\ \A c \in Callers : caller[c] = "idle"
    /\ caller # caller' => apc # "polling"
    /\ apc = "polling" /\ apc' = "freeing" /\ status =>
          \A t \in Threads : ~Alive(t)

SpecOrderly == Init /\ [][Next /\ Orderly]_vars

\* Threads that can run do run; the application is not obliged to do
\* anything, but a call of terminate goes on.
Fairness ==
    /\ \A t \in Threads : WF_vars(ThreadStep(t))
    /\ WF_vars((PollStopped \/ PollGivesUp \/ Free) /\ Orderly)

LiveSpecOrderly == SpecOrderly /\ Fairness

-----------------------------------------------------------------------------
(* Properties *)

Places == {"none", "created", "setup", "loop", "callback", "close", "closed",
           "gone"}

\* Every variable has its type.
TypeOK ==
    /\ side \in {"client", "server"}
    /\ config \in [DOMAIN Fields -> Files \union {NULL}]
    /\ port \in Files \union {NULL}
    /\ validator \in [schema : Files, ready : BOOLEAN] \union {NULL}
    /\ running \in BOOLEAN /\ status \in BOOLEAN
    /\ sock \in {"invalid", "open", "up"} /\ connected \in BOOLEAN
    /\ listening \in Threads \union {NULL}
    /\ tpc \in [Threads -> Places]
    /\ apc \in {"down", "ready", "up", "polling", "freeing"}
    /\ caller \in [Callers -> {"idle", "inside", "stranded"}]

\* "Make sure server thread stopped and closed all client sockets"
\* (json_hal_server.c:852, json_hal_client.c:760): once terminate has stopped
\* polling, no socket thread is left and none of its sockets is open.
StoppedWhenFreed ==
    apc \in {"down", "freeing"} =>
        /\ \A t \in Threads : ~Alive(t)
        /\ sock # "up" /\ listening = NULL

\* Whoever uses the lists or the validator finds them: a thread in a callback
\* works with the schema and the port of the configuration the application
\* initialised last.  (That no call of the application is under way when it
\* calls terminate is what Orderly assumes, not what this shows.)
UsesWhatIsThere ==
    /\ \A t \in Threads : tpc[t] = "callback" =>
          /\ \A i \in DOMAIN Fields : config[i] = port
          /\ side = "server" =>
                validator # NULL /\ validator.ready /\ validator.schema = port
    /\ \A c \in Callers : caller[c] # "stranded"

\* A server that is started again finds its port free: the previous thread
\* has closed its socket before terminate returned.
PortFree == \A t \in Threads : tpc[t] = "setup" => listening = NULL

\* A call of terminate returns, whatever became of the socket thread.
TerminateReturns == apc = "polling" ~> apc = "down"
=============================================================================
