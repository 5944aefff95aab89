--------------------------- MODULE LifecycleProofs ---------------------------
(***************************************************************************)
(* Start and end of the libraries, for any number of restarts, files and   *)
(* callers: an application that terminates in an orderly way leaves        *)
(* nothing running and frees nothing in use.                               *)
(***************************************************************************)
EXTENDS Lifecycle, TLAPS

\* There is one socket thread at a time.
SoloInv == \A t, u \in Threads : Alive(t) /\ Alive(u) => t = u

\* None is left when terminate has stopped polling, and one that is left
\* while it polls still says so.
StopInv ==
    /\ apc \in {"down", "ready", "freeing"} => \A t \in Threads : ~Alive(t)
    /\ apc = "polling" => \A t \in Threads : Alive(t) =>
          status /\ tpc[t] \notin {"created", "setup"}

\* A connected or listening socket belongs to a thread that will close it.
HasSocket(t) == tpc[t] \in {"loop", "callback", "close"}
SocketInv ==
    /\ sock = "up" => side = "client" /\ \E t \in Threads : HasSocket(t)
    /\ listening # NULL => side = "server" /\ HasSocket(listening)

\* From init on, configuration, port and validator belong together.
ConfigInv ==
    apc # "down" =>
        /\ \A i \in DOMAIN Fields : config[i] = port
        /\ side = "server" =>
              validator # NULL /\ validator.ready /\ validator.schema = port

\* A thread of the application is inside a call only while the library is up.
CallInv ==
    \A c \in Callers : caller[c] # "stranded" /\ (caller[c] = "inside" => apc = "up")

LifeInv == SoloInv /\ StopInv /\ SocketInv /\ ConfigInv /\ CallInv

\* json_hal_load_config without an error stores the file's four fields.
LEMMA AllLoaded ==
    ASSUME NEW f \in Files
    PROVE  /\ Loaded(f, 4) \in [DOMAIN Fields -> Files]
           /\ \A i \in DOMAIN Fields : Loaded(f, 4)[i] = f
           /\ 1 \in DOMAIN Fields /\ 2 \in DOMAIN Fields
  BY DEF Loaded, Fields

\* What json_hal_server_init leaves behind.
LEMMA ServerInitStores ==
    ASSUME NEW f \in Files, ServerInit(f)
    PROVE  /\ config' \in [DOMAIN Fields -> Files]
           /\ \A i \in DOMAIN Fields : config'[i] = f
           /\ port' = f
           /\ validator' \in [schema : {f}, ready : BOOLEAN]
           /\ apc' = IF validator'.ready THEN "ready" ELSE "down"
<1>1. /\ config' = Loaded(f, 4) /\ port' = config'[2]
      /\ validator' \in json_validator_init(config'[1])
      /\ apc' = IF validator'.ready THEN "ready" ELSE "down"
  BY DEF ServerInit
<1>2. config'[1] = f /\ config'[2] = f
  BY <1>1, AllLoaded
<1>3. json_validator_init(f) = [schema : {f}, ready : BOOLEAN]
  BY DEF json_validator_init, json_validator_populate_schema
<1> QED BY <1>1, <1>2, <1>3, AllLoaded

\* Every variable of either library has its type: a thread, a flag, a file.
THEOREM TypeCorrect == Spec => []TypeOK
<1>1. Init => TypeOK
  BY LifecycleAssumption DEF Init, TypeOK, Unloaded, Fields, Places
<1>2. TypeOK /\ [Next]_vars => TypeOK'
  <2> SUFFICES ASSUME TypeOK, [Next]_vars PROVE TypeOK'
    OBVIOUS
  <2> USE DEF TypeOK, Places
  <2>1. CASE AppStep
    <3>1. ASSUME NEW f \in Files, InitFails(f) PROVE TypeOK'
      BY <3>1 DEF InitFails, Loaded, flagVars, sockVars
    <3>2. ASSUME NEW f \in Files, ClientInit(f) PROVE TypeOK'
      BY <3>2 DEF ClientInit, Loaded, Fields, flagVars, sockVars
    <3>3. ASSUME NEW f \in Files, ServerInit(f) PROVE TypeOK'
      BY <3>3, ServerInitStores DEF ServerInit, Fields, sockVars
    <3>4. ASSUME NEW t \in Threads, Run(t) PROVE TypeOK'
      BY <3>4 DEF Run, flagVars
    <3>5. CASE RunFails
      BY <3>5 DEF RunFails, appVars, flagVars
    <3>6. ASSUME NEW c \in Callers, EnterCall(c) \/ LeaveCall(c) PROVE TypeOK'
      BY <3>6 DEF EnterCall, LeaveCall, appVars, flagVars, sockVars
    <3>7. CASE Terminate \/ PollStopped \/ PollGivesUp
      BY <3>7 DEF Terminate, PollStopped, PollGivesUp, flagVars, sockVars
    <3>8. CASE Free
      BY <3>8 DEF Free, flagVars, sockVars, json_validator_terminate
    <3> QED BY <2>1, <3>1, <3>2, <3>3, <3>4, <3>5, <3>6, <3>7, <3>8 DEF AppStep
  <2>2. ASSUME NEW t \in Threads, ThreadStep(t) PROVE TypeOK'
    <3>1. \E l \in Places : At(t, l)
      BY <2>2 DEF ThreadStep, ThreadBegins, ClientSetup, ServerSetup,
           ServerSetupFails, ClientIterates, ClientLeavesLoop, ClientSocket,
           ClientSocketFails, ClientConnects, ClientConnectAborts,
           ClientDisconnects, ClientCallback,
           ServerIterates, ServerCallback, ServerSelectFails, CloseSockets,
           ThreadEnds
    <3>2. tpc' \in [Threads -> Places]
      BY <3>1 DEF At
    <3>3. UNCHANGED << side, appVars, caller >>
      BY <2>2 DEF ThreadStep, ThreadBegins, ClientSetup, ServerSetup,
           ServerSetupFails, ClientIterates, ClientLeavesLoop, ClientSocket,
           ClientSocketFails, ClientConnects, ClientConnectAborts,
           ClientDisconnects, ClientCallback,
           ServerIterates, ServerCallback, ServerSelectFails, CloseSockets,
           ThreadEnds
    <3>4. running' \in BOOLEAN /\ status' \in BOOLEAN
      BY <2>2 DEF ThreadStep, ThreadBegins, ClientSetup, ServerSetup,
           ServerSetupFails, ClientIterates, ClientLeavesLoop, ClientSocket,
           ClientSocketFails, ClientConnects, ClientConnectAborts,
           ClientDisconnects, ClientCallback,
           ServerIterates, ServerCallback, ServerSelectFails, CloseSockets,
           ThreadEnds, flagVars
    <3>5. /\ sock' \in {"invalid", "open", "up"} /\ connected' \in BOOLEAN
          /\ listening' \in Threads \union {NULL}
      BY <2>2 DEF ThreadStep, ThreadBegins, ClientSetup, ServerSetup,
           ServerSetupFails, ClientIterates, ClientLeavesLoop, ClientSocket,
           ClientSocketFails, ClientConnects, ClientConnectAborts,
           ClientDisconnects, ClientCallback,
           ServerIterates, ServerCallback, ServerSelectFails, CloseSockets,
           ThreadEnds, sockVars
    <3> QED BY <3>2, <3>3, <3>4, <3>5 DEF appVars
  <2>3. CASE UNCHANGED vars
    BY <2>3 DEF vars, appVars, flagVars, sockVars
  <2> QED BY <2>1, <2>2, <2>3 DEF Next
<1> QED BY <1>1, <1>2, PTL DEF Spec

\* An orderly application's steps are steps of the specification.
LEMMA OrderlyTypeOK == SpecOrderly => []TypeOK
<1>1. SpecOrderly => Spec
  BY PTL DEF SpecOrderly, Spec
<1> QED BY <1>1, TypeCorrect, PTL

\* Nothing has been started before the first init.
LEMMA LifeInvInit == Init => LifeInv
  BY DEF Init, LifeInv, SoloInv, StopInv, SocketInv, ConfigInv, CallInv, Alive

\* The application's steps keep the invariant.
LEMMA AppStepKeeps ==
    ASSUME TypeOK, LifeInv, AppStep, Orderly
    PROVE  LifeInv'
<1> USE DEF LifeInv, Alive, HasSocket
<1>1. ASSUME NEW f \in Files, InitFails(f) PROVE LifeInv'
  BY <1>1 DEF InitFails, flagVars, sockVars, SoloInv, StopInv, SocketInv,
              ConfigInv, CallInv
<1>2. ASSUME NEW f \in Files, ClientInit(f) PROVE LifeInv'
  <2>1. (\A i \in DOMAIN Fields : config'[i] = port') /\ side' = "client"
    BY <1>2, AllLoaded DEF ClientInit
  <2> QED BY <1>2, <2>1 DEF ClientInit, flagVars, sockVars, SoloInv, StopInv,
              SocketInv, ConfigInv, CallInv
<1>3. ASSUME NEW f \in Files, ServerInit(f) PROVE LifeInv'
  <2>1. ConfigInv'
    BY <1>3, ServerInitStores, LifecycleAssumption DEF ConfigInv
  <2> QED BY <1>3, <2>1, ServerInitStores DEF ServerInit, sockVars, SoloInv,
              StopInv, SocketInv, CallInv
<1>4. ASSUME NEW t \in Threads, Run(t) PROVE LifeInv'
  <2>1. SoloInv' /\ StopInv'
    BY <1>4 DEF Run, TypeOK, SoloInv, StopInv
  <2>2. SocketInv'
    BY <1>4 DEF Run, TypeOK, SocketInv
  <2>3. ConfigInv' /\ CallInv'
    BY <1>4 DEF Run, ConfigInv, CallInv
  <2> QED BY <2>1, <2>2, <2>3
<1>5. CASE RunFails
  BY <1>5 DEF RunFails, appVars, flagVars, SoloInv, StopInv, SocketInv,
              ConfigInv, CallInv
<1>6. ASSUME NEW c \in Callers, EnterCall(c) \/ LeaveCall(c) PROVE LifeInv'
  <2>1. caller' # caller
    BY <1>6 DEF EnterCall, LeaveCall, TypeOK
  <2>2. apc # "polling"
    BY <2>1 DEF Orderly
  <2>3. CallInv'
    BY <1>6, <2>2 DEF EnterCall, LeaveCall, TypeOK, CallInv, appVars
  <2> QED BY <1>6, <2>3 DEF EnterCall, LeaveCall, appVars, flagVars, sockVars,
              SoloInv, StopInv, SocketInv, ConfigInv
<1>7. CASE Terminate
  BY <1>7 DEF Terminate, Orderly, sockVars, SoloInv, StopInv, SocketInv,
              ConfigInv, CallInv
<1>8. CASE PollStopped \/ PollGivesUp
  BY <1>8 DEF PollStopped, PollGivesUp, Orderly, flagVars, sockVars, SoloInv,
              StopInv, SocketInv, ConfigInv, CallInv, TypeOK
<1>9. CASE Free
  BY <1>9 DEF Free, flagVars, sockVars, SoloInv, StopInv, SocketInv, ConfigInv,
              CallInv
<1> QED BY <1>1, <1>2, <1>3, <1>4, <1>5, <1>6, <1>7, <1>8, <1>9 DEF AppStep

\* The steps of a socket thread keep it.
LEMMA ThreadStepKeeps ==
    ASSUME TypeOK, LifeInv, NEW t \in Threads, ThreadStep(t)
    PROVE  LifeInv'
<1> USE DEF LifeInv, Alive, HasSocket
<1>1. UNCHANGED << side, config, port, validator, apc, caller >>
  BY DEF ThreadStep, ThreadBegins, ClientSetup, ServerSetup, ServerSetupFails,
         ClientIterates, ClientLeavesLoop, ClientSocket, ClientSocketFails,
         ClientConnects, ClientConnectAborts, ClientDisconnects,
         ClientCallback, ServerIterates,
         ServerCallback, ServerSelectFails, CloseSockets, ThreadEnds, appVars
<1>2. ConfigInv' /\ CallInv'
  BY <1>1 DEF ConfigInv, CallInv
<1>3. Alive(t) /\ \E l \in Places \ {"none", "created"} : At(t, l)
  BY DEF ThreadStep, ThreadBegins, ClientSetup, ServerSetup, ServerSetupFails,
         ClientIterates, ClientLeavesLoop, ClientSocket, ClientSocketFails,
         ClientConnects, ClientConnectAborts, ClientDisconnects,
         ClientCallback, ServerIterates,
         ServerCallback, ServerSelectFails, CloseSockets, ThreadEnds, Places
<1>4. \A u \in Threads \ {t} : ~Alive(u) /\ tpc'[u] = tpc[u]
  BY <1>3 DEF SoloInv, At, TypeOK
<1>5. SoloInv'
  BY <1>4 DEF SoloInv
<1>6. StopInv'
  <2>1. apc \in {"up", "polling"}
    BY <1>3 DEF StopInv, TypeOK
  <2>2. apc = "polling" => status /\ tpc[t] \notin {"created", "setup"}
    BY <1>3 DEF StopInv
  <2>3. apc = "polling" =>
          \/ status' /\ tpc'[t] \notin {"created", "setup"}
          \/ tpc'[t] = "gone"
    BY <2>2 DEF ThreadStep, ThreadBegins, ClientSetup, ServerSetup,
         ServerSetupFails, ClientIterates, ClientLeavesLoop, ClientSocket,
         ClientSocketFails, ClientConnects, ClientConnectAborts,
           ClientDisconnects, ClientCallback,
         ServerIterates, ServerCallback, ServerSelectFails, CloseSockets,
         ThreadEnds, At, TypeOK, flagVars
  <2> QED BY <1>1, <1>4, <2>1, <2>3 DEF StopInv
<1>7. SocketInv'
  <2>1. /\ sock = "up" => HasSocket(t) /\ side = "client"
        /\ listening # NULL => listening = t /\ side = "server" /\ HasSocket(t)
    BY <1>4 DEF SocketInv, TypeOK
  <2> DEFINE Goal ==
        /\ sock' = "up" => tpc'[t] \in {"loop", "callback", "close"} /\ side = "client"
        /\ listening' # NULL => /\ listening' = t /\ side = "server"
                               /\ tpc'[t] \in {"loop", "callback", "close"}
  <2> SUFFICES Goal
    BY <1>1 DEF SocketInv
  <2>2. CASE ThreadBegins(t) \/ ClientSetup(t) \/ ServerSetup(t) \/ ServerSetupFails(t)
    BY <2>1, <2>2 DEF ThreadBegins, ClientSetup, ServerSetup, ServerSetupFails,
         At, TypeOK, sockVars
  <2>3. CASE \/ ClientIterates(t) \/ ClientLeavesLoop(t) \/ ClientSocket(t)
             \/ ClientSocketFails(t) \/ ClientConnects(t)
             \/ ClientConnectAborts(t) \/ ClientDisconnects(t) \/ ClientCallback(t)
    BY <2>1, <2>3 DEF ClientIterates, ClientLeavesLoop, ClientSocket,
         ClientSocketFails, ClientConnects, ClientConnectAborts,
           ClientDisconnects, ClientCallback,
         At, TypeOK, sockVars
  <2>4. CASE ServerIterates(t) \/ ServerCallback(t) \/ ServerSelectFails(t)
    BY <2>1, <2>4 DEF ServerIterates, ServerCallback, ServerSelectFails, At,
         TypeOK, sockVars
  <2>5. CASE CloseSockets(t) \/ ThreadEnds(t)
    BY <2>1, <2>5 DEF CloseSockets, ThreadEnds, At, TypeOK, sockVars
  <2> QED BY <2>2, <2>3, <2>4, <2>5 DEF ThreadStep
<1> QED BY <1>2, <1>5, <1>6, <1>7

\* The invariant holds throughout an orderly application's life.
LEMMA LifeInvariant == SpecOrderly => []LifeInv
<1>1. TypeOK /\ LifeInv /\ [Next /\ Orderly]_vars => LifeInv'
  <2> SUFFICES ASSUME TypeOK, LifeInv, [Next /\ Orderly]_vars PROVE LifeInv'
    OBVIOUS
  <2>1. CASE AppStep /\ Orderly
    BY <2>1, AppStepKeeps
  <2>2. CASE \E t \in Threads : ThreadStep(t)
    BY <2>2, ThreadStepKeeps
  <2>3. CASE UNCHANGED vars
    BY <2>3 DEF vars, appVars, flagVars, sockVars, LifeInv, SoloInv, StopInv,
                SocketInv, ConfigInv, CallInv, Alive, HasSocket
  <2> QED BY <2>1, <2>2, <2>3 DEF Next
<1> QED BY <1>1, LifeInvInit, OrderlyTypeOK, PTL DEF SpecOrderly

\* When terminate has stopped polling the thread is gone and its sockets are
\* closed, for any number of restarts.
THEOREM ThreadStops == SpecOrderly => []StoppedWhenFreed
<1>1. TypeOK /\ LifeInv => StoppedWhenFreed
  BY DEF LifeInv, StopInv, SocketInv, StoppedWhenFreed, Alive, HasSocket, TypeOK
<1> QED BY <1>1, LifeInvariant, OrderlyTypeOK, PTL

\* Callbacks find the lists and a validator made from the last configuration,
\* also after initialisations that failed.  (That terminate strands no call is
\* what Orderly assumes.)
THEOREM NothingMissing == SpecOrderly => []UsesWhatIsThere
<1>1. TypeOK /\ LifeInv => UsesWhatIsThere
  BY DEF LifeInv, StopInv, ConfigInv, CallInv, UsesWhatIsThere, Alive, TypeOK
<1> QED BY <1>1, LifeInvariant, OrderlyTypeOK, PTL

\* A restarted server's bind() finds the port free.
THEOREM RestartBinds == SpecOrderly => []PortFree
<1>1. TypeOK /\ LifeInv => PortFree
  BY DEF LifeInv, SoloInv, SocketInv, PortFree, Alive, HasSocket, TypeOK
<1> QED BY <1>1, LifeInvariant, OrderlyTypeOK, PTL
=============================================================================
