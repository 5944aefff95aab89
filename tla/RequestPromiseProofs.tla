------------------------ MODULE RequestPromiseProofs ------------------------
(***************************************************************************)
(* RequestTracking implements RpcPromise, and its calls do not outlive     *)
(* their ticks: proofs for any number of callers, identifiers and ticks.   *)
(***************************************************************************)
EXTENDS RequestExpiry, RequestRefinement, RequestTrackingProofs

-----------------------------------------------------------------------------
(* An outcome belongs to a request that went out. *)

\* The messages under way.
Flight == Range(c2s) \union Range(s2c) \union Range(recvd)

\* A call is here before it has sent its request, or when it could not.
Unsent == {"ready", "find", "link", "send", "fail", "failed"}

\* No response is under way to a request that has not been sent, and no
\* identifier is under way that has not been handed out.
FlightInv ==
    /\ \A n \in Flight : n <= g_req_id
    /\ \A c \in Callers : pc[c] = "return" => \A n \in Flight : n <= loaded[c]
    /\ \A c \in Callers : pc[c] \in Unsent =>
          \A n \in Flight : n # Event => n # id[c]

\* Only a sleeping call is resolved by a response, and it keeps its outcome.
OutcomeInv ==
    /\ rpc = "signal" => pc[node] = "wait"
    /\ \A c \in Callers : rc[c] = "ok" =>
          signalled[c] \/ (rpc = "signal" /\ node = c)

\* A message comes from the messages under way before, from the server as an
\* event, or from the caller that sends its request.
LEMMA FlightFrom ==
    ASSUME TypeInv, [Next]_vars, NEW n \in Flight'
    PROVE  \/ n \in Flight \/ n = Event
           \/ \E c \in Callers : SendOk(c) /\ n = id[c]
<1> USE DEF TypeInv, NetTypes, Flight, Range
<1>1. ASSUME NEW c \in Callers, SendOk(c)
      PROVE  n \in Flight \/ n = id[c]
  BY <1>1 DEF SendOk, threadVars
<1>2. CASE Receive
  <2>1. PICK k \in 1 .. MaxGlue :
           /\ k <= Len(s2c) /\ recvd' = SubSeq(s2c, 1, k)
           /\ s2c' = SubSeq(s2c, k + 1, Len(s2c)) /\ c2s' = c2s
    BY <1>2 DEF Receive
  <2>2. k \in Nat /\ \A i \in DOMAIN recvd' : i \in DOMAIN s2c /\ recvd'[i] = s2c[i]
    BY <2>1, BoundAssumption
  <2>3. \A i \in DOMAIN s2c' : k + i \in DOMAIN s2c /\ s2c'[i] = s2c[k + i]
    BY <2>1, <2>2
  <2> QED BY <2>1, <2>2, <2>3
<1>3. CASE ParseOther \/ SignalResponse
  BY <1>3 DEF ParseOther, SignalResponse, NextMessage, netVars
<1>4. CASE ConnectAborts
  BY <1>4 DEF ConnectAborts
<1>5. CASE ServerReply
  <2>1. /\ c2s' = Tail(c2s) /\ s2c' = Append(s2c, c2s[1]) /\ recvd' = recvd
        /\ c2s # << >>
    BY <1>5 DEF ServerReply, threadVars
  <2>2. 1 \in DOMAIN c2s /\ \A i \in DOMAIN c2s' : i + 1 \in DOMAIN c2s /\ c2s'[i] = c2s[i + 1]
    BY <2>1
  <2> QED BY <2>1, <2>2
<1>6. CASE ServerIgnore
  <2>1. /\ c2s' = Tail(c2s) /\ s2c' = s2c /\ recvd' = recvd /\ c2s # << >>
    BY <1>6 DEF ServerIgnore, threadVars
  <2>2. \A i \in DOMAIN c2s' : i + 1 \in DOMAIN c2s /\ c2s'[i] = c2s[i + 1]
    BY <2>1
  <2> QED BY <2>1, <2>2
<1>7. CASE ServerEvent
  BY <1>7 DEF ServerEvent, threadVars
<1>8. CASE ServerClose
  BY <1>8 DEF ServerClose, threadVars
<1>9. CASE UNCHANGED << recvd, c2s, s2c >>
  BY <1>9
<1>10. \/ \E c \in Callers : SendOk(c)
       \/ Receive \/ ParseOther \/ SignalResponse \/ ConnectAborts
       \/ ServerReply \/ ServerIgnore \/ ServerEvent \/ ServerClose
       \/ UNCHANGED << recvd, c2s, s2c >>
  <2>1. ASSUME NEW c \in Callers, CallerStep(c)
        PROVE  SendOk(c) \/ UNCHANGED << recvd, c2s, s2c >>
    BY <2>1 DEF CallerStep, HdrLoad, HdrStore, HdrReturn, Call, AppendFind,
         AppendLink, SendFail, Wake, Delete, Return, threadVars, netVars
  <2>2. CASE ThreadStep
    BY <2>2 DEF ThreadStep, SocketInit, SocketFails, ConnectFails, ConnectPending,
         Connected, SelectTimeout, EndOfFile, RecvFails, ParseResponse,
         TickBegin, TickAlive, TickExpired, SignalExpired, netVars
  <2> QED BY <2>1, <2>2 DEF Next, ServerStep, vars, threadVars, netVars
<1> QED BY <1>1, <1>2, <1>3, <1>4, <1>5, <1>6, <1>7, <1>8, <1>9, <1>10

\* Where a caller's identifier comes from.
LEMMA CallerFields ==
    ASSUME TypeInv, [Next]_vars, NEW c \in Callers
    PROVE  \/ HdrStore(c) \/ HdrReturn(c)
           \/ /\ id'[c] = id[c]
              /\ pc'[c] = "return" => pc[c] = "return" /\ loaded'[c] = loaded[c]
              /\ pc'[c] \in Unsent => pc[c] \in Unsent
<1> USE DEF TypeInv, CallerInv, CallerTypes, GoTo, Unsent
<1>1. ASSUME NEW d \in Callers, CallerStep(d), d # c
      PROVE  id'[c] = id[c] /\ pc'[c] = pc[c] /\ loaded'[c] = loaded[c]
  BY <1>1 DEF CallerStep, HdrLoad, HdrStore, HdrReturn, Call, AppendFind,
       AppendLink, SendOk, SendFail, Wake, Delete, Return
<1>2. CASE CallerStep(c)
  BY <1>2 DEF CallerStep, HdrLoad, HdrStore, HdrReturn, Call, AppendFind,
       AppendLink, SendOk, SendFail, Wake, Delete, Return
<1>3. CASE ThreadStep \/ ServerStep
  BY <1>3 DEF ThreadStep, SocketInit, SocketFails, ConnectFails, ConnectPending,
       ConnectAborts, Connected, SelectTimeout, Receive, EndOfFile, RecvFails,
       ParseOther, ParseResponse, SignalResponse, TickBegin, TickAlive,
       TickExpired, SignalExpired, ServerStep, ServerReply, ServerIgnore,
       ServerEvent, ServerClose, callerVars
<1> QED BY <1>1, <1>2, <1>3 DEF Next, vars, callerVars

\* Every step preserves FlightInv.
LEMMA FlightStep ==
    TypeInv /\ SafeInv /\ FlightInv /\ [Next /\ Undisturbed]_vars => FlightInv'
<1> SUFFICES ASSUME TypeInv, SafeInv, FlightInv, [Next /\ Undisturbed]_vars
             PROVE  FlightInv'
  OBVIOUS
<1>1. /\ g_req_id \in Int /\ g_req_id' \in Int /\ g_req_id <= g_req_id'
      /\ \A c \in Callers : id[c] \in Int /\ loaded[c] \in Int
  <2>1. g_req_id' = g_req_id \/ g_req_id' = g_req_id + 1
    BY DEF Next, CallerStep, ThreadStep, ServerStep, HdrLoad, HdrStore,
         HdrReturn, Call, AppendFind, AppendLink, SendOk, SendFail, Wake,
         Delete, Return, SocketInit, SocketFails, ConnectFails, ConnectPending,
         ConnectAborts, Connected, SelectTimeout, Receive, EndOfFile,
         RecvFails, ParseOther, ParseResponse, SignalResponse, TickBegin,
         TickAlive, TickExpired, SignalExpired, ServerReply, ServerIgnore,
         ServerEvent, ServerClose, callerVars, vars, SafeInv, WindowInv
  <2> QED BY <2>1 DEF TypeInv, CallerInv, CallerTypes, Ids
<1>2. \A n \in Flight : n \in Nat
  BY IdAssumption DEF Flight, Range, TypeInv, NetTypes, ThreadInv, ThreadTypes, Messages,
       Ids, Event
<1>3. ASSUME NEW c \in Callers, SendOk(c)
      PROVE  /\ id[c] <= g_req_id /\ pc'[c] = "wait"
             /\ \A d \in Callers : pc[d] = "return" => id[c] <= loaded[d]
             /\ \A d \in Callers : d # c /\ pc[d] \in Unsent => id[c] # id[d]
             /\ UNCHANGED << g_req_id, id >>
  BY <1>3 DEF SendOk, GoTo, SafeInv, IdInv, WindowInv, HasId, Unsent, TypeInv,
       CallerInv, CallerTypes
<1>4. ASSUME NEW n \in Flight' PROVE n <= g_req_id'
  BY <1>1, <1>2, <1>3, FlightFrom, IdAssumption DEF FlightInv, Event, TypeInv, CallerInv, CallerTypes, Ids
<1>5. ASSUME NEW c \in Callers, pc'[c] = "return", NEW n \in Flight'
      PROVE  n <= loaded'[c]
  <2>1. CASE HdrStore(c)
    <3>1. n \in Flight /\ loaded'[c] = g_req_id
      BY <2>1 DEF HdrStore, SafeInv, WindowInv, Flight, threadVars, netVars
    <3> QED BY <3>1 DEF FlightInv
  <2>2. CASE HdrReturn(c)
    BY <1>5, <2>2 DEF HdrReturn, GoTo, TypeInv, CallerInv, CallerTypes
  <2>3. CASE pc[c] = "return" /\ loaded'[c] = loaded[c]
    BY <1>1, <1>2, <1>3, <2>3, FlightFrom, IdAssumption
       DEF FlightInv, Event, TypeInv, CallerInv, CallerTypes, Ids
  <2> QED BY <1>5, <2>1, <2>2, <2>3, CallerFields
<1>6. ASSUME NEW c \in Callers, pc'[c] \in Unsent, NEW n \in Flight',
             n # Event
      PROVE  n # id'[c]
  <2>1. CASE HdrStore(c)
    BY <1>6, <2>1 DEF HdrStore, GoTo, TypeInv, CallerInv, CallerTypes, Unsent
  <2>2. CASE HdrReturn(c)
    <3>1. n \in Flight /\ id'[c] = g_req_id /\ loaded[c] + 1 = g_req_id
      BY <2>2 DEF HdrReturn, SafeInv, WindowInv, Flight, threadVars, netVars, TypeInv, CallerInv, CallerTypes
    <3>2. n <= loaded[c]
      BY <2>2, <3>1 DEF HdrReturn, FlightInv
    <3> QED BY <1>1, <1>2, <3>1, <3>2
  <2>3. CASE pc[c] \in Unsent /\ id'[c] = id[c]
    <3>1. CASE n \in Flight
      BY <1>6, <2>3, <3>1 DEF FlightInv
    <3>2. ASSUME NEW d \in Callers, SendOk(d), n = id[d]
          PROVE  n # id'[c]
      <4>1. d # c
        BY <1>3, <1>6, <3>2 DEF Unsent
      <4> QED BY <1>3, <2>3, <3>2, <4>1
    <3> QED BY <1>6, <3>1, <3>2, FlightFrom
  <2> QED BY <1>6, <2>1, <2>2, <2>3, CallerFields
<1> QED BY <1>4, <1>5, <1>6 DEF FlightInv

\* The call a response resolves sleeps: neither a call that has not sent its
\* request yet nor one whose send has failed can be answered.
LEMMA AnsweredSleeps ==
    ASSUME TypeInv, SafeInv, FlightInv, ~Spurious, ParseResponse,
           NEW i \in DOMAIN tracking, IsMatch(i, recvd[pos])
    PROVE  tracking[i] \in Callers /\ pc[tracking[i]] = "wait"
<1> DEFINE c == tracking[i]
<1>1. c \in Callers /\ c \in Range(tracking)
  BY DEF TypeInv, NodeInv, NodeTypes, Range
<1>2. pos \in DOMAIN recvd /\ recvd[pos] \in Ids /\ recvd[pos] # Event
  BY DEF ParseResponse, TypeInv, ThreadInv, ThreadTypes, Messages
<1>3. id[c] = recvd[pos]
  BY <1>1, <1>2, SameSequence DEF IsMatch, TypeInv, CallerInv, CallerTypes
<1>4. recvd[pos] \in Flight
  BY <1>2 DEF Flight, Range
<1>5. pc[c] \notin Unsent
  BY <1>1, <1>2, <1>3, <1>4 DEF FlightInv
<1>6. pc[c] \in Listed /\ pc[c] # "woken"
  BY <1>1 DEF SafeInv, ListInv, WaitInv
<1> QED BY <1>1, <1>5, <1>6 DEF Unsent, Listed

\* Every step preserves OutcomeInv when pthread_cond_wait returns only when
\* signalled.
LEMMA OutcomeStep ==
    ASSUME ~Spurious
    PROVE  TypeInv /\ SafeInv /\ FlightInv /\ OutcomeInv /\ [Next]_vars
             => OutcomeInv'
<1> SUFFICES ASSUME TypeInv, SafeInv, FlightInv, OutcomeInv, [Next]_vars
             PROVE  OutcomeInv'
  OBVIOUS
<1> USE DEF TypeInv, OutcomeInv, CallerInv, CallerTypes, NodeInv, NodeTypes
<1>1. ASSUME NEW c \in Callers, CallerStep(c) PROVE OutcomeInv'
  <2> USE DEF GoTo, threadVars, ThreadInv, ThreadTypes
  <2>1. rpc = "signal" /\ node = c => pc[c] = "wait" /\ ~signalled[c]
    BY DEF SafeInv, WaitInv, AboutToSignal
  <2>2. CASE Return(c)
    BY <2>1, <2>2 DEF Return
  <2>3. CASE Call(c)
    BY <2>1, <2>3 DEF Call
  <2>4. CASE Wake(c)
    BY <2>1, <2>4 DEF Wake, nodeVars
  <2>5. CASE HdrLoad(c) \/ HdrStore(c) \/ HdrReturn(c)
    BY <2>1, <2>5 DEF HdrLoad, HdrStore, HdrReturn, nodeVars
  <2>6. CASE AppendFind(c) \/ AppendLink(c)
    BY <2>1, <2>6 DEF AppendFind, AppendLink, nodeVars
  <2>7. CASE SendOk(c) \/ SendFail(c)
    BY <2>1, <2>7 DEF SendOk, SendFail, nodeVars
  <2>8. CASE Delete(c)
    BY <2>1, <2>8 DEF Delete
  <2> QED BY <1>1, <2>2, <2>3, <2>4, <2>5, <2>6, <2>7, <2>8 DEF CallerStep
<1>2. CASE ThreadStep
  <2> USE DEF callerVars, ThreadInv, ThreadTypes
  <2>1. CASE ParseResponse
    <3>1. PICK i \in DOMAIN tracking :
             /\ IsMatch(i, recvd[pos]) /\ node' = tracking[i]
             /\ rc' = [rc EXCEPT ![tracking[i]] = "ok"]
      BY <2>1 DEF ParseResponse
    <3>2. tracking[i] \in Callers /\ pc[tracking[i]] = "wait"
      BY <2>1, <3>1, AnsweredSleeps
    <3> QED BY <2>1, <3>1, <3>2 DEF ParseResponse
  <2>2. CASE SignalResponse
    <3>1. node \in Callers /\ pc[node] = "wait"
      BY <2>2 DEF SignalResponse
    <3> QED BY <2>2, <3>1 DEF SignalResponse, SignalNode, NextMessage
  <2>3. CASE TickExpired
    BY <2>3 DEF TickExpired
  <2>4. CASE SignalExpired
    <3>1. node \in Callers /\ ~signalled[node] /\ rpc = "expire"
      BY <2>4 DEF SignalExpired, SafeInv, WaitInv, AboutToSignal
    <3> QED BY <2>4, <3>1 DEF SignalExpired, SignalNode, Advance
  <2>5. CASE TickBegin
    BY <2>5 DEF TickBegin, nodeVars
  <2>6. CASE TickAlive
    BY <2>6 DEF TickAlive, Advance
  <2>7. CASE ParseOther
    BY <2>7 DEF ParseOther, NextMessage, nodeVars
  <2> QED BY <1>2, <2>1, <2>2, <2>3, <2>4, <2>5, <2>6, <2>7
         DEF ThreadStep, SocketInit, SocketFails, ConnectFails, ConnectPending,
             ConnectAborts, Connected, SelectTimeout, Receive, EndOfFile,
             RecvFails, nodeVars
<1>3. CASE ServerStep
  BY <1>3 DEF ServerStep, ServerReply, ServerIgnore, ServerEvent, ServerClose,
       callerVars, nodeVars, threadVars
<1>4. CASE UNCHANGED vars
  BY <1>4 DEF vars, callerVars, nodeVars, threadVars
<1> QED BY <1>1, <1>2, <1>3, <1>4 DEF Next

-----------------------------------------------------------------------------
(* The refinement, step by step. *)

\* What the call of c looks like changes to x and nothing else does.
LEMMA CallChanges ==
    ASSUME NEW c \in Callers, NEW x,
           \A d \in Callers : CallOf(d)' = IF d = c THEN x ELSE CallOf(d)
    PROVE  callMap' = [callMap EXCEPT ![c] = x]
  BY DEF callMap

\* The identifier of c's call changes to x and nothing else does.
LEMMA RequestChanges ==
    ASSUME NEW c \in Callers, NEW x,
           \A d \in Callers : RequestOf(d)' = IF d = c THEN x ELSE RequestOf(d)
    PROVE  requestMap' = [requestMap EXCEPT ![c] = x]
  BY DEF requestMap

\* A step that changes neither is a step of the abstract specification, or
\* none.
LEMMA NothingChanges ==
    ASSUME \A d \in Callers : CallOf(d)' = CallOf(d) /\ RequestOf(d)' = RequestOf(d)
    PROVE  UNCHANGED << callMap, requestMap >>
  BY DEF callMap, requestMap

\* A call looks the same when its node and its caller's place do.
LEMMA LooksTheSame ==
    ASSUME NEW d \in Callers, pc'[d] = pc[d], id'[d] = id[d], rc'[d] = rc[d],
           buffer'[d] = buffer[d], signalled'[d] = signalled[d],
           AboutToSignal(d)' <=> AboutToSignal(d)
    PROVE  CallOf(d)' = CallOf(d) /\ RequestOf(d)' = RequestOf(d)
  BY DEF CallOf, RequestOf, InCall, Resolved, Outcome

\* A caller's step leaves the calls of the others alone.
LEMMA OthersLookTheSame ==
    ASSUME TypeInv, NEW c \in Callers, CallerStep(c), NEW d \in Callers, d # c
    PROVE  CallOf(d)' = CallOf(d) /\ RequestOf(d)' = RequestOf(d)
<1>1. /\ pc'[d] = pc[d] /\ id'[d] = id[d] /\ rc'[d] = rc[d]
      /\ buffer'[d] = buffer[d] /\ signalled'[d] = signalled[d]
      /\ UNCHANGED << rpc, node >>
  BY DEF CallerStep, HdrLoad, HdrStore, HdrReturn, Call, AppendFind, AppendLink,
       SendOk, SendFail, Wake, Delete, Return, GoTo, nodeVars, threadVars,
       TypeInv, CallerInv, CallerTypes, NodeInv, NodeTypes
<1> QED BY <1>1, LooksTheSame DEF AboutToSignal

\* What a call looks like between its steps.
LEMMA Looks ==
    ASSUME TypeInv, SafeInv, ReplyInv, OutcomeInv, NEW c \in Callers
    PROVE  /\ rc[c] = "ok" => Outcome(c) = << "ok", id[c] >>
           /\ rc[c] # "ok" => Outcome(c) = << "err", NULL >>
           /\ InCall(c) /\ ~Resolved(c) => rc[c] # "ok"
           /\ pc[c] \in {"fail", "failed"} => rc[c] # "ok"
           /\ pc[c] \in {"find", "link"} => ~Resolved(c)
           /\ pc[c] \in {"idle", "store", "return", "ready"} =>
                 rc[c] # "ok" /\ ~signalled[c] /\ ~AboutToSignal(c)
<1>1. rc[c] = "ok" => buffer[c][1] = id[c]
  BY DEF ReplyInv
<1>2. rc[c] = "ok" => signalled[c] \/ (AboutToSignal(c) /\ pc[c] = "wait")
  BY DEF OutcomeInv, AboutToSignal
<1>3. signalled[c] => pc[c] \in {"wait", "woken", "reaped"}
  BY DEF SafeInv, WaitInv
<1>4. AboutToSignal(c) => pc[c] \in Listed
  BY DEF SafeInv, ListInv, AboutToSignal
<1> QED BY <1>1, <1>2, <1>3, <1>4 DEF Outcome, Resolved, Listed

\* Every step of a caller is a step of RpcPromise or none.
LEMMA CallerKeepsPromise ==
    ASSUME TypeInv, SafeInv, ReplyInv, OutcomeInv, ~Spurious,
           NEW c \in Callers, CallerStep(c)
    PROVE  \/ UNCHANGED << callMap, requestMap, result >>
           \/ Promise!Prepare(c) \/ Promise!Begin(c)
           \/ Promise!Resolve(c) \/ Promise!Finish(c)
<1> USE DEF TypeInv, CallerInv, CallerTypes, NodeInv, NodeTypes, GoTo
<1>0. /\ callMap[c] = CallOf(c)
      /\ requestMap[c] = RequestOf(c)
      /\ \A d \in Callers : d # c =>
            CallOf(d)' = CallOf(d) /\ RequestOf(d)' = RequestOf(d)
  BY OthersLookTheSame DEF callMap, requestMap
<1>1. ASSUME CallOf(c)' = CallOf(c), RequestOf(c)' = RequestOf(c)
      PROVE  UNCHANGED << callMap, requestMap >>
  BY <1>0, <1>1, NothingChanges
<1>2. CASE HdrLoad(c)
  <2>1. UNCHANGED << callMap, requestMap >> /\ CallOf(c) = << "none", NULL >>
    BY <1>1, <1>2 DEF HdrLoad, CallOf, RequestOf, InCall
  <2>2. result' = [result EXCEPT ![c] = << "none", NULL >>]
    BY <1>2 DEF HdrLoad
  <2> QED BY <1>0, <2>1, <2>2 DEF Promise!Prepare, Promise!NoCall
<1>3. CASE HdrStore(c) \/ HdrReturn(c)
  BY <1>1, <1>3 DEF HdrStore, HdrReturn, CallOf, RequestOf, InCall
<1>4. CASE Call(c)
  <2>1. CallOf(c) = << "none", NULL >> /\ id[c] \in Ids
    BY <1>4 DEF Call, CallOf, InCall
  <2>2. RequestOf(c)' = id[c] /\ CallOf(c)' = << "open", NULL >>
    <3>1. /\ pc'[c] = "find" /\ id' = id /\ signalled' = signalled
          /\ UNCHANGED << rpc, node >> /\ pc[c] = "ready"
      BY <1>4 DEF Call, threadVars
    <3>2. ~signalled[c] /\ ~AboutToSignal(c)
      BY <3>1, Looks
    <3> QED BY <3>1, <3>2 DEF RequestOf, CallOf, InCall, Resolved, AboutToSignal
  <2>3. \A d \in Callers : requestMap[d] # id[c]
    <3>1. ASSUME NEW d \in Callers, InCall(d) PROVE id[d] # id[c]
      BY <1>4, <3>1 DEF Call, InCall, SafeInv, IdInv, HasId
    <3> QED BY <2>1, <3>1, BoundAssumption, IdAssumption
           DEF requestMap, RequestOf, Ids
  <2>4. /\ callMap' = [callMap EXCEPT ![c] = << "open", NULL >>]
        /\ requestMap' = [requestMap EXCEPT ![c] = id[c]]
    <3>1. \A d \in Callers : CallOf(d)' = IF d = c THEN << "open", NULL >> ELSE CallOf(d)
      BY <1>0, <2>2
    <3>2. \A d \in Callers : RequestOf(d)' = IF d = c THEN id[c] ELSE RequestOf(d)
      BY <1>0, <2>2
    <3> QED BY <3>1, <3>2, CallChanges, RequestChanges
  <2>5. result' = result
    BY <1>4 DEF Call
  <2> QED BY <1>0, <2>1, <2>3, <2>4, <2>5
         DEF Promise!Begin, Promise!NoCall, Promise!Open
<1>5. CASE AppendFind(c) \/ AppendLink(c)
  BY <1>1, <1>5, Looks DEF AppendFind, AppendLink, CallOf, RequestOf, InCall,
       Resolved, AboutToSignal, nodeVars, threadVars
<1>6. CASE SendOk(c)
  BY <1>1, <1>6 DEF SendOk, CallOf, RequestOf, InCall, Resolved, Outcome,
       AboutToSignal, nodeVars, threadVars
<1>7. CASE SendFail(c)
  <2>1. /\ pc[c] = "send" /\ pc'[c] = "fail" /\ result' = result
        /\ UNCHANGED << id, rc, buffer, signalled, rpc, node >>
    BY <1>7 DEF SendFail, nodeVars, threadVars
  <2>2. RequestOf(c)' = RequestOf(c) /\ CallOf(c)' = Outcome(c) /\ InCall(c)
    BY <2>1 DEF RequestOf, CallOf, InCall, Resolved, Outcome
  <2>3. CASE Resolved(c)
    BY <1>1, <2>1, <2>2, <2>3 DEF CallOf
  <2>4. CASE ~Resolved(c)
    <3>1. CallOf(c) = << "open", NULL >> /\ CallOf(c)' = << "err", NULL >>
      BY <2>2, <2>4, Looks DEF CallOf
    <3>2. \A d \in Callers : CallOf(d)' = IF d = c THEN << "err", NULL >> ELSE CallOf(d)
      BY <1>0, <3>1
    <3>3. requestMap' = requestMap
      BY <1>0, <2>2 DEF requestMap
    <3> QED BY <1>0, <2>1, <3>1, <3>2, <3>3, CallChanges
           DEF Promise!Resolve, Promise!Open, Promise!Error
  <2> QED BY <2>3, <2>4
<1>8. CASE Wake(c)
  BY <1>1, <1>8 DEF Wake, CallOf, RequestOf, InCall, Resolved, Outcome,
       nodeVars, threadVars
<1>9. CASE Delete(c)
  BY <1>1, <1>9 DEF Delete, CallOf, RequestOf, InCall, Resolved, Outcome
<1>10. CASE Return(c)
  <2>1. /\ pc[c] \in {"failed", "reaped"} /\ pc'[c] = "idle"
        /\ result' = [result EXCEPT ![c] =
                        IF pc[c] = "reaped" /\ rc[c] = "ok"
                        THEN << "ok", buffer[c][1] >> ELSE << "err", NULL >>]
    BY <1>10 DEF Return
  <2>2. CallOf(c) = Outcome(c) /\ CallOf(c)' = << "none", NULL >> /\ RequestOf(c)' = NULL
    BY <2>1 DEF CallOf, RequestOf, InCall, Resolved
  <2>3. result' = [result EXCEPT ![c] = CallOf(c)]
    BY <2>1, <2>2, Looks DEF Outcome
  <2>4. CallOf(c) # << "none", NULL >> /\ CallOf(c) # << "open", NULL >>
    BY <2>2 DEF Outcome
  <2>5. \A d \in Callers : CallOf(d)' = IF d = c THEN << "none", NULL >> ELSE CallOf(d)
    BY <1>0, <2>2
  <2>6. \A d \in Callers : RequestOf(d)' = IF d = c THEN NULL ELSE RequestOf(d)
    BY <1>0, <2>2
  <2>7. /\ callMap' = [callMap EXCEPT ![c] = << "none", NULL >>]
        /\ requestMap' = [requestMap EXCEPT ![c] = NULL]
    BY <2>5, <2>6, CallChanges, RequestChanges
  <2> QED BY <1>0, <2>3, <2>4, <2>7
         DEF Promise!Finish, Promise!NoCall, Promise!Open
<1> QED BY <1>2, <1>3, <1>4, <1>5, <1>6, <1>7, <1>8, <1>9, <1>10
       DEF CallerStep, HdrStore, HdrReturn, AppendFind, AppendLink, SendOk,
           Wake, Delete

\* An outcome given to the node c of a call in progress is a Resolve step, or
\* none when the call has one already.
LEMMA ResolvedCall ==
    ASSUME NEW c \in Callers, UNCHANGED << pc, id, result >>, InCall(c),
           \A d \in Callers : d # c => CallOf(d)' = CallOf(d),
           Resolved(c)', ~Resolved(c),
           Outcome(c)' = << "ok", id[c] >> \/ Outcome(c)' = << "err", NULL >>
    PROVE  Promise!Resolve(c)
<1>1. /\ callMap[c] = << "open", NULL >> /\ requestMap[c] = id[c]
      /\ requestMap' = requestMap
  BY DEF callMap, CallOf, requestMap, RequestOf, InCall
<1>2. CallOf(c)' = Outcome(c)'
  BY DEF CallOf, InCall
<1>3. ASSUME NEW x, Outcome(c)' = x PROVE callMap' = [callMap EXCEPT ![c] = x]
  BY <1>2, <1>3, CallChanges
<1> QED BY <1>1, <1>3 DEF Promise!Resolve, Promise!Open, Promise!Ok,
         Promise!Error

\* The response being handled is the only message received.
LEMMA SingleMessage ==
    ASSUME TypeInv, ReplyInv, ParseResponse PROVE pos = 1 /\ recvd[1] \in Ids
<1>1. /\ Len(recvd) = 1 /\ pos \in 1 .. Len(recvd)
      /\ recvd \in Seq(Messages) /\ recvd[pos] # Event
  BY DEF ParseResponse, ReplyInv, TypeInv, ThreadInv, ThreadTypes
<1>2. pos = 1
  BY <1>1
<1>3. recvd[1] \in Messages
  BY <1>1
<1> QED BY <1>1, <1>2, <1>3 DEF Messages

\* Every step of the socket thread is a step of RpcPromise or none.
LEMMA ThreadKeepsPromise ==
    ASSUME TypeInv, SafeInv, ReplyInv, FlightInv, OutcomeInv, ~Spurious,
           ThreadStep, MaxGlue = 1
    PROVE  \/ UNCHANGED << callMap, requestMap, result >>
           \/ \E c \in Callers : Promise!Resolve(c)
<1> USE DEF TypeInv, CallerInv, CallerTypes, NodeInv, NodeTypes, ThreadInv,
            ThreadTypes
<1>0. UNCHANGED << pc, id, result >>
  BY DEF ThreadStep, SocketInit, SocketFails, ConnectFails, ConnectPending, ConnectAborts,
       Connected, SelectTimeout, Receive, EndOfFile, RecvFails, ParseOther,
       ParseResponse, SignalResponse, TickBegin, TickAlive, TickExpired,
       SignalExpired, callerVars
<1>1. CASE ParseResponse
  <2>1. PICK i \in DOMAIN tracking :
           /\ IsMatch(i, recvd[pos]) /\ node' = tracking[i]
           /\ buffer' = [buffer EXCEPT ![tracking[i]] = recvd]
           /\ rc' = [rc EXCEPT ![tracking[i]] = "ok"]
    BY <1>1 DEF ParseResponse
  <2>2. PICK c \in Callers :
           c = tracking[i] /\ pc[c] = "wait" /\ c \in Range(tracking)
    BY <1>1, <2>1, AnsweredSleeps DEF Range
  <2>3. pos = 1 /\ recvd[1] \in Ids
    BY <1>1, SingleMessage
  <2>4. id[c] = recvd[1]
    BY <2>1, <2>2, <2>3, SameSequence DEF IsMatch
  <2>5. Outcome(c)' = << "ok", id[c] >>
    BY <2>1, <2>2, <2>4 DEF Outcome
  <2>6. ~Resolved(c) /\ InCall(c) /\ Resolved(c)'
    <3>1. ~signalled[c] /\ rpc = "parse" /\ rpc' = "signal"
      BY <1>1, <2>2 DEF ParseResponse, SafeInv, WaitInv
    <3> QED BY <2>1, <2>2, <3>1 DEF Resolved, InCall, AboutToSignal
  <2>7. ASSUME NEW d \in Callers, d # c PROVE CallOf(d)' = CallOf(d)
    <3>1. /\ rc'[d] = rc[d] /\ buffer'[d] = buffer[d]
          /\ signalled' = signalled /\ rpc = "parse" /\ node' # d
      BY <1>1, <2>1, <2>2, <2>7 DEF ParseResponse
    <3> QED BY <1>0, <3>1, LooksTheSame DEF AboutToSignal
  <2> QED BY <1>0, <2>2, <2>5, <2>6, <2>7, ResolvedCall
<1>2. CASE TickExpired
  <2>1. PICK c \in Callers :
           /\ c = node /\ c \in Range(tracking) /\ rpc = "visit"
           /\ rpc' = "expire" /\ rc' = [rc EXCEPT ![c] = "err"]
           /\ UNCHANGED << buffer, signalled, node >>
    BY <1>2 DEF TickExpired, SafeInv, ListInv
  <2>2. ~signalled[c] /\ pc[c] \in {"send", "wait", "fail"}
    BY <2>1 DEF SafeInv, ListInv, WaitInv, Listed
  <2>3. ASSUME NEW d \in Callers, d # c
        PROVE  CallOf(d)' = CallOf(d) /\ RequestOf(d)' = RequestOf(d)
    BY <1>0, <2>1, <2>3, LooksTheSame DEF AboutToSignal
  <2>4. Outcome(c)' = << "err", NULL >> /\ Resolved(c)' /\ InCall(c)
    BY <2>1, <2>2 DEF Outcome, Resolved, AboutToSignal, InCall
  <2>5. CASE pc[c] = "fail"
    <3>1. CallOf(c)' = CallOf(c) /\ RequestOf(c)' = RequestOf(c)
      BY <1>0, <2>1, <2>4, <2>5, Looks DEF CallOf, RequestOf, Resolved, InCall
    <3> QED BY <1>0, <2>3, <3>1, NothingChanges
  <2>6. CASE pc[c] # "fail"
    <3>1. ~Resolved(c)
      BY <2>1, <2>2, <2>6 DEF Resolved, AboutToSignal
    <3> QED BY <1>0, <2>3, <2>4, <3>1, ResolvedCall
  <2> QED BY <2>5, <2>6
<1>3. CASE SignalResponse \/ SignalExpired
  <2>1. /\ node \in Callers /\ AboutToSignal(node) /\ ~HoldsRpcLock(node)
        /\ signalled' = [signalled EXCEPT ![node] = (pc[node] = "wait")]
        /\ UNCHANGED << rc, buffer >> /\ rpc' \notin {"signal", "expire"}
    BY <1>3 DEF SignalResponse, SignalExpired, SignalNode, NextMessage, Advance,
         AboutToSignal
  <2>2. pc[node] \in {"wait", "fail"}
    <3>1. pc[node] \in Listed /\ pc[node] # "woken"
      BY <2>1 DEF AboutToSignal, SafeInv, ListInv, WaitInv
    <3> QED BY <2>1, <3>1 DEF HoldsRpcLock, Listed
  <2>3. ASSUME NEW d \in Callers, d # node
        PROVE  CallOf(d)' = CallOf(d) /\ RequestOf(d)' = RequestOf(d)
    <3>1. signalled'[d] = signalled[d] /\ ~AboutToSignal(d) /\ ~AboutToSignal(d)'
      BY <2>1, <2>3 DEF AboutToSignal
    <3> QED BY <1>0, <2>1, <3>1, LooksTheSame
  <2>4. Resolved(node) /\ signalled'[node] = (pc[node] = "wait")
    BY <2>1 DEF Resolved
  <2>5. \A d \in Callers : d = node => Resolved(d)'
    BY <1>0, <2>1, <2>2 DEF Resolved
  <2>6. \A d \in Callers : d = node =>
           CallOf(d)' = CallOf(d) /\ RequestOf(d)' = RequestOf(d)
    BY <1>0, <2>1, <2>4, <2>5 DEF CallOf, RequestOf, Outcome, InCall
  <2> QED BY <1>0, <2>3, <2>6, NothingChanges
<1>4. ASSUME UNCHANGED << rc, buffer, signalled >>,
             rpc \notin {"signal", "expire"}, rpc' \notin {"signal", "expire"}
      PROVE  UNCHANGED << callMap, requestMap, result >>
  BY <1>0, <1>4, LooksTheSame, NothingChanges DEF AboutToSignal
<1>5. \/ ParseResponse \/ TickExpired \/ SignalResponse \/ SignalExpired
      \/ /\ UNCHANGED << rc, buffer, signalled >>
         /\ rpc \notin {"signal", "expire"} /\ rpc' \notin {"signal", "expire"}
  BY DEF ThreadStep, SocketInit, SocketFails, ConnectFails, ConnectPending, ConnectAborts,
       Connected, SelectTimeout, Receive, EndOfFile, RecvFails, ParseOther,
       NextMessage, TickBegin, TickAlive, Advance, nodeVars
<1> QED BY <1>1, <1>2, <1>3, <1>4, <1>5

\* When recv() returns one message at a time, pthread_cond_wait returns only
\* when signalled and nobody disturbs an unlocked window,
\* send_and_get_reply keeps its promise: calls in progress have different
\* identifiers, each is resolved once, with the response to its own request
\* or an error, and returns that.
THEOREM PromiseKept ==
    ASSUME MaxGlue = 1, ~Spurious PROVE SpecUndisturbed => KeepsPromise
<1>1. Init => FlightInv /\ OutcomeInv
  BY DEF Init, FlightInv, OutcomeInv, Flight, Range
<1>2. TypeInv /\ SafeInv /\ ReplyInv /\ FlightInv /\ OutcomeInv
        /\ [Next /\ Undisturbed]_vars => ReplyInv' /\ FlightInv' /\ OutcomeInv'
  BY ReplyStep, FlightStep, OutcomeStep
<1>3. Init => Promise!PromiseInit
  BY DEF Init, Promise!PromiseInit, Promise!NoCall, callMap, requestMap,
       CallOf, RequestOf, InCall
<1>4. TypeInv /\ SafeInv /\ ReplyInv /\ FlightInv /\ OutcomeInv
        /\ [Next /\ Undisturbed]_vars => [Promise!PromiseNext]_(Promise!promiseVars)
  <2> SUFFICES ASSUME TypeInv, SafeInv, ReplyInv, FlightInv, OutcomeInv,
                      [Next]_vars
               PROVE  \/ UNCHANGED << callMap, requestMap, result >>
                      \/ Promise!PromiseNext
    BY DEF Promise!promiseVars
  <2>1. ASSUME NEW c \in Callers, CallerStep(c)
        PROVE  \/ UNCHANGED << callMap, requestMap, result >>
               \/ Promise!PromiseNext
    BY <2>1, CallerKeepsPromise DEF Promise!PromiseNext
  <2>2. CASE ThreadStep
    BY <2>2, ThreadKeepsPromise DEF Promise!PromiseNext
  <2>3. CASE ServerStep \/ UNCHANGED vars
    <3>1. UNCHANGED << callerVars, nodeVars, threadVars >>
      BY <2>3 DEF ServerStep, ServerReply, ServerIgnore, ServerEvent,
           ServerClose, vars
    <3>2. UNCHANGED << pc, id, result, rc, buffer, signalled, rpc, node >>
      BY <3>1 DEF callerVars, nodeVars, threadVars
    <3> QED BY <3>2, LooksTheSame, NothingChanges DEF AboutToSignal
  <2> QED BY <2>1, <2>2, <2>3 DEF Next
<1> QED BY Safety, ReplyInit, <1>1, <1>2, <1>3, <1>4, PTL
       DEF SpecUndisturbed, KeepsPromise, Promise!PromiseSpec

-----------------------------------------------------------------------------
(* Expiry. *)

\* Entry c of a list is entry x or behind it.
From(list, x, c) ==
    \E i, j \in DOMAIN list : i <= j /\ list[i] = x /\ list[j] = c

\* The traversal of request_tracking_cb has still to come by entry c.
Due(c) == \/ rpc = "tick"
          \/ rpc = "visit" /\ From(tracking, node, c)
          \/ rpc = "expire" /\ From(tracking, tmp, c)

\* A listed call has a tick left, and a pending one has not waited for more
\* than the ticks it has lost, but for the tick it is about to lose.
TicksInv ==
    /\ granted \in [Callers -> Int] /\ waited \in [Callers -> Int]
    /\ \A c \in Callers :
          c \in Range(tracking) \/ pc[c] \in {"find", "link"} => ticker[c] >= 1
    /\ \A c \in Pending :
          /\ Due(c) => waited[c] + ticker[c] <= granted[c] + 1
          /\ ~Due(c) => waited[c] + ticker[c] <= granted[c]

\* What is behind x, and not x itself, is the entry after x or behind it.
LEMMA NextFrom ==
    ASSUME TypeOK, NoRepeat(tracking), NEW x \in Callers, NEW c, c # x,
           From(tracking, x, c)
    PROVE  Next_of(x) # NULL /\ From(tracking, Next_of(x), c)
<1>1. PICK i \in DOMAIN tracking, j \in DOMAIN tracking :
         i <= j /\ tracking[i] = x /\ tracking[j] = c
  BY DEF From
<1>2. /\ tracking \in Seq(Callers) /\ i + 1 \in DOMAIN tracking
      /\ i + 1 <= j /\ (i + 1) - 1 = i /\ i + 1 > 1
  BY <1>1 DEF TypeOK, NodeTypes
<1>3. \A h \in DOMAIN tracking : h > 1 /\ tracking[h - 1] = x => h = i + 1
  BY <1>1, <1>2 DEF NoRepeat
<1>4. Next_of(x) = tracking[i + 1]
  <2>1. (CHOOSE h \in DOMAIN tracking : h > 1 /\ tracking[h - 1] = x) = i + 1
    BY <1>1, <1>2, <1>3
  <2> QED BY <1>1, <1>2, <2>1 DEF Next_of
<1>5. Next_of(x) \in Callers
  BY <1>2, <1>4
<1> QED BY <1>1, <1>2, <1>4, <1>5, BoundAssumption DEF From

\* LL_DELETE keeps the order of the other entries.
LEMMA DeleteFrom ==
    ASSUME NEW s \in Seq(Callers), NEW h \in DOMAIN s, NEW x, NEW c,
           From(s, x, c), x # s[h], c # s[h]
    PROVE  From(LL_DELETE(s, h), x, c)
<1> DEFINE t == LL_DELETE(s, h)
<1>1. PICK i \in DOMAIN s, j \in DOMAIN s : i <= j /\ s[i] = x /\ s[j] = c
  BY DEF From
<1>2. /\ t \in Seq(Callers) /\ Len(t) = Len(s) - 1 /\ Len(s) \in Nat
      /\ \A k \in 1 .. (Len(s) - 1) : t[k] = IF k < h THEN s[k] ELSE s[k + 1]
  <2>1. h \in 1 .. Len(s) /\ Len(s) \in Nat
    OBVIOUS
  <2> QED BY <2>1, DeleteEntries
<1> HIDE DEF t
<1> DEFINE Place(k) == IF k < h THEN k ELSE k - 1
<1>3. ASSUME NEW k \in DOMAIN s, k # h
      PROVE  Place(k) \in DOMAIN t /\ t[Place(k)] = s[k]
  BY <1>2, <1>3
<1>4. i # h /\ j # h /\ Place(i) <= Place(j)
  <2>1. i \in Int /\ j \in Int /\ h \in Int
    BY <1>2
  <2>2. i # h /\ j # h
    BY <1>1
  <2> QED BY <1>1, <2>1, <2>2
<1> HIDE DEF Place
<1>5. From(t, x, c)
  BY <1>1, <1>3, <1>4 DEF From
<1> QED BY <1>5 DEF t

\* A pending call that stays pending keeps its ticks or loses one, and it
\* loses the one that is due.
LEMMA TickSpent ==
    ASSUME TypeInv, SafeInv, [Next /\ Undisturbed]_vars, NEW c \in Callers,
           c \in Range(tracking), c \in Range(tracking)', pc[c] = "wait"
    PROVE  /\ ticker'[c] <= ticker[c]
           /\ Due(c) /\ ~Due(c)' => ticker'[c] = ticker[c] - 1
<1> USE DEF TypeInv, CallerInv, CallerTypes, NodeInv, NodeTypes, ThreadInv,
            ThreadTypes
<1>0. ticker[c] \in Int /\ TypeOK /\ NoRepeat(tracking)
  BY DEF TypeOK, SafeInv, ListInv
<1>1. ASSUME NEW d \in Callers, CallerStep(d), Next /\ Undisturbed
      PROVE  ticker'[c] = ticker[c] /\ (Due(c) => Due(c)')
  <2>1. ticker'[c] = ticker[c]
    <3>1. CASE Call(d)
      BY <3>1 DEF Call
    <3>2. CASE Return(d)
      BY <3>2 DEF Return
    <3> QED BY <1>1, <3>1, <3>2 DEF CallerStep, HdrLoad, HdrStore, HdrReturn,
           AppendFind, AppendLink, SendOk, SendFail, Wake, Delete, nodeVars
  <2>2. UNCHANGED << rpc, node, tmp >>
    BY <1>1 DEF CallerStep, HdrLoad, HdrStore, HdrReturn, Call, AppendFind,
         AppendLink, SendOk, SendFail, Wake, Delete, Return, threadVars
  <2>3. CASE AppendLink(d)
    <3>1. tracking' = Append(tracking, d)
      <4>1. tracking' = Linked(tail[d], d) /\ tail[d] = LastNode
        BY <2>3 DEF AppendLink, SafeInv, WindowInv
      <4> QED BY <1>0, <4>1, LinkLast
    <3>2. \A i \in DOMAIN tracking :
             i \in DOMAIN tracking' /\ tracking'[i] = tracking[i]
      BY <3>1
    <3>3. \A x : From(tracking, x, c) => From(tracking', x, c)
      BY <3>2, Zenon DEF From
    <3> QED BY <2>1, <2>2, <3>3 DEF Due
  <2>4. CASE Delete(d)
    BY <2>1, <2>2, <2>4 DEF Delete, GlobalLockHeld, Due
  <2>5. AppendLink(d) \/ Delete(d) \/ tracking' = tracking
    BY <1>1 DEF CallerStep, HdrLoad, HdrStore, HdrReturn, Call, AppendFind,
         SendOk, SendFail, Wake, Return, nodeVars
  <2> QED BY <2>1, <2>2, <2>3, <2>4, <2>5 DEF Due
<1>2. CASE TickBegin
  <2>1. /\ ticker' = ticker /\ tracking' = tracking
        /\ rpc' = "visit" /\ node' = tracking[1]
    BY <1>2 DEF TickBegin, Range, nodeVars
  <2>2. PICK j \in DOMAIN tracking : tracking[j] = c
    BY DEF Range
  <2>3. From(tracking, tracking[1], c)
    <3>1. 1 \in DOMAIN tracking /\ 1 <= j
      BY <2>2
    <3> QED BY <2>2, <3>1 DEF From
  <2> QED BY <1>0, <2>1, <2>3 DEF Due
<1>3. CASE TickAlive
  <2>1. /\ node \in Callers /\ tracking' = tracking
        /\ ticker' = [ticker EXCEPT ![node] = @ - 1] /\ rpc = "visit"
        /\ node' = Next_of(node)
        /\ rpc' = IF Next_of(node) = NULL THEN "loop" ELSE "visit"
    BY <1>3 DEF TickAlive, Advance
  <2>2. CASE c = node
    BY <1>0, <2>1, <2>2
  <2>3. CASE c # node
    BY <1>0, <2>1, <2>3, NextFrom DEF Due
  <2> QED BY <2>2, <2>3
<1>4. CASE TickExpired
  <2>1. PICK i \in DOMAIN tracking :
           tracking[i] = node /\ tracking' = LL_DELETE(tracking, i)
    BY <1>4 DEF TickExpired, SafeInv, ListInv
  <2>2. c # node
    BY <1>0, <2>1, DeleteRange
  <2>3. /\ node \in Callers /\ ticker'[c] = ticker[c] /\ rpc = "visit"
        /\ tmp' = Next_of(node) /\ rpc' = "expire"
    BY <1>4, <2>2 DEF TickExpired
  <2>4. ASSUME From(tracking, node, c) PROVE From(tracking', tmp', c)
    <3>1. From(tracking, Next_of(node), c)
      BY <1>0, <2>2, <2>3, <2>4, NextFrom
    <3>2. Next_of(node) # node
      BY <1>0, <2>3, NextIsOther
    <3> QED BY <2>1, <2>2, <2>3, <3>1, <3>2, DeleteFrom
  <2> QED BY <1>0, <2>3, <2>4 DEF Due
<1>5. CASE SignalExpired
  <2>1. /\ ticker' = ticker /\ tracking' = tracking /\ rpc = "expire"
        /\ node' = tmp /\ rpc' = IF tmp = NULL THEN "loop" ELSE "visit"
    BY <1>5 DEF SignalExpired, Advance
  <2>2. ~From(tracking, NULL, c)
    BY BoundAssumption DEF From
  <2> QED BY <1>0, <2>1, <2>2 DEF Due
<1>6. ASSUME UNCHANGED ticker, rpc \in {"loop", "parse", "signal"}
      PROVE  ticker'[c] = ticker[c] /\ ~Due(c)
  BY <1>6 DEF Due
<1>7. ASSUME UNCHANGED << ticker, tracking, rpc, node, tmp >>
      PROVE  ticker'[c] = ticker[c] /\ (Due(c) => Due(c)')
  BY <1>7 DEF Due
<1>8. CASE ThreadStep
  <2>1. \/ TickBegin \/ TickAlive \/ TickExpired \/ SignalExpired
        \/ UNCHANGED ticker /\ rpc \in {"loop", "parse", "signal"}
    BY <1>8 DEF ThreadStep, SocketInit, SocketFails, ConnectFails, ConnectPending,
         ConnectAborts, Connected, SelectTimeout, Receive, EndOfFile,
         RecvFails, ParseOther, ParseResponse, SignalResponse, nodeVars
  <2>2. CASE UNCHANGED ticker /\ rpc \in {"loop", "parse", "signal"}
    BY <1>0, <1>6, <2>2
  <2> QED BY <1>2, <1>3, <1>4, <1>5, <2>1, <2>2
<1>9. CASE ServerStep \/ UNCHANGED vars
  BY <1>0, <1>7, <1>9 DEF ServerStep, ServerReply, ServerIgnore, ServerEvent,
       ServerClose, vars, nodeVars, threadVars
<1>10. ASSUME NEW d \in Callers, CallerStep(d)
       PROVE  /\ ticker'[c] <= ticker[c]
              /\ Due(c) /\ ~Due(c)' => ticker'[c] = ticker[c] - 1
  <2>1. CASE Next /\ Undisturbed
    BY <1>0, <1>1, <1>10, <2>1
  <2> QED BY <1>9, <2>1
<1> QED BY <1>8, <1>9, <1>10 DEF Next

\* A call starts with at least one tick.
LEMMA TickPositive ==
    ASSUME NEW t \in {MinTicks} \union { TickOf(s) : s \in Timeouts }
    PROVE  t \in Int /\ t >= 1
<1>1. ASSUME NEW s \in Timeouts PROVE TickOf(s) \in Int /\ TickOf(s) >= 1
  <2>1. s * TicksPerSec \in Int
    BY TickAssumption
  <2> HIDE DEF TickOf
  <2>2. TickOf(s) = IF s * TicksPerSec < MinTicks THEN MinTicks
                    ELSE IF s * TicksPerSec > MaxTicks THEN MaxTicks
                         ELSE s * TicksPerSec
    BY DEF TickOf
  <2> QED BY <2>1, <2>2, TickAssumption
<1> QED BY <1>1, TickAssumption

\* A node comes into the list only by its caller's LL_APPEND.
LEMMA ListFrom ==
    ASSUME TypeInv, SafeInv, [Next /\ Undisturbed]_vars, NEW c \in Callers,
           c \in Range(tracking')
    PROVE  c \in Range(tracking) \/ pc[c] = "link"
<1> USE DEF TypeInv, CallerInv, CallerTypes, NodeInv, NodeTypes
<1>0. TypeOK /\ NoRepeat(tracking)
  BY DEF TypeOK, ThreadInv, SafeInv, ListInv
<1>1. ASSUME NEW i \in DOMAIN tracking, tracking' = LL_DELETE(tracking, i)
      PROVE  c \in Range(tracking)
  <2>1. Range(tracking') = Range(tracking) \ {tracking[i]}
    BY <1>0, <1>1, DeleteRange
  <2> QED BY <2>1
<1>2. ASSUME NEW d \in Callers, AppendLink(d)
      PROVE  c \in Range(tracking) \/ pc[c] = "link"
  <2>1. tracking' = Linked(tail[d], d) /\ tail[d] = LastNode /\ pc[d] = "link"
    BY <1>2 DEF AppendLink, SafeInv, WindowInv
  <2>2. d \notin Range(tracking)
    BY <2>1 DEF SafeInv, ListInv, Listed
  <2>3. Range(tracking') = Range(tracking) \union {d}
    BY <1>0, <2>1, <2>2, LinkRange
  <2> QED BY <2>1, <2>3
<1>3. \/ \E d \in Callers : AppendLink(d)
      \/ \E i \in DOMAIN tracking : tracking' = LL_DELETE(tracking, i)
      \/ tracking' = tracking
  <2>1. ASSUME NEW d \in Callers, CallerStep(d)
        PROVE  \/ AppendLink(d) \/ tracking' = tracking
               \/ \E i \in DOMAIN tracking : tracking' = LL_DELETE(tracking, i)
    BY <2>1 DEF CallerStep, HdrLoad, HdrStore, HdrReturn, Call, AppendFind,
         SendOk, SendFail, Wake, Delete, Return, nodeVars
  <2>2. CASE ThreadStep
    BY <2>2 DEF ThreadStep, SocketInit, SocketFails, ConnectFails, ConnectPending,
         ConnectAborts, Connected, SelectTimeout, Receive, EndOfFile,
         RecvFails, ParseOther, ParseResponse, SignalResponse, TickBegin,
         TickAlive, TickExpired, SignalExpired, nodeVars
  <2>3. CASE ServerStep \/ UNCHANGED vars
    BY <2>3 DEF ServerStep, ServerReply, ServerIgnore, ServerEvent,
         ServerClose, vars, nodeVars
  <2> QED BY <2>1, <2>2, <2>3 DEF Next
<1> QED BY <1>1, <1>2, <1>3

\* A listed call keeps at least one tick.
LEMMA TicksLeft ==
    ASSUME TypeInv, SafeInv, TicksInv, [Next /\ Undisturbed]_vars,
           NEW c \in Callers,
           c \in Range(tracking') \/ pc'[c] \in {"find", "link"}
    PROVE  ticker'[c] >= 1
<1> USE DEF TypeInv, CallerInv, CallerTypes, NodeInv, NodeTypes, ThreadInv,
            ThreadTypes, GoTo
<1>0. TypeOK /\ NoRepeat(tracking)
  BY DEF TypeOK, SafeInv, ListInv
<1>1. CASE Call(c)
  <2>1. PICK t \in {MinTicks} \union { TickOf(s) : s \in Timeouts } :
           ticker' = [ticker EXCEPT ![c] = t]
    BY <1>1 DEF Call
  <2> QED BY <2>1, TickPositive
<1>2. CASE Return(c)
  <2>1. c \notin Range(tracking)
    BY <1>2 DEF Return, SafeInv, ListInv, Listed
  <2> QED BY <1>2, <2>1 DEF Return
<1>3. CASE TickAlive
  <2>1. ticker[c] >= 1
    BY <1>3 DEF TickAlive, TicksInv, callerVars
  <2> QED BY <1>3, <2>1 DEF TickAlive
<1>4. CASE TickExpired
  <2>1. PICK i \in DOMAIN tracking :
           tracking[i] = node /\ tracking' = LL_DELETE(tracking, i)
    BY <1>4 DEF TickExpired, SafeInv, ListInv
  <2>2. Range(tracking') = Range(tracking) \ {node}
    BY <1>0, <2>1, DeleteRange
  <2>3. pc' = pc /\ pc[node] \notin {"find", "link"}
    BY <1>4 DEF TickExpired, callerVars, SafeInv, ListInv, Listed
  <2>4. c # node /\ ticker'[c] = ticker[c] /\ ticker[c] >= 1
    BY <1>4, <2>2, <2>3 DEF TickExpired, TicksInv
  <2> QED BY <2>4
<1>5. ASSUME ticker'[c] = ticker[c],
             pc'[c] \in {"find", "link"} => pc[c] \in {"find", "link"}
      PROVE  ticker'[c] >= 1
  <2>1. c \in Range(tracking) \/ pc[c] \in {"find", "link"}
    BY <1>5, ListFrom
  <2> QED BY <1>5, <2>1 DEF TicksInv
<1>6. ASSUME NEW d \in Callers, CallerStep(d), d # c \/ ~(Call(c) \/ Return(c))
      PROVE  /\ ticker'[c] = ticker[c]
             /\ pc'[c] \in {"find", "link"} => pc[c] \in {"find", "link"}
  <2>1. ticker'[c] = ticker[c]
    BY <1>6 DEF CallerStep, HdrLoad, HdrStore, HdrReturn, Call, AppendFind,
         AppendLink, SendOk, SendFail, Wake, Delete, Return, nodeVars
  <2>2. pc'[c] \in {"find", "link"} => pc[c] \in {"find", "link"}
    BY <1>6 DEF CallerStep, HdrLoad, HdrStore, HdrReturn, Call, AppendFind,
         AppendLink, SendOk, SendFail, Wake, Delete, Return
  <2> QED BY <2>1, <2>2
<1>7. CASE ThreadStep
  <2>1. TickAlive \/ TickExpired \/ UNCHANGED << ticker, pc >>
    BY <1>7 DEF ThreadStep, SocketInit, SocketFails, ConnectFails, ConnectPending,
         ConnectAborts, Connected, SelectTimeout, Receive, EndOfFile,
         RecvFails, ParseOther, ParseResponse, SignalResponse, TickBegin,
         SignalExpired, nodeVars, callerVars
  <2> QED BY <1>3, <1>4, <1>5, <2>1
<1>8. CASE ServerStep \/ UNCHANGED vars
  BY <1>5, <1>8 DEF ServerStep, ServerReply, ServerIgnore, ServerEvent,
       ServerClose, vars, nodeVars, callerVars
<1>9. ASSUME NEW d \in Callers, CallerStep(d) PROVE ticker'[c] >= 1
  BY <1>1, <1>2, <1>5, <1>6, <1>9
<1> QED BY <1>7, <1>8, <1>9 DEF Next

\* Every step preserves TicksInv.
LEMMA TicksStep ==
    ASSUME TypeInv, SafeInv, TicksInv,
           [(Waits \/ NoWait) /\ Undisturbed]_expiryVars
    PROVE  TicksInv'
<1>1. [Next /\ Undisturbed]_vars
  BY DEF Waits, NoWait, Next, ThreadStep, expiryVars
<1>2. /\ granted' \in [Callers -> Int] /\ waited' \in [Callers -> Int]
      /\ granted \in [Callers -> Int] /\ waited \in [Callers -> Int]
      /\ ticker \in [Callers -> Int]
  BY DEF Waits, NoWait, expiryVars, TicksInv, TypeInv, NodeInv, NodeTypes
<1>3. TypeInv'
  BY <1>1, TypeStep
<1>4. ASSUME NEW c \in Callers, c \in Range(tracking'), pc'[c] = "wait"
      PROVE  \/ Sent(c)
             \/ c \in Pending /\ c \in Range(tracking) /\ pc[c] = "wait"
  <2>1. pc[c] \in {"send", "wait"}
    <3>1. ASSUME NEW d \in Callers, CallerStep(d) PROVE pc[c] \in {"send", "wait"}
      BY <1>4, <3>1 DEF CallerStep, HdrLoad, HdrStore, HdrReturn, Call,
           AppendFind, AppendLink, SendOk, SendFail, Wake, Delete, Return,
           GoTo, TypeInv, CallerInv, CallerTypes
    <3>2. CASE ThreadStep \/ ServerStep \/ UNCHANGED vars
      BY <1>4, <3>2 DEF ThreadStep, SocketInit, SocketFails, ConnectFails, ConnectPending,
           ConnectAborts, Connected, SelectTimeout, Receive, EndOfFile,
           RecvFails, ParseOther, ParseResponse, SignalResponse, TickBegin,
           TickAlive, TickExpired, SignalExpired, ServerStep, ServerReply,
           ServerIgnore, ServerEvent, ServerClose, callerVars, vars
    <3> QED BY <1>1, <3>1, <3>2 DEF Next
  <2>2. c \in Range(tracking) \/ pc[c] = "link"
    BY <1>1, <1>4, ListFrom
  <2>3. CASE pc[c] = "send"
    BY <1>4, <2>3 DEF Sent
  <2>4. CASE pc[c] = "wait"
    <3>1. c \in Range(tracking)
      BY <2>2, <2>4
    <3> QED BY <2>4, <3>1 DEF Pending
  <2> QED BY <2>1, <2>3, <2>4
<1>5. ASSUME NEW c \in Callers, c \in Range(tracking'), pc'[c] = "wait"
      PROVE  /\ Due(c)' => waited'[c] + ticker'[c] <= granted'[c] + 1
             /\ ~Due(c)' => waited'[c] + ticker'[c] <= granted'[c]
  <2>0. c \in Pending'
    BY <1>5 DEF Pending
  <2>1. ticker'[c] \in Int
    BY <1>3 DEF TypeInv, NodeInv, NodeTypes
  <2>2. CASE Sent(c)
    <3>1. NoWait
      BY <2>2 DEF Sent, Waits, SelectTimeout, ConnectFails, ConnectPending,
           ConnectAborts, callerVars, expiryVars, vars
    <3>2. waited'[c] = 0 /\ granted'[c] = ticker[c]
      BY <2>0, <2>2, <3>1 DEF NoWait, Ended
    <3>3. ticker'[c] = ticker[c]
      <4>1. ASSUME NEW d \in Callers, CallerStep(d) PROVE ticker'[c] = ticker[c]
        BY <2>2, <4>1, <1>2 DEF Sent, CallerStep, HdrLoad, HdrStore, HdrReturn,
             Call, AppendFind, AppendLink, SendOk, SendFail, Wake, Delete,
             Return, GoTo, nodeVars, TypeInv, CallerInv, CallerTypes
      <4>2. UNCHANGED pc => ~Sent(c)
        BY DEF Sent
      <4> QED BY <2>2, <3>1, <4>1, <4>2
           DEF NoWait, SocketInit, SocketFails, Connected, Receive, EndOfFile, RecvFails,
               ParseOther, ParseResponse, SignalResponse, TickBegin,
               TickAlive, TickExpired, SignalExpired, ServerStep, ServerReply,
               ServerIgnore, ServerEvent, ServerClose, callerVars
    <3> QED BY <1>2, <3>2, <3>3
  <2>3. CASE ~Sent(c)
    <3>1. c \in Pending /\ c \in Range(tracking) /\ pc[c] = "wait"
      BY <1>4, <1>5, <2>3
    <3>2. /\ Due(c) => waited[c] + ticker[c] <= granted[c] + 1
          /\ ~Due(c) => waited[c] + ticker[c] <= granted[c]
      BY <3>1 DEF TicksInv
    <3>3. /\ ticker'[c] <= ticker[c]
          /\ Due(c) /\ ~Due(c)' => ticker'[c] = ticker[c] - 1
      BY <1>1, <1>5, <3>1, TickSpent
    <3>4. CASE Waits
      <4>1. /\ waited'[c] = waited[c] + 1 /\ granted'[c] = granted[c]
            /\ rpc = "loop" /\ rpc' = "tick"
        BY <3>1, <3>4 DEF Waits, SelectTimeout, ConnectFails, ConnectPending,
             ConnectAborts
      <4>2. ~Due(c) /\ Due(c)'
        BY <4>1 DEF Due
      <4> QED BY <1>2, <2>1, <3>2, <3>3, <4>1, <4>2
    <3>5. CASE waited'[c] = waited[c] /\ granted'[c] = granted[c]
      BY <1>2, <2>1, <3>2, <3>3, <3>5
    <3>6. NoWait => waited'[c] = waited[c] /\ granted'[c] = granted[c]
      BY <2>0, <2>3 DEF NoWait, Ended
    <3>7. Waits \/ NoWait \/ UNCHANGED << granted, waited >>
      BY DEF expiryVars
    <3> QED BY <3>4, <3>5, <3>6, <3>7
  <2> QED BY <2>2, <2>3
<1>6. ASSUME NEW c \in Pending'
      PROVE  c \in Callers /\ c \in Range(tracking') /\ pc'[c] = "wait"
  BY <1>3, <1>6 DEF Pending, Range, TypeInv, NodeInv, NodeTypes
<1>7. \A c \in Callers : c \in Range(tracking') \/ pc'[c] \in {"find", "link"}
         => ticker'[c] >= 1
  BY <1>1, TicksLeft
<1> QED BY <1>2, <1>5, <1>6, <1>7 DEF TicksInv

\* Wherever nobody disturbs an unlocked window, the socket thread sleeps through
\* a call no more often than its ticks allow, whatever the connection and the
\* other calls do.
THEOREM NeverLate == SpecExpiry => []ExpiryNotLate
<1>1. InitExpiry => Init /\ TicksInv
  BY DEF InitExpiry, Init, TicksInv, Range, Pending
<1>2. TypeInv /\ SafeInv /\ TicksInv
        /\ [(Waits \/ NoWait) /\ Undisturbed]_expiryVars
        => TypeInv' /\ SafeInv' /\ TicksInv'
  <2>1. [(Waits \/ NoWait) /\ Undisturbed]_expiryVars
          => [Next /\ Undisturbed]_vars
    BY DEF Waits, NoWait, Next, ThreadStep, expiryVars
  <2> QED BY <2>1, TypeStep, SafeStep, TicksStep
<1>3. TypeInv /\ SafeInv /\ TicksInv => ExpiryNotLate
  <2> SUFFICES ASSUME TypeInv, TicksInv, NEW c \in Pending
               PROVE  waited[c] <= granted[c]
    BY DEF ExpiryNotLate
  <2>1. c \in Callers /\ c \in Range(tracking)
    BY DEF Pending, Range, TypeInv, NodeInv, NodeTypes
  <2>2. /\ ticker[c] \in Int /\ waited[c] \in Int /\ granted[c] \in Int
        /\ ticker[c] >= 1
        /\ \/ waited[c] + ticker[c] <= granted[c] + 1
           \/ waited[c] + ticker[c] <= granted[c]
    BY <2>1 DEF TicksInv, TypeInv, NodeInv, NodeTypes
  <2> QED BY <2>2
<1> QED BY <1>1, <1>2, <1>3, TypeInit, SafeInit, PTL DEF SpecExpiry
=============================================================================
