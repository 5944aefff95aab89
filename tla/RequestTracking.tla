--------------------------- MODULE RequestTracking ---------------------------
(***************************************************************************)
(* The request/response core of the HAL client: caller threads inside      *)
(* json_hal_client_send_and_get_reply, the socket thread (rpc_client_      *)
(* handler, response_parse_cb, request_tracking_cb), the request list they *)
(* share and the connection to the server.                                 *)
(*                                                                         *)
(* A list node (request_msg_tracking_t) is named by the caller whose stack *)
(* owns it: a caller has at most one call, hence one node, at a time.      *)
(***************************************************************************)
EXTENDS Integers, Sequences, RequestId

CONSTANTS Callers,      \* application threads that use the client API
          NULL,         \* the null pointer
          FirstId,      \* DEFAULT_SEQ_START_NUMBER
          LastId,       \* bound on g_req_id
          MinTicks,     \* SEND_MSG_TICKER_TIMEOUT
          MaxTicks,     \* upper clamp of a caller's timeout (480)
          TicksPerSec,  \* 1000000 / LOOP_TIMEOUT
          Timeouts,     \* seconds a caller may pass to .._with_timeout
          MaxGlue,      \* most messages one recv() returns
          MaxEvents,    \* bound on the events the server publishes
          MaxCloses,    \* bound on the connections the server closes
          SendMayFail,  \* send() may fail on an open connection (EAGAIN)
          SocketMayFail,\* socket() may fail (no descriptor is left)
          Spurious      \* pthread_cond_wait may return without a signal

ASSUME IdAssumption ==
    FirstId \in Nat /\ LastId \in Nat /\ FirstId <= LastId /\ LastId < IdLimit

ASSUME TickAssumption ==
    /\ MinTicks \in Nat \ {0} /\ MaxTicks \in Nat /\ MinTicks <= MaxTicks
    /\ TicksPerSec \in Nat /\ Timeouts \subseteq Int

ASSUME BoundAssumption ==
    /\ MaxGlue \in Nat \ {0} /\ MaxEvents \in Nat /\ MaxCloses \in Nat
    /\ SendMayFail \in BOOLEAN /\ SocketMayFail \in BOOLEAN
    /\ Spurious \in BOOLEAN
    /\ NULL \notin Callers /\ NULL \notin Nat

VARIABLES
  g_req_id,  \* last identifier handed out
  pc,        \* where each caller is
  loaded,    \* g_req_id as read by the unlocked increment
  id,        \* identifier in each caller's request message
  tail,      \* last node found by the walk of the unlocked LL_APPEND
  tracking,  \* g_request_msg_tracking, head first
  ticker, rc, buffer,  \* fields of the nodes
  signalled, \* msg_rcvd has been signalled to the waiting caller
  result,    \* what each caller's last call returned
  state,     \* rpc_client_data_t.state
  rpc,       \* where the socket thread is
  node, tmp, \* its LL_FOREACH_SAFE cursors
  recvd, pos,\* the buffer recv() filled, the next message in it
  open,      \* the server still holds its end of the connection
  c2s, s2c,  \* bytes in flight, as messages
  events, closes  \* bounds: events published, connections closed

callerVars == << g_req_id, pc, loaded, id, tail, result >>
nodeVars   == << tracking, ticker, rc, buffer, signalled >>
threadVars == << state, rpc, node, tmp, recvd, pos >>
netVars    == << open, c2s, s2c, events, closes >>
vars       == << callerVars, nodeVars, threadVars, netVars >>

Ids == FirstId .. LastId

\* A "publishEvent" message; every other message is a response and carries
\* the identifier of the request it answers.
Event == 0
Messages == Ids \union {Event}

Range(s) == { s[i] : i \in DOMAIN s }

-----------------------------------------------------------------------------
(* The linked list (utlist.h) as a sequence. *)

\* LL_DELETE of the i-th entry.
LL_DELETE(list, i) ==
    SubSeq(list, 1, i - 1) \o SubSeq(list, i + 1, Len(list))

\* Mutant of IsMatch: the first entry, whatever its sequence number.
IsFirst(i, n) == i \in DOMAIN tracking /\ i = 1

\* The first entry of LL_FOREACH_SAFE whose sequence number is that of n.
IsMatch(i, n) ==
    /\ i \in DOMAIN tracking
    /\ Sequence(id[tracking[i]]) = Sequence(n)
    /\ \A j \in 1 .. (i - 1) : Sequence(id[tracking[j]]) # Sequence(n)

NoMatch(n) ==
    \A i \in DOMAIN tracking : Sequence(id[tracking[i]]) # Sequence(n)

\* The node the LL_APPEND walk stops at.
LastNode == IF tracking = << >> THEN NULL ELSE tracking[Len(tracking)]

\* Storing the new node behind the last node found (or in the list head):
\* whatever was linked there in the meantime is cut off, and nothing is
\* linked when the node found has left the list.
Linked(t, c) ==
    IF t = NULL THEN << c >>
    ELSE IF t \in Range(tracking)
         THEN LET i == CHOOSE i \in DOMAIN tracking : tracking[i] = t
              IN  Append(SubSeq(tracking, 1, i), c)
         ELSE tracking

-----------------------------------------------------------------------------
(* The locks, read off the program counters. *)

\* client_send_and_get_reply holds its node's lock from before LL_APPEND
\* until pthread_cond_wait releases it or the failed send unlocks it.
HoldsRpcLock(c) == pc[c] \in {"find", "link", "send"}

\* The node has been calloc'ed and not yet freed.
Allocated(c) ==
    HoldsRpcLock(c) \/ pc[c] \in {"wait", "fail", "woken", "failed", "reaped"}

\* The socket thread holds gm_request_msg_tracking_lock.
GlobalLockHeld == rpc \in {"signal", "visit", "expire"}

-----------------------------------------------------------------------------
Init ==
    /\ g_req_id = FirstId
    /\ pc = [c \in Callers |-> "idle"]
    /\ loaded = [c \in Callers |-> FirstId]
    /\ id = [c \in Callers |-> FirstId]
    /\ tail = [c \in Callers |-> NULL]
    /\ result = [c \in Callers |-> << "none", NULL >>]
    /\ tracking = << >>
    /\ ticker = [c \in Callers |-> 0]
    /\ rc = [c \in Callers |-> "err"]
    /\ buffer = [c \in Callers |-> << >>]
    /\ signalled = [c \in Callers |-> FALSE]
    /\ state = "SOCKET_INIT"
    /\ rpc = "loop" /\ node = NULL /\ tmp = NULL
    /\ recvd = << >> /\ pos = 1
    /\ open = FALSE /\ c2s = << >> /\ s2c = << >>
    /\ events = 0 /\ closes = 0

-----------------------------------------------------------------------------
(* Caller threads: json_hal_client_get_request_header, then                *)
(* json_hal_client_send_and_get_reply[_with_timeout].                      *)

GoTo(c, label) == pc' = [pc EXCEPT ![c] = label]

\* get_req_id, g_req_id++ without a lock: the read ...
HdrLoad(c) ==
    /\ pc[c] = "idle"
    /\ g_req_id < LastId
    /\ loaded' = [loaded EXCEPT ![c] = g_req_id]
    /\ result' = [result EXCEPT ![c] = << "none", NULL >>]
    /\ GoTo(c, "store")
    /\ UNCHANGED << g_req_id, id, tail, nodeVars, threadVars, netVars >>

\* Mutants of HdrStore: the counter is counted down ...
HdrStoreDown(c) ==
    /\ pc[c] = "store"
    /\ g_req_id' = loaded[c] - 1
    /\ GoTo(c, "return")
    /\ UNCHANGED << loaded, id, tail, result, nodeVars, threadVars, netVars >>

\* ... or not incremented.
HdrStoreSame(c) ==
    /\ pc[c] = "store"
    /\ g_req_id' = loaded[c]
    /\ GoTo(c, "return")
    /\ UNCHANGED << loaded, id, tail, result, nodeVars, threadVars, netVars >>

\* ... and the write.
HdrStore(c) ==
    /\ pc[c] = "store"
    /\ g_req_id' = loaded[c] + 1
    /\ GoTo(c, "return")
    /\ UNCHANGED << loaded, id, tail, result, nodeVars, threadVars, netVars >>

\* return g_req_id: the build may return the value it has just stored or
\* read the shared counter again.
HdrReturn(c) ==
    /\ pc[c] = "return"
    /\ \E n \in {loaded[c] + 1, g_req_id} : id' = [id EXCEPT ![c] = n]
    /\ GoTo(c, "ready")
    /\ UNCHANGED << g_req_id, loaded, tail, result,
                    nodeVars, threadVars, netVars >>

\* json_hal_client_send_and_get_reply_with_timeout: seconds to loop ticks.
TickOf(timeout) ==
    LET tick == timeout * TicksPerSec
    IN  IF tick < MinTicks THEN MinTicks
        ELSE IF tick > MaxTicks THEN MaxTicks ELSE tick

\* client_send_and_get_reply up to LL_APPEND: the node is allocated, its
\* lock taken, its fields set.  The call without a timeout uses MinTicks.
Call(c) ==
    /\ pc[c] = "ready"
    /\ \E t \in {MinTicks} \union { TickOf(s) : s \in Timeouts } :
          ticker' = [ticker EXCEPT ![c] = t]
    /\ rc' = [rc EXCEPT ![c] = "err"]
    /\ buffer' = [buffer EXCEPT ![c] = << >>]
    /\ GoTo(c, "find")
    /\ UNCHANGED << g_req_id, loaded, id, tail, result,
                    tracking, signalled, threadVars, netVars >>

\* LL_APPEND without the list's lock: the walk to the last node ...
AppendFind(c) ==
    /\ pc[c] = "find"
    /\ tail' = [tail EXCEPT ![c] = LastNode]
    /\ GoTo(c, "link")
    /\ UNCHANGED << g_req_id, loaded, id, result,
                    nodeVars, threadVars, netVars >>

\* ... and the store into its next field.
AppendLink(c) ==
    /\ pc[c] = "link"
    /\ tracking' = Linked(tail[c], c)
    /\ tail' = [tail EXCEPT ![c] = NULL]
    /\ GoTo(c, "send")
    /\ UNCHANGED << g_req_id, loaded, id, result,
                    ticker, rc, buffer, signalled, threadVars, netVars >>

\* json_message_send succeeds and the caller goes to sleep on msg_rcvd,
\* releasing its node's lock.  What is written to a connection whose other
\* end is closed is lost.
SendOk(c) ==
    /\ pc[c] = "send"
    /\ open \/ state = "SOCKET_RECEIVE"
    /\ c2s' = IF open THEN Append(c2s, id[c]) ELSE c2s
    /\ GoTo(c, "wait")
    /\ UNCHANGED << g_req_id, loaded, id, tail, result, nodeVars,
                    threadVars, open, s2c, events, closes >>

\* json_message_send fails: the lock is released and destroyed while the
\* node is still in the list.
SendFail(c) ==
    /\ pc[c] = "send"
    /\ ~open \/ SendMayFail
    /\ GoTo(c, "fail")
    /\ UNCHANGED << g_req_id, loaded, id, tail, result,
                    nodeVars, threadVars, netVars >>

\* pthread_cond_wait returns; the lock is released and destroyed.
Wake(c) ==
    /\ pc[c] = "wait"
    /\ signalled[c] \/ Spurious
    /\ GoTo(c, "woken")
    /\ UNCHANGED << g_req_id, loaded, id, tail, result,
                    nodeVars, threadVars, netVars >>

\* Mutant of Delete: a failed send does not take its node out of the list.
DeleteUnlessFailed(c) ==
    /\ pc[c] \in {"fail", "woken"}
    /\ ~GlobalLockHeld
    /\ \/ \E i \in DOMAIN tracking :
             /\ pc[c] = "woken"
             /\ IsMatch(i, id[c]) /\ tracking' = LL_DELETE(tracking, i)
       \/ (pc[c] = "fail" \/ NoMatch(id[c])) /\ tracking' = tracking
    /\ GoTo(c, IF pc[c] = "fail" THEN "failed" ELSE "reaped")
    /\ UNCHANGED << g_req_id, loaded, id, tail, result, ticker, rc, buffer,
                    signalled, threadVars, netVars >>

\* request_delete_cb, under the list's lock: the FIRST entry with this
\* call's sequence number leaves the list.
Delete(c) ==
    /\ pc[c] \in {"fail", "woken"}
    /\ ~GlobalLockHeld
    /\ \/ \E i \in DOMAIN tracking :
             IsMatch(i, id[c]) /\ tracking' = LL_DELETE(tracking, i)
       \/ NoMatch(id[c]) /\ tracking' = tracking
    /\ GoTo(c, IF pc[c] = "fail" THEN "failed" ELSE "reaped")
    /\ UNCHANGED << g_req_id, loaded, id, tail, result, ticker, rc, buffer,
                    signalled, threadVars, netVars >>

\* The call returns and frees its node.  After a failed send it returns
\* RETURN_ERR; otherwise the node's rc and, for RETURN_OK, the FIRST object
\* parsed from the node's buffer.
Return(c) ==
    /\ pc[c] \in {"failed", "reaped"}
    /\ result' = [result EXCEPT ![c] =
                    IF pc[c] = "reaped" /\ rc[c] = "ok"
                    THEN << "ok", buffer[c][1] >> ELSE << "err", NULL >>]
    /\ ticker' = [ticker EXCEPT ![c] = 0]
    /\ rc' = [rc EXCEPT ![c] = "err"]
    /\ buffer' = [buffer EXCEPT ![c] = << >>]
    /\ signalled' = [signalled EXCEPT ![c] = FALSE]
    /\ GoTo(c, "idle")
    /\ UNCHANGED << g_req_id, loaded, id, tail, tracking,
                    threadVars, netVars >>

CallerStep(c) ==
    \/ HdrLoad(c) \/ HdrStore(c) \/ HdrReturn(c) \/ Call(c)
    \/ AppendFind(c) \/ AppendLink(c) \/ SendOk(c) \/ SendFail(c)
    \/ Wake(c) \/ Delete(c) \/ Return(c)

-----------------------------------------------------------------------------
(* The socket thread.  One iteration of rpc_client_handler's loop is one   *)
(* step of its connection state machine, the parsing of what was received, *)
(* and func_idle, the tick of request_tracking_cb.                         *)

\* SOCKET_INIT: socket() and fcntl().
SocketInit ==
    /\ rpc = "loop" /\ state = "SOCKET_INIT"
    /\ state' = "SOCKET_CONNECT"
    /\ rpc' = "tick"
    /\ UNCHANGED << callerVars, nodeVars, node, tmp, recvd, pos, netVars >>

\* SOCKET_INIT: socket() fails and the thread ends on the spot, with nobody
\* left to count ticks or to signal a caller.
SocketFails ==
    /\ rpc = "loop" /\ state = "SOCKET_INIT"
    /\ SocketMayFail
    /\ rpc' = "gone"
    /\ UNCHANGED << callerVars, nodeVars, state, node, tmp, recvd, pos,
                    netVars >>

\* SOCKET_CONNECT: connect() fails, sleep(1), and is tried again.
ConnectFails ==
    /\ rpc = "loop" /\ state = "SOCKET_CONNECT"
    /\ rpc' = "tick"
    /\ UNCHANGED << callerVars, nodeVars, state, node, tmp, recvd, pos,
                    netVars >>

\* SOCKET_CONNECT: connect() fails with EINPROGRESS; the kernel makes the
\* connection before the next attempt notices.
ConnectPending ==
    /\ rpc = "loop" /\ state = "SOCKET_CONNECT"
    /\ open' = TRUE
    /\ rpc' = "tick"
    /\ UNCHANGED << callerVars, nodeVars, state, node, tmp, recvd, pos,
                    c2s, s2c, events, closes >>

\* SOCKET_CONNECT: connect() fails with EBADF, EISCONN or EADDRNOTAVAIL; the
\* socket is given up.
ConnectAborts ==
    /\ rpc = "loop" /\ state = "SOCKET_CONNECT"
    /\ state' = "SOCKET_INIT"
    /\ open' = FALSE /\ c2s' = << >> /\ s2c' = << >>
    /\ rpc' = "tick"
    /\ UNCHANGED << callerVars, nodeVars, node, tmp, recvd, pos, events,
                    closes >>

\* SOCKET_CONNECT: connect() succeeds, perhaps on a connection that the
\* server has closed again.
Connected ==
    /\ rpc = "loop" /\ state = "SOCKET_CONNECT"
    /\ state' = "SOCKET_RECEIVE"
    /\ open' \in {open, TRUE}
    /\ rpc' = "tick"
    /\ UNCHANGED << callerVars, nodeVars, node, tmp, recvd, pos,
                    c2s, s2c, events, closes >>

\* Mutant of SelectTimeout: func_idle is not called.
SelectTimeoutNoTick ==
    /\ rpc = "loop" /\ state = "SOCKET_RECEIVE"
    /\ open /\ s2c = << >>
    /\ UNCHANGED << callerVars, nodeVars, threadVars, netVars >>

\* SOCKET_RECEIVE: select() times out after LOOP_TIMEOUT.
SelectTimeout ==
    /\ rpc = "loop" /\ state = "SOCKET_RECEIVE"
    /\ open /\ s2c = << >>
    /\ rpc' = "tick"
    /\ UNCHANGED << callerVars, nodeVars, state, node, tmp, recvd, pos,
                    netVars >>

\* SOCKET_RECEIVE: recv() returns the messages that have arrived, several
\* of them glued together when the server has been faster.
Receive ==
    /\ rpc = "loop" /\ state = "SOCKET_RECEIVE"
    /\ \E k \in 1 .. MaxGlue :
          /\ k <= Len(s2c)
          /\ recvd' = SubSeq(s2c, 1, k)
          /\ s2c' = SubSeq(s2c, k + 1, Len(s2c))
    /\ pos' = 1
    /\ rpc' = "parse"
    /\ UNCHANGED << callerVars, nodeVars, state, node, tmp,
                    open, c2s, events, closes >>

\* SOCKET_RECEIVE: recv() returns 0, the socket is closed.
EndOfFile ==
    /\ rpc = "loop" /\ state = "SOCKET_RECEIVE"
    /\ ~open /\ s2c = << >>
    /\ state' = "SOCKET_INIT"
    /\ rpc' = "tick"
    /\ UNCHANGED << callerVars, nodeVars, node, tmp, recvd, pos, netVars >>

\* SOCKET_RECEIVE: select() or recv() fails after the connection was reset.
RecvFails ==
    /\ rpc = "loop" /\ state = "SOCKET_RECEIVE"
    /\ ~open
    /\ rpc' = "tick"
    /\ UNCHANGED << callerVars, nodeVars, state, node, tmp, recvd, pos,
                    netVars >>

\* The cursor of response_parse_cb moves behind the message it has handled.
NextMessage ==
    IF pos < Len(recvd)
    THEN /\ pos' = pos + 1 /\ rpc' = "parse" /\ recvd' = recvd
    ELSE /\ pos' = 1 /\ rpc' = "tick" /\ recvd' = << >>

\* response_parse_cb skips a message that resolves no request: an event
\* (whose callbacks do not touch the request list) or a response whose
\* sequence number is not in the list any more.
ParseOther ==
    /\ rpc = "parse"
    /\ recvd[pos] = Event \/ NoMatch(recvd[pos])
    /\ NextMessage
    /\ UNCHANGED << callerVars, nodeVars, state, node, tmp, netVars >>

\* Mutant of ParseResponse: the entry stays in the list.
ParseResponseKeeps ==
    /\ rpc = "parse"
    /\ recvd[pos] # Event
    /\ \E i \in DOMAIN tracking :
          /\ IsMatch(i, recvd[pos])
          /\ node' = tracking[i]
          /\ buffer' = [buffer EXCEPT ![tracking[i]] = recvd]
          /\ rc' = [rc EXCEPT ![tracking[i]] = "ok"]
    /\ rpc' = "signal"
    /\ UNCHANGED << callerVars, tracking, ticker, signalled, state, tmp,
                    recvd, pos, netVars >>

\* response_parse_cb finds the request of a response: the entry leaves the
\* list and the WHOLE received buffer is copied into it.
ParseResponse ==
    /\ rpc = "parse"
    /\ recvd[pos] # Event
    /\ \E i \in DOMAIN tracking :
          /\ IsMatch(i, recvd[pos])
          /\ node' = tracking[i]
          /\ tracking' = LL_DELETE(tracking, i)
          /\ buffer' = [buffer EXCEPT ![tracking[i]] = recvd]
          /\ rc' = [rc EXCEPT ![tracking[i]] = "ok"]
    /\ rpc' = "signal"
    /\ UNCHANGED << callerVars, ticker, signalled, state, tmp, recvd, pos,
                    netVars >>

\* Lock the node, signal msg_rcvd, unlock.  A mutex that has been destroyed
\* does not hold the thread up, and then nobody waits for the signal.
SignalNode ==
    /\ ~HoldsRpcLock(node)
    /\ signalled' = [signalled EXCEPT ![node] = (pc[node] = "wait")]

SignalResponse ==
    /\ rpc = "signal"
    /\ SignalNode
    /\ NextMessage
    /\ node' = NULL
    /\ UNCHANGED << callerVars, tracking, ticker, rc, buffer,
                    state, tmp, netVars >>

\* request_tracking_cb takes the list's lock and starts its traversal.
TickBegin ==
    /\ rpc = "tick"
    /\ IF tracking = << >>
       THEN rpc' = "loop" /\ node' = NULL
       ELSE rpc' = "visit" /\ node' = tracking[1]
    /\ UNCHANGED << callerVars, nodeVars, state, tmp, recvd, pos, netVars >>

\* The entry behind c in the list.
Next_of(c) ==
    IF \E i \in DOMAIN tracking : i > 1 /\ tracking[i - 1] = c
    THEN tracking[CHOOSE i \in DOMAIN tracking : i > 1 /\ tracking[i - 1] = c]
    ELSE NULL

\* The traversal goes on behind the entry visited, or ends with the unlock.
Advance(next) ==
    /\ node' = next
    /\ rpc' = IF next = NULL THEN "loop" ELSE "visit"

\* request_tracking_cb visits an entry that has ticks left ...
TickAlive ==
    /\ rpc = "visit"
    /\ ticker[node] > 1
    /\ ticker' = [ticker EXCEPT ![node] = @ - 1]
    /\ Advance(Next_of(node))
    /\ UNCHANGED << callerVars, tracking, rc, buffer, signalled,
                    state, tmp, recvd, pos, netVars >>

\* Mutant of TickExpired: the waiting caller is not signalled.
TickExpiredSilent ==
    /\ rpc = "visit"
    /\ ticker[node] <= 1
    /\ ticker' = [ticker EXCEPT ![node] = @ - 1]
    /\ \E i \in DOMAIN tracking :
          tracking[i] = node /\ tracking' = LL_DELETE(tracking, i)
    /\ rc' = [rc EXCEPT ![node] = "err"]
    /\ Advance(Next_of(node))
    /\ UNCHANGED << callerVars, buffer, signalled, state, tmp, recvd, pos,
                    netVars >>

\* Mutant of TickExpired: the last tick is not waited for.
TickExpiredEarly ==
    /\ rpc = "visit"
    /\ ticker[node] <= 2
    /\ ticker' = [ticker EXCEPT ![node] = @ - 1]
    /\ tmp' = Next_of(node)
    /\ \E i \in DOMAIN tracking :
          tracking[i] = node /\ tracking' = LL_DELETE(tracking, i)
    /\ rc' = [rc EXCEPT ![node] = "err"]
    /\ rpc' = "expire"
    /\ UNCHANGED << callerVars, buffer, signalled, state, node, recvd, pos,
                    netVars >>

\* ... and one whose ticks have run out: it leaves the list.
TickExpired ==
    /\ rpc = "visit"
    /\ ticker[node] <= 1
    /\ ticker' = [ticker EXCEPT ![node] = @ - 1]
    /\ tmp' = Next_of(node)
    /\ \/ \E i \in DOMAIN tracking :
             tracking[i] = node /\ tracking' = LL_DELETE(tracking, i)
       \/ node \notin Range(tracking) /\ tracking' = tracking
    /\ rc' = [rc EXCEPT ![node] = "err"]
    /\ rpc' = "expire"
    /\ UNCHANGED << callerVars, buffer, signalled, state, node, recvd, pos,
                    netVars >>

SignalExpired ==
    /\ rpc = "expire"
    /\ SignalNode
    /\ Advance(tmp)
    /\ tmp' = NULL
    /\ UNCHANGED << callerVars, tracking, ticker, rc, buffer, state,
                    recvd, pos, netVars >>

ThreadStep ==
    \/ SocketInit \/ SocketFails
    \/ ConnectFails \/ ConnectPending \/ ConnectAborts \/ Connected
    \/ SelectTimeout \/ Receive \/ EndOfFile \/ RecvFails
    \/ ParseOther \/ ParseResponse \/ SignalResponse
    \/ TickBegin \/ TickAlive \/ TickExpired \/ SignalExpired

-----------------------------------------------------------------------------
(* The server as the client sees it: it answers the requests of a          *)
(* connection in order, leaves some unanswered, publishes events, and may  *)
(* close the connection.                                                   *)

ServerReply ==
    /\ c2s # << >>
    /\ s2c' = Append(s2c, Head(c2s))
    /\ c2s' = Tail(c2s)
    /\ UNCHANGED << callerVars, nodeVars, threadVars, open, events, closes >>

\* The request was truncated, glued to another one or not understood, or
\* its response came in two pieces: no response is ever parsed.
ServerIgnore ==
    /\ c2s # << >>
    /\ c2s' = Tail(c2s)
    /\ UNCHANGED << callerVars, nodeVars, threadVars, open, s2c, events,
                    closes >>

ServerEvent ==
    /\ open /\ events < MaxEvents
    /\ events' = events + 1
    /\ s2c' = Append(s2c, Event)
    /\ UNCHANGED << callerVars, nodeVars, threadVars, open, c2s, closes >>

\* The server closes or resets the connection; a reset also loses what the
\* client has not read yet.
ServerClose ==
    /\ open /\ closes < MaxCloses
    /\ open' = FALSE
    /\ closes' = closes + 1
    /\ c2s' = << >>
    /\ s2c' \in {s2c, << >>}
    /\ UNCHANGED << callerVars, nodeVars, threadVars, events >>

ServerStep == ServerReply \/ ServerIgnore \/ ServerEvent \/ ServerClose

-----------------------------------------------------------------------------
Next == (\E c \in Callers : CallerStep(c)) \/ ThreadStep \/ ServerStep

Spec == Init /\ [][Next]_vars

\* The two windows in which a caller works on shared state without a lock:
\* the increment of g_req_id and the walk-and-store of LL_APPEND.
Window == {"store", "return", "link"}

\* Every step taken while a caller is in a window is that caller's own: the
\* executions in which nobody disturbs an unlocked window.
Undisturbed == \A c \in Callers : pc[c] \in Window => pc'[c] # pc[c]

SpecUndisturbed == Init /\ [][Next /\ Undisturbed]_vars

\* Threads that can run do run.  The list's lock goes to every thread that
\* asks for it again and again: the socket thread sleeps in select() with
\* the lock released.  A spurious wakeup is never owed to anybody, and it
\* is the application that decides to make a call.
Progress(c) ==
    \/ HdrStore(c) \/ HdrReturn(c) \/ AppendFind(c) \/ AppendLink(c)
    \/ SendOk(c) \/ SendFail(c) \/ (signalled[c] /\ Wake(c)) \/ Return(c)

Fairness ==
    /\ \A c \in Callers : WF_vars(Progress(c)) /\ SF_vars(Delete(c))
    /\ WF_vars(ThreadStep)

LiveSpec == Spec /\ Fairness
LiveSpecUndisturbed == SpecUndisturbed /\ Fairness

-----------------------------------------------------------------------------
(* Properties *)

Labels == {"idle", "store", "return", "ready", "find", "link", "send", "wait",
           "fail", "woken", "failed", "reaped"}

CallerTypes ==
    /\ g_req_id \in Ids
    /\ pc \in [Callers -> Labels]
    /\ loaded \in [Callers -> Ids]
    /\ id \in [Callers -> Ids]
    /\ tail \in [Callers -> Callers \union {NULL}]
    /\ result \in [Callers -> {"none", "ok", "err"} \X (Messages \union {NULL})]

NodeTypes ==
    /\ tracking \in Seq(Callers)
    /\ ticker \in [Callers -> Int]
    /\ rc \in [Callers -> {"ok", "err"}]
    /\ buffer \in [Callers -> Seq(Messages)]
    /\ signalled \in [Callers -> BOOLEAN]

ThreadTypes ==
    /\ state \in {"SOCKET_INIT", "SOCKET_CONNECT", "SOCKET_RECEIVE"}
    /\ rpc \in {"loop", "parse", "signal", "tick", "visit", "expire",
               "gone"}
    /\ node \in Callers \union {NULL}
    /\ tmp \in Callers \union {NULL}
    /\ recvd \in Seq(Messages)
    /\ pos \in Nat \ {0}

NetTypes ==
    /\ open \in BOOLEAN
    /\ c2s \in Seq(Ids)
    /\ s2c \in Seq(Messages)
    /\ events \in 0 .. MaxEvents
    /\ closes \in 0 .. MaxCloses

\* Every variable has its type: identifiers stay in range, the list holds
\* nodes only, and what travels are messages.
TypeOK == CallerTypes /\ NodeTypes /\ ThreadTypes /\ NetTypes

\* The socket thread still has to signal c.
AboutToSignal(c) == rpc \in {"signal", "expire"} /\ node = c

\* The caller's message carries an identifier of its own.
HasId(c) == pc[c] \notin {"idle", "store", "return"}

\* Where a call can be while its node is in the list or in the socket
\* thread's hands.
Listed == {"send", "wait", "fail", "woken"}

\* A list without repetitions.
NoRepeat(s) == \A i, j \in DOMAIN s : s[i] = s[j] => i = j

\* At most one caller is in an unlocked window, and what it has read there
\* is still true.
WindowInv ==
    /\ \A c, d \in Callers : pc[c] \in Window /\ pc[d] \in Window => c = d
    /\ \A c \in Callers : pc[c] = "store" => loaded[c] = g_req_id
    /\ \A c \in Callers : pc[c] = "return" =>
          /\ loaded[c] + 1 = g_req_id
          /\ \A d \in Callers : HasId(d) => id[d] <= loaded[c]
    /\ \A c \in Callers : pc[c] = "link" => tail[c] = LastNode

\* Messages under way have different identifiers.
IdInv ==
    /\ \A c \in Callers : HasId(c) => id[c] <= g_req_id
    /\ \A c, d \in Callers : HasId(c) /\ HasId(d) /\ id[c] = id[d] => c = d

\* The list holds nodes of calls in progress, once each, and the socket
\* thread's cursors point into the list or at a node just taken out of it.
ListInv ==
    /\ NoRepeat(tracking)
    /\ \A c \in Range(tracking) : pc[c] \in Listed
    /\ rpc = "visit" => node \in Range(tracking)
    /\ rpc \in {"signal", "expire"} =>
          node \notin Range(tracking) /\ pc[node] \in Listed
    /\ ~GlobalLockHeld => node = NULL
    /\ tmp # NULL => rpc = "expire" /\ tmp \in Range(tracking)

\* A call in progress is in exactly one place: in the list, in the socket
\* thread's hands, or signalled.
WaitInv ==
    /\ \A c \in Callers : pc[c] \in {"send", "wait"} =>
          c \in Range(tracking) \/ signalled[c] \/ AboutToSignal(c)
    /\ \A c \in Callers : signalled[c] =>
          /\ c \notin Range(tracking) /\ ~AboutToSignal(c)
          /\ pc[c] \in {"wait", "woken", "reaped"}
    /\ \A c \in Callers : pc[c] \in {"woken", "reaped"} =>
          signalled[c] \/ Spurious

\* The inductive invariant of the executions in which no unlocked window is
\* disturbed: a call's node is listed once, under an identifier of its own,
\* until exactly one of answer, expiry and deletion takes it out.
SafeInv == WindowInv /\ IdInv /\ ListInv /\ WaitInv

\* A caller asleep in pthread_cond_wait is in the list, or has been or is
\* about to be signalled: nothing takes a request out of the list and
\* forgets the thread that waits for it.
NoLostWakeup ==
    \A c \in Callers :
        pc[c] = "wait" => \/ c \in Range(tracking)
                          \/ signalled[c]
                          \/ AboutToSignal(c)

\* Every node the list or the socket thread's cursors can reach is still
\* allocated: request_delete_cb takes a node out of the list before the
\* call that owns it frees it.
NoDangling ==
    /\ \A i \in DOMAIN tracking : Allocated(tracking[i])
    /\ node # NULL => Allocated(node)
    /\ tmp # NULL => Allocated(tmp)

\* A call that returns RETURN_OK returns the response to its own request:
\* "it will cross check the reqId and fill the data into the buffer"
\* (README.md:136).
ReplyMatches ==
    \A c \in Callers : result[c][1] = "ok" => result[c][2] = id[c]

\* An answer and an expiry never both resolve a call: once the call has
\* been taken out of the list, its node's rc stays what it is until the
\* call returns.
ResolvedOnce ==
    [][\A c \in Callers :
          Allocated(c) /\ (signalled[c] \/ AboutToSignal(c)) /\ rc'[c] # rc[c]
             => ~Allocated(c)']_vars

\* A call returns RETURN_ERR only when its send failed or its ticks have
\* run out ("blocked until we get a proper response from the server or
\* timed out happened", json_hal_client.h).
ErrMeansExpired ==
    [][\A c \in Callers :
          pc[c] = "reaped" /\ result'[c][1] = "err" => ticker[c] <= 0]_vars

\* "This is a blocking call, and will unblock if client get response from
\* server or timeout happened" (json_hal_client.h:75): every call of
\* json_hal_client_send_and_get_reply returns.
CallReturns == \A c \in Callers : pc[c] = "find" ~> pc[c] = "idle"

\* What the code keeps of that promise when socket() may fail: every call
\* returns, or the thread that would have counted its ticks has ended.
CallReturnsWhileServed ==
    \A c \in Callers : pc[c] = "find" ~> pc[c] = "idle" \/ rpc = "gone"
=============================================================================
