------------------------------ MODULE HalEvents ------------------------------
(***************************************************************************)
(* Event subscription and publication, both sides, in a build with         *)
(* JSON_BLOCKING_SUBSCRIBE_EVENT: the server's socket thread               *)
(* (rpc_server_handler, message_process_cb), vendor threads inside         *)
(* json_hal_server_publish_event, and clients that subscribe and answer.   *)
(*                                                                         *)
(* A connection is one life of a client's socket: a client that comes back *)
(* is another connection.  Descriptors are reused, the lowest one first.   *)
(***************************************************************************)
EXTENDS Integers, Sequences, FiniteSets

CONSTANTS Conns,        \* connections clients make
          Publishers,   \* vendor threads that publish events
          NULL,         \* no connection, no holder of the mutex, no value
          Fds,          \* descriptors accept() can return
          Events,       \* event names
          NamePrefix,   \* << a, b >>: name a is a proper prefix of name b
          Types,        \* notification types clients subscribe with
          Answers,      \* statuses clients answer events with
          Values,       \* event values; NULL is the null pointer
          FirstSeq,     \* DEFAULT_SEQ_START_NUMBER
          Radix,        \* the base in which sequence numbers are written
          MaxAsks,      \* bound on the subscriptions of a connection
          MaxPublishes  \* bound on the calls of publish_event

NotificationTypes == {"ON_CHANGE", "ON_CHANGE_SYNC", "ON_CHANGE_SYNC_TIMEOUT"}

ASSUME EventsAssumption ==
    /\ Fds \subseteq Nat /\ FirstSeq \in Nat /\ Radix \in Nat \ {0, 1}
    /\ MaxAsks \in Nat /\ MaxPublishes \in Nat
    /\ Types \subseteq NotificationTypes
    /\ NamePrefix \subseteq Events \X Events
    /\ NULL \notin Conns /\ NULL \notin Publishers /\ NULL \notin Nat

VARIABLES
  g_seqnumber, \* last sequence number of an event message
  peer,        \* the connection behind each open descriptor
  subs,        \* g_event_subscriptions_list, head first
  mutex,       \* holder of gm_subscription_mutex between two steps
  spc, sfd, smsg,  \* where the socket thread is, on which socket and message
  ppc,         \* where each publisher is
  event, value,\* arguments of its call
  cursor,      \* next entry of its LL_FOREACH
  blocking,    \* publish_event_blocking
  ret,         \* return code of its last call
  expired,     \* SEND_EVENT_SUBSCRIPTION_TIMEOUT has passed since its wait began
  timedOut,    \* its last wait ended by the timeout
  awaited,     \* history: << connection, number >> of the answers it asked for
  publishes,   \* bound: calls of publish_event
  up,          \* connections: "new", "up", "closed" by the client
  toServer, toClient,  \* messages in flight on each connection
  asks,        \* number of subscriptions each connection has asked for
  asking,      \* the subscribe_event call under way: "no", "sent", "replied"
  wanted,      \* its event and notification type
  tracked,     \* g_event_tracking of the client, as event names
  asked,       \* history: events each connection has asked for
  answered     \* history: << connection, number >> of the answers sent

threadVars == << spc, sfd, smsg >>
pubVars    == << ppc, event, value, cursor, blocking, ret, expired, timedOut,
                 awaited, publishes >>
clientVars == << asks, asking, wanted, tracked, asked, answered >>
netVars    == << up, toServer, toClient >>
vars == << g_seqnumber, peer, subs, mutex, threadVars, pubVars, clientVars,
           netVars >>

NoMsg == [kind |-> "none"]

Init ==
    /\ g_seqnumber = FirstSeq
    /\ peer = [f \in Fds |-> NULL]
    /\ subs = << >> /\ mutex = NULL
    /\ spc = "loop" /\ sfd = NULL /\ smsg = NoMsg
    /\ ppc = [p \in Publishers |-> "idle"]
    /\ event = [p \in Publishers |-> NULL]
    /\ value = [p \in Publishers |-> NULL]
    /\ cursor = [p \in Publishers |-> 1]
    /\ blocking = [p \in Publishers |-> FALSE]
    /\ ret = [p \in Publishers |-> "ok"]
    /\ expired = [p \in Publishers |-> FALSE]
    /\ timedOut = [p \in Publishers |-> FALSE]
    /\ awaited = [p \in Publishers |-> {}]
    /\ publishes = 0
    /\ up = [k \in Conns |-> "new"]
    /\ toServer = [k \in Conns |-> << >>]
    /\ toClient = [k \in Conns |-> << >>]
    /\ asks = [k \in Conns |-> 0]
    /\ asking = [k \in Conns |-> "no"]
    /\ wanted = [k \in Conns |-> << NULL, NULL >>]
    /\ tracked = [k \in Conns |-> << >>]
    /\ asked = [k \in Conns |-> {}]
    /\ answered = {}

-----------------------------------------------------------------------------
(* Comparisons. *)

\* Mutant of NameMatches: the names are not compared.
NameIgnored(subscribed, name) == TRUE

\* strncmp(subscribed, name, strlen(name)) = 0.
NameMatches(subscribed, name) ==
    name = subscribed \/ << name, subscribed >> \in NamePrefix

\* The weights of the digits of an int.
Weight[k \in 0 .. 9] == IF k = 0 THEN 1 ELSE Radix * Weight[k - 1]

\* strncmp(req_id, n, strlen(n)) = 0 on numbers written out: n is req_id
\* without some of its last digits.
IdMatches(req_id, n) ==
    req_id # NULL /\ \E k \in 0 .. 9 : n > 0 /\ req_id \div Weight[k] = n

IsSync(sub) == sub.type \in {"ON_CHANGE_SYNC", "ON_CHANGE_SYNC_TIMEOUT"}

\* The entries wait_publish_event_reply finds without an answer.
Waiting(name) ==
    { i \in DOMAIN subs : /\ NameMatches(subs[i].event, name)
                          /\ IsSync(subs[i])
                          /\ subs[i].status = "WAIT_EVENT_REPLY_MSG" }

-----------------------------------------------------------------------------
(* Messages and list entries.  Number ask tells a connection's requests      *)
(* apart, as their identifiers do.                                           *)

\* create_event_subscription_message: the request of subscribe_event.
SubscribeMessage(ask, e, t) ==
    [kind |-> "subscribe", ask |-> ask, event |-> e, type |-> t]

\* create_json_reply_msg: the server's reply.  The client's subscribe_event
\* does not look at its status.
ReplyMessage(msg) == [kind |-> "reply", ask |-> msg.ask]

\* create_publish_event_msg for event e, with sequence number n.
EventMessage(e, n) == [kind |-> "event", event |-> e, req_id |-> n]

\* create_json_reply_event_msg: the client's answer to an event.
AnswerMessage(msg, answer) ==
    [kind |-> "result", event |-> msg.event, req_id |-> msg.req_id,
     status |-> answer]

\* initialise_event_subscription_data, get_event_subscription_data_from_msg:
\* the entry for request msg from descriptor f.  The connection is history.
NewEntry(f, msg) ==
    [fd |-> f, conn |-> peer[f], event |-> msg.event, type |-> msg.type,
     req_id |-> NULL, status |-> "NO_EVENT_MSG"]

\* get_sequence_number, as far as MaxPublishes lets it count.
NextSeqNumber == g_seqnumber + 1

-----------------------------------------------------------------------------
(* The server's socket thread. *)

\* rpc_server_handler: accept() returns the lowest free descriptor.
Accept(k) ==
    /\ spc = "loop"
    /\ up[k] = "new"
    /\ \E f \in Fds :
          /\ peer[f] = NULL /\ \A g \in Fds : peer[g] = NULL => f <= g
          /\ peer' = [peer EXCEPT ![f] = k]
    /\ up' = [up EXCEPT ![k] = "up"]
    /\ UNCHANGED << g_seqnumber, subs, mutex, threadVars, pubVars, clientVars,
                    toServer, toClient >>

\* rpc_server_handler: recv() returns a message from descriptor f, which
\* message_process_cb parses and dispatches on its action.
Recv(f) ==
    /\ spc = "loop"
    /\ peer[f] # NULL /\ toServer[peer[f]] # << >>
    /\ smsg' = Head(toServer[peer[f]])
    /\ toServer' = [toServer EXCEPT ![peer[f]] = Tail(@)]
    /\ sfd' = f
    /\ spc' = smsg'.kind
    /\ UNCHANGED << g_seqnumber, peer, subs, mutex, pubVars, clientVars,
                    up, toClient >>

\* The socket thread is done with its message or its descriptor.
BackToLoop == spc' = "loop" /\ sfd' = NULL /\ smsg' = NoMsg

\* What is sent on descriptor f reaches a client.
Reaches(f) == peer[f] # NULL /\ up[peer[f]] = "up"

\* What is sent to a connection that its client has closed is lost.
SendTo(f, msg) ==
    toClient' = IF Reaches(f)
                THEN [toClient EXCEPT ![peer[f]] = Append(@, msg)]
                ELSE toClient

\* message_process_cb, subscribeEvent: no handler is registered, the handler
\* fails, or its reply does not pass the schema.
Refuse ==
    /\ spc = "subscribe"
    /\ SendTo(sfd, ReplyMessage(smsg))
    /\ BackToLoop
    /\ UNCHANGED << g_seqnumber, peer, subs, mutex, pubVars, clientVars,
                    up, toServer >>

\* message_process_cb, subscribeEvent: the handler succeeds; the reply is
\* sent before the subscription is in the list.
Grant ==
    /\ spc = "subscribe"
    /\ SendTo(sfd, ReplyMessage(smsg))
    /\ spc' = "add"
    /\ UNCHANGED << g_seqnumber, peer, subs, mutex, sfd, smsg, pubVars,
                    clientVars, up, toServer >>

\* add_event_subscription_to_list.
AddSubscription ==
    /\ spc = "add"
    /\ mutex = NULL
    /\ subs' = Append(subs, NewEntry(sfd, smsg))
    /\ BackToLoop
    /\ UNCHANGED << g_seqnumber, peer, mutex, pubVars, clientVars, netVars >>

\* Mutant of Credited: any answer from the descriptor counts.
CreditedAnyId(sub) == NameMatches(sub.event, smsg.event) /\ sub.fd = sfd

\* The entries an answer is credited to.
Credited(sub) ==
    /\ NameMatches(sub.event, smsg.event)
    /\ sub.fd = sfd
    /\ IdMatches(sub.req_id, smsg.req_id)

\* get_event_reply_data_from_msg: the status an answer is entered with.
ReplyStatus(msg) ==
    IF msg.status = "Success" THEN "EVENT_REPLY_SUCCESS"
    ELSE "EVENT_REPLY_ERROR"

\* message_process_cb, action "result": the answer of a client to an event.
EventReply ==
    /\ spc = "result"
    /\ mutex = NULL
    /\ subs' = [i \in DOMAIN subs |->
                  IF Credited(subs[i])
                  THEN [subs[i] EXCEPT !.status = ReplyStatus(smsg)]
                  ELSE subs[i]]
    /\ BackToLoop
    /\ UNCHANGED << g_seqnumber, peer, mutex, pubVars, clientVars, netVars >>

\* Mutants of EndOfFile: the descriptor is closed before func_disconnect is
\* called ...
EndOfFileCloses(f) ==
    /\ spc = "loop"
    /\ peer[f] # NULL /\ toServer[peer[f]] = << >> /\ up[peer[f]] = "closed"
    /\ spc' = "remove" /\ sfd' = f
    /\ peer' = [peer EXCEPT ![f] = NULL]
    /\ UNCHANGED << g_seqnumber, subs, mutex, smsg, pubVars, clientVars,
                    netVars >>

\* ... or func_disconnect is not called at all.
EndOfFileNoCallback(f) ==
    /\ spc = "loop"
    /\ peer[f] # NULL /\ toServer[peer[f]] = << >> /\ up[peer[f]] = "closed"
    /\ spc' = "close" /\ sfd' = f
    /\ UNCHANGED << g_seqnumber, peer, subs, mutex, smsg, pubVars, clientVars,
                    netVars >>

\* rpc_server_handler: recv() returns 0 on descriptor f.
EndOfFile(f) ==
    /\ spc = "loop"
    /\ peer[f] # NULL /\ toServer[peer[f]] = << >> /\ up[peer[f]] = "closed"
    /\ spc' = "remove" /\ sfd' = f
    /\ UNCHANGED << g_seqnumber, peer, subs, mutex, smsg, pubVars, clientVars,
                    netVars >>

\* LL_FOREACH_SAFE with LL_DELETE of the entries of descriptor f.
Without(list, f) ==
    LET kept[i \in 0 .. Len(list)] ==
          IF i = 0 THEN << >>
          ELSE IF list[i].fd = f THEN kept[i - 1]
               ELSE Append(kept[i - 1], list[i])
    IN  kept[Len(list)]

\* client_disconnected_cb: remove_event_subscription_from_list.
RemoveSubscriptions ==
    /\ spc = "remove"
    /\ mutex = NULL
    /\ subs' = Without(subs, sfd)
    /\ spc' = "close"
    /\ UNCHANGED << g_seqnumber, peer, mutex, sfd, smsg, pubVars, clientVars,
                    netVars >>

\* close(): the descriptor can be handed out again.
Close ==
    /\ spc = "close"
    /\ peer' = [peer EXCEPT ![sfd] = NULL]
    /\ BackToLoop
    /\ UNCHANGED << g_seqnumber, subs, mutex, pubVars, clientVars, netVars >>

\* rpc_server_handler: select() times out and the loop goes round.
SelectTimeout == spc = "loop" /\ UNCHANGED vars

ThreadStep ==
    \/ SelectTimeout
    \/ \E k \in Conns : Accept(k)
    \/ \E f \in Fds : Recv(f) \/ EndOfFile(f)
    \/ Refuse \/ Grant \/ AddSubscription \/ EventReply
    \/ RemoveSubscriptions \/ Close

-----------------------------------------------------------------------------
(* Publishers: json_hal_server_publish_event. *)

At(p, label) == ppc' = [ppc EXCEPT ![p] = label]

\* The vendor's thread enters the call.
Publish(p) ==
    /\ ppc[p] = "idle"
    /\ publishes < MaxPublishes
    /\ \E e \in Events, v \in Values :
          /\ event' = [event EXCEPT ![p] = e]
          /\ value' = [value EXCEPT ![p] = v]
    /\ publishes' = publishes + 1
    /\ cursor' = [cursor EXCEPT ![p] = 1]
    /\ blocking' = [blocking EXCEPT ![p] = FALSE]
    /\ ret' = [ret EXCEPT ![p] = "ok"]
    /\ expired' = [expired EXCEPT ![p] = FALSE]
    /\ timedOut' = [timedOut EXCEPT ![p] = FALSE]
    /\ awaited' = [awaited EXCEPT ![p] = {}]
    /\ At(p, "lock")
    /\ UNCHANGED << g_seqnumber, peer, subs, mutex, threadVars, clientVars,
                    netVars >>

LockList(p) ==
    /\ ppc[p] = "lock"
    /\ mutex = NULL
    /\ mutex' = p
    /\ At(p, "walk")
    /\ UNCHANGED << g_seqnumber, peer, subs, threadVars, event, value, cursor,
                    blocking, ret, expired, timedOut, awaited, publishes,
                    clientVars, netVars >>

\* The next entry at or behind the cursor that the event matches.
IsNextMatch(p, i) ==
    /\ NameMatches(subs[i].event, event[p])
    /\ \A j \in cursor[p] .. (i - 1) : ~NameMatches(subs[j].event, event[p])

\* No message can be made from a null value: POINTER_ASSERT returns from
\* inside the loop.
PublishNull(p) ==
    /\ ppc[p] = "walk"
    /\ value[p] = NULL
    /\ \E i \in cursor[p] .. Len(subs) : IsNextMatch(p, i)
    /\ ret' = [ret EXCEPT ![p] = "err"]
    /\ At(p, "idle")
    /\ UNCHANGED << g_seqnumber, peer, subs, mutex, threadVars, event, value,
                    cursor, blocking, expired, timedOut, awaited, publishes,
                    clientVars, netVars >>

\* The message for entry i.  A send to a connection that the client has
\* closed may fail, and a failed send cancels the wait.
PublishTo(p, i) ==
    /\ ppc[p] = "walk"
    /\ value[p] # NULL
    /\ IsNextMatch(p, i)
    /\ LET n == NextSeqNumber
           k == peer[subs[i].fd]
           sync == IsSync(subs[i])
       IN  /\ g_seqnumber' = n
           /\ subs' = IF sync
                      THEN [subs EXCEPT ![i].req_id = n,
                                        ![i].status = "WAIT_EVENT_REPLY_MSG"]
                      ELSE subs
           /\ SendTo(subs[i].fd, EventMessage(event[p], n))
           /\ \/ /\ blocking' = [blocking EXCEPT ![p] = @ \/ sync]
                 /\ ret' = ret
              \/ /\ ~Reaches(subs[i].fd)
                 /\ blocking' = [blocking EXCEPT ![p] = FALSE]
                 /\ ret' = [ret EXCEPT ![p] = "err"]
           /\ awaited' = [awaited EXCEPT ![p] =
                            IF sync THEN @ \union {<< k, n >>} ELSE @]
    /\ cursor' = [cursor EXCEPT ![p] = i + 1]
    /\ UNCHANGED << peer, mutex, threadVars, ppc, event, value, expired,
                    timedOut, publishes, clientVars, up, toServer >>

\* The loop ends, the mutex is released.
PublishEnd(p) ==
    /\ ppc[p] = "walk"
    /\ \A i \in cursor[p] .. Len(subs) : ~IsNextMatch(p, i)
    /\ mutex' = NULL
    /\ At(p, IF blocking[p] THEN "poll" ELSE "idle")
    /\ UNCHANGED << g_seqnumber, peer, subs, threadVars, event, value, cursor,
                    blocking, ret, expired, timedOut, awaited, publishes,
                    clientVars, netVars >>

\* SEND_EVENT_SUBSCRIPTION_TIMEOUT passes.
Clock(p) ==
    /\ ppc[p] = "poll" /\ ~expired[p]
    /\ expired' = [expired EXCEPT ![p] = TRUE]
    /\ UNCHANGED << g_seqnumber, peer, subs, mutex, threadVars, ppc, event,
                    value, cursor, blocking, ret, timedOut, awaited, publishes,
                    clientVars, netVars >>

\* Mutant of PollEnd: the timeout is not looked at.
PollEndNoTimeout(p) ==
    /\ ppc[p] = "poll"
    /\ mutex = NULL
    /\ Waiting(event[p]) = {}
    /\ At(p, "idle")
    /\ UNCHANGED << g_seqnumber, peer, subs, mutex, threadVars, event, value,
                    cursor, blocking, ret, expired, timedOut, awaited,
                    publishes, clientVars, netVars >>

\* The last iteration of wait_publish_event_reply: every answer is in, or
\* time is up and all entries without an answer have a timeout.  (The
\* iterations before it change nothing.)  Its result is not used.
PollEnd(p) ==
    /\ ppc[p] = "poll"
    /\ mutex = NULL
    /\ \/ Waiting(event[p]) = {}
       \/ /\ expired[p]
          /\ \A i \in Waiting(event[p]) :
                subs[i].type = "ON_CHANGE_SYNC_TIMEOUT"
    /\ timedOut' = [timedOut EXCEPT ![p] = Waiting(event[p]) # {}]
    /\ At(p, "idle")
    /\ UNCHANGED << g_seqnumber, peer, subs, mutex, threadVars, event, value,
                    cursor, blocking, ret, expired, awaited, publishes,
                    clientVars, netVars >>

PublisherStep(p) ==
    \/ Publish(p) \/ LockList(p) \/ PublishNull(p)
    \/ \E i \in cursor[p] .. Len(subs) : PublishTo(p, i)
    \/ PublishEnd(p) \/ Clock(p) \/ PollEnd(p)

-----------------------------------------------------------------------------
(* Clients: json_hal_client_subscribe_event and the event branch of        *)
(* response_parse_cb.                                                      *)

\* subscribe_event sends its request and waits for the reply.
Subscribe(k) ==
    /\ up[k] = "up" /\ asking[k] = "no" /\ asks[k] < MaxAsks
    /\ \E e \in Events, t \in Types :
          /\ wanted' = [wanted EXCEPT ![k] = << e, t >>]
          /\ asked' = [asked EXCEPT ![k] = @ \union {e}]
          /\ toServer' = [toServer EXCEPT ![k] =
                            Append(@, SubscribeMessage(asks[k] + 1, e, t))]
    /\ asks' = [asks EXCEPT ![k] = @ + 1]
    /\ asking' = [asking EXCEPT ![k] = "sent"]
    /\ UNCHANGED << g_seqnumber, peer, subs, mutex, threadVars, pubVars,
                    tracked, answered, up, toClient >>

\* The request times out: subscribe_event returns RETURN_ERR.
SubscribeTimesOut(k) ==
    /\ asking[k] = "sent"
    /\ asking' = [asking EXCEPT ![k] = "no"]
    /\ UNCHANGED << g_seqnumber, peer, subs, mutex, threadVars, pubVars,
                    asks, wanted, tracked, asked, answered, netVars >>

\* The client's socket thread takes the next message off the connection.
Consume(k) == toClient' = [toClient EXCEPT ![k] = Tail(@)]

HasMessage(k, kind) ==
    up[k] = "up" /\ toClient[k] # << >> /\ Head(toClient[k]).kind = kind

\* The reply wakes the caller, whatever its status; a late one is skipped.
ReadReply(k) ==
    /\ HasMessage(k, "reply")
    /\ asking' = IF asking[k] = "sent" /\ Head(toClient[k]).ask = asks[k]
                 THEN [asking EXCEPT ![k] = "replied"] ELSE asking
    /\ Consume(k)
    /\ UNCHANGED << g_seqnumber, peer, subs, mutex, threadVars, pubVars,
                    asks, wanted, tracked, asked, answered, up, toServer >>

\* The caller appends the event to g_event_tracking and returns.
Track(k) ==
    /\ asking[k] = "replied"
    /\ tracked' = [tracked EXCEPT ![k] = Append(@, wanted[k][1])]
    /\ asking' = [asking EXCEPT ![k] = "no"]
    /\ UNCHANGED << g_seqnumber, peer, subs, mutex, threadVars, pubVars,
                    asks, wanted, asked, answered, netVars >>

\* The entries of g_event_tracking whose callback an event invokes.
Matching(k, name) ==
    { i \in DOMAIN tracked[k] : NameMatches(tracked[k][i], name) }

\* An event invokes the callback of every matching entry, and an answer is
\* sent after each: always Success by the library's client, another status
\* perhaps by other implementations.
ReadEvent(k) ==
    /\ HasMessage(k, "event")
    /\ LET msg == Head(toClient[k])
           hits == Matching(k, msg.event)
       IN  /\ \E answer \in Answers :
                toServer' = [toServer EXCEPT ![k] = @ \o
                  [i \in 1 .. Cardinality(hits) |-> AnswerMessage(msg, answer)]]
           /\ answered' = IF hits = {} THEN answered
                          ELSE answered \union {<< k, msg.req_id >>}
    /\ Consume(k)
    /\ UNCHANGED << g_seqnumber, peer, subs, mutex, threadVars, pubVars,
                    asks, asking, wanted, tracked, asked, up >>

\* The client goes away.
Disconnect(k) ==
    /\ up[k] = "up"
    /\ up' = [up EXCEPT ![k] = "closed"]
    /\ toClient' = [toClient EXCEPT ![k] = << >>]
    /\ UNCHANGED << g_seqnumber, peer, subs, mutex, threadVars, pubVars,
                    clientVars, toServer >>

ClientStep(k) ==
    \/ Subscribe(k) \/ SubscribeTimesOut(k) \/ ReadReply(k) \/ Track(k)
    \/ ReadEvent(k) \/ Disconnect(k)

-----------------------------------------------------------------------------
Next == \/ ThreadStep
        \/ \E p \in Publishers : PublisherStep(p)
        \/ \E k \in Conns : ClientStep(k)

Spec == Init /\ [][Next]_vars

\* Threads that can run do run, and time passes.  It is the vendor that
\* decides to publish, and nothing is owed by the clients.
Progress(p) ==
    \/ LockList(p) \/ PublishNull(p)
    \/ \E i \in cursor[p] .. Len(subs) : PublishTo(p, i)
    \/ PublishEnd(p) \/ PollEnd(p)

Fairness ==
    /\ WF_vars(ThreadStep)
    /\ \A p \in Publishers : WF_vars(Progress(p)) /\ WF_vars(Clock(p))

LiveSpec == Spec /\ Fairness

-----------------------------------------------------------------------------
(* Properties *)

ClientMessages ==
    [kind : {"subscribe"}, ask : Nat, event : Events, type : Types]
      \union [kind : {"result"}, event : Events, req_id : Nat, status : Answers]

ServerMessages ==
    [kind : {"reply"}, ask : Nat]
      \union [kind : {"event"}, event : Events, req_id : Nat]

Entries ==
    [fd : Fds, conn : Conns, event : Events, type : Types,
     req_id : Nat \union {NULL},
     status : {"NO_EVENT_MSG", "WAIT_EVENT_REPLY_MSG", "EVENT_REPLY_SUCCESS",
               "EVENT_REPLY_ERROR"}]

\* Every variable has its type, and the socket thread works on an open
\* descriptor.
TypeOK ==
    /\ g_seqnumber \in Nat
    /\ peer \in [Fds -> Conns \union {NULL}]
    /\ subs \in Seq(Entries)
    /\ mutex \in Publishers \union {NULL}
    /\ spc \in {"loop", "subscribe", "add", "result", "remove", "close"}
    /\ IF spc = "loop" THEN sfd = NULL ELSE sfd \in Fds /\ peer[sfd] # NULL
    /\ smsg \in ClientMessages \union {NoMsg}
    /\ ppc \in [Publishers -> {"idle", "lock", "walk", "poll"}]
    /\ cursor \in [Publishers -> Nat \ {0}]
    /\ ret \in [Publishers -> {"ok", "err"}]
    /\ up \in [Conns -> {"new", "up", "closed"}]
    /\ toServer \in [Conns -> Seq(ClientMessages)]
    /\ toClient \in [Conns -> Seq(ServerMessages)]
    /\ asking \in [Conns -> {"no", "sent", "replied"}]
    /\ tracked \in [Conns -> Seq(Events)]

\* A subscription's descriptor is open and belongs to the connection that
\* subscribed: client_disconnected_cb takes a connection's entries out of the
\* list before close() lets accept() hand the descriptor to somebody else.
FdSafe == \A i \in DOMAIN subs : peer[subs[i].fd] = subs[i].conn

\* "Application can send their event notifications to the subscribed
\* clients" (json_hal_server.h:105): an event travels only on a connection
\* whose client has asked for an event of that name.
OnlySubscribers ==
    \A k \in Conns : \A i \in DOMAIN toClient[k] :
        toClient[k][i].kind = "event" => toClient[k][i].event \in asked[k]

\* When publish_event returns RETURN_OK without having timed out, every
\* connection it asked for an answer has answered this event or a later one,
\* or is closed: neither a late answer to an earlier event nor another
\* publisher's wait ends the call.
SyncDone ==
    \A p \in Publishers : ppc[p] = "idle" /\ ret[p] = "ok" /\ ~timedOut[p] =>
        \A a \in awaited[p] :
            \/ up[a[1]] = "closed"
            \/ \E b \in answered : b[1] = a[1] /\ b[2] >= a[2]

\* Every call of json_hal_server_publish_event returns.
PublishReturns == \A p \in Publishers : ppc[p] = "lock" ~> ppc[p] = "idle"
=============================================================================
