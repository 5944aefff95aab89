----------------------------- MODULE RpcDispatch -----------------------------
(***************************************************************************)
(* Requests and replies as the server dispatches them: registration of     *)
(* action callbacks, message_process_cb for every action but the event     *)
(* answers (see HalEvents), the reply templates, the callbacks, and what   *)
(* the client reads in a reply.  Parameters pass through ParamCodec at     *)
(* both ends, twice for a value that is set and then read.                 *)
(*                                                                         *)
(* The callbacks for set and delete requests follow those of the sample    *)
(* server.  The platform behind them and the callbacks for getParameters   *)
(* and getSchema are an external vendor's: a store that keeps what         *)
(* json_hal_get_param returned and answers from it.  (The sample's own     *)
(* getparam_rpc_cb has no store and answers with four fixed values.)       *)
(***************************************************************************)
EXTENDS ParamCodec, FiniteSetsExt

CONSTANTS Conns,        \* connections of clients
          Names,        \* parameter names
          Settable,     \* parameters that clients set
          RawElements,  \* elements of params not made by json_hal_add_param
          Callbacks,    \* callback functions the vendor registers
          NULL,         \* no callback, no value, no field
          MaxRequests,  \* bound on the requests
          MaxParams,    \* bound on the parameters of a request
          MaxCallbacks  \* bound on the registrations

Actions == {"getParameters", "setParameters", "deleteObject", "getSchema"}

ASSUME DispatchAssumption ==
    /\ MaxRequests \in Nat /\ MaxParams \in Nat /\ MaxCallbacks \in Nat
    /\ Settable \subseteq [name : Names, type : TypeNames,
                           value : [kind : {"number"}, n : Int] \union
                                   [kind : {"word"}, w : Words]]
    /\ \A p \in Settable : Accepted(p.type, p.value)
    /\ NULL \notin Callbacks \union Names \union Actions \union Nat \union BOOLEAN
    /\ Names \subseteq Words

VARIABLES
  registered,  \* g_hal_functions_list, head first
  store,       \* the vendor's values, by name: a hal_param_t or NULL
  toServer, toClient,  \* messages in flight on each connection
  requests,    \* number of requests sent
  owed,        \* history: identifiers of the requests taken that must be
               \* answered and whose reply has not been read, in order
  applied,     \* history: those whose callback has done all they ask for
  origin       \* history: the hal_param_t a client passed for what is stored

vars == << registered, store, toServer, toClient, requests, owed, applied,
           origin >>

Init ==
    /\ registered = << >>
    /\ store = [x \in Names |-> NULL] /\ origin = [x \in Names |-> NULL]
    /\ toServer = [k \in Conns |-> << >>]
    /\ toClient = [k \in Conns |-> << >>]
    /\ requests = 0
    /\ owed = [k \in Conns |-> << >>]
    /\ applied = {}

-----------------------------------------------------------------------------
(* json_hal_server_register_action_callback. *)

\* get_registered_rpc_action_by_name: the first entry of that name.
Entries(action) == { i \in DOMAIN registered : registered[i].name = action }

Registered(action) ==
    IF Entries(action) = {} THEN NULL ELSE registered[Min(Entries(action))]

\* A name that is in the list already is refused.
Register(action, cb) ==
    /\ Len(registered) < MaxCallbacks
    /\ Entries(action) = {}
    /\ registered' = Append(registered, [name |-> action, cb |-> cb])
    /\ UNCHANGED << store, toServer, toClient, requests, owed, applied, origin >>

-----------------------------------------------------------------------------
(* Requests of the clients. *)

MessageType(action) ==
    CASE action = "getParameters" -> "GET_REQUEST_MESSAGE"
      [] action = "deleteObject"  -> "DELETE_REQUEST_MESSAGE"
      [] action = "setParameters" -> "SET_REQUEST_MESSAGE"

\* json_hal_client_get_request_header: a request for a schema has no params.
Header(id, action) ==
    [id |-> id, action |-> action,
     params |-> IF action = "getSchema" THEN NULL ELSE << >>, given |-> << >>]

\* The request with one more parameter; given is history.
WithParam(request, param) ==
    [request EXCEPT
       !.params = json_hal_add_param(@, MessageType(request.action), param).out,
       !.given = Append(@, param)]

\* The request with the first n of the parameters ps, added one by one.
WithParams(request, ps, n) ==
    LET build[i \in 0 .. n] ==
            IF i = 0 THEN request ELSE WithParam(build[i - 1], ps[i])
    IN  build[n]

\* A parameter that a client passes to json_hal_add_param.
HalParams(action) ==
    IF action = "setParameters" THEN Settable
    ELSE [name : Names, type : {NoType}, value : {Word("")}]

Send(k, request) ==
    /\ requests < MaxRequests
    /\ requests' = requests + 1
    /\ toServer' = [toServer EXCEPT ![k] = Append(@, request)]
    /\ UNCHANGED << registered, store, toClient, owed, applied, origin >>

NextId == requests + 1

\* A request made with the library.
SendSchemaRequest(k) == Send(k, Header(NextId, "getSchema"))

SendRequest(k) ==
    \E action \in Actions \ {"getSchema"}, n \in 1 .. MaxParams :
        \E ps \in [1 .. n -> HalParams(action)] :
            Send(k, WithParams(Header(NextId, action), ps, n))

\* Requests that were not: the reqId or the action is missing ...
SendHeadless(k) ==
    \E id \in {NULL, NextId} :
        Send(k, [Header(id, "getParameters") EXCEPT
                   !.action = IF id = NULL THEN @ ELSE NULL])

\* ... or the last parameter is not one that json_hal_add_param makes.
WithRaw(request, e) ==
    [request EXCEPT !.params = Append(@, e), !.given = Append(@, NULL)]

SendRaw(k) ==
    \E e \in RawElements, n \in 0 .. MaxParams - 1 :
        \E ps \in [1 .. n -> Settable] :
            Send(k, WithRaw(WithParams(Header(NextId, "setParameters"), ps, n), e))

-----------------------------------------------------------------------------
(* Replies. *)

\* create_json_reply_msg.
StatusReply(id, status) ==
    [id |-> id, action |-> "result", params |-> NULL, Result |-> status,
     SchemaInfo |-> NULL, want |-> << >>]

\* prepare_json_response_header: the template for the callback.  An empty
\* object is written << >>.
ReplyHeader(action, id) ==
    CASE action = "getParameters" ->
           [id |-> id, action |-> "getParametersResponse", params |-> << >>,
            Result |-> NULL, SchemaInfo |-> NULL, want |-> << >>]
      [] action = "getSchema" ->
           [id |-> id, action |-> "getSchemaResponse", params |-> NULL,
            Result |-> NULL, SchemaInfo |-> << >>, want |-> << >>]
      [] action \notin {"getParameters", "getSchema"} ->
           [id |-> id, action |-> "result", params |-> NULL,
            Result |-> << >>, SchemaInfo |-> NULL, want |-> << >>]

json_hal_add_result_status(reply, result) == [reply EXCEPT !.Result = result]

json_hal_add_schema_response(reply, path) == [reply EXCEPT !.SchemaInfo = path]

\* json_hal_get_result_status: TRUE, FALSE, or NULL for RETURN_ERR.
json_hal_get_result_status(reply) ==
    IF reply.Result \in {NULL, << >>} THEN NULL ELSE reply.Result = "Success"

\* json_hal_get_total_param_count.
json_hal_get_total_param_count(reply) ==
    IF reply.params = NULL THEN 0 ELSE Len(reply.params)

-----------------------------------------------------------------------------
(* The callbacks: the sample server's for set and delete requests, a       *)
(* vendor's for getParameters and getSchema.                               *)

ParamCount(request) == IF request.params = NULL THEN 0 ELSE Len(request.params)

Unpacked(request, i) ==
    json_hal_get_param(request.params, i, MessageType(request.action))

\* Parameters that can be unpacked before the first that cannot.
GoodParams(request) ==
    Max({ n \in 0 .. ParamCount(request) :
            \A i \in 1 .. n : Unpacked(request, i).rc = "RETURN_OK" })

\* The last of the first n parameters that names x, or 0.
LastOf(request, n, x) ==
    Max({0} \union { i \in 1 .. n : Unpacked(request, i).out.name = x })

\* setparam_rpc_cb and deleteobj_rpc_cb have worked through n parameters; of
\* a list that names x twice the last one counts.
WorkThrough(request, n) ==
    /\ store' = [x \in Names |->
                   LET i == LastOf(request, n, x)
                   IN  IF i = 0 THEN store[x]
                       ELSE IF request.action = "deleteObject" THEN NULL
                       ELSE Unpacked(request, i).out]
    /\ origin' = [x \in Names |->
                   LET i == LastOf(request, n, x)
                   IN  IF i = 0 THEN origin[x]
                       ELSE IF request.action = "deleteObject" THEN NULL
                       ELSE request.given[i]]

\* The text a vendor passes to json_hal_add_param for a stored value: it has
\* to turn the 1 and 0 of json_hal_get_param into words again.
VendorText(param) ==
    IF param.type # "boolean" THEN param.value
    ELSE Word(IF param.value = Number(1) THEN "true" ELSE "false")

\* The reply with the value of x; want is history.
WithValue(reply, x) ==
    [reply EXCEPT
       !.params = json_hal_add_param(@, "GET_RESPONSE_MESSAGE",
                    [store[x] EXCEPT !.value = VendorText(store[x])]).out,
       !.want = Append(@, origin[x])]

\* A vendor's callback for getParameters: it answers with the stored values of
\* all the names asked for.
ValuesReply(request) ==
    LET n == ParamCount(request)
        build[i \in 0 .. n] ==
            IF i = 0 THEN ReplyHeader(request.action, request.id)
            ELSE WithValue(build[i - 1], Unpacked(request, i).out.name)
    IN  build[n]

\* What a callback that returns RETURN_OK has made of its reply.
CallbackReply(request) ==
    LET header == ReplyHeader(request.action, request.id)
    IN  CASE request.action = "getParameters" -> ValuesReply(request)
          [] request.action = "getSchema" ->
               json_hal_add_schema_response(header, "FilePath")
          [] request.action \in {"setParameters", "deleteObject"} ->
               IF ParamCount(request) = 0 THEN header
               ELSE json_hal_add_result_status(header, "Success")

\* The callback can do what it is asked for.
CanDo(request) ==
    /\ request.action # "getSchema" => GoodParams(request) = ParamCount(request)
    /\ request.action = "getParameters" =>
          \A i \in 1 .. ParamCount(request) :
              store[Unpacked(request, i).out.name] # NULL

-----------------------------------------------------------------------------
(* message_process_cb, one message at a time. *)

\* The server works on the first message of connection k.
Takes(k, request) ==
    /\ toServer[k] # << >> /\ request = Head(toServer[k])
    /\ toServer' = [toServer EXCEPT ![k] = Tail(@)]

\* socket_send of a message or two.
Reply(k, replies) ==
    toClient' = [toClient EXCEPT ![k] = @ \o replies]

HasCallback(request) ==
    Registered(request.action) # NULL /\ Registered(request.action).cb # NULL

\* No reqId or no action: the message is skipped without an answer.
Skip(k) ==
    /\ \E request \in {Head(toServer[k])} :
          /\ Takes(k, request)
          /\ request.id = NULL \/ request.action = NULL
    /\ UNCHANGED << registered, store, toClient, requests, owed, applied, origin >>

WellFormed(k, request) ==
    /\ Takes(k, request)
    /\ request.id # NULL /\ request.action # NULL
    /\ owed' = [owed EXCEPT ![k] = Append(@, request.id)]
    /\ UNCHANGED << registered, requests >>

\* Nothing is registered for the action, or a null pointer is.
NotSupported(k) ==
    /\ \E request \in {Head(toServer[k])} :
          /\ WellFormed(k, request)
          /\ ~HasCallback(request)
          /\ Reply(k, << StatusReply(request.id, "Not Supported") >>)
    /\ UNCHANGED << store, applied, origin >>

\* Mutant of CallbackFails: the callback's return value is not looked at, and
\* the reply goes out as the callback left it, with the Success of the first
\* parameters in it.
CallbackFailsUnchecked(k) ==
    \E request \in {Head(toServer[k])} :
        /\ WellFormed(k, request)
        /\ HasCallback(request)
        /\ \E n \in 1 .. GoodParams(request) :
              /\ n < ParamCount(request)
              /\ request.action \in {"setParameters", "deleteObject"}
              /\ WorkThrough(request, n)
        /\ Reply(k, << json_hal_add_result_status(
                         ReplyHeader(request.action, request.id), "Success") >>)
        /\ UNCHANGED applied

\* The callback returns an error: a parameter cannot be unpacked, the platform
\* refuses, or a value cannot be packed.  What it did before stays done.
CallbackFails(k) ==
    \E request \in {Head(toServer[k])} :
        /\ WellFormed(k, request)
        /\ HasCallback(request)
        /\ \E n \in 0 .. GoodParams(request) :
              IF request.action \in {"setParameters", "deleteObject"}
              THEN WorkThrough(request, n)
              ELSE n = 0 /\ UNCHANGED << store, origin >>
        /\ Reply(k, << StatusReply(request.id, "Failed") >>)
        /\ UNCHANGED applied

\* The callback has done its work.
CallbackDone(k, request) ==
    /\ WellFormed(k, request)
    /\ HasCallback(request) /\ CanDo(request)
    /\ IF request.action \in {"setParameters", "deleteObject"}
       THEN WorkThrough(request, ParamCount(request))
       ELSE UNCHANGED << store, origin >>
    /\ applied' = applied \union {request.id}

\* The reply is sent ...
CallbackSucceeds(k) ==
    \E request \in {Head(toServer[k])} :
        /\ CallbackDone(k, request)
        /\ Reply(k, << CallbackReply(request) >>)

\* Mutant of ReplyRejected: the loop does not go on to the next message.
ReplyRejectedFallsThrough(k) ==
    \E request \in {Head(toServer[k])} :
        /\ CallbackDone(k, request)
        /\ Reply(k, << StatusReply(request.id, "Not Supported"),
                       CallbackReply(request) >>)

\* ... or does not pass json_validator_validate_request.
ReplyRejected(k) ==
    \E request \in {Head(toServer[k])} :
        /\ CallbackDone(k, request)
        /\ Reply(k, << StatusReply(request.id, "Not Supported") >>)

\* The client reads a reply.
ReadReply(k) ==
    /\ toClient[k] # << >>
    /\ toClient' = [toClient EXCEPT ![k] = Tail(@)]
    /\ owed' = [owed EXCEPT ![k] = Tail(@)]
    /\ applied' = applied \ {Head(toClient[k]).id}
    /\ UNCHANGED << registered, store, toServer, requests, origin >>

Next ==
    \/ \E action \in Actions, cb \in Callbacks \union {NULL} : Register(action, cb)
    \/ \E k \in Conns :
          \/ SendSchemaRequest(k) \/ SendRequest(k) \/ SendHeadless(k) \/ SendRaw(k)
          \/ /\ toServer[k] # << >>
             /\ \/ Skip(k) \/ NotSupported(k) \/ CallbackFails(k)
                \/ CallbackSucceeds(k) \/ ReplyRejected(k)
          \/ ReadReply(k)

Spec == Init /\ [][Next]_vars

-----------------------------------------------------------------------------
(* Properties *)

\* Every request with a reqId and an action gets exactly one reply, on its own
\* connection and in the order of the requests, whatever its callback does.
OneReplyEach ==
    \A k \in Conns : owed[k] = [i \in DOMAIN toClient[k] |-> toClient[k][i].id]

\* A client that is told Success has had its whole request done by the
\* callback: a request that failed half way is never reported as done.
SuccessMeansDone ==
    \A k \in Conns : \A i \in DOMAIN toClient[k] :
        json_hal_get_result_status(toClient[k][i]) = TRUE
            => toClient[k][i].id \in applied

\* What a client reads in a reply to getParameters is what the last set that
\* got through to the platform was given, for every value that survives the
\* conversions, whoever set it and however many requests came between.
ReadsWhatWasSet ==
    \A k \in Conns : \A i \in DOMAIN toClient[k] :
        LET reply == toClient[k][i]
        IN  \A j \in 1 .. json_hal_get_total_param_count(reply) :
                LET p == reply.want[j]
                IN  p # NULL /\ Survives(p.type, p.value) =>
                      json_hal_get_param(reply.params, j, "GET_RESPONSE_MESSAGE")
                        = OK([p EXCEPT !.value = ReadsAs(p.type, p.value)])
=============================================================================
