----------------------------- MODULE RpcPromise -----------------------------
(***************************************************************************)
(* What json_hal_client_send_and_get_reply promises its callers, without   *)
(* list, locks, ticks or sockets: calls in progress carry different        *)
(* request identifiers, each call is resolved exactly once, by the         *)
(* response to its own request or by an error, and it returns what it was  *)
(* resolved with.                                                          *)
(***************************************************************************)
EXTENDS Integers

CONSTANTS Callers, NULL, RequestIds

VARIABLES call,     \* outcome of the call in progress
          request,  \* identifier of the request of the call in progress
          returned  \* outcome of the last call

promiseVars == << call, request, returned >>

NoCall  == << "none", NULL >>
Open    == << "open", NULL >>
Error   == << "err", NULL >>
Ok(n)   == << "ok", n >>

PromiseInit ==
    /\ call = [c \in Callers |-> NoCall]
    /\ request = [c \in Callers |-> NULL]
    /\ returned = [c \in Callers |-> NoCall]

\* The application prepares a new request.
Prepare(c) ==
    /\ call[c] = NoCall
    /\ returned' = [returned EXCEPT ![c] = NoCall]
    /\ UNCHANGED << call, request >>

Begin(c) ==
    /\ call[c] = NoCall
    /\ \E n \in RequestIds :
          /\ \A d \in Callers : request[d] # n
          /\ request' = [request EXCEPT ![c] = n]
    /\ call' = [call EXCEPT ![c] = Open]
    /\ UNCHANGED returned

Resolve(c) ==
    /\ call[c] = Open
    /\ call' = [call EXCEPT ![c] = Ok(request[c])]
       \/ call' = [call EXCEPT ![c] = Error]
    /\ UNCHANGED << request, returned >>

Finish(c) ==
    /\ call[c] \notin {NoCall, Open}
    /\ returned' = [returned EXCEPT ![c] = call[c]]
    /\ call' = [call EXCEPT ![c] = NoCall]
    /\ request' = [request EXCEPT ![c] = NULL]

PromiseNext ==
    \E c \in Callers : Prepare(c) \/ Begin(c) \/ Resolve(c) \/ Finish(c)

PromiseSpec == PromiseInit /\ [][PromiseNext]_promiseVars
=============================================================================
