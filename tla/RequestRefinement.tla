-------------------------- MODULE RequestRefinement --------------------------
(***************************************************************************)
(* RequestTracking implements RpcPromise: the refinement mapping.          *)
(***************************************************************************)
EXTENDS RequestTracking

InCall(c) == pc[c] \notin {"idle", "store", "return", "ready"}

\* A call is resolved from the moment its node has been taken out of the
\* list with an outcome, or its send has failed.
Resolved(c) ==
    \/ pc[c] \in {"fail", "failed", "woken", "reaped"}
    \/ signalled[c]
    \/ AboutToSignal(c)

Outcome(c) ==
    IF rc[c] = "ok" THEN << "ok", buffer[c][1] >> ELSE << "err", NULL >>

\* How the call in progress and its request look to the caller.
CallOf(c) ==
    IF ~InCall(c) THEN << "none", NULL >>
    ELSE IF Resolved(c) THEN Outcome(c) ELSE << "open", NULL >>

RequestOf(c) == IF InCall(c) THEN id[c] ELSE NULL

callMap    == [c \in Callers |-> CallOf(c)]
requestMap == [c \in Callers |-> RequestOf(c)]

Promise == INSTANCE RpcPromise WITH
    RequestIds <- Ids, call <- callMap, request <- requestMap,
    returned <- result

\* Every execution in which no unlocked window is disturbed and recv()
\* returns one message at a time keeps the promise: the calls in progress
\* have different identifiers, each is resolved once, with the response to
\* its own request or an error, and returns that.
KeepsPromise == Promise!PromiseSpec
=============================================================================
