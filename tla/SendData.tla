------------------------------ MODULE SendData ------------------------------
(***************************************************************************)
(* json_rpc_client_send_data and json_rpc_server_send_data: the loop that  *)
(* hands a message to send(), which may accept only part of it.  The loop  *)
(* compares the bytes sent with the bytes LEFT, not with the length of the *)
(* message.                                                                *)
(***************************************************************************)
EXTENDS Integers

CONSTANT MaxLen  \* longest message

ASSUME LengthAssumption == MaxLen \in Nat

VARIABLES len,     \* strlen(buffer)
          sent,    \* total_bytes_sent
          left,    \* total_bytes_left
          status   \* "sending", or what the call has returned

vars == << len, sent, left, status >>

Init ==
    /\ len \in 0 .. MaxLen
    /\ sent = 0 /\ left = len
    /\ status = "sending"

\* Mutant of Send: what is left is not counted down.
SendNotCounted ==
    /\ status = "sending" /\ sent < left
    /\ \E n \in 1 .. left : sent' = sent + n
    /\ UNCHANGED << len, left, status >>

\* send() accepts n of the bytes left.
Send ==
    /\ status = "sending" /\ sent < left
    /\ \E n \in 1 .. left : sent' = sent + n /\ left' = left - n
    /\ UNCHANGED << len, status >>

\* send() returns -1.
SendFails ==
    /\ status = "sending" /\ sent < left
    /\ status' = "err"
    /\ UNCHANGED << len, sent, left >>

Return ==
    /\ status = "sending" /\ ~(sent < left)
    /\ status' = "ok"
    /\ UNCHANGED << len, sent, left >>

Next == Send \/ SendFails \/ Return

Spec == Init /\ [][Next]_vars

-----------------------------------------------------------------------------
(* Properties *)

\* send() is never given bytes beyond the end of the message: what has been
\* sent and what send() is offered next make up the message.
WithinMessage == sent + left = len /\ sent \in 0 .. len /\ left \in 0 .. len

\* "Make sure all the data packet has been successfully send over the
\* socket" (tcp_client.h:63): a call that returns RETURN_OK has sent the
\* whole message.
OkMeansAll == status = "ok" => sent = len
=============================================================================
