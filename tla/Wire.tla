-------------------------------- MODULE Wire --------------------------------
(***************************************************************************)
(* Messages as bytes: a sender in the loop of SendData, the stream, and a  *)
(* receiver that gets some of the bytes with one recv() and takes the JSON *)
(* objects out of its buffer: response_parse_cb on the client,             *)
(* message_process_cb on the server.                                       *)
(*                                                                         *)
(* A byte is known by its message and its position there.  The first byte  *)
(* of a message is its opening brace and the last one the brace that       *)
(* closes it.  The json-c tokener is modelled from how the two callbacks   *)
(* use it: with JSON_TOKENER_ALLOW_TRAILING_CHARS an object may be         *)
(* followed by other text, without it (json-c 0.11) that is an error.      *)
(***************************************************************************)
EXTENDS SendData, Sequences, FiniteSets

CONSTANTS MinLen,      \* shortest message: its two braces
          MaxMessages, \* bound on the messages sent
          BufSize      \* MAX_BUFFER_SIZE

ASSUME WireAssumption ==
    MinLen \in 2 .. MaxLen /\ MaxMessages \in Nat /\ BufSize \in Nat \ {0}

VARIABLES
  receiver,  \* "client" or "server"
  trailing,  \* JSON_TOKENER_ALLOW_TRAILING_CHARS is set
  count,     \* number of the message being sent
  stream,    \* bytes sent and not received
  buffer,    \* the bytes of the last recv(); len in the code is Len(buffer)
  parsing,   \* the callback is in its loop
  start_pos, \* offset of the text that is parsed next
  expected,  \* parse_end_expected: offset behind that text
  begun,     \* offset at which the tokener's unfinished object begins, or -1
  handled    \* numbers of the messages handled, in order

recvVars == << buffer, parsing, start_pos, expected, begun, handled >>
wireVars == << vars, receiver, trailing, count, stream, recvVars >>

InitWire ==
    /\ receiver \in {"client", "server"} /\ trailing \in BOOLEAN
    /\ count = 1 /\ len \in MinLen .. MaxLen
    /\ sent = 0 /\ left = len /\ status = "sending"
    /\ stream = << >> /\ buffer = << >>
    /\ parsing = FALSE /\ start_pos = 0 /\ expected = 0 /\ begun = -1
    /\ handled = << >>

-----------------------------------------------------------------------------
(* The sender. *)

\* The bytes that a step of the send loop has handed over.
NewBytes ==
    [i \in 1 .. (sent' - sent) |->
        [msg |-> count, pos |-> sent + i, last |-> sent + i = len]]

SendStep ==
    /\ Send \/ SendFails \/ Return
    /\ stream' = stream \o NewBytes
    /\ UNCHANGED << receiver, trailing, count, recvVars >>

\* The next call of json_rpc_client_send_data or json_rpc_server_send_data,
\* whatever became of the one before.
NextMessage ==
    /\ status # "sending" /\ count < MaxMessages
    /\ count' = count + 1
    /\ len' \in MinLen .. MaxLen
    /\ sent' = 0 /\ left' = len' /\ status' = "sending"
    /\ UNCHANGED << receiver, trailing, stream, recvVars >>

-----------------------------------------------------------------------------
(* json_tokener_parse_ex. *)

\* The result of parsing: an object that is whole message msg, or none; in
\* both cases the number of bytes used (json_tokener_get_parse_end).
Object(m, used)    == [kind |-> "object", msg |-> m, end |-> used]
Continue(used)     == [kind |-> "continue", msg |-> 0, end |-> used]
Unexpected(used)   == [kind |-> "unexpected", msg |-> 0, end |-> used]
OtherError         == [kind |-> "error", msg |-> 0, end |-> 0]

\* The byte at offset i opens a message.
Opens(i) == buffer[i + 1].pos = 1

\* The offset, up to to, behind the bytes of its message that follow base.
EndOfRun(base, to) ==
    CHOOSE i \in base + 1 .. to :
        /\ \A j \in base .. i - 1 : buffer[j + 1].msg = buffer[base + 1].msg
        /\ i = to \/ buffer[i + 1].msg # buffer[base + 1].msg

\* The outcomes of parsing the text between offsets from and to, where the
\* tokener's object begins at offset base.  An object ends at the first
\* brace that closes its message.  The middle of a message is no JSON text,
\* and the tail of one ends in a brace that closes nothing.  A message that
\* was cut off swallows what follows it, up to a brace it has no place for.
ParseText(base, from, to) ==
    LET m == buffer[base + 1].msg
        stop == EndOfRun(base, to)
        complete == buffer[stop].last
    IN  IF ~Opens(base)
        THEN {OtherError} \union (IF complete THEN {} ELSE {Continue(to - from)})
        ELSE IF complete
        THEN IF stop = to \/ trailing THEN {Object(m, stop - from)}
             ELSE {Unexpected(stop - from)}
        ELSE IF stop = to THEN {Continue(to - from)}
        ELSE {OtherError, Continue(to - from)}
               \union { Unexpected(i - from) :
                          i \in { j \in from .. to - 1 : j >= stop /\ Opens(j) } }

\* json_tokener_parse_ex(tok, &buffer[start_pos], expected - start_pos): an
\* empty text changes nothing; a negative length is refused by newer
\* versions, and taken to mean all of the (null-terminated) text by others.
Parse ==
    LET base == IF begun = -1 THEN start_pos ELSE begun
    IN  CASE expected = start_pos -> {Continue(0)}
          [] expected > start_pos -> ParseText(base, start_pos, expected)
          [] expected < start_pos -> {OtherError} \union
                                     ParseText(base, start_pos, Len(buffer))

-----------------------------------------------------------------------------
(* The receiver. *)

\* recv() and the beginning of the callback.
Recv ==
    /\ ~parsing /\ stream # << >>
    /\ \E n \in 1 .. (IF Len(stream) < BufSize THEN Len(stream) ELSE BufSize) :
          /\ buffer' = SubSeq(stream, 1, n)
          /\ stream' = SubSeq(stream, n + 1, Len(stream))
    /\ parsing' = TRUE
    /\ start_pos' = 0 /\ expected' = Len(buffer') /\ begun' = -1
    /\ UNCHANGED << vars, receiver, trailing, count, handled >>

\* The callback returns and frees its tokener; the offsets die with it.
Returns ==
    parsing' = FALSE /\ start_pos' = 0 /\ expected' = 0 /\ begun' = -1

\* Mutant of GoesOn: parse_end_expected is not set back.
GoesOnShort(result) ==
    LET next == start_pos + result.end
    IN  IF next >= Len(buffer) THEN Returns
        ELSE /\ start_pos' = next
             /\ begun' = -1
             /\ UNCHANGED << parsing, expected >>

\* An object has been handled, or the text has been used up: the loop goes on
\* behind it, with the rest of the buffer.
GoesOn(result) ==
    LET next == start_pos + result.end
    IN  IF next >= Len(buffer) THEN Returns
        ELSE /\ start_pos' = next
             /\ expected' = Len(buffer)
             /\ begun' = IF result.kind = "continue" /\ result.end > 0 /\ begun = -1
                         THEN start_pos
                         ELSE IF result.kind = "continue" THEN begun ELSE -1
             /\ UNCHANGED parsing

\* Mutant of Handle: the loop starts again at the beginning.
HandleAgain ==
    /\ parsing
    /\ \E result \in Parse :
          /\ result.kind = "object"
          /\ handled' = Append(handled, result.msg)
          /\ IF result.end >= Len(buffer) THEN Returns
             ELSE UNCHANGED << parsing, start_pos, expected, begun >>
    /\ UNCHANGED << vars, receiver, trailing, count, stream, buffer >>

\* The text is a message: it is handled.
Handle ==
    /\ parsing
    /\ \E result \in Parse :
          /\ result.kind = "object"
          /\ handled' = Append(handled, result.msg)
          /\ GoesOn(result)
    /\ UNCHANGED << vars, receiver, trailing, count, stream, buffer >>

\* The text ends within a message: json_tokener_continue.
Unfinished ==
    /\ parsing
    /\ \E result \in Parse : result.kind = "continue" /\ GoesOn(result)
    /\ UNCHANGED << vars, receiver, trailing, count, stream, buffer, handled >>

\* Mutant of IsGlued: the client has no branch for glued messages.
NeverGlued(result) == FALSE

\* The client's test for glued messages: an unexpected opening brace within
\* the text.
IsGlued(result) ==
    /\ receiver = "client"
    /\ result.kind = "unexpected"
    /\ LET at == start_pos + result.end
       IN  at < expected /\ Opens(at)

\* response_parse_cb: parse again up to there, with a new tokener.  The
\* offset in the text (from start_pos) is used as an offset in the buffer.
Shorten ==
    /\ parsing
    /\ \E result \in Parse : IsGlued(result) /\ expected' = result.end
    /\ begun' = -1
    /\ UNCHANGED << vars, receiver, trailing, count, stream, buffer, parsing,
                    start_pos, handled >>

\* Any other error: the rest of the buffer is dropped.
Drop ==
    /\ parsing
    /\ \E result \in Parse :
          result.kind \in {"unexpected", "error"} /\ ~IsGlued(result)
    /\ Returns
    /\ UNCHANGED << vars, receiver, trailing, count, stream, buffer, handled >>

ReceiverStep == Handle \/ Unfinished \/ Shorten \/ Drop

NextWire == SendStep \/ NextMessage \/ Recv \/ ReceiverStep

SpecWire == InitWire /\ [][NextWire]_wireVars

\* A callback that has begun goes on.
LiveSpecWire == SpecWire /\ WF_wireVars(ReceiverStep)

-----------------------------------------------------------------------------
(* Properties *)

\* The messages of which the buffer holds a byte.
MessagesIn(b) == { b[i].msg : i \in DOMAIN b }

\* The buffer holds whole messages.
Whole(b) == b # << >> /\ b[1].pos = 1 /\ \A i \in DOMAIN b :
    i = Len(b) \/ b[i + 1].pos = 1 => b[i].last

\* A message of the buffer was cut off and another one follows.
CutOff(b) == \E i \in 1 .. Len(b) - 1 : b[i + 1].pos = 1 /\ ~b[i].last

\* The buffers the callbacks can take apart: any number of messages when the
\* tokener allows trailing text and none is cut off, and otherwise two on the
\* client and one on the server.
Separable(b) ==
    \/ trailing /\ ~CutOff(b)
    \/ Cardinality(MessagesIn(b)) <= (IF receiver = "client" THEN 2 ELSE 1)

\* The server handles the client's requests, and the client the server's
\* messages, in the order they were sent and at most once, however they are
\* cut up by send() and recv().
InOrderOnce ==
    \A i, j \in DOMAIN handled : i < j => handled[i] < handled[j]

\* A callback that returns has handled every message of a buffer of whole
\* messages, if the buffer is one that it can take apart.
AllHandled ==
    [][parsing /\ ~parsing' /\ Whole(buffer) /\ Separable(buffer) =>
          \A m \in MessagesIn(buffer) : \E i \in DOMAIN handled' : handled'[i] = m
      ]_wireVars

\* A callback returns, whatever pieces of messages the buffer holds, if it is
\* one that it can take apart.
ParseReturns == parsing /\ Separable(buffer) ~> ~parsing
=============================================================================
