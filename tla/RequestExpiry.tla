---------------------------- MODULE RequestExpiry ----------------------------
(***************************************************************************)
(* How long a call really waits.  RequestTracking counts a request's life  *)
(* in iterations of the socket thread's loop, as the code does; this       *)
(* module adds two history variables that count it in waits: the           *)
(* iterations that slept through select()'s LOOP_TIMEOUT or connect()'s    *)
(* sleep(1).                                                               *)
(***************************************************************************)
EXTENDS RequestTracking

VARIABLES granted,  \* ticks each call had left when its request was sent
          waited    \* full waits of the socket thread since then

expiryVars == << vars, granted, waited >>

\* The calls that sleep and have not been resolved.
Pending == { c \in Range(tracking) : pc[c] = "wait" }

InitExpiry ==
    /\ Init
    /\ granted = [c \in Callers |-> 0]
    /\ waited = [c \in Callers |-> 0]

Sent(c) == pc[c] = "send" /\ pc'[c] = "wait"
Ended(c) == c \notin Pending'

\* The iterations that sleep.
Waits ==
    /\ SelectTimeout \/ ConnectFails \/ ConnectPending \/ ConnectAborts
    /\ waited' = [c \in Callers |->
                    IF c \in Pending THEN waited[c] + 1 ELSE waited[c]]
    /\ UNCHANGED granted

NoWait ==
    /\ \/ \E c \in Callers : CallerStep(c)
       \/ SocketInit \/ SocketFails \/ Connected \/ Receive \/ EndOfFile \/ RecvFails
       \/ ParseOther \/ ParseResponse \/ SignalResponse
       \/ TickBegin \/ TickAlive \/ TickExpired \/ SignalExpired
       \/ ServerStep
    /\ granted' = [c \in Callers |-> IF Ended(c) THEN 0
                                     ELSE IF Sent(c) THEN ticker[c]
                                     ELSE granted[c]]
    /\ waited' = [c \in Callers |-> IF Ended(c) \/ Sent(c) THEN 0
                                    ELSE waited[c]]

SpecExpiry == InitExpiry /\ [][(Waits \/ NoWait) /\ Undisturbed]_expiryVars

\* The same with the fairness of the threads.
LiveSpecExpiry == SpecExpiry /\ Fairness

\* A call still in the list has been slept through no more often than its ticks
\* allow: the loop takes a tick for every iteration that sleeps, whatever state
\* the connection is in.  The unit is the iteration, a sleep(1) without a
\* connection and a select of 250 ms with one alike: how long a call waits in
\* seconds is not bounded here.
ExpiryNotLate == \A c \in Pending : waited[c] <= granted[c]
=============================================================================
