------------------------ MODULE RequestTrackingProofs ------------------------
(***************************************************************************)
(* Proofs about RequestTracking for any number of callers, identifiers,    *)
(* ticks, events and disconnections.                                       *)
(***************************************************************************)
EXTENDS RequestTracking, RequestIdProofs

-----------------------------------------------------------------------------
(* The list operations. *)

\* The entries of a list after LL_DELETE of its i-th entry: the ones before
\* it keep their place, the ones behind it move up by one.
LEMMA DeleteEntries ==
    ASSUME NEW S, NEW s \in Seq(S), NEW i \in 1 .. Len(s)
    PROVE  /\ LL_DELETE(s, i) \in Seq(S)
           /\ Len(LL_DELETE(s, i)) = Len(s) - 1
           /\ \A j \in 1 .. (Len(s) - 1) :
                 LL_DELETE(s, i)[j] = IF j < i THEN s[j] ELSE s[j + 1]
<1> DEFINE a == SubSeq(s, 1, i - 1)
           b == SubSeq(s, i + 1, Len(s))
<1>1. /\ a \in Seq(S) /\ Len(a) = i - 1
      /\ \A j \in 1 .. (i - 1) : a[j] = s[j]
    OBVIOUS
<1>2. /\ b \in Seq(S) /\ Len(b) = Len(s) - i
      /\ \A j \in 1 .. (Len(s) - i) : b[j] = s[i + j]
    OBVIOUS
<1> HIDE DEF a, b
<1>3. /\ a \o b \in Seq(S) /\ Len(a \o b) = Len(s) - 1
      /\ \A j \in 1 .. (Len(s) - 1) :
            (a \o b)[j] = IF j < i THEN a[j] ELSE b[j - (i - 1)]
    <2> a \in Seq(S) /\ b \in Seq(S)
        BY <1>1, <1>2
    <2>1. /\ a \o b \in Seq(S) /\ Len(a \o b) = Len(a) + Len(b)
          /\ \A j \in 1 .. (Len(a) + Len(b)) :
                (a \o b)[j] = IF j <= Len(a) THEN a[j] ELSE b[j - Len(a)]
        OBVIOUS
    <2>2. Len(a) + Len(b) = Len(s) - 1
        BY <1>1, <1>2
    <2> QED BY <1>1, <2>1, <2>2
<1>4. ASSUME NEW j \in 1 .. (Len(s) - 1)
      PROVE  (a \o b)[j] = IF j < i THEN s[j] ELSE s[j + 1]
    <2>1. CASE j < i
        BY <1>1, <1>3, <2>1
    <2>2. CASE ~(j < i)
        <3>1. j - (i - 1) \in 1 .. (Len(s) - i) /\ i + (j - (i - 1)) = j + 1
            BY <2>2
        <3> QED BY <1>2, <1>3, <2>2, <3>1
    <2> QED BY <2>1, <2>2
<1> QED BY <1>3, <1>4 DEF LL_DELETE, a, b

\* LL_DELETE of an entry of a list without repetitions removes it, keeps
\* all the others and repeats none.
LEMMA DeleteRange ==
    ASSUME NEW S, NEW s \in Seq(S), NEW i \in DOMAIN s, NoRepeat(s)
    PROVE  /\ LL_DELETE(s, i) \in Seq(S)
           /\ Range(LL_DELETE(s, i)) = Range(s) \ {s[i]}
           /\ NoRepeat(LL_DELETE(s, i))
<1> DEFINE t == LL_DELETE(s, i)
<1>1. /\ t \in Seq(S) /\ DOMAIN t = 1 .. (Len(s) - 1) /\ Len(s) \in Nat
      /\ DOMAIN s = 1 .. Len(s)
      /\ \A j \in DOMAIN t : t[j] = IF j < i THEN s[j] ELSE s[j + 1]
    <2>1. i \in 1 .. Len(s) /\ Len(s) \in Nat /\ DOMAIN s = 1 .. Len(s)
        OBVIOUS
    <2>2. /\ t \in Seq(S) /\ Len(t) = Len(s) - 1
          /\ \A j \in 1 .. (Len(s) - 1) :
                t[j] = IF j < i THEN s[j] ELSE s[j + 1]
        BY <2>1, DeleteEntries
    <2> HIDE DEF t
    <2> QED BY <2>1, <2>2
<1> HIDE DEF t
<1>2. ASSUME NEW j \in DOMAIN t
      PROVE  t[j] \in Range(s) \ {s[i]}
    BY <1>1, <1>2 DEF Range, NoRepeat
<1>3. ASSUME NEW k \in DOMAIN s, k # i
      PROVE  s[k] \in Range(t)
    <2>1. CASE k < i
        BY <1>1, <1>3, <2>1 DEF Range
    <2>2. CASE k > i
        <3>1. k - 1 \in DOMAIN t /\ t[k - 1] = s[k]
            BY <1>1, <1>3, <2>2
        <3> QED BY <3>1 DEF Range
    <2> QED BY <1>1, <1>3, <2>1, <2>2
<1>4. Range(t) = Range(s) \ {s[i]}
    BY <1>2, <1>3 DEF Range
<1>5. NoRepeat(t)
    BY <1>1 DEF NoRepeat
<1> QED BY <1>1, <1>4, <1>5 DEF t

\* LL_APPEND whose walk and store are not disturbed is Append.
LEMMA LinkLast ==
    ASSUME TypeOK, NoRepeat(tracking), NEW c \in Callers
    PROVE  Linked(LastNode, c) = Append(tracking, c)
<1>1. CASE tracking = << >>
    BY <1>1 DEF Linked, LastNode, TypeOK, NodeTypes
<1>2. CASE tracking # << >>
    <2>1. /\ Len(tracking) \in DOMAIN tracking
          /\ LastNode = tracking[Len(tracking)]
          /\ LastNode \in Callers
        BY <1>2 DEF LastNode, TypeOK, NodeTypes
    <2>2. LastNode # NULL /\ LastNode \in Range(tracking)
        BY <2>1, BoundAssumption DEF Range
    <2>3. (CHOOSE i \in DOMAIN tracking : tracking[i] = LastNode)
              = Len(tracking)
        BY <2>1 DEF NoRepeat
    <2>4. SubSeq(tracking, 1, Len(tracking)) = tracking
        BY DEF TypeOK, NodeTypes
    <2> QED BY <2>2, <2>3, <2>4 DEF Linked
<1> QED BY <1>1, <1>2

\* It puts the new node behind all the others.
LEMMA LinkRange ==
    ASSUME TypeOK, NoRepeat(tracking), NEW c \in Callers,
           c \notin Range(tracking)
    PROVE  /\ Linked(LastNode, c) \in Seq(Callers)
           /\ Range(Linked(LastNode, c)) = Range(tracking) \union {c}
           /\ NoRepeat(Linked(LastNode, c))
<1> DEFINE t == Linked(LastNode, c)
<1>1. t = Append(tracking, c)
    BY LinkLast
<1>2. /\ tracking \in Seq(Callers) /\ t \in Seq(Callers)
      /\ DOMAIN t = 1 .. (Len(tracking) + 1)
      /\ t[Len(tracking) + 1] = c
      /\ \A i \in 1 .. Len(tracking) : t[i] = tracking[i]
    BY <1>1 DEF TypeOK, NodeTypes
<1> HIDE DEF t
<1>3. Range(t) = Range(tracking) \union {c}
    BY <1>2 DEF Range
<1>4. NoRepeat(t)
    BY <1>2 DEF NoRepeat, Range
<1> QED BY <1>2, <1>3, <1>4 DEF t

\* The entry behind c is another entry of the list, or there is none.
LEMMA NextInList ==
    ASSUME TypeOK, NEW c \in Callers
    PROVE  Next_of(c) = NULL \/ Next_of(c) \in Range(tracking)
    BY DEF Next_of, Range, TypeOK, NodeTypes

\* In a list without repetitions the entry behind c is not c: the traversal of
\* request_tracking_cb never meets the entry it has just deleted.
LEMMA NextIsOther ==
    ASSUME TypeOK, NoRepeat(tracking), NEW c \in Callers
    PROVE  Next_of(c) # c
<1>1. CASE \E i \in DOMAIN tracking : i > 1 /\ tracking[i - 1] = c
    <2>1. PICK i \in DOMAIN tracking :
              i > 1 /\ tracking[i - 1] = c /\ Next_of(c) = tracking[i]
        BY <1>1 DEF Next_of
    <2>2. i - 1 \in DOMAIN tracking /\ i - 1 # i
        BY <2>1 DEF TypeOK, NodeTypes
    <2> QED BY <2>1, <2>2 DEF NoRepeat
<1>2. CASE ~\E i \in DOMAIN tracking : i > 1 /\ tracking[i - 1] = c
    BY <1>2, BoundAssumption DEF Next_of
<1> QED BY <1>1, <1>2

\* Lists stay lists of nodes, whatever the append found.
LEMMA ListTypes ==
    ASSUME NodeTypes
    PROVE  /\ LastNode \in Callers \union {NULL}
           /\ \A i \in DOMAIN tracking :
                 tracking[i] \in Callers /\ LL_DELETE(tracking, i) \in Seq(Callers)
           /\ \A c \in Callers : Next_of(c) \in Callers \union {NULL}
           /\ \A c \in Callers : \A t : Linked(t, c) \in Seq(Callers)
<1> USE DEF NodeTypes
<1>1. LastNode \in Callers \union {NULL}
    BY DEF LastNode
<1>2. \A i \in DOMAIN tracking :
         tracking[i] \in Callers /\ LL_DELETE(tracking, i) \in Seq(Callers)
    BY DeleteEntries
<1>3. \A c \in Callers : Next_of(c) \in Callers \union {NULL}
    BY DEF Next_of
<1>4. ASSUME NEW c \in Callers, NEW t PROVE Linked(t, c) \in Seq(Callers)
    <2> DEFINE i == CHOOSE i \in DOMAIN tracking : tracking[i] = t
    <2>1. CASE t \in Range(tracking)
        <3>1. i \in 1 .. Len(tracking)
            BY <2>1 DEF Range
        <3> HIDE DEF i
        <3>2. SubSeq(tracking, 1, i) \in Seq(Callers)
            BY <3>1
        <3>3. Append(SubSeq(tracking, 1, i), c) \in Seq(Callers)
            BY <3>2
        <3> QED BY <3>3 DEF Linked, i
    <2> QED BY <2>1 DEF Linked
<1> QED BY <1>1, <1>2, <1>3, <1>4

-----------------------------------------------------------------------------
(* Type correctness, for every execution. *)

\* TypeOK with what it takes to be inductive: the increment of g_req_id
\* stays in range, a resolved node has a buffer, and the socket thread's
\* cursors point at something where they are used.
CallerInv ==
    /\ CallerTypes
    /\ \A c \in Callers : pc[c] \in {"store", "return"} => loaded[c] < LastId
NodeInv ==
    /\ NodeTypes
    /\ \A c \in Callers : rc[c] = "ok" => buffer[c] # << >>
ThreadInv ==
    /\ ThreadTypes
    /\ rpc \in {"parse", "signal"} => pos \in 1 .. Len(recvd)
    /\ rpc \in {"signal", "visit", "expire"} => node \in Callers

TypeInv == CallerInv /\ NodeInv /\ ThreadInv /\ NetTypes

\* The initial state has its types.
LEMMA TypeInit == Init => TypeInv
<1> SUFFICES ASSUME Init PROVE TypeInv
    OBVIOUS
<1> USE IdAssumption, BoundAssumption DEF Init
<1>1. CallerInv
    BY DEF CallerInv, CallerTypes, Ids, Labels
<1>2. NodeInv
    BY DEF NodeInv, NodeTypes
<1>3. ThreadInv
    BY DEF ThreadInv, ThreadTypes
<1>4. NetTypes
    <2>1. open \in BOOLEAN
        OBVIOUS
    <2>2. c2s \in Seq(Ids) /\ s2c \in Seq(Messages)
        OBVIOUS
    <2> QED BY <2>1, <2>2 DEF NetTypes
<1> QED BY <1>1, <1>2, <1>3, <1>4 DEF TypeInv

\* What a step leaves alone keeps its type.
LEMMA TypeFrame ==
    /\ CallerInv /\ UNCHANGED callerVars => CallerInv'
    /\ NodeInv /\ UNCHANGED nodeVars => NodeInv'
    /\ ThreadInv /\ UNCHANGED threadVars => ThreadInv'
    /\ NetTypes /\ UNCHANGED netVars => NetTypes'
<1>1. CallerInv /\ UNCHANGED callerVars => CallerInv'
    BY DEF callerVars, CallerInv, CallerTypes
<1>2. NodeInv /\ UNCHANGED nodeVars => NodeInv'
    BY DEF nodeVars, NodeInv, NodeTypes
<1>3. ThreadInv /\ UNCHANGED threadVars => ThreadInv'
    BY DEF threadVars, ThreadInv, ThreadTypes
<1>4. NetTypes /\ UNCHANGED netVars => NetTypes'
    BY DEF netVars, NetTypes
<1> QED BY <1>1, <1>2, <1>3, <1>4

\* Every step of a caller, of the socket thread and of the server preserves
\* the types.
LEMMA TypeStep == TypeInv /\ [Next]_vars => TypeInv'
<1> SUFFICES ASSUME TypeInv, [Next]_vars PROVE TypeInv'
    OBVIOUS
<1> USE IdAssumption, BoundAssumption, TickAssumption DEF TypeInv
<1>1. ASSUME NEW c \in Callers, HdrLoad(c) PROVE TypeInv'
    <2>1. CallerInv'
        BY <1>1 DEF HdrLoad, CallerInv, CallerTypes, Labels, Ids, GoTo
    <2> QED
        BY <1>1, <2>1, TypeFrame DEF HdrLoad
<1>2. ASSUME NEW c \in Callers, HdrStore(c) PROVE TypeInv'
    <2>1. CallerInv'
        BY <1>2 DEF HdrStore, CallerInv, CallerTypes, Labels, Ids, GoTo
    <2> QED
        BY <1>2, <2>1, TypeFrame DEF HdrStore
<1>3. ASSUME NEW c \in Callers, HdrReturn(c) PROVE TypeInv'
    <2>1. CallerInv'
        BY <1>3 DEF HdrReturn, CallerInv, CallerTypes, Labels, Ids, GoTo
    <2> QED
        BY <1>3, <2>1, TypeFrame DEF HdrReturn
<1>4. ASSUME NEW c \in Callers, Call(c) PROVE TypeInv'
    <2>1. CallerInv'
        BY <1>4 DEF Call, CallerInv, CallerTypes, Labels, Ids, GoTo
    <2>2. NodeInv'
        BY <1>4 DEF Call, NodeInv, NodeTypes
    <2> QED
        BY <1>4, <2>1, <2>2, TypeFrame DEF Call
<1>5. ASSUME NEW c \in Callers, AppendFind(c) PROVE TypeInv'
    <2>1. CallerInv'
        BY <1>5, ListTypes
           DEF AppendFind, CallerInv, CallerTypes, Labels, Ids, GoTo, NodeInv
    <2> QED
        BY <1>5, <2>1, TypeFrame DEF AppendFind
<1>6. ASSUME NEW c \in Callers, AppendLink(c) PROVE TypeInv'
    <2>1. CallerInv'
        BY <1>6 DEF AppendLink, CallerInv, CallerTypes, Labels, Ids, GoTo
    <2>2. NodeInv'
        BY <1>6, ListTypes DEF AppendLink, NodeInv, NodeTypes
    <2> QED
        BY <1>6, <2>1, <2>2, TypeFrame DEF AppendLink
<1>7. ASSUME NEW c \in Callers, SendOk(c) PROVE TypeInv'
    <2>1. CallerInv'
        BY <1>7 DEF SendOk, CallerInv, CallerTypes, Labels, Ids, GoTo
    <2>2. NetTypes'
        <3>1. c2s' \in Seq(Ids)
            BY <1>7 DEF SendOk, NetTypes, CallerInv, CallerTypes
        <3> QED BY <1>7, <3>1 DEF SendOk, NetTypes
    <2> QED
        BY <1>7, <2>1, <2>2, TypeFrame DEF SendOk
<1>8. ASSUME NEW c \in Callers, SendFail(c) PROVE TypeInv'
    <2>1. CallerInv'
        BY <1>8 DEF SendFail, CallerInv, CallerTypes, Labels, Ids, GoTo
    <2> QED
        BY <1>8, <2>1, TypeFrame DEF SendFail
<1>9. ASSUME NEW c \in Callers, Wake(c) PROVE TypeInv'
    <2>1. CallerInv'
        BY <1>9 DEF Wake, CallerInv, CallerTypes, Labels, Ids, GoTo
    <2> QED
        BY <1>9, <2>1, TypeFrame DEF Wake
<1>10. ASSUME NEW c \in Callers, Delete(c) PROVE TypeInv'
    <2>1. CallerInv'
        BY <1>10 DEF Delete, CallerInv, CallerTypes, Labels, Ids, GoTo
    <2>2. NodeInv'
        <3>1. tracking' \in Seq(Callers)
            BY <1>10, ListTypes DEF Delete, NodeInv, NodeTypes
        <3> QED BY <1>10, <3>1 DEF Delete, NodeInv, NodeTypes
    <2> QED
        BY <1>10, <2>1, <2>2, TypeFrame DEF Delete
<1>11. ASSUME NEW c \in Callers, Return(c) PROVE TypeInv'
    <2>1. CallerInv'
        <3>1. rc[c] = "ok" => buffer[c][1] \in Messages
            BY DEF NodeInv, NodeTypes
        <3>2. result' \in [Callers -> {"none", "ok", "err"}
                                       \X (Messages \union {NULL})]
            BY <1>11, <3>1 DEF Return, CallerInv, CallerTypes
        <3> QED BY <1>11, <3>2
               DEF Return, CallerInv, CallerTypes, Labels, GoTo
    <2>2. NodeInv'
        BY <1>11 DEF Return, NodeInv, NodeTypes
    <2> QED
        BY <1>11, <2>1, <2>2, TypeFrame DEF Return
<1>12. CASE SocketInit
    <2>1. ThreadInv'
        BY <1>12 DEF SocketInit, ThreadInv, ThreadTypes
    <2> QED
        BY <1>12, <2>1, TypeFrame DEF SocketInit
<1>33. CASE SocketFails
    <2>1. ThreadInv'
        BY <1>33 DEF SocketFails, ThreadInv, ThreadTypes
    <2> QED
        BY <1>33, <2>1, TypeFrame DEF SocketFails
<1>13. CASE ConnectFails
    <2>1. ThreadInv'
        BY <1>13 DEF ConnectFails, ThreadInv, ThreadTypes
    <2> QED
        BY <1>13, <2>1, TypeFrame DEF ConnectFails
<1>14. CASE Connected
    <2>1. ThreadInv'
        BY <1>14 DEF Connected, ThreadInv, ThreadTypes
    <2>2. NetTypes'
        BY <1>14 DEF Connected, NetTypes
    <2> QED
        BY <1>14, <2>1, <2>2, TypeFrame DEF Connected
<1>31. CASE ConnectPending
    <2>1. ThreadInv'
        BY <1>31 DEF ConnectPending, ThreadInv, ThreadTypes
    <2>2. NetTypes'
        BY <1>31 DEF ConnectPending, NetTypes
    <2> QED
        BY <1>31, <2>1, <2>2, TypeFrame DEF ConnectPending
<1>32. CASE ConnectAborts
    <2>1. ThreadInv'
        BY <1>32 DEF ConnectAborts, ThreadInv, ThreadTypes
    <2>2. NetTypes'
        <3>1. << >> \in Seq(Messages) /\ << >> \in Seq(Ids)
            OBVIOUS
        <3> QED BY <1>32, <3>1 DEF ConnectAborts, NetTypes
    <2> QED
        BY <1>32, <2>1, <2>2, TypeFrame DEF ConnectAborts
<1>15. CASE SelectTimeout
    <2>1. ThreadInv'
        BY <1>15 DEF SelectTimeout, ThreadInv, ThreadTypes
    <2> QED
        BY <1>15, <2>1, TypeFrame DEF SelectTimeout
<1>16. CASE Receive
    <2>1. ThreadInv'
        <3>1. PICK k \in 1 .. MaxGlue : k <= Len(s2c) /\ recvd' = SubSeq(s2c, 1, k)
            BY <1>16 DEF Receive
        <3>2. recvd' \in Seq(Messages) /\ Len(recvd') = k
            BY <3>1 DEF NetTypes
        <3> QED BY <1>16, <3>2 DEF Receive, ThreadInv, ThreadTypes
    <2>2. NetTypes'
        BY <1>16 DEF Receive, NetTypes
    <2> QED
        BY <1>16, <2>1, <2>2, TypeFrame DEF Receive
<1>17. CASE EndOfFile
    <2>1. ThreadInv'
        BY <1>17 DEF EndOfFile, ThreadInv, ThreadTypes
    <2> QED
        BY <1>17, <2>1, TypeFrame DEF EndOfFile
<1>18. CASE RecvFails
    <2>1. ThreadInv'
        BY <1>18 DEF RecvFails, ThreadInv, ThreadTypes
    <2> QED
        BY <1>18, <2>1, TypeFrame DEF RecvFails
<1>19. CASE ParseOther
    <2>1. ThreadInv'
        <3>1. CASE pos < Len(recvd)
            BY <1>19, <3>1 DEF ParseOther, NextMessage, ThreadInv, ThreadTypes
        <3>2. CASE ~(pos < Len(recvd))
            BY <1>19, <3>2 DEF ParseOther, NextMessage, ThreadInv, ThreadTypes
        <3> QED BY <3>1, <3>2
    <2> QED
        BY <1>19, <2>1, TypeFrame DEF ParseOther
<1>20. CASE ParseResponse
    <2>1. NodeInv'
        <3>1. PICK i \in DOMAIN tracking :
                 /\ tracking' = LL_DELETE(tracking, i)
                 /\ buffer' = [buffer EXCEPT ![tracking[i]] = recvd]
                 /\ rc' = [rc EXCEPT ![tracking[i]] = "ok"]
            BY <1>20 DEF ParseResponse
        <3>2. recvd \in Seq(Messages) /\ recvd # << >>
            BY <1>20 DEF ParseResponse, ThreadInv, ThreadTypes
        <3>3. tracking[i] \in Callers /\ tracking' \in Seq(Callers)
            BY <3>1, ListTypes DEF NodeInv
        <3> QED BY <1>20, <3>1, <3>2, <3>3 DEF ParseResponse, NodeInv, NodeTypes
    <2>2. ThreadInv'
        BY <1>20, ListTypes DEF ParseResponse, ThreadInv, ThreadTypes, NodeInv
    <2> QED
        BY <1>20, <2>1, <2>2, TypeFrame DEF ParseResponse
<1>21. CASE SignalResponse
    <2>1. NodeInv'
        BY <1>21 DEF SignalResponse, NodeInv, NodeTypes, SignalNode
    <2>2. ThreadInv'
        <3>1. CASE pos < Len(recvd)
            BY <1>21, <3>1 DEF SignalResponse, NextMessage, ThreadInv, ThreadTypes
        <3>2. CASE ~(pos < Len(recvd))
            BY <1>21, <3>2 DEF SignalResponse, NextMessage, ThreadInv, ThreadTypes
        <3> QED BY <3>1, <3>2
    <2> QED
        BY <1>21, <2>1, <2>2, TypeFrame DEF SignalResponse
<1>22. CASE TickBegin
    <2>1. ThreadInv'
        BY <1>22 DEF TickBegin, ThreadInv, ThreadTypes, NodeInv, NodeTypes
    <2> QED
        BY <1>22, <2>1, TypeFrame DEF TickBegin
<1>23. CASE TickAlive
    <2>1. NodeInv'
        BY <1>23 DEF TickAlive, NodeInv, NodeTypes, ThreadInv
    <2>2. ThreadInv'
        <3>1. node \in Callers /\ Next_of(node) \in Callers \union {NULL}
            BY <1>23, ListTypes DEF TickAlive, ThreadInv, NodeInv
        <3> QED BY <1>23, <3>1 DEF TickAlive, Advance, ThreadInv, ThreadTypes
    <2> QED
        BY <1>23, <2>1, <2>2, TypeFrame DEF TickAlive
<1>24. CASE TickExpired
    <2>1. NodeInv'
        <3>1. tracking' \in Seq(Callers) /\ node \in Callers
            BY <1>24, ListTypes DEF TickExpired, NodeInv, NodeTypes, ThreadInv
        <3> QED BY <1>24, <3>1 DEF TickExpired, NodeInv, NodeTypes
    <2>2. ThreadInv'
        <3>1. node \in Callers /\ Next_of(node) \in Callers \union {NULL}
            BY <1>24, ListTypes DEF TickExpired, ThreadInv, NodeInv
        <3> QED BY <1>24, <3>1 DEF TickExpired, ThreadInv, ThreadTypes
    <2> QED
        BY <1>24, <2>1, <2>2, TypeFrame DEF TickExpired
<1>25. CASE SignalExpired
    <2>1. NodeInv'
        BY <1>25 DEF SignalExpired, NodeInv, NodeTypes, SignalNode
    <2>2. ThreadInv'
        BY <1>25 DEF SignalExpired, ThreadInv, ThreadTypes, Advance
    <2> QED
        BY <1>25, <2>1, <2>2, TypeFrame DEF SignalExpired
<1>26. CASE ServerReply
    <2>1. NetTypes'
        <3>1. c2s' \in Seq(Ids) /\ s2c' \in Seq(Messages)
            BY <1>26 DEF ServerReply, NetTypes, Messages
        <3>2. events' \in 0 .. MaxEvents /\ closes' \in 0 .. MaxCloses
            BY <1>26 DEF ServerReply, NetTypes
        <3>3. open' \in BOOLEAN
            BY <1>26 DEF ServerReply, NetTypes
        <3> QED BY <3>1, <3>2, <3>3 DEF NetTypes
    <2> QED
        BY <1>26, <2>1, TypeFrame DEF ServerReply
<1>27. CASE ServerIgnore
    <2>1. NetTypes'
        BY <1>27 DEF ServerIgnore, NetTypes
    <2> QED
        BY <1>27, <2>1, TypeFrame DEF ServerIgnore
<1>28. CASE ServerEvent
    <2>1. NetTypes'
        <3>1. c2s' \in Seq(Ids) /\ s2c' \in Seq(Messages)
            BY <1>28 DEF ServerEvent, NetTypes, Messages
        <3>2. events' \in 0 .. MaxEvents /\ closes' \in 0 .. MaxCloses
            BY <1>28 DEF ServerEvent, NetTypes
        <3>3. open' \in BOOLEAN
            BY <1>28 DEF ServerEvent, NetTypes
        <3> QED BY <3>1, <3>2, <3>3 DEF NetTypes
    <2> QED
        BY <1>28, <2>1, TypeFrame DEF ServerEvent
<1>29. CASE ServerClose
    <2>1. NetTypes'
        <3>1. c2s' \in Seq(Ids) /\ s2c' \in Seq(Messages)
            <4>1. s2c' = s2c \/ s2c' = << >>
                BY <1>29 DEF ServerClose
            <4>2. << >> \in Seq(Messages) /\ << >> \in Seq(Ids)
                OBVIOUS
            <4> QED BY <1>29, <4>1, <4>2 DEF ServerClose, NetTypes
        <3>2. events' \in 0 .. MaxEvents /\ closes' \in 0 .. MaxCloses
            BY <1>29 DEF ServerClose, NetTypes
        <3>3. open' \in BOOLEAN
            BY <1>29 DEF ServerClose, NetTypes
        <3> QED BY <3>1, <3>2, <3>3 DEF NetTypes
    <2> QED
        BY <1>29, <2>1, TypeFrame DEF ServerClose
<1>30. CASE UNCHANGED vars
    BY <1>30, TypeFrame DEF vars
<1> QED
    BY <1>1, <1>2, <1>3, <1>4, <1>5, <1>6, <1>7, <1>8, <1>9, <1>10, <1>11, <1>12, <1>13, <1>14, <1>15, <1>16, <1>17, <1>18, <1>19, <1>20, <1>21, <1>22, <1>23, <1>24, <1>25, <1>26, <1>27, <1>28, <1>29, <1>30, <1>31, <1>32, <1>33
       DEF Next, CallerStep, ThreadStep, ServerStep

\* TypeOK holds in every state of every execution, disturbed or not.
THEOREM TypeCorrect == Spec => []TypeOK
<1>1. TypeInv => TypeOK
    BY DEF TypeInv, CallerInv, NodeInv, ThreadInv, TypeOK
<1> QED BY TypeInit, TypeStep, <1>1, PTL DEF Spec
-----------------------------------------------------------------------------
(* Safety of the executions in which no unlocked window is disturbed. *)

\* Deleting by sequence number is deleting by identifier.
LEMMA SameSequence ==
    ASSUME NEW m \in Ids, NEW n \in Ids, Sequence(m) = Sequence(n)
    PROVE  m = n
<1>1. m \in Nat /\ n \in Nat /\ m < IdLimit /\ n < IdLimit
    BY IdAssumption, SMT DEF Ids, IdLimit
<1> QED BY <1>1, SequenceInjective, SMT

\* Nothing is in progress initially.
LEMMA SafeInit == Init => SafeInv
<1> SUFFICES ASSUME Init PROVE SafeInv
    OBVIOUS
<1> USE DEF Init
<1>1. WindowInv
    BY DEF WindowInv, Window
<1>2. IdInv
    BY DEF IdInv, HasId
<1>3. ListInv
    BY DEF ListInv, NoRepeat, Range, GlobalLockHeld
<1>4. WaitInv
    BY DEF WaitInv, AboutToSignal
<1> QED BY <1>1, <1>2, <1>3, <1>4 DEF SafeInv

\* Steps that touch neither a caller nor a node, and happen with the list's
\* lock free before and after.
LEMMA SafeFrame ==
    ASSUME SafeInv, UNCHANGED << callerVars, nodeVars, node, tmp >>,
           ~GlobalLockHeld, ~GlobalLockHeld'
    PROVE  SafeInv'
<1> USE DEF callerVars, nodeVars, SafeInv
<1>1. WindowInv'
    BY DEF WindowInv, HasId, LastNode
<1>2. IdInv'
    BY DEF IdInv, HasId
<1>3. ListInv'
    BY DEF ListInv, NoRepeat, GlobalLockHeld, Range
<1>4. WaitInv'
    BY DEF WaitInv, AboutToSignal, GlobalLockHeld, Range
<1> QED BY <1>1, <1>2, <1>3, <1>4

\* Steps of the server touch nothing SafeInv speaks about.
LEMMA SafeSame ==
    ASSUME SafeInv, UNCHANGED << callerVars, nodeVars, threadVars >>
    PROVE  SafeInv'
<1> USE DEF callerVars, nodeVars, threadVars, SafeInv
<1>1. WindowInv'
    BY DEF WindowInv, HasId, LastNode
<1>2. IdInv'
    BY DEF IdInv, HasId
<1>3. ListInv'
    BY DEF ListInv, NoRepeat, GlobalLockHeld, Range
<1>4. WaitInv'
    BY DEF WaitInv, AboutToSignal, Range
<1> QED BY <1>1, <1>2, <1>3, <1>4

\* Every step that leaves the unlocked windows of the other callers alone
\* preserves SafeInv.
LEMMA SafeStep ==
    TypeInv /\ SafeInv /\ [Next /\ Undisturbed]_vars => SafeInv'
<1> SUFFICES ASSUME TypeInv, SafeInv, [Next /\ Undisturbed]_vars PROVE SafeInv'
    OBVIOUS
<1> USE IdAssumption, BoundAssumption
        DEF TypeInv, CallerInv, NodeInv, ThreadInv, SafeInv
<1>1. ASSUME NEW c \in Callers, HdrLoad(c), Undisturbed PROVE SafeInv'
    <2>1. WindowInv'
        BY <1>1 DEF HdrLoad, GoTo, callerVars, nodeVars, CallerTypes, WindowInv, Window, Undisturbed, HasId, LastNode, IdInv, Ids
    <2>2. IdInv'
        BY <1>1 DEF HdrLoad, GoTo, CallerTypes, IdInv, HasId, WindowInv, Ids
    <2>3. ListInv'
        BY <1>1 DEF HdrLoad, GoTo, nodeVars, threadVars, CallerTypes, ListInv, Listed, Range, GlobalLockHeld
    <2>4. WaitInv'
        BY <1>1 DEF HdrLoad, GoTo, nodeVars, threadVars, CallerTypes, WaitInv, AboutToSignal
    <2> QED BY <2>1, <2>2, <2>3, <2>4
<1>2. ASSUME NEW c \in Callers, HdrStore(c), Undisturbed PROVE SafeInv'
    <2>1. WindowInv'
        BY <1>2 DEF HdrStore, GoTo, callerVars, nodeVars, CallerTypes, WindowInv, Window, Undisturbed, HasId, LastNode, IdInv, Ids
    <2>2. IdInv'
        BY <1>2 DEF HdrStore, GoTo, CallerTypes, IdInv, HasId, WindowInv, Ids
    <2>3. ListInv'
        BY <1>2 DEF HdrStore, GoTo, nodeVars, threadVars, CallerTypes, ListInv, Listed, Range, GlobalLockHeld
    <2>4. WaitInv'
        BY <1>2 DEF HdrStore, GoTo, nodeVars, threadVars, CallerTypes, WaitInv, AboutToSignal
    <2> QED BY <2>1, <2>2, <2>3, <2>4
<1>3. ASSUME NEW c \in Callers, HdrReturn(c), Undisturbed PROVE SafeInv'
    <2>1. WindowInv'
        BY <1>3 DEF HdrReturn, GoTo, callerVars, nodeVars, CallerTypes, WindowInv, Window, Undisturbed, HasId, LastNode, IdInv, Ids
    <2>2. IdInv'
        BY <1>3 DEF HdrReturn, GoTo, CallerTypes, IdInv, HasId, WindowInv, Ids
    <2>3. ListInv'
        BY <1>3 DEF HdrReturn, GoTo, nodeVars, threadVars, CallerTypes, ListInv, Listed, Range, GlobalLockHeld
    <2>4. WaitInv'
        BY <1>3 DEF HdrReturn, GoTo, nodeVars, threadVars, CallerTypes, WaitInv, AboutToSignal
    <2> QED BY <2>1, <2>2, <2>3, <2>4
<1>4. ASSUME NEW c \in Callers, Call(c), Undisturbed PROVE SafeInv'
    <2>1. WindowInv'
        BY <1>4 DEF Call, GoTo, callerVars, nodeVars, CallerTypes, WindowInv, Window, Undisturbed, HasId, LastNode, IdInv, Ids
    <2>2. IdInv'
        BY <1>4 DEF Call, GoTo, CallerTypes, IdInv, HasId, WindowInv, Ids
    <2>3. ListInv'
        BY <1>4 DEF Call, GoTo, nodeVars, threadVars, CallerTypes, ListInv, Listed, Range, GlobalLockHeld
    <2>4. WaitInv'
        BY <1>4 DEF Call, GoTo, nodeVars, threadVars, CallerTypes, WaitInv, AboutToSignal
    <2> QED BY <2>1, <2>2, <2>3, <2>4
<1>5. ASSUME NEW c \in Callers, AppendFind(c), Undisturbed PROVE SafeInv'
    <2>1. WindowInv'
        BY <1>5 DEF AppendFind, GoTo, callerVars, nodeVars, CallerTypes, WindowInv, Window, Undisturbed, HasId, LastNode, IdInv, Ids
    <2>2. IdInv'
        BY <1>5 DEF AppendFind, GoTo, CallerTypes, IdInv, HasId, WindowInv, Ids
    <2>3. ListInv'
        BY <1>5 DEF AppendFind, GoTo, nodeVars, threadVars, CallerTypes, ListInv, Listed, Range, GlobalLockHeld
    <2>4. WaitInv'
        BY <1>5 DEF AppendFind, GoTo, nodeVars, threadVars, CallerTypes, WaitInv, AboutToSignal
    <2> QED BY <2>1, <2>2, <2>3, <2>4
<1>6. ASSUME NEW c \in Callers, AppendLink(c), Undisturbed PROVE SafeInv'
    <2>1. WindowInv'
        BY <1>6 DEF AppendLink, GoTo, callerVars, nodeVars, CallerTypes, WindowInv, Window, Undisturbed, HasId, LastNode, IdInv, Ids
    <2>2. IdInv'
        BY <1>6 DEF AppendLink, GoTo, CallerTypes, IdInv, HasId, WindowInv, Ids
    <2>0. /\ Range(tracking') = Range(tracking) \union {c}
          /\ NoRepeat(tracking')
        BY <1>6, LinkRange
           DEF AppendLink, ListInv, Listed, WindowInv, TypeOK
    <2>3. ListInv'
        BY <1>6, <2>0 DEF AppendLink, GoTo, threadVars, CallerTypes, ListInv,
                          Listed, GlobalLockHeld
    <2>4. WaitInv'
        BY <1>6, <2>0 DEF AppendLink, GoTo, threadVars, CallerTypes, WaitInv,
                          AboutToSignal
    <2> QED BY <2>1, <2>2, <2>3, <2>4
<1>7. ASSUME NEW c \in Callers, SendOk(c), Undisturbed PROVE SafeInv'
    <2>1. WindowInv'
        BY <1>7 DEF SendOk, GoTo, callerVars, nodeVars, CallerTypes, WindowInv, Window, Undisturbed, HasId, LastNode, IdInv, Ids
    <2>2. IdInv'
        BY <1>7 DEF SendOk, GoTo, CallerTypes, IdInv, HasId, WindowInv, Ids
    <2>3. ListInv'
        BY <1>7 DEF SendOk, GoTo, nodeVars, threadVars, CallerTypes, ListInv, Listed, Range, GlobalLockHeld
    <2>4. WaitInv'
        BY <1>7 DEF SendOk, GoTo, nodeVars, threadVars, CallerTypes, WaitInv, AboutToSignal
    <2> QED BY <2>1, <2>2, <2>3, <2>4
<1>8. ASSUME NEW c \in Callers, SendFail(c), Undisturbed PROVE SafeInv'
    <2>1. WindowInv'
        BY <1>8 DEF SendFail, GoTo, callerVars, nodeVars, CallerTypes, WindowInv, Window, Undisturbed, HasId, LastNode, IdInv, Ids
    <2>2. IdInv'
        BY <1>8 DEF SendFail, GoTo, CallerTypes, IdInv, HasId, WindowInv, Ids
    <2>3. ListInv'
        BY <1>8 DEF SendFail, GoTo, nodeVars, threadVars, CallerTypes, ListInv, Listed, Range, GlobalLockHeld
    <2>4. WaitInv'
        BY <1>8 DEF SendFail, GoTo, nodeVars, threadVars, CallerTypes, WaitInv, AboutToSignal
    <2> QED BY <2>1, <2>2, <2>3, <2>4
<1>9. ASSUME NEW c \in Callers, Wake(c), Undisturbed PROVE SafeInv'
    <2>1. WindowInv'
        BY <1>9 DEF Wake, GoTo, callerVars, nodeVars, CallerTypes, WindowInv, Window, Undisturbed, HasId, LastNode, IdInv, Ids
    <2>2. IdInv'
        BY <1>9 DEF Wake, GoTo, CallerTypes, IdInv, HasId, WindowInv, Ids
    <2>3. ListInv'
        BY <1>9 DEF Wake, GoTo, nodeVars, threadVars, CallerTypes, ListInv, Listed, Range, GlobalLockHeld
    <2>4. WaitInv'
        BY <1>9 DEF Wake, GoTo, nodeVars, threadVars, CallerTypes, WaitInv, AboutToSignal
    <2> QED BY <2>1, <2>2, <2>3, <2>4
<1>10. ASSUME NEW c \in Callers, Delete(c), Undisturbed PROVE SafeInv'
    <2>1. WindowInv'
        BY <1>10 DEF Delete, GoTo, callerVars, nodeVars, CallerTypes, WindowInv, Window, Undisturbed, HasId, LastNode, IdInv, Ids
    <2>2. IdInv'
        BY <1>10 DEF Delete, GoTo, CallerTypes, IdInv, HasId, WindowInv, Ids
    <2>0. /\ Range(tracking') = Range(tracking) \ {c}
          /\ NoRepeat(tracking')
        <3>1. ASSUME NEW i \in DOMAIN tracking,
                     Sequence(id[tracking[i]]) = Sequence(id[c])
              PROVE  tracking[i] = c
            <4>1. tracking[i] \in Callers /\ tracking[i] \in Range(tracking)
                BY DEF NodeTypes, Range
            <4>2. HasId(tracking[i]) /\ HasId(c)
                BY <1>10, <4>1 DEF ListInv, Listed, HasId, Delete
            <4>3. id[tracking[i]] = id[c]
                BY <3>1, <4>1, SameSequence DEF CallerTypes
            <4> QED BY <4>1, <4>2, <4>3 DEF IdInv
        <3>2. CASE \E i \in DOMAIN tracking :
                      IsMatch(i, id[c]) /\ tracking' = LL_DELETE(tracking, i)
            <4>1. PICK i \in DOMAIN tracking :
                      tracking[i] = c /\ tracking' = LL_DELETE(tracking, i)
                BY <3>1, <3>2 DEF IsMatch
            <4> QED BY <4>1, DeleteRange DEF ListInv, NodeTypes
        <3>3. CASE NoMatch(id[c]) /\ tracking' = tracking
            BY <3>3 DEF NoMatch, Range, ListInv
        <3> QED BY <1>10, <3>2, <3>3 DEF Delete
    <2>3. ListInv'
        BY <1>10, <2>0 DEF Delete, GoTo, threadVars, CallerTypes, ListInv,
                           Listed, GlobalLockHeld
    <2>4. WaitInv'
        BY <1>10, <2>0 DEF Delete, GoTo, threadVars, CallerTypes, WaitInv,
                           AboutToSignal, GlobalLockHeld
    <2> QED BY <2>1, <2>2, <2>3, <2>4
<1>11. ASSUME NEW c \in Callers, Return(c), Undisturbed PROVE SafeInv'
    <2>1. WindowInv'
        BY <1>11 DEF Return, GoTo, callerVars, nodeVars, CallerTypes, WindowInv, Window, Undisturbed, HasId, LastNode, IdInv, Ids
    <2>2. IdInv'
        BY <1>11 DEF Return, GoTo, CallerTypes, IdInv, HasId, WindowInv, Ids
    <2>3. ListInv'
        BY <1>11 DEF Return, GoTo, nodeVars, threadVars, CallerTypes, ListInv, Listed, Range, GlobalLockHeld
    <2>4. WaitInv'
        BY <1>11 DEF Return, GoTo, threadVars, CallerTypes, NodeTypes,
                     WaitInv, AboutToSignal
    <2> QED BY <2>1, <2>2, <2>3, <2>4
<1>12. ASSUME ParseResponse, Undisturbed PROVE SafeInv'
    <2>1. WindowInv'
        BY <1>12 DEF ParseResponse, callerVars, WindowInv, Window, Undisturbed, HasId
    <2>2. IdInv'
        BY <1>12 DEF ParseResponse, callerVars, IdInv, HasId
    <2>0. /\ node' \in Range(tracking) /\ node' \in Callers
          /\ Range(tracking') = Range(tracking) \ {node'}
          /\ NoRepeat(tracking')
        <3>1. PICK i \in DOMAIN tracking :
                  node' = tracking[i] /\ tracking' = LL_DELETE(tracking, i)
            BY <1>12 DEF ParseResponse
        <3>2. node' \in Range(tracking) /\ node' \in Callers
            BY <3>1 DEF Range, NodeTypes
        <3> QED BY <3>1, <3>2, DeleteRange DEF ListInv, NodeTypes
    <2>3. ListInv'
        BY <1>12, <2>0 DEF ParseResponse, callerVars, ListInv, GlobalLockHeld
    <2>4. WaitInv'
        BY <1>12, <2>0 DEF ParseResponse, callerVars, WaitInv, AboutToSignal
    <2> QED BY <2>1, <2>2, <2>3, <2>4
<1>13. ASSUME SignalResponse, Undisturbed PROVE SafeInv'
    <2>1. WindowInv'
        BY <1>13 DEF SignalResponse, callerVars, WindowInv, Window, Undisturbed, HasId
    <2>2. IdInv'
        BY <1>13 DEF SignalResponse, callerVars, IdInv, HasId
    <2>0. /\ node \in Callers /\ pc[node] \in Listed \ {"send"}
          /\ node \notin Range(tracking)
          /\ signalled' = [signalled EXCEPT ![node] = (pc[node] = "wait")]
          /\ tracking' = tracking
        BY <1>13 DEF SignalResponse, SignalNode, HoldsRpcLock, ListInv, Listed
    <2>3. ListInv'
        BY <1>13, <2>0 DEF SignalResponse, NextMessage, callerVars, ListInv,
                           GlobalLockHeld
    <2>4. WaitInv'
        <3>1. ~\E d \in Callers : AboutToSignal(d)'
            BY <1>13 DEF SignalResponse, NextMessage, AboutToSignal
        <3>2. \A d \in Callers : AboutToSignal(d) => d = node
            BY DEF AboutToSignal
        <3>3. \A d \in Callers :
                 signalled'[d] = IF d = node THEN (pc[node] = "wait")
                                             ELSE signalled[d]
            BY <2>0, Zenon DEF NodeTypes
        <3>4. pc' = pc
            BY <1>13 DEF SignalResponse, callerVars
        <3>5. \A d \in Callers : pc[d] \in {"send", "wait"} =>
                 d \in Range(tracking) \/ signalled'[d]
            BY <2>0, <3>2, <3>3 DEF WaitInv, Listed
        <3>6. \A d \in Callers : signalled'[d] =>
                 d \notin Range(tracking) /\ pc[d] \in {"wait", "woken", "reaped"}
            BY <2>0, <3>3 DEF WaitInv
        <3>7. \A d \in Callers : pc[d] \in {"woken", "reaped"} =>
                 signalled'[d] \/ Spurious
            BY <2>0, <3>3, <1>13 DEF WaitInv, AboutToSignal, SignalResponse
        <3> QED BY <2>0, <3>1, <3>4, <3>5, <3>6, <3>7 DEF WaitInv
    <2> QED BY <2>1, <2>2, <2>3, <2>4
<1>14. ASSUME TickBegin, Undisturbed PROVE SafeInv'
    <2>1. WindowInv'
        BY <1>14 DEF TickBegin, callerVars, WindowInv, Window, Undisturbed, HasId
    <2>2. IdInv'
        BY <1>14 DEF TickBegin, callerVars, IdInv, HasId
    <2>3. ListInv'
        BY <1>14 DEF TickBegin, callerVars, nodeVars, ListInv, GlobalLockHeld,
                     Range, NodeTypes
    <2>4. WaitInv'
        BY <1>14 DEF TickBegin, callerVars, nodeVars, WaitInv, AboutToSignal
    <2> QED BY <2>1, <2>2, <2>3, <2>4
<1>15. ASSUME TickAlive, Undisturbed PROVE SafeInv'
    <2>1. WindowInv'
        BY <1>15 DEF TickAlive, callerVars, WindowInv, Window, Undisturbed, HasId
    <2>2. IdInv'
        BY <1>15 DEF TickAlive, callerVars, IdInv, HasId
    <2>0. Next_of(node) = NULL \/ Next_of(node) \in Range(tracking)
        BY <1>15, NextInList DEF TickAlive, TypeOK
    <2>3. ListInv'
        BY <1>15, <2>0 DEF TickAlive, Advance, callerVars, ListInv,
                           GlobalLockHeld
    <2>4. WaitInv'
        BY <1>15 DEF TickAlive, Advance, callerVars, WaitInv, AboutToSignal
    <2> QED BY <2>1, <2>2, <2>3, <2>4
<1>16. ASSUME TickExpired, Undisturbed PROVE SafeInv'
    <2>1. WindowInv'
        BY <1>16 DEF TickExpired, callerVars, WindowInv, Window, Undisturbed, HasId
    <2>2. IdInv'
        BY <1>16 DEF TickExpired, callerVars, IdInv, HasId
    <2>0. /\ node \in Range(tracking) /\ node \in Callers
          /\ Range(tracking') = Range(tracking) \ {node}
          /\ NoRepeat(tracking')
        <3>1. node \in Range(tracking) /\ node \in Callers
            BY <1>16 DEF TickExpired, ListInv
        <3>2. PICK i \in DOMAIN tracking :
                  node = tracking[i] /\ tracking' = LL_DELETE(tracking, i)
            BY <1>16, <3>1 DEF TickExpired
        <3> QED BY <3>1, <3>2, DeleteRange DEF ListInv, NodeTypes
    <2>5. tmp' = NULL \/ tmp' \in Range(tracking) \ {node}
        BY <1>16, <2>0, NextInList, NextIsOther DEF TickExpired, TypeOK, ListInv
    <2>3. ListInv'
        BY <1>16, <2>0, <2>5 DEF TickExpired, callerVars, ListInv, GlobalLockHeld
    <2>4. WaitInv'
        BY <1>16, <2>0 DEF TickExpired, callerVars, WaitInv, AboutToSignal
    <2> QED BY <2>1, <2>2, <2>3, <2>4
<1>17. ASSUME SignalExpired, Undisturbed PROVE SafeInv'
    <2>1. WindowInv'
        BY <1>17 DEF SignalExpired, callerVars, WindowInv, Window, Undisturbed, HasId
    <2>2. IdInv'
        BY <1>17 DEF SignalExpired, callerVars, IdInv, HasId
    <2>0. /\ node \in Callers /\ pc[node] \in Listed \ {"send"}
          /\ node \notin Range(tracking)
          /\ signalled' = [signalled EXCEPT ![node] = (pc[node] = "wait")]
          /\ tracking' = tracking
        BY <1>17 DEF SignalExpired, SignalNode, HoldsRpcLock, ListInv, Listed
    <2>3. ListInv'
        BY <1>17, <2>0 DEF SignalExpired, Advance, callerVars, ListInv,
                           GlobalLockHeld
    <2>4. WaitInv'
        <3>1. ~\E d \in Callers : AboutToSignal(d)'
            BY <1>17 DEF SignalExpired, Advance, AboutToSignal
        <3>2. \A d \in Callers : AboutToSignal(d) => d = node
            BY DEF AboutToSignal
        <3>3. \A d \in Callers :
                 signalled'[d] = IF d = node THEN (pc[node] = "wait")
                                             ELSE signalled[d]
            BY <2>0, Zenon DEF NodeTypes
        <3>4. pc' = pc
            BY <1>17 DEF SignalExpired, callerVars
        <3>5. \A d \in Callers : pc[d] \in {"send", "wait"} =>
                 d \in Range(tracking) \/ signalled'[d]
            BY <2>0, <3>2, <3>3 DEF WaitInv, Listed
        <3>6. \A d \in Callers : signalled'[d] =>
                 d \notin Range(tracking) /\ pc[d] \in {"wait", "woken", "reaped"}
            BY <2>0, <3>3 DEF WaitInv
        <3>7. \A d \in Callers : pc[d] \in {"woken", "reaped"} =>
                 signalled'[d] \/ Spurious
            BY <2>0, <3>3, <1>17 DEF WaitInv, AboutToSignal, SignalExpired
        <3> QED BY <2>0, <3>1, <3>4, <3>5, <3>6, <3>7 DEF WaitInv
    <2> QED BY <2>1, <2>2, <2>3, <2>4
<1>18. CASE SocketInit
    BY <1>18, SafeFrame DEF SocketInit, GlobalLockHeld
<1>33. CASE SocketFails
    BY <1>33, SafeFrame DEF SocketFails, GlobalLockHeld
<1>19. CASE ConnectFails
    BY <1>19, SafeFrame DEF ConnectFails, GlobalLockHeld
<1>20. CASE Connected
    BY <1>20, SafeFrame DEF Connected, GlobalLockHeld
<1>31. CASE ConnectPending
    BY <1>31, SafeFrame DEF ConnectPending, GlobalLockHeld
<1>32. CASE ConnectAborts
    BY <1>32, SafeFrame DEF ConnectAborts, GlobalLockHeld
<1>21. CASE SelectTimeout
    BY <1>21, SafeFrame DEF SelectTimeout, GlobalLockHeld
<1>22. CASE Receive
    BY <1>22, SafeFrame DEF Receive, GlobalLockHeld
<1>23. CASE EndOfFile
    BY <1>23, SafeFrame DEF EndOfFile, GlobalLockHeld
<1>24. CASE RecvFails
    BY <1>24, SafeFrame DEF RecvFails, GlobalLockHeld
<1>25. CASE ParseOther
    BY <1>25, SafeFrame DEF ParseOther, NextMessage, GlobalLockHeld
<1>26. CASE ServerReply
    BY <1>26, SafeSame DEF ServerReply
<1>27. CASE ServerIgnore
    BY <1>27, SafeSame DEF ServerIgnore
<1>28. CASE ServerEvent
    BY <1>28, SafeSame DEF ServerEvent
<1>29. CASE ServerClose
    BY <1>29, SafeSame DEF ServerClose
<1>30. CASE UNCHANGED vars
    BY <1>30, SafeSame DEF vars
<1> QED
    BY <1>1, <1>2, <1>3, <1>4, <1>5, <1>6, <1>7, <1>8, <1>9, <1>10, <1>11, <1>12, <1>13, <1>14, <1>15, <1>16, <1>17, <1>18, <1>19, <1>20, <1>21, <1>22, <1>23, <1>24, <1>25, <1>26, <1>27, <1>28, <1>29, <1>30, <1>31, <1>32, <1>33
       DEF Next, CallerStep, ThreadStep, ServerStep

\* SafeInv, with the types, holds in every state of every execution in
\* which no unlocked window is disturbed.
LEMMA Safety == SpecUndisturbed => [](TypeInv /\ SafeInv)
<1>1. Init => TypeInv /\ SafeInv
    BY TypeInit, SafeInit
<1>2. TypeInv /\ SafeInv /\ [Next /\ Undisturbed]_vars => (TypeInv /\ SafeInv)'
    BY TypeStep, SafeStep
<1> QED BY <1>1, <1>2, PTL DEF SpecUndisturbed

\* Wherever nobody disturbs an unlocked window, a call's node is listed once,
\* under an identifier of its own, until exactly one of answer, expiry and
\* deletion takes it out.
THEOREM SafetyHolds == SpecUndisturbed => []SafeInv
    BY Safety, PTL

\* No wakeup is lost: a caller asleep in pthread_cond_wait is in the list,
\* signalled, or about to be signalled.
THEOREM WakeupNotLost == SpecUndisturbed => []NoLostWakeup
<1>1. SafeInv => NoLostWakeup
    BY DEF SafeInv, WaitInv, NoLostWakeup
<1> QED BY Safety, <1>1, PTL

\* The list and the socket thread's cursors never reach a freed node, with
\* failed sends, lost answers, disconnections and spurious wakeups.
THEOREM NothingDangles == SpecUndisturbed => []NoDangling
<1>1. TypeInv /\ SafeInv => NoDangling
    <2> SUFFICES ASSUME TypeInv, SafeInv PROVE NoDangling
        OBVIOUS
    <2> USE DEF TypeInv, SafeInv, ListInv, Listed, Allocated, HoldsRpcLock
    <2>1. \A c \in Range(tracking) : Allocated(c)
        OBVIOUS
    <2>2. node # NULL => Allocated(node)
        BY <2>1 DEF GlobalLockHeld
    <2>3. \A i \in DOMAIN tracking : Allocated(tracking[i])
        BY <2>1 DEF Range
    <2> QED BY <2>1, <2>2, <2>3 DEF NoDangling
<1> QED BY Safety, <1>1, PTL

\* An answer and an expiry never both resolve the same call.
THEOREM ResolvedOnceTheorem == SpecUndisturbed => ResolvedOnce
<1> DEFINE Once == \A c \in Callers :
          Allocated(c) /\ (signalled[c] \/ AboutToSignal(c)) /\ rc'[c] # rc[c]
             => ~Allocated(c)'
<1>1. TypeInv /\ SafeInv /\ [Next /\ Undisturbed]_vars => [Once]_vars
    <2> SUFFICES ASSUME TypeInv, SafeInv, Next, NEW c \in Callers,
                        Allocated(c), signalled[c] \/ AboutToSignal(c),
                        rc'[c] # rc[c]
                 PROVE  ~Allocated(c)'
        OBVIOUS
    <2> USE DEF TypeInv, NodeInv, NodeTypes
    <2>1. c \notin Range(tracking)
        BY DEF SafeInv, ListInv, WaitInv, AboutToSignal
    <2>2. ASSUME NEW d \in Callers, CallerStep(d) PROVE ~Allocated(c)'
        <3>1. CASE Call(d)
            BY <3>1 DEF Call, Allocated, HoldsRpcLock
        <3>2. CASE Return(d)
            BY <3>2 DEF Return, GoTo, CallerInv, CallerTypes, Allocated,
                        HoldsRpcLock
        <3> QED BY <2>2, <3>1, <3>2
               DEF CallerStep, HdrLoad, HdrStore, HdrReturn, AppendFind,
                   AppendLink, SendOk, SendFail, Wake, Delete, nodeVars
    <2>3. CASE ThreadStep
        <3>1. CASE ParseResponse
            BY <2>1, <3>1 DEF ParseResponse, Range
        <3>2. CASE TickExpired
            <4>1. c # node
                BY <2>1, <3>2 DEF TickExpired, SafeInv, ListInv
            <4> QED BY <3>2, <4>1 DEF TickExpired
        <3> QED BY <2>3, <3>1, <3>2
               DEF ThreadStep, SocketInit, SocketFails, ConnectFails, ConnectPending,
                   ConnectAborts, Connected,
                   SelectTimeout, Receive, EndOfFile, RecvFails, ParseOther,
                   SignalResponse, TickBegin, TickAlive, SignalExpired,
                   nodeVars
    <2>4. CASE ServerStep
        BY <2>4 DEF ServerStep, ServerReply, ServerIgnore, ServerEvent,
                    ServerClose, nodeVars
    <2> QED BY <2>2, <2>3, <2>4 DEF Next
<1> QED BY Safety, <1>1, PTL DEF SpecUndisturbed, ResolvedOnce
-----------------------------------------------------------------------------
(* Replies reach the call that asked for them. *)

\* A node resolved with RETURN_OK belongs to a call in progress and its
\* buffer starts with the response to that call.
ReplyInv ==
    /\ rpc \in {"parse", "signal"} => Len(recvd) = 1
    /\ \A c \in Callers : rc[c] = "ok" =>
          buffer[c][1] = id[c] /\ pc[c] \in Listed \union {"failed", "reaped"}
    /\ \A c \in Callers : result[c][1] # "none" => pc[c] = "idle"
    /\ ReplyMatches

\* No call has an outcome initially.
LEMMA ReplyInit == Init => ReplyInv
    BY DEF Init, ReplyInv, ReplyMatches

\* Every step preserves ReplyInv when recv() returns one message at a time.
LEMMA ReplyStep ==
    ASSUME MaxGlue = 1
    PROVE  TypeInv /\ SafeInv /\ ReplyInv /\ [Next]_vars => ReplyInv'
<1> SUFFICES ASSUME TypeInv, SafeInv, ReplyInv, [Next]_vars PROVE ReplyInv'
    OBVIOUS
<1> USE DEF TypeInv, ReplyInv, ReplyMatches
<1>1. ASSUME NEW c \in Callers, CallerStep(c) PROVE ReplyInv'
    <2> USE DEF GoTo, CallerInv, CallerTypes, NodeInv, NodeTypes, threadVars,
                Listed
    <2>1. CASE HdrLoad(c)
        BY <2>1 DEF HdrLoad, nodeVars
    <2>2. CASE HdrStore(c)
        BY <2>2 DEF HdrStore, nodeVars
    <2>3. CASE HdrReturn(c)
        BY <2>3 DEF HdrReturn, nodeVars
    <2>4. CASE Call(c)
        BY <2>4 DEF Call
    <2>5. CASE AppendFind(c)
        BY <2>5 DEF AppendFind, nodeVars
    <2>6. CASE AppendLink(c)
        BY <2>6 DEF AppendLink
    <2>7. CASE SendOk(c)
        BY <2>7 DEF SendOk, nodeVars
    <2>8. CASE SendFail(c)
        BY <2>8 DEF SendFail, nodeVars
    <2>9. CASE Wake(c)
        BY <2>9 DEF Wake, nodeVars
    <2>10. CASE Delete(c)
        BY <2>10 DEF Delete
    <2>11. CASE Return(c)
        BY <2>11 DEF Return
    <2> QED BY <1>1, <2>1, <2>2, <2>3, <2>4, <2>5, <2>6, <2>7, <2>8, <2>9,
               <2>10, <2>11 DEF CallerStep
<1>2. CASE ThreadStep
    <2> USE DEF callerVars
    <2>1. CASE Receive
        <3>1. Len(recvd') = 1
            BY <2>1 DEF Receive, NetTypes
        <3> QED BY <2>1, <3>1 DEF Receive, nodeVars
    <2>2. CASE ParseOther
        BY <2>2 DEF ParseOther, NextMessage, nodeVars, ThreadInv
    <2>3. CASE SignalResponse
        BY <2>3 DEF SignalResponse, NextMessage, ThreadInv
    <2>4. CASE ParseResponse
        <3>1. PICK i \in DOMAIN tracking :
                 /\ IsMatch(i, recvd[pos])
                 /\ buffer' = [buffer EXCEPT ![tracking[i]] = recvd]
                 /\ rc' = [rc EXCEPT ![tracking[i]] = "ok"]
            BY <2>4 DEF ParseResponse
        <3>2. tracking[i] \in Callers /\ tracking[i] \in Range(tracking)
            BY DEF NodeInv, NodeTypes, Range
        <3>3. pos = 1 /\ recvd[1] \in Ids
            <4>1. /\ Len(recvd) = 1 /\ pos \in 1 .. Len(recvd)
                  /\ recvd \in Seq(Messages) /\ recvd[pos] # Event
                BY <2>4 DEF ParseResponse, ThreadInv, ThreadTypes
            <4>2. pos = 1
                BY <4>1
            <4>3. recvd[1] \in Messages
                BY <4>1
            <4> QED BY <4>1, <4>2, <4>3 DEF Messages
        <3>4. id[tracking[i]] = recvd[1]
            BY <3>1, <3>2, <3>3, SameSequence
               DEF IsMatch, CallerInv, CallerTypes
        <3>5. pc[tracking[i]] \in Listed
            BY <3>2 DEF SafeInv, ListInv
        <3> QED BY <2>4, <3>1, <3>2, <3>4, <3>5
               DEF ParseResponse, NodeInv, NodeTypes
    <2>5. CASE TickExpired
        BY <2>5 DEF TickExpired, NodeInv, NodeTypes
    <2> QED BY <1>2, <2>1, <2>2, <2>3, <2>4, <2>5
           DEF ThreadStep, SocketInit, SocketFails, ConnectFails, ConnectPending,
               ConnectAborts, Connected, SelectTimeout,
               EndOfFile, RecvFails, TickBegin, TickAlive, SignalExpired,
               Advance, nodeVars
<1>3. CASE ServerStep
    BY <1>3 DEF ServerStep, ServerReply, ServerIgnore, ServerEvent,
                ServerClose, callerVars, nodeVars, threadVars
<1>4. CASE UNCHANGED vars
    BY <1>4 DEF vars, callerVars, nodeVars, threadVars
<1> QED BY <1>1, <1>2, <1>3, <1>4 DEF Next

\* When recv() returns one message at a time, a call that returns RETURN_OK
\* returns the response to its own request, however late, lost or
\* unsolicited messages and expiries are interleaved.
THEOREM RepliesMatch ==
    ASSUME MaxGlue = 1 PROVE SpecUndisturbed => []ReplyMatches
<1>1. ReplyInv => ReplyMatches
    BY DEF ReplyInv
<1>2. TypeInv /\ SafeInv /\ ReplyInv /\ [Next /\ Undisturbed]_vars => ReplyInv'
    BY ReplyStep
<1> QED BY Safety, ReplyInit, <1>1, <1>2, PTL DEF SpecUndisturbed

\* An expired call has used up its ticks and an answered one has its rc; a
\* call under way has no outcome yet.
ExpiredInv ==
    /\ rpc = "signal" => rc[node] = "ok"
    /\ rpc = "expire" => ticker[node] <= 0
    /\ \A c \in Callers : signalled[c] /\ rc[c] = "err" => ticker[c] <= 0
    /\ \A c \in Callers : result[c][1] # "none" => pc[c] = "idle"

\* Every step preserves it.
LEMMA ExpiredStep ==
    TypeInv /\ SafeInv /\ ExpiredInv /\ [Next]_vars => ExpiredInv'
<1> SUFFICES ASSUME TypeInv, SafeInv, ExpiredInv, [Next]_vars PROVE ExpiredInv'
    OBVIOUS
<1> USE DEF TypeInv, ExpiredInv, CallerInv, CallerTypes, NodeInv, NodeTypes
<1>1. ASSUME NEW c \in Callers, CallerStep(c) PROVE ExpiredInv'
    <2> USE DEF GoTo, threadVars, ThreadInv, ThreadTypes
    <2>1. CASE HdrLoad(c)
        BY <2>1 DEF HdrLoad, nodeVars
    <2>1a. CASE HdrStore(c) \/ HdrReturn(c)
        BY <2>1a DEF HdrStore, HdrReturn, nodeVars
    <2>2. CASE Call(c)
        <3>1. ~signalled[c] /\ (rpc \in {"signal", "expire"} => node # c)
            BY <2>2 DEF Call, SafeInv, ListInv, WaitInv, Listed
        <3> QED BY <2>2, <3>1 DEF Call
    <2>3. CASE AppendFind(c) \/ AppendLink(c)
        BY <2>3 DEF AppendFind, AppendLink, nodeVars
    <2>4. CASE SendOk(c) \/ SendFail(c) \/ Wake(c)
        BY <2>4 DEF SendOk, SendFail, Wake, nodeVars
    <2>5. CASE Delete(c)
        BY <2>5 DEF Delete
    <2>6. CASE Return(c)
        <3>1. rpc \in {"signal", "expire"} => node # c
            BY <2>6 DEF Return, SafeInv, ListInv, Listed
        <3> QED BY <2>6, <3>1 DEF Return
    <2> QED BY <1>1, <2>1, <2>1a, <2>2, <2>3, <2>4, <2>5, <2>6 DEF CallerStep
<1>2. CASE ThreadStep
    <2> USE DEF callerVars
    <2>1. CASE ParseOther
        BY <2>1 DEF ParseOther, NextMessage, nodeVars
    <2>2. CASE ParseResponse
        <3>1. PICK i \in DOMAIN tracking :
                 /\ node' = tracking[i]
                 /\ rc' = [rc EXCEPT ![tracking[i]] = "ok"]
            BY <2>2 DEF ParseResponse
        <3>2. tracking[i] \in Callers
            OBVIOUS
        <3> QED BY <2>2, <3>1, <3>2 DEF ParseResponse
    <2>3. CASE SignalResponse
        <3>1. node \in Callers /\ rc[node] = "ok"
            BY <2>3 DEF SignalResponse, ThreadInv, ThreadTypes
        <3> QED BY <2>3, <3>1 DEF SignalResponse, SignalNode, NextMessage
    <2>4. CASE TickBegin
        BY <2>4 DEF TickBegin, nodeVars
    <2>5. CASE TickAlive
        <3>1. node \in Callers
            BY <2>5 DEF TickAlive, ThreadInv, ThreadTypes
        <3> QED BY <2>5, <3>1 DEF TickAlive, Advance
    <2>6. CASE TickExpired
        <3>1. node \in Callers
            BY <2>6 DEF TickExpired, ThreadInv, ThreadTypes
        <3> QED BY <2>6, <3>1 DEF TickExpired
    <2>7. CASE SignalExpired
        <3>1. node \in Callers /\ ticker[node] <= 0
            BY <2>7 DEF SignalExpired, ThreadInv, ThreadTypes
        <3> QED BY <2>7, <3>1 DEF SignalExpired, SignalNode, Advance
    <2> QED BY <1>2, <2>1, <2>2, <2>3, <2>4, <2>5, <2>6, <2>7
           DEF ThreadStep, SocketInit, SocketFails, ConnectFails, ConnectPending,
               ConnectAborts, Connected, SelectTimeout, Receive, EndOfFile,
               RecvFails, nodeVars
<1>3. CASE ServerStep
    BY <1>3 DEF ServerStep, ServerReply, ServerIgnore, ServerEvent,
                ServerClose, callerVars, nodeVars, threadVars
<1>4. CASE UNCHANGED vars
    BY <1>4 DEF vars, callerVars, nodeVars, threadVars
<1> QED BY <1>1, <1>2, <1>3, <1>4 DEF Next

\* Without spurious wakeups, a call whose request went out returns
\* RETURN_ERR only when request_tracking_cb has counted its ticks down.
THEOREM ErrorMeansExpired ==
    ASSUME ~Spurious PROVE SpecUndisturbed => ErrMeansExpired
<1>1. Init => ExpiredInv
    BY DEF Init, ExpiredInv
<1>2. TypeInv /\ SafeInv /\ ExpiredInv /\ [Next /\ Undisturbed]_vars
        => ExpiredInv'
    BY ExpiredStep
<1>3. TypeInv /\ SafeInv /\ ExpiredInv /\ [Next /\ Undisturbed]_vars =>
        [\A c \in Callers :
          pc[c] = "reaped" /\ result'[c][1] = "err" => ticker[c] <= 0]_vars
    <2> SUFFICES ASSUME TypeInv, SafeInv, ExpiredInv, Next,
                        NEW c \in Callers, pc[c] = "reaped",
                        result'[c][1] = "err"
                 PROVE  ticker[c] <= 0
        OBVIOUS
    <2>1. result[c][1] = "none" /\ signalled[c]
        BY DEF ExpiredInv, SafeInv, WaitInv
    <2>2. ASSUME NEW d \in Callers, CallerStep(d), d # c
          PROVE  result'[c] = result[c]
        BY <2>2 DEF CallerStep, HdrLoad, HdrStore, HdrReturn, Call, AppendFind,
             AppendLink, SendOk, SendFail, Wake, Delete, Return, TypeInv,
             CallerInv, CallerTypes
    <2>3. CASE CallerStep(c)
        <3>1. CASE Return(c)
            BY <2>1, <3>1 DEF Return, TypeInv, CallerInv, CallerTypes, NodeInv,
                 NodeTypes, ExpiredInv
        <3> QED BY <2>1, <2>3, <3>1 DEF CallerStep, HdrLoad, HdrStore,
             HdrReturn, Call, AppendFind, AppendLink, SendOk, SendFail, Wake,
             Delete
    <2>4. CASE ThreadStep
        BY <2>1, <2>4 DEF ThreadStep, SocketInit, SocketFails, ConnectFails, ConnectPending,
             ConnectAborts, Connected, SelectTimeout, Receive, EndOfFile,
             RecvFails, ParseOther, ParseResponse, SignalResponse, TickBegin,
             TickAlive, TickExpired, SignalExpired, callerVars
    <2>5. CASE ServerStep
        BY <2>1, <2>5 DEF ServerStep, ServerReply, ServerIgnore, ServerEvent,
             ServerClose, callerVars
    <2> QED BY <2>1, <2>2, <2>3, <2>4, <2>5 DEF Next
<1> QED BY Safety, <1>1, <1>2, <1>3, PTL DEF SpecUndisturbed, ErrMeansExpired
=============================================================================
