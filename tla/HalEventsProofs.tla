--------------------------- MODULE HalEventsProofs ---------------------------
(***************************************************************************)
(* Event subscription and publication, for any number of connections,      *)
(* publishers, descriptors, events and subscriptions.                      *)
(***************************************************************************)
EXTENDS HalEvents, FiniteSetTheorems, WellFoundedInduction, TLAPS

-----------------------------------------------------------------------------
(* Induction, as the least counterexample. *)

\* A set of naturals that is not empty has a least element.
LEMMA LeastNumber ==
    ASSUME NEW S \in SUBSET Nat, S # {}
    PROVE  \E n \in S : \A m \in S : n <= m
<1> DEFINE Less == { q \in Nat \X Nat : q[1] < q[2] }
<1>1. IsWellFoundedOn(Less, Nat)
  BY NatLessThanWellFounded, Zenon DEF OpToRel
<1>2. PICK n \in S : \A m \in S : << m, n >> \notin Less
  BY <1>1, WFMin, Zenon
<1>3. ASSUME NEW m \in S PROVE n <= m
  <2>1. m \in Nat /\ n \in Nat
    OBVIOUS
  <2>2. m < n => << m, n >> \in Less
    BY <2>1
  <2> QED BY <1>2, <2>1, <2>2
<1> QED BY <1>3

-----------------------------------------------------------------------------
(* Taking a connection's entries out of the list. *)

\* What the loop of remove_event_subscription_from_list has kept after each
\* of the first n entries.
Kept(list, f, n, kept) ==
    kept = [i \in 0 .. n |->
              IF i = 0 THEN << >>
              ELSE IF list[i].fd = f THEN kept[i - 1]
                   ELSE Append(kept[i - 1], list[i])]

\* The loop has a result.
LEMMA KeptExists ==
    ASSUME NEW list, NEW f, NEW n \in Nat
    PROVE  \E kept : Kept(list, f, n, kept)
<1> DEFINE Bad == { m \in Nat : ~ \E kept : Kept(list, f, m, kept) }
<1> SUFFICES ASSUME Bad # {} PROVE FALSE
  OBVIOUS
<1>1. PICK m \in Bad : \A j \in Bad : m <= j
  BY LeastNumber
<1>2. m # 0
  <2> DEFINE z == [i \in 0 .. 0 |-> << >>]
  <2>1. Kept(list, f, 0, z)
    BY DEF Kept
  <2> QED BY <2>1
<1>3. PICK g : Kept(list, f, m - 1, g)
  BY <1>1, <1>2
<1> DEFINE h == [i \in 0 .. m |->
                   IF i < m THEN g[i]
                   ELSE IF list[m].fd = f THEN g[m - 1]
                        ELSE Append(g[m - 1], list[m])]
<1>4. Kept(list, f, m, h)
  <2> SUFFICES \A i \in 0 .. m :
                 h[i] = IF i = 0 THEN << >>
                        ELSE IF list[i].fd = f THEN h[i - 1]
                             ELSE Append(h[i - 1], list[i])
    BY DEF Kept
  <2>1. \A i \in 0 .. m - 1 :
                 g[i] = IF i = 0 THEN << >>
                        ELSE IF list[i].fd = f THEN g[i - 1]
                             ELSE Append(g[i - 1], list[i])
    BY <1>3 DEF Kept
  <2> QED BY <2>1, <1>2
<1> QED BY <1>4

\* The list keeps exactly the entries of other descriptors.
LEMMA WithoutEntries ==
    ASSUME NEW T, NEW list \in Seq(T), NEW f
    PROVE  /\ Without(list, f) \in Seq(T)
           /\ \A j \in DOMAIN Without(list, f) : \E i \in DOMAIN list :
                 list[i].fd # f /\ Without(list, f)[j] = list[i]
           /\ \A i \in DOMAIN list : list[i].fd # f =>
                 \E j \in DOMAIN Without(list, f) : Without(list, f)[j] = list[i]
<1>0. Len(list) \in Nat /\ DOMAIN list = 1 .. Len(list)
  OBVIOUS
<1>1. PICK kept : /\ Kept(list, f, Len(list), kept)
                  /\ Without(list, f) = kept[Len(list)]
  <2>1. \E g : Kept(list, f, Len(list), g)
    BY <1>0, KeptExists
  <2> QED BY <2>1 DEF Without, Kept
<1> DEFINE Good(n) ==
      /\ kept[n] \in Seq(T)
      /\ \A j \in DOMAIN kept[n] : \E i \in 1 .. n :
            list[i].fd # f /\ kept[n][j] = list[i]
      /\ \A i \in 1 .. n : list[i].fd # f =>
            \E j \in DOMAIN kept[n] : kept[n][j] = list[i]
<1> DEFINE Bad == { n \in 0 .. Len(list) : ~Good(n) }
<1>2. Bad = {}
  <2> SUFFICES ASSUME Bad # {} PROVE FALSE
    OBVIOUS
  <2>1. PICK n \in Bad : \A j \in Bad : n <= j
    <3>1. Bad \in SUBSET Nat
      BY <1>0
    <3> QED BY <3>1, LeastNumber
  <2>2. n # 0
    BY <1>1 DEF Kept
  <2>3. n - 1 \in 0 .. Len(list) /\ Good(n - 1)
    BY <2>1, <2>2
  <2>4. n \in DOMAIN list /\ list[n] \in T
    BY <2>2
  <2>5. kept[n] = IF list[n].fd = f THEN kept[n - 1]
                  ELSE Append(kept[n - 1], list[n])
    BY <1>1, <2>2 DEF Kept
  <2> HIDE <1>1
  <2>6. CASE list[n].fd = f
    <3>1. kept[n] = kept[n - 1]
      BY <2>5, <2>6
    <3>2. \A i \in 1 .. n : list[i].fd # f => i \in 1 .. (n - 1)
      BY <2>6
    <3>3. \A i \in 1 .. (n - 1) : i \in 1 .. n
      OBVIOUS
    <3> QED BY <2>3, <3>1, <3>2, <3>3
  <2>7. CASE list[n].fd # f
    <3> DEFINE old == kept[n - 1]
    <3>1. kept[n] = Append(old, list[n]) /\ old \in Seq(T)
      BY <2>3, <2>5, <2>7
    <3>2. /\ kept[n] \in Seq(T) /\ Len(kept[n]) = Len(old) + 1
          /\ kept[n][Len(old) + 1] = list[n]
          /\ \A j \in 1 .. Len(old) : kept[n][j] = old[j]
      BY <3>1, <2>4
    <3>3. DOMAIN old = 1 .. Len(old) /\ DOMAIN kept[n] = 1 .. (Len(old) + 1)
      BY <3>1, <3>2
    <3>4. ASSUME NEW j \in DOMAIN kept[n]
          PROVE  \E i \in 1 .. n : list[i].fd # f /\ kept[n][j] = list[i]
      <4>1. CASE j = Len(old) + 1
        BY <3>2, <4>1, <2>7, <2>2
      <4>2. CASE j # Len(old) + 1
        <5>1. j \in DOMAIN old /\ kept[n][j] = old[j]
          BY <3>1, <3>2, <3>3, <4>2
        <5> QED BY <2>3, <5>1
      <4> QED BY <4>1, <4>2
    <3>5. ASSUME NEW i \in 1 .. n, list[i].fd # f
          PROVE  \E j \in DOMAIN kept[n] : kept[n][j] = list[i]
      <4>1. CASE i = n
        <5>1. Len(old) + 1 \in DOMAIN kept[n]
          BY <3>1, <3>3
        <5> QED BY <3>2, <4>1, <5>1
      <4>2. CASE i # n
        <5>1. PICK j \in DOMAIN old : old[j] = list[i]
          BY <2>3, <4>2, <3>5
        <5>2. j \in DOMAIN kept[n] /\ kept[n][j] = list[i]
          BY <3>1, <3>2, <3>3, <5>1
        <5> QED BY <5>2
      <4> QED BY <4>1, <4>2
    <3> QED BY <3>2, <3>4, <3>5
  <2> QED BY <2>6, <2>7
<1>3. Good(Len(list))
  BY <1>0, <1>2
<1> QED BY <1>0, <1>1, <1>3

-----------------------------------------------------------------------------
(* Comparing sequence numbers. *)

\* The weights of the first n + 1 digits.
Weights(n, w) ==
    w = [k \in 0 .. n |-> IF k = 0 THEN 1 ELSE Radix * w[k - 1]]

\* They exist.
LEMMA WeightsExist == ASSUME NEW n \in Nat PROVE \E w : Weights(n, w)
<1> DEFINE Bad == { m \in Nat : ~ \E w : Weights(m, w) }
<1> SUFFICES ASSUME Bad # {} PROVE FALSE
  OBVIOUS
<1>1. PICK m \in Bad : \A j \in Bad : m <= j
  BY LeastNumber
<1>2. m # 0
  <2> DEFINE z == [k \in 0 .. 0 |-> 1]
  <2>1. Weights(0, z)
    BY DEF Weights
  <2> QED BY <2>1
<1>3. PICK v : Weights(m - 1, v)
  BY <1>1, <1>2
<1> DEFINE w == [k \in 0 .. m |-> IF k < m THEN v[k] ELSE Radix * v[m - 1]]
<1>4. Weights(m, w)
  <2> SUFFICES \A k \in 0 .. m : w[k] = IF k = 0 THEN 1 ELSE Radix * w[k - 1]
    BY DEF Weights
  <2>1. \A k \in 0 .. m - 1 : v[k] = IF k = 0 THEN 1 ELSE Radix * v[k - 1]
    BY <1>3 DEF Weights
  <2> QED BY <2>1, <1>2
<1> QED BY <1>4

\* Every digit but the last weighs at least Radix.
LEMMA WeightOfDigit ==
    /\ Weight[0] = 1
    /\ \A k \in 1 .. 9 : Weight[k] \in Nat /\ Weight[k] >= Radix
<1>1. Weights(9, Weight)
  <2>1. \E w : Weights(9, w)
    BY WeightsExist
  <2> QED BY <2>1 DEF Weights, Weight
<1>2. /\ Weight[0] = 1
      /\ \A k \in 1 .. 9 : Weight[k] = Radix * Weight[k - 1]
  BY <1>1 DEF Weights
<1> DEFINE Bad == { k \in 1 .. 9 : ~(Weight[k] \in Nat /\ Weight[k] >= Radix) }
<1>3. Bad = {}
  <2> SUFFICES ASSUME Bad # {} PROVE FALSE
    OBVIOUS
  <2>1. PICK k \in Bad : \A j \in Bad : k <= j
    BY LeastNumber
  <2>2. Radix \in Nat /\ Radix > 1
    BY EventsAssumption
  <2>3. Weight[k] = Radix * Weight[k - 1]
    BY <1>2
  <2>4. CASE k = 1
    BY <1>2, <2>2, <2>3, <2>4
  <2>5. CASE k # 1
    <3>1. Weight[k - 1] \in Nat /\ Weight[k - 1] >= Radix
      BY <2>1, <2>5
    <3> DEFINE u == Weight[k - 1]
    <3>2. \A x, y \in Nat : x > 1 /\ y >= x => x * y \in Nat /\ x * y >= x
      OBVIOUS
    <3> QED BY <2>2, <2>3, <3>1, <3>2
  <2> QED BY <2>4, <2>5
<1> QED BY <1>2, <1>3

\* As long as all numbers handed out have equally many digits, the prefix
\* comparison of message_process_cb is an equality.
LEMMA EqualDigits ==
    ASSUME NEW r \in Nat, NEW n \in Nat, r < Radix * (FirstSeq + 1),
           FirstSeq < n, IdMatches(r, n)
    PROVE  n = r
<1>1. PICK k \in 0 .. 9 : r \div Weight[k] = n
  BY DEF IdMatches
<1>2. CASE k = 0
  BY <1>1, <1>2, WeightOfDigit
<1>3. CASE k # 0
  <2>1. Weight[k] \in Nat /\ Weight[k] >= Radix
    BY <1>3, WeightOfDigit
  <2>2. Radix \in Nat /\ Radix > 1 /\ FirstSeq + 1 \in Nat
    BY EventsAssumption
  <2>3. ASSUME NEW d \in Nat, d > 1, NEW w \in Nat, w >= d, NEW q \in Nat,
               r < d * q
        PROVE  r \div w < q
    BY <2>3
  <2>4. n < FirstSeq + 1
    BY <1>1, <2>1, <2>2, <2>3
  <2> QED BY <2>4, EventsAssumption
<1> QED BY <1>2, <1>3

-----------------------------------------------------------------------------
(* Types.  Beside its own type, a message or a name has to be there when a *)
(* step uses it.                                                           *)

Subscriptions == [kind : {"subscribe"}, ask : Nat, event : Events, type : Types]
Results ==
    [kind : {"result"}, event : Events, req_id : Nat, status : Answers]

\* Message a answers the event of message msg.
IsAnswer(a, msg) ==
    a.kind = "result" /\ a.event = msg.event /\ a.req_id = msg.req_id

\* The socket thread has a descriptor, and the right kind of message, wherever
\* it is not at the top of its loop.
ServerInv ==
    /\ g_seqnumber \in Nat
    /\ peer \in [Fds -> Conns \union {NULL}]
    /\ subs \in Seq(Entries)
    /\ mutex \in Publishers \union {NULL}
    /\ spc \in {"loop", "subscribe", "add", "result", "remove", "close"}
    /\ IF spc = "loop" THEN sfd = NULL ELSE sfd \in Fds /\ peer[sfd] # NULL
    /\ smsg \in ClientMessages \union {NoMsg}
    /\ spc \in {"subscribe", "add"} => smsg \in Subscriptions
    /\ spc = "result" => smsg \in Results

\* A publisher that has begun has an event to publish.
PublisherInv ==
    /\ ppc \in [Publishers -> {"idle", "lock", "walk", "poll"}]
    /\ event \in [Publishers -> Events \union {NULL}]
    /\ \A p \in Publishers : ppc[p] # "idle" => event[p] \in Events
    /\ value \in [Publishers -> Values \union {NULL}]
    /\ cursor \in [Publishers -> Nat \ {0}]
    /\ blocking \in [Publishers -> BOOLEAN]
    /\ ret \in [Publishers -> {"ok", "err"}]
    /\ timedOut \in [Publishers -> BOOLEAN]
    /\ awaited \in [Publishers -> SUBSET ((Conns \union {NULL}) \X Nat)]

\* A client that waits for the reply to a subscription knows what it asked for.
ClientInv ==
    /\ up \in [Conns -> {"new", "up", "closed"}]
    /\ toServer \in [Conns -> Seq(ClientMessages)]
    /\ toClient \in [Conns -> Seq(ServerMessages)]
    /\ asks \in [Conns -> Nat]
    /\ asking \in [Conns -> {"no", "sent", "replied"}]
    /\ wanted \in [Conns -> (Events \union {NULL}) \X (Types \union {NULL})]
    /\ \A k \in Conns : asking[k] # "no" => wanted[k][1] \in Events
    /\ tracked \in [Conns -> Seq(Events)]
    /\ asked \in [Conns -> SUBSET Events]
    /\ answered \in SUBSET (Conns \X Nat)

\* TypeOK with what it takes to be inductive.
TypeInv == ServerInv /\ PublisherInv /\ ClientInv

\* Init gives every variable its type.
LEMMA TypeInit == Init => TypeInv
<1> SUFFICES ASSUME Init PROVE TypeInv
  OBVIOUS
<1>1. ServerInv
  BY EventsAssumption DEF Init, ServerInv, NoMsg
<1>2. PublisherInv
  BY DEF Init, PublisherInv
<1>3. ClientInv
  BY DEF Init, ClientInv
<1> QED BY <1>1, <1>2, <1>3 DEF TypeInv

\* Steps that leave the server's variables alone.
LEMMA ServerFrame ==
    ASSUME ServerInv,
           UNCHANGED << g_seqnumber, peer, subs, mutex, spc, sfd, smsg >>
    PROVE  ServerInv'
  BY DEF ServerInv

\* The messages behind the first one.
LEMMA TailMessages ==
    ASSUME NEW T, NEW s \in Seq(T), s # << >>
    PROVE  /\ Head(s) \in T /\ 1 \in DOMAIN s /\ Head(s) = s[1]
           /\ Tail(s) \in Seq(T)
           /\ \A j \in DOMAIN Tail(s) : j + 1 \in DOMAIN s /\ Tail(s)[j] = s[j + 1]
  OBVIOUS

\* recv() hands the socket thread the oldest message of a connection.
LEMMA RecvMessage ==
    ASSUME TypeInv, NEW f \in Fds, Recv(f)
    PROVE  /\ peer[f] \in Conns /\ sfd' = f /\ peer' = peer
           /\ 1 \in DOMAIN toServer[peer[f]] /\ smsg' = toServer[peer[f]][1]
           /\ \/ spc' = "subscribe" /\ smsg' \in Subscriptions
              \/ spc' = "result" /\ smsg' \in Results
           /\ toServer' \in [Conns -> Seq(ClientMessages)]
           /\ \A k \in Conns : \A j \in DOMAIN toServer'[k] :
                 \E i \in DOMAIN toServer[k] : toServer'[k][j] = toServer[k][i]
<1> DEFINE k == peer[f]
<1>1. /\ k \in Conns /\ toServer[k] \in Seq(ClientMessages)
      /\ toServer[k] # << >> /\ sfd' = f /\ smsg' = Head(toServer[k])
      /\ peer' = peer /\ spc' = smsg'.kind
      /\ toServer' = [toServer EXCEPT ![k] = Tail(toServer[k])]
  BY DEF Recv, TypeInv, ServerInv, ClientInv
<1>2. /\ 1 \in DOMAIN toServer[k] /\ smsg' = toServer[k][1]
      /\ smsg' \in ClientMessages /\ Tail(toServer[k]) \in Seq(ClientMessages)
      /\ \A j \in DOMAIN Tail(toServer[k]) :
            j + 1 \in DOMAIN toServer[k] /\ Tail(toServer[k])[j] = toServer[k][j + 1]
  BY <1>1, TailMessages
<1>3. \/ spc' = "subscribe" /\ smsg' \in Subscriptions
      \/ spc' = "result" /\ smsg' \in Results
  BY <1>1, <1>2 DEF ClientMessages, Subscriptions, Results
<1>4. /\ toServer' \in [Conns -> Seq(ClientMessages)]
      /\ toServer'[k] = Tail(toServer[k])
      /\ \A c \in Conns \ {k} : toServer'[c] = toServer[c]
  BY <1>1, <1>2 DEF TypeInv, ClientInv
<1>5. \A c \in Conns : \A j \in DOMAIN toServer'[c] :
         \E i \in DOMAIN toServer[c] : toServer'[c][j] = toServer[c][i]
  <2>1. \A j \in DOMAIN toServer'[k] :
           \E i \in DOMAIN toServer[k] : toServer'[k][j] = toServer[k][i]
    BY <1>2, <1>4
  <2> QED BY <1>4, <2>1
<1> QED BY <1>1, <1>2, <1>3, <1>4, <1>5

\* The fields of an entry.
LEMMA EntryFields ==
    ASSUME ServerInv, NEW i \in DOMAIN subs
    PROVE  /\ subs[i].fd \in Fds /\ subs[i].conn \in Conns
           /\ subs[i].event \in Events
<1>1. subs[i] \in Entries
  BY DEF ServerInv
<1> QED BY <1>1 DEF Entries

\* List new is subs with number n in the i-th entry, which waits for an answer.
Asked(new, i, n) ==
    /\ new \in Seq(Entries) /\ DOMAIN new = DOMAIN subs
    /\ \A j \in DOMAIN subs : j # i => new[j] = subs[j]
    /\ new[i].fd = subs[i].fd /\ new[i].conn = subs[i].conn
    /\ new[i].event = subs[i].event /\ new[i].type = subs[i].type
    /\ new[i].req_id = n /\ new[i].status = "WAIT_EVENT_REPLY_MSG"

\* What publish_event writes into the entry it sends the event for.
LEMMA EntryAsked ==
    ASSUME ServerInv, NEW i \in DOMAIN subs, NEW n \in Nat
    PROVE  Asked([subs EXCEPT ![i].req_id = n,
                              ![i].status = "WAIT_EVENT_REPLY_MSG"], i, n)
<1> DEFINE one == [subs EXCEPT ![i].req_id = n]
<1> DEFINE new == [one EXCEPT ![i].status = "WAIT_EVENT_REPLY_MSG"]
<1>1. subs \in Seq(Entries) /\ subs[i] \in Entries
  BY DEF ServerInv
<1>2. [subs[i] EXCEPT !.req_id = n] \in Entries
  BY <1>1 DEF Entries
<1>3. /\ one \in Seq(Entries) /\ DOMAIN one = DOMAIN subs
      /\ one[i] = [subs[i] EXCEPT !.req_id = n]
      /\ \A j \in DOMAIN subs : j # i => one[j] = subs[j]
  BY <1>1, <1>2
<1> HIDE DEF one
<1>4. [one[i] EXCEPT !.status = "WAIT_EVENT_REPLY_MSG"] \in Entries
  BY <1>2, <1>3 DEF Entries
<1>5. /\ new \in Seq(Entries) /\ DOMAIN new = DOMAIN one
      /\ new[i] = [one[i] EXCEPT !.status = "WAIT_EVENT_REPLY_MSG"]
      /\ \A j \in DOMAIN one : j # i => new[j] = one[j]
  BY <1>3, <1>4
<1> HIDE DEF new
<1>6. /\ new[i].fd = subs[i].fd /\ new[i].conn = subs[i].conn
      /\ new[i].event = subs[i].event /\ new[i].type = subs[i].type
      /\ new[i].req_id = n
      /\ new[i].status = "WAIT_EVENT_REPLY_MSG"
  BY <1>1, <1>3, <1>5 DEF Entries
<1>7. Asked(new, i, n)
  BY <1>3, <1>5, <1>6 DEF Asked
<1> QED BY <1>7, Zenon DEF new, one

\* Every entry that a step makes or changes is one.
LEMMA ServerTypes == TypeInv /\ [Next]_vars => ServerInv'
<1> SUFFICES ASSUME TypeInv, [Next]_vars PROVE ServerInv'
  OBVIOUS
<1> USE DEF TypeInv
<1>1. CASE ThreadStep
  <2> USE EventsAssumption DEF ServerInv, threadVars
  <2>1. CASE SelectTimeout
    BY <2>1, ServerFrame DEF SelectTimeout, vars
  <2>2. ASSUME NEW k \in Conns, Accept(k) PROVE ServerInv'
    BY <2>2 DEF Accept
  <2>3. ASSUME NEW f \in Fds, Recv(f) PROVE ServerInv'
    BY <2>3, RecvMessage DEF Recv, ClientMessages, Subscriptions, Results
  <2>4. ASSUME NEW f \in Fds, EndOfFile(f) PROVE ServerInv'
    BY <2>4 DEF EndOfFile
  <2>5. CASE Refuse
    BY <2>5 DEF Refuse, BackToLoop
  <2>6. CASE Grant
    BY <2>6 DEF Grant
  <2>7. CASE AddSubscription
    <3>1. sfd \in Fds /\ peer[sfd] \in Conns /\ smsg \in Subscriptions
      BY <2>7 DEF AddSubscription
    <3>2. NewEntry(sfd, smsg) \in Entries
      BY <3>1 DEF NewEntry, Entries, Subscriptions
    <3>3. subs' \in Seq(Entries)
      BY <2>7, <3>2 DEF AddSubscription
    <3> QED BY <2>7, <3>3 DEF AddSubscription, BackToLoop
  <2>8. CASE EventReply
    <3>1. \A i \in DOMAIN subs : subs[i] \in Entries
      OBVIOUS
    <3>2. \A i \in DOMAIN subs :
             [subs[i] EXCEPT !.status = ReplyStatus(smsg)] \in Entries
      <4>1. ReplyStatus(smsg) \in {"EVENT_REPLY_SUCCESS", "EVENT_REPLY_ERROR"}
        BY DEF ReplyStatus
      <4> QED BY <3>1, <4>1 DEF Entries
    <3>3. DOMAIN subs = 1 .. Len(subs) /\ Len(subs) \in Nat
      OBVIOUS
    <3>4. \A i \in 1 .. Len(subs) :
             (IF Credited(subs[i])
              THEN [subs[i] EXCEPT !.status = ReplyStatus(smsg)]
              ELSE subs[i]) \in Entries
      BY <3>1, <3>2, <3>3
    <3>5. subs' = [i \in 1 .. Len(subs) |->
                     IF Credited(subs[i])
                     THEN [subs[i] EXCEPT !.status = ReplyStatus(smsg)]
                     ELSE subs[i]]
      BY <2>8, <3>3 DEF EventReply
    <3>6. subs' \in Seq(Entries)
      BY <3>3, <3>4, <3>5
    <3> QED BY <2>8, <3>6 DEF EventReply, BackToLoop
  <2>9. CASE RemoveSubscriptions
    <3>1. subs' \in Seq(Entries)
      BY <2>9, WithoutEntries DEF RemoveSubscriptions
    <3> QED BY <2>9, <3>1 DEF RemoveSubscriptions
  <2>10. CASE Close
    BY <2>10 DEF Close, BackToLoop
  <2> QED BY <1>1, <2>1, <2>2, <2>3, <2>4, <2>5, <2>6, <2>7, <2>8, <2>9, <2>10
         DEF ThreadStep
<1>2. ASSUME NEW p \in Publishers, PublisherStep(p) PROVE ServerInv'
  <2>1. CASE Publish(p) \/ PublishNull(p) \/ Clock(p) \/ PollEnd(p)
    BY <2>1, ServerFrame DEF Publish, PublishNull, Clock, PollEnd, threadVars
  <2>2. CASE LockList(p) \/ PublishEnd(p)
    BY <2>2 DEF LockList, PublishEnd, ServerInv, threadVars
  <2>3. ASSUME NEW i \in cursor[p] .. Len(subs), PublishTo(p, i)
        PROVE  ServerInv'
    <3>1. /\ g_seqnumber' = g_seqnumber + 1
          /\ \/ subs' = subs
             \/ subs' = [subs EXCEPT ![i].req_id = g_seqnumber + 1,
                                     ![i].status = "WAIT_EVENT_REPLY_MSG"]
          /\ UNCHANGED << peer, mutex, spc, sfd, smsg >>
      BY <2>3 DEF PublishTo, NextSeqNumber, threadVars
    <3>2. i \in DOMAIN subs
      BY DEF PublisherInv, ServerInv
    <3>3. subs[i] \in Entries /\ g_seqnumber + 1 \in Nat
      BY <3>2 DEF ServerInv
    <3>4. subs' = subs \/ Asked(subs', i, g_seqnumber + 1)
      BY <3>1, <3>2, <3>3, EntryAsked, Zenon
    <3>5. subs' \in Seq(Entries)
      BY <3>4 DEF ServerInv, Asked
    <3> QED BY <3>1, <3>3, <3>5 DEF ServerInv
  <2> QED BY <1>2, <2>1, <2>2, <2>3 DEF PublisherStep
<1>3. ASSUME NEW k \in Conns, ClientStep(k) PROVE ServerInv'
  BY <1>3, ServerFrame DEF ClientStep, Subscribe, SubscribeTimesOut, ReadReply,
       Track, ReadEvent, Disconnect, threadVars
<1>4. CASE UNCHANGED vars
  BY <1>4, ServerFrame DEF vars, threadVars
<1> QED BY <1>1, <1>2, <1>3, <1>4 DEF Next

\* Publishers keep to their types.
LEMMA PublisherTypes == TypeInv /\ [Next]_vars => PublisherInv'
<1> SUFFICES ASSUME TypeInv, [Next]_vars PROVE PublisherInv'
  OBVIOUS
<1> USE DEF TypeInv, PublisherInv
<1>1. CASE ThreadStep \/ (\E k \in Conns : ClientStep(k)) \/ UNCHANGED vars
  <2>1. UNCHANGED pubVars
    BY <1>1 DEF ThreadStep, SelectTimeout, Accept, Recv, EndOfFile, Refuse,
         Grant, AddSubscription, EventReply, RemoveSubscriptions, Close,
         ClientStep, Subscribe, SubscribeTimesOut, ReadReply, Track, ReadEvent,
         Disconnect, vars
  <2> QED BY <2>1 DEF pubVars
<1>2. ASSUME NEW p \in Publishers, PublisherStep(p) PROVE PublisherInv'
  <2> USE DEF At
  <2>1. CASE Publish(p)
    BY <2>1 DEF Publish
  <2>2. CASE LockList(p)
    BY <2>2 DEF LockList
  <2>3. CASE PublishNull(p)
    BY <2>3 DEF PublishNull
  <2>4. ASSUME NEW i \in cursor[p] .. Len(subs), PublishTo(p, i)
        PROVE  PublisherInv'
    <3>1. i \in DOMAIN subs /\ i + 1 \in Nat \ {0}
      BY DEF ServerInv
    <3>2. << peer[subs[i].fd], g_seqnumber + 1 >> \in (Conns \union {NULL}) \X Nat
      <4>1. subs[i].fd \in Fds
        BY <3>1, EntryFields
      <4> QED BY <4>1 DEF ServerInv
    <3>3. awaited' \in [Publishers -> SUBSET ((Conns \union {NULL}) \X Nat)]
      BY <2>4, <3>2 DEF PublishTo, NextSeqNumber
    <3>4. blocking' \in [Publishers -> BOOLEAN]
      <4>1. IsSync(subs[i]) \in BOOLEAN
        BY DEF IsSync
      <4> QED BY <2>4, <4>1 DEF PublishTo
    <3>5. ret' \in [Publishers -> {"ok", "err"}]
      BY <2>4 DEF PublishTo
    <3> QED BY <2>4, <3>1, <3>3, <3>4, <3>5 DEF PublishTo
  <2>5. CASE PublishEnd(p)
    BY <2>5 DEF PublishEnd
  <2>6. CASE Clock(p)
    BY <2>6 DEF Clock
  <2>7. CASE PollEnd(p)
    BY <2>7 DEF PollEnd
  <2> QED BY <1>2, <2>1, <2>2, <2>3, <2>4, <2>5, <2>6, <2>7 DEF PublisherStep
<1> QED BY <1>1, <1>2 DEF Next

\* A message sent on a descriptor goes to its connection, and nothing else
\* changes.
LEMMA SendToConnection ==
    ASSUME TypeInv, NEW f \in Fds, NEW msg \in ServerMessages, SendTo(f, msg)
    PROVE  /\ toClient' \in [Conns -> Seq(ServerMessages)]
           /\ \A k \in Conns : \A j \in DOMAIN toClient'[k] :
                 \/ j \in DOMAIN toClient[k] /\ toClient'[k][j] = toClient[k][j]
                 \/ k = peer[f] /\ toClient'[k][j] = msg
<1>1. CASE ~Reaches(f)
  BY <1>1 DEF SendTo, TypeInv, ClientInv
<1>2. CASE Reaches(f)
  <2> DEFINE c == peer[f]
  <2>1. /\ c \in Conns
        /\ toClient' = [toClient EXCEPT ![c] = Append(toClient[c], msg)]
    BY <1>2 DEF SendTo, Reaches, TypeInv, ServerInv
  <2>2. /\ toClient[c] \in Seq(ServerMessages)
        /\ toClient'[c] = Append(toClient[c], msg)
        /\ \A k \in Conns \ {c} : toClient'[k] = toClient[k]
    BY <2>1 DEF TypeInv, ClientInv
  <2>3. toClient' \in [Conns -> Seq(ServerMessages)]
    BY <2>1, <2>2 DEF TypeInv, ClientInv
  <2>4. \A j \in DOMAIN toClient'[c] :
           \/ j \in DOMAIN toClient[c] /\ toClient'[c][j] = toClient[c][j]
           \/ toClient'[c][j] = msg
    BY <2>2
  <2> QED BY <2>2, <2>3, <2>4
<1> QED BY <1>1, <1>2

\* An event is answered with that event's name and number, and what was on
\* its way before stays on its way.
LEMMA AnswersToEvent ==
    ASSUME TypeInv, NEW k \in Conns, ReadEvent(k)
    PROVE  LET msg == toClient[k][1]
               hits == Matching(k, msg.event)
           IN  /\ 1 \in DOMAIN toClient[k] /\ msg \in ServerMessages
               /\ msg.kind = "event" /\ msg.event \in Events /\ msg.req_id \in Nat
               /\ toServer' \in [Conns -> Seq(ClientMessages)]
               /\ \A c \in Conns \ {k} : toServer'[c] = toServer[c]
               /\ \A j \in DOMAIN toServer'[k] :
                     \/ j \in DOMAIN toServer[k] /\ toServer'[k][j] = toServer[k][j]
                     \/ IsAnswer(toServer'[k][j], msg) /\ hits # {}
               /\ answered' = IF hits = {} THEN answered
                              ELSE answered \union {<< k, msg.req_id >>}
               /\ toClient' = [toClient EXCEPT ![k] = Tail(toClient[k])]
<1> DEFINE msg == toClient[k][1]
           hits == Matching(k, msg.event)
           old == toServer[k]
<1>1. /\ toClient[k] \in Seq(ServerMessages) /\ toClient[k] # << >>
      /\ Head(toClient[k]).kind = "event"
  BY DEF ReadEvent, HasMessage, TypeInv, ClientInv
<1>2. 1 \in DOMAIN toClient[k] /\ msg \in ServerMessages /\ Head(toClient[k]) = msg
  BY <1>1, TailMessages
<1>3. msg.kind = "event" /\ msg.event \in Events /\ msg.req_id \in Nat
  BY <1>1, <1>2 DEF ServerMessages
<1>0. PICK answer \in Answers : toServer' = [toServer EXCEPT ![k] = old \o
         [i \in 1 .. Cardinality(hits) |-> AnswerMessage(msg, answer)]]
  BY <1>2 DEF ReadEvent
<1> DEFINE more == [i \in 1 .. Cardinality(hits) |-> AnswerMessage(msg, answer)]
<1>4. /\ AnswerMessage(msg, answer) \in ClientMessages
      /\ IsAnswer(AnswerMessage(msg, answer), msg)
  BY <1>3 DEF AnswerMessage, ClientMessages, IsAnswer
<1>5. tracked[k] \in Seq(Events) /\ old \in Seq(ClientMessages)
  BY DEF TypeInv, ClientInv
<1>6. IsFiniteSet(hits) /\ Cardinality(hits) \in Nat
  <2>1. hits \subseteq 1 .. Len(tracked[k]) /\ Len(tracked[k]) \in Nat
    BY <1>5 DEF Matching
  <2>2. IsFiniteSet(1 .. Len(tracked[k]))
    BY <2>1, FS_Interval
  <2> QED BY <2>1, <2>2, FS_Subset, FS_CardinalityType
<1>7. hits = {} => Cardinality(hits) = 0
  BY FS_EmptySet
<1>8. /\ toServer' = [toServer EXCEPT ![k] = old \o more]
      /\ answered' = IF hits = {} THEN answered
                     ELSE answered \union {<< k, msg.req_id >>}
      /\ toClient' = [toClient EXCEPT ![k] = Tail(toClient[k])]
  BY <1>0, <1>2 DEF ReadEvent, Consume
<1>9. /\ more \in Seq(ClientMessages) /\ Len(more) = Cardinality(hits)
      /\ \A i \in DOMAIN more : IsAnswer(more[i], msg)
  BY <1>4, <1>6
<1>10. /\ old \o more \in Seq(ClientMessages)
       /\ \A j \in DOMAIN (old \o more) :
             \/ j \in DOMAIN old /\ (old \o more)[j] = old[j]
             \/ j - Len(old) \in DOMAIN more /\ (old \o more)[j] = more[j - Len(old)]
  <2> HIDE DEF more
  <2> QED BY <1>5, <1>9
<1>11. /\ toServer' \in [Conns -> Seq(ClientMessages)]
       /\ \A c \in Conns \ {k} : toServer'[c] = toServer[c]
       /\ toServer'[k] = old \o more
  BY <1>8, <1>10 DEF TypeInv, ClientInv
<1>12. DOMAIN more = 1 .. Cardinality(hits)
  OBVIOUS
<1>13. \A j \in DOMAIN toServer'[k] :
          \/ j \in DOMAIN toServer[k] /\ toServer'[k][j] = toServer[k][j]
          \/ IsAnswer(toServer'[k][j], msg) /\ hits # {}
  <2> HIDE DEF more, hits, msg
  <2>1. hits = {} => DOMAIN more = {}
    BY <1>7, <1>12
  <2> QED BY <1>9, <1>10, <1>11, <2>1
<1> QED BY <1>2, <1>3, <1>8, <1>11, <1>13

\* Messages are messages, and a subscription under way has a name.
LEMMA ClientTypes == TypeInv /\ [Next]_vars => ClientInv'
<1> SUFFICES ASSUME TypeInv, [Next]_vars PROVE ClientInv'
  OBVIOUS
<1>1. CASE ThreadStep
  <2>1. CASE SelectTimeout \/ UNCHANGED vars
    BY <2>1 DEF SelectTimeout, vars, clientVars, netVars, TypeInv, ClientInv
  <2>2. ASSUME NEW k \in Conns, Accept(k) PROVE ClientInv'
    BY <2>2 DEF Accept, clientVars, TypeInv, ClientInv
  <2>3. ASSUME NEW f \in Fds, Recv(f) PROVE ClientInv'
    <3>1. /\ peer[f] \in Conns /\ toServer[peer[f]] \in Seq(ClientMessages)
          /\ toServer[peer[f]] # << >>
      BY <2>3 DEF Recv, TypeInv, ClientInv, ServerInv
    <3>2. Tail(toServer[peer[f]]) \in Seq(ClientMessages)
      BY <3>1
    <3> QED BY <2>3, <3>1, <3>2 DEF Recv, clientVars, TypeInv, ClientInv
  <2>4. CASE Refuse \/ Grant
    <3>1. /\ sfd \in Fds /\ ReplyMessage(smsg) \in ServerMessages
          /\ SendTo(sfd, ReplyMessage(smsg))
      BY <2>4 DEF Refuse, Grant, TypeInv, ServerInv, ReplyMessage,
           ServerMessages, Subscriptions
    <3>2. toClient' \in [Conns -> Seq(ServerMessages)]
      BY <3>1, SendToConnection
    <3> QED BY <2>4, <3>2 DEF Refuse, Grant, clientVars, TypeInv, ClientInv
  <2>5. CASE \/ (\E f \in Fds : EndOfFile(f)) \/ AddSubscription \/ EventReply
             \/ RemoveSubscriptions \/ Close
    BY <2>5 DEF EndOfFile, AddSubscription, EventReply, RemoveSubscriptions,
         Close, clientVars, netVars, TypeInv, ClientInv
  <2> QED BY <1>1, <2>1, <2>2, <2>3, <2>4, <2>5 DEF ThreadStep
<1>2. ASSUME NEW p \in Publishers, PublisherStep(p) PROVE ClientInv'
  <2>1. ASSUME NEW i \in cursor[p] .. Len(subs), PublishTo(p, i)
        PROVE  ClientInv'
    <3>0. i \in DOMAIN subs
      BY DEF TypeInv, PublisherInv, ServerInv
    <3>1. subs[i].fd \in Fds
      BY <3>0, EntryFields DEF TypeInv
    <3>2. EventMessage(event[p], g_seqnumber + 1) \in ServerMessages
      BY <2>1 DEF PublishTo, EventMessage, ServerMessages, TypeInv,
           PublisherInv, ServerInv
    <3>3. SendTo(subs[i].fd, EventMessage(event[p], g_seqnumber + 1))
      BY <2>1 DEF PublishTo, NextSeqNumber
    <3>4. toClient' \in [Conns -> Seq(ServerMessages)]
      BY <3>1, <3>2, <3>3, SendToConnection
    <3> QED BY <2>1, <3>4 DEF PublishTo, clientVars, TypeInv, ClientInv
  <2> QED BY <1>2, <2>1 DEF PublisherStep, Publish, LockList, PublishNull,
         PublishEnd, Clock, PollEnd, clientVars, netVars, TypeInv, ClientInv
<1>3. ASSUME NEW k \in Conns, ClientStep(k) PROVE ClientInv'
  <2>1. CASE Subscribe(k)
    <3>1. PICK e \in Events, t \in Types :
             /\ wanted' = [wanted EXCEPT ![k] = << e, t >>]
             /\ asked' = [asked EXCEPT ![k] = @ \union {e}]
             /\ toServer' = [toServer EXCEPT ![k] =
                               Append(@, SubscribeMessage(asks[k] + 1, e, t))]
      BY <2>1 DEF Subscribe
    <3>2. SubscribeMessage(asks[k] + 1, e, t) \in ClientMessages
      BY DEF SubscribeMessage, ClientMessages, TypeInv, ClientInv
    <3>3. toServer' \in [Conns -> Seq(ClientMessages)]
      BY <3>1, <3>2 DEF TypeInv, ClientInv
    <3>4. asks' \in [Conns -> Nat]
      BY <2>1 DEF Subscribe, TypeInv, ClientInv
    <3>5. /\ wanted' \in [Conns -> (Events \union {NULL}) \X (Types \union {NULL})]
          /\ \A c \in Conns : asking'[c] # "no" => wanted'[c][1] \in Events
      BY <2>1, <3>1 DEF Subscribe, TypeInv, ClientInv
    <3> QED BY <2>1, <3>1, <3>3, <3>4, <3>5 DEF Subscribe, TypeInv, ClientInv
  <2>2. CASE SubscribeTimesOut(k)
    BY <2>2 DEF SubscribeTimesOut, netVars, TypeInv, ClientInv
  <2>3. CASE ReadReply(k)
    <3>1. Tail(toClient[k]) \in Seq(ServerMessages)
      BY <2>3 DEF ReadReply, HasMessage, TypeInv, ClientInv
    <3> QED BY <2>3, <3>1 DEF ReadReply, Consume, TypeInv, ClientInv
  <2>4. CASE Track(k)
    BY <2>4 DEF Track, netVars, TypeInv, ClientInv
  <2>5. CASE ReadEvent(k)
    <3>1. Tail(toClient[k]) \in Seq(ServerMessages)
      BY <2>5 DEF ReadEvent, HasMessage, TypeInv, ClientInv
    <3>2. toClient' \in [Conns -> Seq(ServerMessages)]
      BY <2>5, <3>1 DEF ReadEvent, Consume, TypeInv, ClientInv
    <3>3. answered' \in SUBSET (Conns \X Nat)
      <4>1. \/ answered' = answered
            \/ \E n \in Nat : answered' = answered \union {<< k, n >>}
        BY <2>5, AnswersToEvent
      <4> QED BY <4>1 DEF TypeInv, ClientInv
    <3>4. toServer' \in [Conns -> Seq(ClientMessages)]
      BY <2>5, AnswersToEvent
    <3> QED BY <2>5, <3>2, <3>3, <3>4 DEF ReadEvent, TypeInv, ClientInv
  <2>6. CASE Disconnect(k)
    BY <2>6 DEF Disconnect, clientVars, TypeInv, ClientInv
  <2> QED BY <1>3, <2>1, <2>2, <2>3, <2>4, <2>5, <2>6 DEF ClientStep
<1>4. CASE UNCHANGED vars
  BY <1>4 DEF vars, clientVars, netVars, TypeInv, ClientInv
<1> QED BY <1>1, <1>2, <1>3, <1>4 DEF Next

\* The types hold throughout.
LEMMA TypeInvariant == Spec => []TypeInv
<1>1. TypeInv /\ [Next]_vars => TypeInv'
  BY ServerTypes, PublisherTypes, ClientTypes DEF TypeInv
<1> QED BY <1>1, TypeInit, PTL DEF Spec

\* Every variable has its type, and the socket thread works on an open
\* descriptor whatever connections come and go.
THEOREM TypeCorrect == Spec => []TypeOK
<1>1. TypeInv => TypeOK
  BY DEF TypeInv, ServerInv, PublisherInv, ClientInv, TypeOK
<1> QED BY <1>1, TypeInvariant, PTL

-----------------------------------------------------------------------------
(* Descriptors. *)

\* Entries are about open descriptors, a connection loses its entries before
\* its descriptor, and only after its client has closed it.
FdInv ==
    /\ FdSafe
    /\ spc = "close" => \A i \in DOMAIN subs : subs[i].fd # sfd
    /\ spc \in {"remove", "close"} => up[peer[sfd]] = "closed"


\* Where the entries of the next state come from: a step takes some out,
\* appends one, or writes the status and the number of one.
LEMMA EntriesFrom ==
    ASSUME TypeInv, [Next]_vars
    PROVE  \A j \in DOMAIN subs' :
              \/ AddSubscription /\ subs'[j] = NewEntry(sfd, smsg)
              \/ \E i \in DOMAIN subs :
                    /\ subs'[j].fd = subs[i].fd /\ subs'[j].conn = subs[i].conn
                    /\ subs'[j].event = subs[i].event
                    /\ \/ subs'[j].req_id = subs[i].req_id
                       \/ /\ subs'[j].req_id = g_seqnumber + 1
                          /\ g_seqnumber' = g_seqnumber + 1
                    /\ RemoveSubscriptions => subs[i].fd # sfd
<1>1. CASE AddSubscription
  <2>1. /\ subs \in Seq(Entries) /\ subs' = Append(subs, NewEntry(sfd, smsg))
        /\ spc = "add"
    BY <1>1 DEF AddSubscription, TypeInv, ServerInv
  <2>2. \A j \in DOMAIN subs' :
           \/ subs'[j] = NewEntry(sfd, smsg)
           \/ j \in DOMAIN subs /\ subs'[j] = subs[j]
    BY <2>1
  <2> QED BY <1>1, <2>1, <2>2 DEF RemoveSubscriptions
<1>2. CASE EventReply
  <2>1. /\ subs \in Seq(Entries) /\ DOMAIN subs' = DOMAIN subs
        /\ \A j \in DOMAIN subs :
              \/ subs'[j] = subs[j]
              \/ subs'[j] = [subs[j] EXCEPT !.status = ReplyStatus(smsg)]
        /\ spc = "result"
    BY <1>2 DEF EventReply, TypeInv, ServerInv
  <2>2. \A j \in DOMAIN subs : subs[j] \in Entries
    BY <2>1
  <2>3. \A j \in DOMAIN subs :
           /\ subs'[j].fd = subs[j].fd /\ subs'[j].conn = subs[j].conn
           /\ subs'[j].event = subs[j].event /\ subs'[j].req_id = subs[j].req_id
    BY <2>1, <2>2 DEF Entries
  <2> QED BY <2>1, <2>3 DEF RemoveSubscriptions
<1>3. CASE RemoveSubscriptions
  <2>1. /\ subs \in Seq(Entries) /\ subs' = Without(subs, sfd)
    BY <1>3 DEF RemoveSubscriptions, TypeInv, ServerInv
  <2>2. \A j \in DOMAIN subs' : \E i \in DOMAIN subs :
           subs[i].fd # sfd /\ subs'[j] = subs[i]
    BY <2>1, WithoutEntries
  <2> QED BY <2>2
<1>4. ASSUME NEW p \in Publishers, NEW i \in cursor[p] .. Len(subs),
             PublishTo(p, i)
      PROVE  /\ g_seqnumber' = g_seqnumber + 1 /\ DOMAIN subs' = DOMAIN subs
             /\ \A j \in DOMAIN subs :
                   /\ subs'[j].fd = subs[j].fd /\ subs'[j].conn = subs[j].conn
                   /\ subs'[j].event = subs[j].event
                   /\ \/ subs'[j].req_id = subs[j].req_id
                      \/ subs'[j].req_id = g_seqnumber + 1
  <2>1. /\ g_seqnumber' = g_seqnumber + 1
        /\ \/ subs' = subs
           \/ subs' = [subs EXCEPT ![i].req_id = g_seqnumber + 1,
                                   ![i].status = "WAIT_EVENT_REPLY_MSG"]
    BY <1>4 DEF PublishTo, NextSeqNumber
  <2>2. i \in DOMAIN subs /\ g_seqnumber + 1 \in Nat /\ ServerInv
    BY DEF TypeInv, PublisherInv, ServerInv
  <2>3. CASE subs' = subs
    BY <2>1, <2>3
  <2>4. CASE subs' = [subs EXCEPT ![i].req_id = g_seqnumber + 1,
                                  ![i].status = "WAIT_EVENT_REPLY_MSG"]
    <3>1. Asked(subs', i, g_seqnumber + 1)
      BY <2>2, <2>4, EntryAsked, Zenon
    <3> QED BY <2>1, <3>1 DEF Asked
  <2> QED BY <2>1, <2>3, <2>4
<1>5. CASE \E p \in Publishers : \E i \in cursor[p] .. Len(subs) : PublishTo(p, i)
  <2>1. PICK p \in Publishers : \E i \in cursor[p] .. Len(subs) : PublishTo(p, i)
    BY <1>5
  <2>2. UNCHANGED threadVars
    BY <2>1 DEF PublishTo
  <2>3. ~RemoveSubscriptions
    BY <2>2 DEF RemoveSubscriptions, threadVars
  <2> QED BY <1>4, <2>1, <2>3
<1>6. CASE UNCHANGED subs /\ ~RemoveSubscriptions
  BY <1>6
<1>7. \/ AddSubscription \/ EventReply \/ RemoveSubscriptions
      \/ \E p \in Publishers : \E i \in cursor[p] .. Len(subs) : PublishTo(p, i)
      \/ UNCHANGED subs
  BY DEF Next, ThreadStep, PublisherStep, ClientStep, SelectTimeout, Accept,
       Recv, EndOfFile, Refuse, Grant, Close, Publish, LockList, PublishNull,
       PublishEnd, Clock, PollEnd, Subscribe, SubscribeTimesOut, ReadReply,
       Track, ReadEvent, Disconnect, vars
<1> QED BY <1>1, <1>2, <1>3, <1>5, <1>6, <1>7

\* A connection that its client has closed stays closed.
LEMMA ClosedStays ==
    ASSUME TypeInv, [Next]_vars, NEW k \in Conns, up[k] = "closed"
    PROVE  up'[k] = "closed"
  BY DEF Next, ThreadStep, PublisherStep, ClientStep, SelectTimeout, Accept,
       Recv, EndOfFile, Refuse, Grant, AddSubscription, EventReply,
       RemoveSubscriptions, Close, Publish, LockList, PublishNull, PublishTo,
       PublishEnd, Clock, PollEnd, Subscribe, SubscribeTimesOut, ReadReply,
       Track, ReadEvent, Disconnect, vars, netVars, TypeInv, ClientInv

\* Publishers and clients leave descriptors and the socket thread alone.
LEMMA ThreadFrame ==
    ASSUME [Next]_vars, ~ThreadStep
    PROVE  UNCHANGED << peer, spc, sfd, smsg >>
  BY DEF Next, PublisherStep, ClientStep, Publish, LockList, PublishNull,
       PublishTo, PublishEnd, Clock, PollEnd, Subscribe, SubscribeTimesOut,
       ReadReply, Track, ReadEvent, Disconnect, vars, threadVars

\* Every step preserves FdInv.
LEMMA FdStep == TypeInv /\ FdInv /\ [Next]_vars => FdInv'
<1> SUFFICES ASSUME TypeInv, FdInv, [Next]_vars PROVE FdInv'
  OBVIOUS
<1>1. \A i \in DOMAIN subs :
         subs[i].fd \in Fds /\ subs[i].conn \in Conns /\ subs[i].conn # NULL
  BY EntryFields, EventsAssumption DEF TypeInv
<1>2. ASSUME NEW i \in DOMAIN subs PROVE peer'[subs[i].fd] = subs[i].conn
  <2>1. subs[i].fd \in Fds /\ peer[subs[i].fd] = subs[i].conn
    BY <1>1 DEF FdInv, FdSafe
  <2>2. ASSUME NEW k \in Conns, Accept(k) PROVE peer'[subs[i].fd] = subs[i].conn
    BY <1>1, <2>1, <2>2 DEF Accept, TypeInv, ServerInv
  <2>3. CASE Close
    BY <2>1, <2>3 DEF Close, FdInv, TypeInv, ServerInv
  <2> QED BY <2>1, <2>2, <2>3, ThreadFrame DEF ThreadStep, SelectTimeout, Recv,
         EndOfFile, Refuse, Grant, AddSubscription, EventReply,
         RemoveSubscriptions, vars
<1>3. FdSafe'
  <2> SUFFICES ASSUME NEW j \in DOMAIN subs'
               PROVE  peer'[subs'[j].fd] = subs'[j].conn
    BY DEF FdSafe
  <2>1. CASE AddSubscription /\ subs'[j] = NewEntry(sfd, smsg)
    BY <2>1 DEF AddSubscription, NewEntry
  <2> QED BY <1>2, <2>1, EntriesFrom
<1>4. spc' = "close" => \A j \in DOMAIN subs' : subs'[j].fd # sfd'
  <2>1. CASE ThreadStep
    <3>1. spc' = "close" => RemoveSubscriptions \/ UNCHANGED vars
      <4>1. ASSUME NEW f \in Fds, Recv(f) PROVE spc' # "close"
        BY <4>1, RecvMessage
      <4> QED BY <2>1, <4>1 DEF ThreadStep, SelectTimeout, Accept, EndOfFile,
             Refuse, Grant, AddSubscription, EventReply, Close, BackToLoop,
             threadVars
    <3>2. CASE RemoveSubscriptions
      <4>1. sfd' = sfd /\ ~AddSubscription
        BY <3>2 DEF RemoveSubscriptions, AddSubscription
      <4> QED BY <3>2, <4>1, EntriesFrom
    <3>3. CASE UNCHANGED vars
      BY <3>3 DEF FdInv, vars, threadVars
    <3> QED BY <3>1, <3>2, <3>3
  <2>2. CASE ~ThreadStep
    <3>1. ~AddSubscription
      BY <2>2 DEF ThreadStep
    <3> QED BY <2>2, <3>1, EntriesFrom, ThreadFrame DEF FdInv
  <2> QED BY <2>1, <2>2
<1>5. spc' \in {"remove", "close"} => up'[peer'[sfd']] = "closed"
  <2>1. CASE ThreadStep
    <3>1. ASSUME NEW f \in Fds, EndOfFile(f) PROVE up'[peer'[sfd']] = "closed"
      BY <3>1 DEF EndOfFile, netVars
    <3>2. CASE RemoveSubscriptions \/ UNCHANGED vars
      BY <3>2 DEF RemoveSubscriptions, FdInv, netVars, vars, threadVars
    <3>3. spc' \in {"remove", "close"} =>
             \/ \E f \in Fds : EndOfFile(f)
             \/ RemoveSubscriptions \/ UNCHANGED vars
      <4>1. ASSUME NEW f \in Fds, Recv(f) PROVE spc' \notin {"remove", "close"}
        BY <4>1, RecvMessage
      <4> QED BY <2>1, <4>1 DEF ThreadStep, SelectTimeout, Accept, Refuse,
             Grant, AddSubscription, EventReply, Close, BackToLoop, threadVars
    <3> QED BY <3>1, <3>2, <3>3
  <2>2. CASE ~ThreadStep
    <3>1. spc \in {"remove", "close"} => peer[sfd] \in Conns
      BY DEF TypeInv, ServerInv
    <3> QED BY <2>2, <3>1, ThreadFrame, ClosedStays DEF FdInv
  <2> QED BY <2>1, <2>2
<1> QED BY <1>3, <1>4, <1>5 DEF FdInv

\* A subscription's descriptor is open and belongs to the connection that
\* subscribed, for any number of connections on any number of descriptors.
THEOREM SubscriptionsHaveTheirDescriptor == Spec => []FdSafe
<1>1. Init => FdInv
  BY DEF Init, FdInv, FdSafe
<1>2. FdInv => FdSafe
  BY DEF FdInv
<1> QED BY <1>1, <1>2, FdStep, TypeInvariant, PTL DEF Spec

-----------------------------------------------------------------------------
(* Messages: where those of the next state come from. *)

\* The server sends a client replies, and events through publish_event.
LEMMA ToClientFrom ==
    ASSUME TypeInv, [Next]_vars, NEW k \in Conns, NEW j \in DOMAIN toClient'[k]
    PROVE  \/ \E i \in DOMAIN toClient[k] : toClient'[k][j] = toClient[k][i]
           \/ toClient'[k][j].kind = "reply"
           \/ \E p \in Publishers : \E i \in cursor[p] .. Len(subs) :
                 /\ PublishTo(p, i) /\ k = peer[subs[i].fd]
                 /\ toClient'[k][j] = EventMessage(event[p], g_seqnumber + 1)
<1>1. CASE Refuse \/ Grant
  <2>1. /\ sfd \in Fds /\ ReplyMessage(smsg) \in ServerMessages
        /\ SendTo(sfd, ReplyMessage(smsg)) /\ ReplyMessage(smsg).kind = "reply"
    BY <1>1 DEF Refuse, Grant, TypeInv, ServerInv, ReplyMessage,
         ServerMessages, Subscriptions
  <2> QED BY <2>1, SendToConnection
<1>2. ASSUME NEW p \in Publishers, NEW i \in cursor[p] .. Len(subs),
             PublishTo(p, i)
      PROVE  \/ j \in DOMAIN toClient[k] /\ toClient'[k][j] = toClient[k][j]
             \/ /\ k = peer[subs[i].fd]
                /\ toClient'[k][j] = EventMessage(event[p], g_seqnumber + 1)
  <2>1. i \in DOMAIN subs
    BY DEF TypeInv, PublisherInv, ServerInv
  <2>2. subs[i].fd \in Fds
    BY <2>1, EntryFields DEF TypeInv
  <2>3. /\ SendTo(subs[i].fd, EventMessage(event[p], g_seqnumber + 1))
        /\ EventMessage(event[p], g_seqnumber + 1) \in ServerMessages
    BY <1>2 DEF PublishTo, NextSeqNumber, EventMessage, ServerMessages, TypeInv,
         PublisherInv, ServerInv
  <2> QED BY <2>2, <2>3, SendToConnection
<1>3. ASSUME NEW c \in Conns, ReadReply(c) \/ ReadEvent(c)
      PROVE  \E i \in DOMAIN toClient[k] : toClient'[k][j] = toClient[k][i]
  <2>1. /\ toClient[c] \in Seq(ServerMessages) /\ toClient[c] # << >>
        /\ toClient' = [toClient EXCEPT ![c] = Tail(toClient[c])]
    BY <1>3 DEF ReadReply, ReadEvent, HasMessage, Consume, TypeInv, ClientInv
  <2>2. toClient'[c] = Tail(toClient[c])
        /\ (k # c => toClient'[k] = toClient[k])
    BY <2>1 DEF TypeInv, ClientInv
  <2>3. CASE k = c
    <3>0. j \in DOMAIN Tail(toClient[c])
      BY <2>2, <2>3
    <3>1. j + 1 \in DOMAIN toClient[c] /\ Tail(toClient[c])[j] = toClient[c][j + 1]
      BY <2>1, <3>0, TailMessages
    <3> QED BY <2>2, <2>3, <3>1
  <2> QED BY <2>2, <2>3
<1>4. ASSUME NEW c \in Conns, Disconnect(c)
      PROVE  \E i \in DOMAIN toClient[k] : toClient'[k][j] = toClient[k][i]
  BY <1>4 DEF Disconnect, TypeInv, ClientInv
<1>5. CASE UNCHANGED toClient
  BY <1>5
<1>6. \/ Refuse \/ Grant
      \/ \E p \in Publishers : \E i \in cursor[p] .. Len(subs) : PublishTo(p, i)
      \/ \E c \in Conns : ReadReply(c) \/ ReadEvent(c)
      \/ \E c \in Conns : Disconnect(c)
      \/ UNCHANGED toClient
  BY DEF Next, ThreadStep, PublisherStep, ClientStep, SelectTimeout, Accept,
       Recv, EndOfFile, AddSubscription, EventReply, RemoveSubscriptions, Close,
       Publish, LockList, PublishNull, PublishEnd, Clock, PollEnd, Subscribe,
       SubscribeTimesOut, Track, vars, netVars
<1> QED BY <1>1, <1>2, <1>3, <1>4, <1>5, <1>6

\* A client sends its subscriptions and the answers to the events it reads.
LEMMA ToServerFrom ==
    ASSUME TypeInv, [Next]_vars, NEW k \in Conns, NEW j \in DOMAIN toServer'[k]
    PROVE  \/ \E i \in DOMAIN toServer[k] : toServer'[k][j] = toServer[k][i]
           \/ toServer'[k][j].kind = "subscribe" /\ toServer'[k][j].event \in asked'[k]
           \/ \E i \in DOMAIN toClient[k] :
                 /\ toClient[k][i].kind = "event"
                 /\ IsAnswer(toServer'[k][j], toClient[k][i])
                 /\ << k, toClient[k][i].req_id >> \in answered'
<1>1. ASSUME NEW f \in Fds, Recv(f)
      PROVE  \E i \in DOMAIN toServer[k] : toServer'[k][j] = toServer[k][i]
  BY <1>1, RecvMessage
<1>2. ASSUME NEW c \in Conns, Subscribe(c)
      PROVE  \/ \E i \in DOMAIN toServer[k] : toServer'[k][j] = toServer[k][i]
             \/ /\ toServer'[k][j].kind = "subscribe"
                /\ toServer'[k][j].event \in asked'[k]
  <2>1. PICK e \in Events, t \in Types :
           /\ asked' = [asked EXCEPT ![c] = @ \union {e}]
           /\ toServer' = [toServer EXCEPT ![c] =
                             Append(@, SubscribeMessage(asks[c] + 1, e, t))]
    BY <1>2 DEF Subscribe
  <2>2. /\ toServer[c] \in Seq(ClientMessages)
        /\ toServer'[c] = Append(toServer[c], SubscribeMessage(asks[c] + 1, e, t))
        /\ e \in asked'[c] /\ (k # c => toServer'[k] = toServer[k])
    BY <2>1 DEF TypeInv, ClientInv
  <2>3. CASE k = c
    <3>1. \/ j \in DOMAIN toServer[k] /\ toServer'[k][j] = toServer[k][j]
          \/ toServer'[k][j] = SubscribeMessage(asks[c] + 1, e, t)
      BY <2>2, <2>3
    <3> QED BY <2>2, <2>3, <3>1 DEF SubscribeMessage
  <2> QED BY <2>2, <2>3
<1>3. ASSUME NEW c \in Conns, ReadEvent(c)
      PROVE  \/ \E i \in DOMAIN toServer[k] : toServer'[k][j] = toServer[k][i]
             \/ \E i \in DOMAIN toClient[k] :
                   /\ toClient[k][i].kind = "event"
                   /\ IsAnswer(toServer'[k][j], toClient[k][i])
                   /\ << k, toClient[k][i].req_id >> \in answered'
  <2>1. CASE k # c
    BY <1>3, <2>1, AnswersToEvent
  <2>2. CASE k = c
    <3>1. /\ 1 \in DOMAIN toClient[k] /\ toClient[k][1].kind = "event"
          /\ \/ j \in DOMAIN toServer[k] /\ toServer'[k][j] = toServer[k][j]
             \/ /\ IsAnswer(toServer'[k][j], toClient[k][1])
                /\ << k, toClient[k][1].req_id >> \in answered'
      BY <1>3, <2>2, AnswersToEvent
    <3> QED BY <3>1
  <2> QED BY <2>1, <2>2
<1>4. CASE UNCHANGED toServer
  BY <1>4
<1>5. \/ \E f \in Fds : Recv(f)
      \/ \E c \in Conns : Subscribe(c) \/ ReadEvent(c)
      \/ UNCHANGED toServer
  BY DEF Next, ThreadStep, PublisherStep, ClientStep, SelectTimeout, Accept,
       Refuse, Grant, EndOfFile, AddSubscription, EventReply,
       RemoveSubscriptions, Close, Publish, LockList, PublishNull, PublishTo,
       PublishEnd, Clock, PollEnd, ReadReply, Disconnect, SubscribeTimesOut,
       Track, vars, netVars
<1> QED BY <1>1, <1>2, <1>3, <1>4, <1>5

\* What has been asked for stays asked for, and answers stay given.
LEMMA HistoryGrows ==
    ASSUME TypeInv, [Next]_vars
    PROVE  /\ \A k \in Conns : asked[k] \subseteq asked'[k]
           /\ answered \subseteq answered'
<1>1. ASSUME NEW k \in Conns, Subscribe(k)
      PROVE  /\ \A c \in Conns : asked[c] \subseteq asked'[c]
             /\ answered' = answered
  BY <1>1 DEF Subscribe, TypeInv, ClientInv
<1>2. ASSUME NEW k \in Conns, ReadEvent(k)
      PROVE  asked' = asked /\ answered \subseteq answered'
  BY <1>2 DEF ReadEvent
<1>3. \/ \E k \in Conns : Subscribe(k) \/ ReadEvent(k)
      \/ UNCHANGED << asked, answered >>
  <2>1. CASE ThreadStep
    BY <2>1 DEF ThreadStep, SelectTimeout, Accept, Recv, EndOfFile, Refuse,
         Grant, AddSubscription, EventReply, RemoveSubscriptions, Close, vars,
         clientVars
  <2>2. ASSUME NEW p \in Publishers, PublisherStep(p)
        PROVE  UNCHANGED << asked, answered >>
    BY <2>2 DEF PublisherStep, Publish, LockList, PublishNull, PublishTo,
         PublishEnd, Clock, PollEnd, clientVars
  <2>3. ASSUME NEW k \in Conns, ClientStep(k)
        PROVE  Subscribe(k) \/ ReadEvent(k) \/ UNCHANGED << asked, answered >>
    BY <2>3 DEF ClientStep, SubscribeTimesOut, ReadReply, Track, Disconnect,
         clientVars
  <2> QED BY <2>1, <2>2, <2>3 DEF Next, vars, clientVars
<1> QED BY <1>1, <1>2, <1>3

-----------------------------------------------------------------------------
(* Subscribers. *)

\* Entries, and the requests on their way to becoming one, name an event that
\* their connection has asked for.
AskedInv ==
    /\ \A i \in DOMAIN subs : subs[i].event \in asked[subs[i].conn]
    /\ spc \in {"subscribe", "add"} => smsg.event \in asked[peer[sfd]]
    /\ \A k \in Conns : \A i \in DOMAIN toServer[k] :
          toServer[k][i].kind = "subscribe" => toServer[k][i].event \in asked[k]
    /\ OnlySubscribers


\* Every step preserves AskedInv when no event's name is a prefix of another.
LEMMA AskedStep ==
    ASSUME NamePrefix = {}
    PROVE  TypeInv /\ FdInv /\ AskedInv /\ [Next]_vars => AskedInv'
<1> SUFFICES ASSUME TypeInv, FdInv, AskedInv, [Next]_vars PROVE AskedInv'
  OBVIOUS
<1>1. ASSUME NEW j \in DOMAIN subs' PROVE subs'[j].event \in asked'[subs'[j].conn]
  <2>1. CASE AddSubscription /\ subs'[j] = NewEntry(sfd, smsg)
    <3>1. subs'[j].event = smsg.event /\ subs'[j].conn = peer[sfd]
      BY <2>1 DEF NewEntry
    <3> QED BY <2>1, <3>1 DEF AddSubscription, AskedInv, clientVars
  <2>2. ASSUME NEW i \in DOMAIN subs, subs'[j].conn = subs[i].conn,
               subs'[j].event = subs[i].event
        PROVE  subs'[j].event \in asked'[subs'[j].conn]
    <3>1. subs[i].conn \in Conns
      BY EntryFields DEF TypeInv
    <3> QED BY <2>2, <3>1, HistoryGrows DEF AskedInv
  <2> QED BY <2>1, <2>2, EntriesFrom
<1>2. spc' \in {"subscribe", "add"} => smsg'.event \in asked'[peer'[sfd']]
  <2>1. ASSUME NEW f \in Fds, Recv(f), spc' \in {"subscribe", "add"}
        PROVE  smsg'.event \in asked'[peer'[sfd']]
    <3>1. /\ peer[f] \in Conns /\ 1 \in DOMAIN toServer[peer[f]]
          /\ toServer[peer[f]][1].kind = "subscribe"
          /\ smsg' = toServer[peer[f]][1] /\ peer'[sfd'] = peer[f]
      BY <2>1, RecvMessage DEF Subscriptions
    <3> QED BY <3>1, HistoryGrows DEF AskedInv
  <2>2. ASSUME UNCHANGED << peer, sfd, smsg >>, spc \in {"subscribe", "add"}
        PROVE  smsg'.event \in asked'[peer'[sfd']]
    <3>1. peer[sfd] \in Conns
      BY <2>2 DEF TypeInv, ServerInv
    <3> QED BY <2>2, <3>1, HistoryGrows DEF AskedInv
  <2>3. spc' \in {"subscribe", "add"} =>
           \/ \E f \in Fds : Recv(f)
           \/ UNCHANGED << peer, sfd, smsg >> /\ spc \in {"subscribe", "add"}
    BY ThreadFrame DEF ThreadStep, SelectTimeout, Accept, EndOfFile, Refuse,
         Grant, AddSubscription, EventReply, RemoveSubscriptions, Close,
         BackToLoop, vars, threadVars
  <2> QED BY <2>1, <2>2, <2>3
<1>3. ASSUME NEW k \in Conns, NEW j \in DOMAIN toServer'[k],
             toServer'[k][j].kind = "subscribe"
      PROVE  toServer'[k][j].event \in asked'[k]
  <2>2. \/ \E i \in DOMAIN toServer[k] : toServer'[k][j] = toServer[k][i]
        \/ toServer'[k][j].event \in asked'[k]
    BY <1>3, ToServerFrom DEF IsAnswer
  <2> QED BY <1>3, <2>2, HistoryGrows DEF AskedInv
<1>4. ASSUME NEW k \in Conns, NEW j \in DOMAIN toClient'[k],
             toClient'[k][j].kind = "event"
      PROVE  toClient'[k][j].event \in asked'[k]
  <2>1. ASSUME NEW p \in Publishers, NEW i \in cursor[p] .. Len(subs),
               PublishTo(p, i), k = peer[subs[i].fd],
               toClient'[k][j] = EventMessage(event[p], g_seqnumber + 1)
        PROVE  toClient'[k][j].event \in asked'[k]
    <3>1. i \in DOMAIN subs
      BY DEF TypeInv, PublisherInv, ServerInv
    <3>2. subs[i].event = event[p]
      BY <2>1 DEF PublishTo, IsNextMatch, NameMatches
    <3>3. subs[i].conn = k
      BY <2>1, <3>1 DEF FdInv, FdSafe
    <3> QED BY <2>1, <3>1, <3>2, <3>3, HistoryGrows DEF AskedInv, EventMessage
  <2> QED BY <1>4, <2>1, ToClientFrom, HistoryGrows DEF AskedInv, OnlySubscribers
<1> QED BY <1>1, <1>2, <1>3, <1>4 DEF AskedInv, OnlySubscribers

\* When no event's name is a prefix of another, events travel only on
\* connections that have asked for them.
THEOREM EventsOnlyToSubscribers ==
    ASSUME NamePrefix = {} PROVE Spec => []OnlySubscribers
<1>1. Init => FdInv /\ AskedInv
  BY DEF Init, FdInv, FdSafe, AskedInv, OnlySubscribers
<1>2. TypeInv /\ FdInv /\ AskedInv /\ [Next]_vars => FdInv' /\ AskedInv'
  BY FdStep, AskedStep
<1>3. AskedInv => OnlySubscribers
  BY DEF AskedInv
<1> QED BY <1>1, <1>2, <1>3, TypeInvariant, PTL DEF Spec

-----------------------------------------------------------------------------
(* Answers. *)

\* A number under way is one that has been handed out.
IsNumber(n) == FirstSeq < n /\ n <= g_seqnumber

\* Numbers are handed out in order, and an answer under way was sent by the
\* client of its connection.
NumberInv ==
    /\ FirstSeq <= g_seqnumber
    /\ \A i \in DOMAIN subs : subs[i].req_id # NULL => IsNumber(subs[i].req_id)
    /\ \A k \in Conns : \A i \in DOMAIN toClient[k] :
          toClient[k][i].kind = "event" => IsNumber(toClient[k][i].req_id)
    /\ \A k \in Conns : \A i \in DOMAIN toServer[k] :
          toServer[k][i].kind = "result" =>
             /\ IsNumber(toServer[k][i].req_id)
             /\ << k, toServer[k][i].req_id >> \in answered
    /\ spc = "result" => /\ IsNumber(smsg.req_id)
                         /\ << peer[sfd], smsg.req_id >> \in answered

\* Connection k still owes publisher p the answer to number n or a later one.
Owes(p, k, n) ==
    \E i \in DOMAIN subs :
        /\ subs[i].conn = k /\ NameMatches(subs[i].event, event[p])
        /\ IsSync(subs[i]) /\ subs[i].status = "WAIT_EVENT_REPLY_MSG"
        /\ subs[i].req_id \in Nat /\ subs[i].req_id >= n

\* Connection k has answered number n or a later one, or is closed.
Settled(k, n) ==
    up[k] = "closed" \/ \E b \in answered : b[1] = k /\ b[2] >= n

\* What publisher p asked for is owed or settled, it waits for it unless a
\* send has failed, and once it has returned everything is settled.
OweOf(p) ==
    /\ awaited[p] \subseteq Conns \X Nat
    /\ ppc[p] \in {"walk", "poll"} =>
          \A a \in awaited[p] : Owes(p, a[1], a[2]) \/ Settled(a[1], a[2])
    /\ ppc[p] = "walk" /\ ret[p] = "ok" /\ ~blocking[p] => awaited[p] = {}
    /\ ppc[p] = "lock" => awaited[p] = {}
    /\ ppc[p] = "idle" /\ ret[p] = "ok" /\ ~timedOut[p] =>
          \A a \in awaited[p] : Settled(a[1], a[2])

\* The inductive invariant of SyncDone.
OweInv == \A p \in Publishers : OweOf(p)

\* The counter is only ever incremented.
LEMMA CounterGrows ==
    ASSUME [Next]_vars
    PROVE  \/ g_seqnumber' = g_seqnumber
           \/ g_seqnumber' = g_seqnumber + 1
  BY DEF Next, ThreadStep, PublisherStep, ClientStep, SelectTimeout, Accept,
       Recv, EndOfFile, Refuse, Grant, AddSubscription, EventReply,
       RemoveSubscriptions, Close, Publish, LockList, PublishNull, PublishTo,
       PublishEnd, Clock, PollEnd, Subscribe, SubscribeTimesOut, ReadReply,
       Track, ReadEvent, Disconnect, vars, NextSeqNumber

\* Every step preserves NumberInv.
LEMMA NumberStep == TypeInv /\ NumberInv /\ [Next]_vars => NumberInv'
<1> SUFFICES ASSUME TypeInv, NumberInv, [Next]_vars PROVE NumberInv'
  OBVIOUS
<1> DEFINE Now(n) == FirstSeq < n /\ n <= g_seqnumber'
<1>0. g_seqnumber \in Nat /\ FirstSeq \in Nat
  BY EventsAssumption DEF TypeInv, ServerInv
<1>1. FirstSeq <= g_seqnumber'
  BY <1>0, CounterGrows DEF NumberInv
<1>2. ASSUME NEW n \in Nat, IsNumber(n) PROVE Now(n)
  BY <1>0, <1>2, CounterGrows DEF IsNumber
<1>3. g_seqnumber' = g_seqnumber + 1 => Now(g_seqnumber + 1)
  BY <1>0, <1>1 DEF IsNumber, NumberInv
<1> HIDE DEF Now
<1>4. ASSUME NEW j \in DOMAIN subs', subs'[j].req_id # NULL
      PROVE  Now(subs'[j].req_id)
  <2>1. CASE AddSubscription /\ subs'[j] = NewEntry(sfd, smsg)
    BY <1>4, <2>1 DEF NewEntry
  <2>2. ASSUME NEW i \in DOMAIN subs, subs'[j].req_id = subs[i].req_id
        PROVE  Now(subs'[j].req_id)
    <3>1. subs[i] \in Entries
      BY DEF TypeInv, ServerInv
    <3>2. subs[i].req_id \in Nat /\ IsNumber(subs[i].req_id)
      BY <1>4, <2>2, <3>1 DEF Entries, NumberInv
    <3> QED BY <1>2, <2>2, <3>2
  <2> QED BY <1>3, <2>1, <2>2, EntriesFrom
<1>5. ASSUME NEW k \in Conns, NEW j \in DOMAIN toClient'[k],
             toClient'[k][j].kind = "event"
      PROVE  Now(toClient'[k][j].req_id)
  <2>1. ASSUME NEW p \in Publishers, NEW i \in cursor[p] .. Len(subs),
               PublishTo(p, i),
               toClient'[k][j] = EventMessage(event[p], g_seqnumber + 1)
        PROVE  Now(toClient'[k][j].req_id)
    BY <1>3, <2>1 DEF PublishTo, NextSeqNumber, EventMessage
  <2>2. ASSUME NEW i \in DOMAIN toClient[k], toClient'[k][j] = toClient[k][i]
        PROVE  Now(toClient'[k][j].req_id)
    <3>1. toClient[k][i] \in ServerMessages
      BY DEF TypeInv, ClientInv
    <3>2. toClient[k][i].req_id \in Nat /\ IsNumber(toClient[k][i].req_id)
      BY <1>5, <2>2, <3>1 DEF ServerMessages, NumberInv
    <3> QED BY <1>2, <2>2, <3>2
  <2> QED BY <1>5, <2>1, <2>2, ToClientFrom
<1>6. ASSUME NEW k \in Conns, NEW j \in DOMAIN toServer'[k],
             toServer'[k][j].kind = "result"
      PROVE  /\ Now(toServer'[k][j].req_id)
             /\ << k, toServer'[k][j].req_id >> \in answered'
  <2>1. ASSUME NEW i \in DOMAIN toServer[k], toServer'[k][j] = toServer[k][i]
        PROVE  /\ Now(toServer'[k][j].req_id)
               /\ << k, toServer'[k][j].req_id >> \in answered'
    <3>1. toServer[k][i] \in ClientMessages
      BY DEF TypeInv, ClientInv
    <3>2. /\ toServer[k][i].req_id \in Nat /\ IsNumber(toServer[k][i].req_id)
          /\ << k, toServer[k][i].req_id >> \in answered
      BY <1>6, <2>1, <3>1 DEF ClientMessages, NumberInv
    <3> QED BY <1>2, <2>1, <3>2, HistoryGrows
  <2>2. ASSUME NEW i \in DOMAIN toClient[k], toClient[k][i].kind = "event",
               IsAnswer(toServer'[k][j], toClient[k][i]),
               << k, toClient[k][i].req_id >> \in answered'
        PROVE  /\ Now(toServer'[k][j].req_id)
               /\ << k, toServer'[k][j].req_id >> \in answered'
    <3>1. toClient[k][i] \in ServerMessages
      BY DEF TypeInv, ClientInv
    <3>2. toClient[k][i].req_id \in Nat /\ IsNumber(toClient[k][i].req_id)
      BY <2>2, <3>1 DEF ServerMessages, NumberInv
    <3> QED BY <1>2, <2>2, <3>2 DEF IsAnswer
  <2> QED BY <1>6, <2>1, <2>2, ToServerFrom
<1>7. spc' = "result" => /\ Now(smsg'.req_id)
                         /\ << peer'[sfd'], smsg'.req_id >> \in answered'
  <2>1. ASSUME NEW f \in Fds, Recv(f), spc' = "result"
        PROVE  /\ Now(smsg'.req_id)
               /\ << peer'[sfd'], smsg'.req_id >> \in answered'
    <3>1. /\ peer[f] \in Conns /\ 1 \in DOMAIN toServer[peer[f]]
          /\ smsg' = toServer[peer[f]][1] /\ peer'[sfd'] = peer[f]
          /\ smsg'.kind = "result" /\ smsg'.req_id \in Nat
      BY <2>1, RecvMessage DEF Results
    <3>2. /\ IsNumber(smsg'.req_id)
          /\ << peer[f], smsg'.req_id >> \in answered
      BY <3>1 DEF NumberInv
    <3> QED BY <1>2, <3>1, <3>2, HistoryGrows
  <2>2. ASSUME UNCHANGED << peer, sfd, smsg >>, spc = "result"
        PROVE  /\ Now(smsg'.req_id)
               /\ << peer'[sfd'], smsg'.req_id >> \in answered'
    <3>1. smsg.req_id \in Nat
      BY <2>2 DEF TypeInv, ServerInv, Results
    <3> QED BY <1>2, <2>2, <3>1, HistoryGrows DEF NumberInv
  <2>3. spc' = "result" => \/ \E f \in Fds : Recv(f)
                           \/ UNCHANGED << peer, sfd, smsg >> /\ spc = "result"
    BY ThreadFrame DEF ThreadStep, SelectTimeout, Accept, EndOfFile, Refuse,
         Grant, AddSubscription, EventReply, RemoveSubscriptions, Close,
         BackToLoop, vars, threadVars
  <2> QED BY <2>1, <2>2, <2>3
<1> QED BY <1>1, <1>4, <1>5, <1>6, <1>7 DEF NumberInv, IsNumber, Now

\* A settled answer stays settled.
LEMMA SettledStays ==
    ASSUME TypeInv, [Next]_vars, NEW k \in Conns, NEW n \in Nat, Settled(k, n)
    PROVE  Settled(k, n)'
  BY ClosedStays, HistoryGrows DEF Settled

\* All numbers handed out have equally many digits.
SameDigits == g_seqnumber < Radix * (FirstSeq + 1)

\* An answer that is owed stays owed until it is settled: neither another
\* connection's answer nor one to an earlier event, neither another publisher
\* nor the end of another connection takes the debt away.
LEMMA DebtStays ==
    ASSUME TypeInv, FdInv, NumberInv, SameDigits, [Next]_vars,
           NEW p \in Publishers, NEW k \in Conns, NEW n \in Nat,
           Owes(p, k, n), event'[p] = event[p]
    PROVE  Owes(p, k, n)' \/ Settled(k, n)'
<1>1. PICK i \in DOMAIN subs :
         /\ subs[i].conn = k /\ NameMatches(subs[i].event, event[p])
         /\ IsSync(subs[i]) /\ subs[i].status = "WAIT_EVENT_REPLY_MSG"
         /\ subs[i].req_id \in Nat /\ subs[i].req_id >= n
  BY DEF Owes
<1>2. ASSUME NEW j \in DOMAIN subs', subs'[j] = subs[i] PROVE Owes(p, k, n)'
  BY <1>1, <1>2 DEF Owes, IsSync, NameMatches
<1>3. subs \in Seq(Entries) /\ peer[subs[i].fd] = k
  BY <1>1 DEF TypeInv, ServerInv, FdInv, FdSafe
<1>4. CASE AddSubscription
  BY <1>2, <1>3, <1>4 DEF AddSubscription
<1>5. CASE EventReply
  <2>1. CASE Credited(subs[i])
    <3>1. /\ peer[sfd] = k /\ IdMatches(subs[i].req_id, smsg.req_id)
          /\ spc = "result"
      BY <1>3, <1>5, <2>1 DEF Credited, EventReply
    <3>2. /\ smsg.req_id \in Nat /\ FirstSeq < smsg.req_id
          /\ << k, smsg.req_id >> \in answered
      BY <3>1 DEF TypeInv, ServerInv, Results, NumberInv, IsNumber
    <3>3. subs[i].req_id < Radix * (FirstSeq + 1)
      <4>1. subs[i].req_id <= g_seqnumber
        BY <1>1, <3>1 DEF NumberInv, IsNumber, IdMatches
      <4>2. Radix * (FirstSeq + 1) \in Nat
        BY EventsAssumption
      <4> QED BY <1>1, <4>1, <4>2 DEF SameDigits, TypeInv, ServerInv
    <3>4. smsg.req_id = subs[i].req_id
      BY <1>1, <3>1, <3>2, <3>3, EqualDigits
    <3>5. Settled(k, n)
      <4>1. << k, smsg.req_id >>[1] = k /\ << k, smsg.req_id >>[2] >= n
        BY <1>1, <3>4
      <4> QED BY <3>2, <4>1 DEF Settled
    <3> QED BY <3>5, SettledStays
  <2>2. CASE ~Credited(subs[i])
    BY <1>2, <1>5, <2>2 DEF EventReply
  <2> QED BY <2>1, <2>2
<1>6. CASE RemoveSubscriptions
  <2>1. CASE subs[i].fd = sfd
    <3>1. up[k] = "closed"
      BY <1>3, <1>6, <2>1 DEF RemoveSubscriptions, FdInv
    <3> QED BY <3>1, SettledStays DEF Settled
  <2>2. CASE subs[i].fd # sfd
    <3>1. \E j \in DOMAIN subs' : subs'[j] = subs[i]
      BY <1>3, <1>6, <2>2, WithoutEntries DEF RemoveSubscriptions
    <3> QED BY <1>2, <3>1
  <2> QED BY <2>1, <2>2
<1>7. ASSUME NEW q \in Publishers, NEW h \in cursor[q] .. Len(subs),
             PublishTo(q, h)
      PROVE  Owes(p, k, n)'
  <2>1. \/ subs' = subs
        \/ subs' = [subs EXCEPT ![h].req_id = g_seqnumber + 1,
                                ![h].status = "WAIT_EVENT_REPLY_MSG"]
    BY <1>7 DEF PublishTo, NextSeqNumber
  <2>2. h \in DOMAIN subs /\ g_seqnumber + 1 \in Nat /\ ServerInv
    BY DEF TypeInv, PublisherInv, ServerInv
  <2>3. subs' = subs \/ Asked(subs', h, g_seqnumber + 1)
    BY <2>1, <2>2, EntryAsked, Zenon
  <2>4. CASE subs' = subs \/ h # i
    BY <1>2, <2>3, <2>4 DEF Asked
  <2>5. CASE Asked(subs', i, g_seqnumber + 1)
    <3>1. g_seqnumber + 1 >= n
      <4>1. CASE subs[i].req_id = NULL
        BY <1>1, <4>1, EventsAssumption
      <4>2. CASE subs[i].req_id # NULL
        BY <1>1, <4>2 DEF NumberInv, IsNumber, TypeInv, ServerInv
      <4> QED BY <4>1, <4>2
    <3>2. /\ i \in DOMAIN subs' /\ subs'[i].conn = k
          /\ NameMatches(subs'[i].event, event'[p]) /\ IsSync(subs'[i])
          /\ subs'[i].status = "WAIT_EVENT_REPLY_MSG"
          /\ subs'[i].req_id = g_seqnumber + 1
      BY <1>1, <2>5 DEF Asked, IsSync, NameMatches
    <3> QED BY <2>2, <3>1, <3>2 DEF Owes, IsSync, NameMatches
  <2> QED BY <2>3, <2>4, <2>5
<1>8. CASE UNCHANGED subs
  BY <1>2, <1>8
<1>9. \/ AddSubscription \/ EventReply \/ RemoveSubscriptions
      \/ \E q \in Publishers : \E h \in cursor[q] .. Len(subs) : PublishTo(q, h)
      \/ UNCHANGED subs
  BY DEF Next, ThreadStep, PublisherStep, ClientStep, SelectTimeout, Accept,
       Recv, EndOfFile, Refuse, Grant, Close, Publish, LockList, PublishNull,
       PublishEnd, Clock, PollEnd, Subscribe, SubscribeTimesOut, ReadReply,
       Track, ReadEvent, Disconnect, vars
<1> QED BY <1>4, <1>5, <1>6, <1>7, <1>8, <1>9

\* A publisher's variables change in its own steps only.
LEMMA PublisherFrame ==
    ASSUME TypeInv, [Next]_vars, NEW p \in Publishers
    PROVE  \/ PublisherStep(p)
           \/ /\ ppc'[p] = ppc[p] /\ event'[p] = event[p]
              /\ ret'[p] = ret[p] /\ blocking'[p] = blocking[p]
              /\ timedOut'[p] = timedOut[p] /\ awaited'[p] = awaited[p]
<1>1. ASSUME NEW q \in Publishers, PublisherStep(q), q # p
      PROVE  /\ ppc'[p] = ppc[p] /\ event'[p] = event[p]
             /\ ret'[p] = ret[p] /\ blocking'[p] = blocking[p]
             /\ timedOut'[p] = timedOut[p] /\ awaited'[p] = awaited[p]
  BY <1>1 DEF PublisherStep, Publish, LockList, PublishNull, PublishTo,
       PublishEnd, Clock, PollEnd, At, TypeInv, PublisherInv
<1>2. CASE ThreadStep
  BY <1>2 DEF ThreadStep, SelectTimeout, Accept, Recv, EndOfFile, Refuse,
       Grant, AddSubscription, EventReply, RemoveSubscriptions, Close, vars,
       pubVars
<1>3. ASSUME NEW k \in Conns, ClientStep(k) PROVE UNCHANGED pubVars
  BY <1>3 DEF ClientStep, Subscribe, SubscribeTimesOut, ReadReply, Track,
       ReadEvent, Disconnect
<1> QED BY <1>1, <1>2, <1>3 DEF Next, vars, pubVars

\* A debt stays owed or is settled, over any step that leaves the publisher's
\* event alone.
LEMMA DebtsStay ==
    ASSUME TypeInv, FdInv, NumberInv, SameDigits, [Next]_vars,
           NEW p \in Publishers, event'[p] = event[p],
           NEW a \in Conns \X Nat,
           Owes(p, a[1], a[2]) \/ Settled(a[1], a[2])
    PROVE  Owes(p, a[1], a[2])' \/ Settled(a[1], a[2])'
<1>1. a[1] \in Conns /\ a[2] \in Nat
  OBVIOUS
<1> QED BY <1>1, DebtStays, SettledStays

\* The entry an event was sent for owes the answer.
LEMMA NewDebt ==
    ASSUME TypeInv, FdInv, NEW p \in Publishers,
           NEW i \in cursor[p] .. Len(subs), PublishTo(p, i), IsSync(subs[i]),
           NEW k, k = peer[subs[i].fd], NEW n, n = g_seqnumber + 1
    PROVE  k \in Conns /\ n \in Nat /\ Owes(p, k, n)'
<1>1. i \in DOMAIN subs /\ subs[i] \in Entries /\ n \in Nat
  BY DEF TypeInv, ServerInv, PublisherInv
<1>2. k = subs[i].conn /\ k \in Conns
  BY <1>1 DEF FdInv, FdSafe, Entries
<1>3. Asked(subs', i, n)
  <2>1. subs' = [subs EXCEPT ![i].req_id = n,
                             ![i].status = "WAIT_EVENT_REPLY_MSG"]
    BY DEF PublishTo, NextSeqNumber
  <2>2. ServerInv
    BY DEF TypeInv
  <2> QED BY <1>1, <2>1, <2>2, EntryAsked, Zenon
<1>4. /\ event' = event /\ NameMatches(subs[i].event, event[p])
      /\ peer' = peer
  BY DEF PublishTo, IsNextMatch
<1>5. /\ i \in DOMAIN subs' /\ subs'[i].conn = k
      /\ NameMatches(subs'[i].event, event'[p]) /\ IsSync(subs'[i])
      /\ subs'[i].status = "WAIT_EVENT_REPLY_MSG"
      /\ subs'[i].req_id = n
  BY <1>1, <1>2, <1>3, <1>4 DEF Asked, IsSync, NameMatches
<1> QED BY <1>1, <1>2, <1>5 DEF Owes, IsSync, NameMatches

\* Every step preserves what is owed to each publisher.
LEMMA OweStep ==
    ASSUME TypeInv, FdInv, NumberInv, SameDigits, OweInv, [Next]_vars,
           NEW p \in Publishers
    PROVE  OweOf(p)'
<1> DEFINE StillOwed == \A a \in awaited[p] :
                         Owes(p, a[1], a[2])' \/ Settled(a[1], a[2])'
<1>1. OweOf(p)
  BY DEF OweInv
<1>2. ASSUME event'[p] = event[p], ppc[p] \in {"walk", "poll"} PROVE StillOwed
  BY <1>1, <1>2, DebtsStay DEF OweOf
<1>3. \A a \in awaited[p] : Settled(a[1], a[2]) => Settled(a[1], a[2])'
  BY <1>1, SettledStays DEF OweOf
<1> HIDE DEF StillOwed
<1>4. CASE Publish(p)
  BY <1>4 DEF Publish, At, OweOf, TypeInv, PublisherInv
<1>5. CASE LockList(p)
  BY <1>1, <1>5 DEF LockList, At, OweOf, TypeInv, PublisherInv
<1>6. CASE PublishNull(p)
  BY <1>1, <1>6 DEF PublishNull, At, OweOf, TypeInv, PublisherInv
<1>7. ASSUME NEW i \in cursor[p] .. Len(subs), PublishTo(p, i) PROVE OweOf(p)'
  <2> DEFINE k == peer[subs[i].fd]
             n == g_seqnumber + 1
  <2>1. StillOwed /\ ppc'[p] = "walk" /\ event'[p] = event[p]
    BY <1>2, <1>7 DEF PublishTo
  <2>2. awaited'[p] = IF IsSync(subs[i]) THEN awaited[p] \union {<< k, n >>}
                      ELSE awaited[p]
    BY <1>7 DEF PublishTo, NextSeqNumber, TypeInv, PublisherInv
  <2>3. IsSync(subs[i]) => k \in Conns /\ n \in Nat
    BY <1>7, NewDebt
  <2>4. awaited'[p] \subseteq Conns \X Nat
    BY <1>1, <2>2, <2>3 DEF OweOf
  <2>5. ret'[p] = "ok" /\ ~blocking'[p] => ret[p] = "ok" /\ ~blocking[p] /\ ~IsSync(subs[i])
    BY <1>7 DEF PublishTo, TypeInv, PublisherInv
  <2>6. ret'[p] = "ok" /\ ~blocking'[p] => awaited'[p] = {}
    BY <1>1, <1>7, <2>2, <2>5 DEF OweOf, PublishTo
  <2>7. ASSUME NEW a \in awaited'[p]
        PROVE  Owes(p, a[1], a[2])' \/ Settled(a[1], a[2])'
    <3>1. CASE a \in awaited[p]
      BY <2>1, <3>1 DEF StillOwed
    <3>2. CASE IsSync(subs[i]) /\ a = << k, n >>
      <4>1. a[1] = k /\ a[2] = n
        BY <3>2
      <4> QED BY <1>7, <3>2, <4>1, NewDebt
    <3> QED BY <2>2, <2>7, <3>1, <3>2
  <2> QED BY <2>1, <2>4, <2>6, <2>7 DEF OweOf
<1>8. CASE PublishEnd(p)
  <2>1. /\ StillOwed /\ awaited'[p] = awaited[p] /\ ret'[p] = ret[p]
        /\ blocking'[p] = blocking[p]
        /\ ppc[p] = "walk" /\ ppc'[p] = IF blocking[p] THEN "poll" ELSE "idle"
    BY <1>2, <1>8 DEF PublishEnd, At, TypeInv, PublisherInv
  <2> QED BY <1>1, <2>1 DEF OweOf, StillOwed
<1>9. CASE PollEnd(p)
  <2>1. /\ awaited'[p] = awaited[p] /\ ret'[p] = ret[p] /\ ppc'[p] = "idle"
        /\ ppc[p] = "poll" /\ timedOut'[p] = (Waiting(event[p]) # {})
    BY <1>9 DEF PollEnd, At, TypeInv, PublisherInv
  <2>2. ASSUME Waiting(event[p]) = {}, NEW a \in awaited[p]
        PROVE  Settled(a[1], a[2])
    <3>1. ~Owes(p, a[1], a[2])
      BY <2>2 DEF Owes, Waiting
    <3> QED BY <1>1, <2>1, <3>1 DEF OweOf
  <2> QED BY <1>1, <1>3, <2>1, <2>2 DEF OweOf
<1>10. CASE /\ ppc'[p] = ppc[p] /\ event'[p] = event[p]
            /\ ret'[p] = ret[p] /\ blocking'[p] = blocking[p]
            /\ timedOut'[p] = timedOut[p] /\ awaited'[p] = awaited[p]
  BY <1>1, <1>2, <1>3, <1>10 DEF OweOf, StillOwed
<1>11. Clock(p) => /\ ppc'[p] = ppc[p] /\ event'[p] = event[p]
                   /\ ret'[p] = ret[p] /\ blocking'[p] = blocking[p]
                   /\ timedOut'[p] = timedOut[p] /\ awaited'[p] = awaited[p]
  BY DEF Clock
<1> QED BY <1>4, <1>5, <1>6, <1>7, <1>8, <1>9, <1>10, <1>11, PublisherFrame
     DEF PublisherStep

\* While the sequence numbers have equally many digits, publish_event returns
\* RETURN_OK without a timeout only when every answer it asked for is in or
\* its connection is closed.
THEOREM SyncDoneWhileDigitsAgree == Spec /\ []SameDigits => []SyncDone
<1>1. Init => FdInv /\ NumberInv /\ OweInv
  BY EventsAssumption DEF Init, FdInv, FdSafe, NumberInv, OweInv, OweOf
<1>2. TypeInv /\ FdInv /\ NumberInv /\ OweInv /\ SameDigits /\ [Next]_vars
        => FdInv' /\ NumberInv' /\ OweInv'
  BY FdStep, NumberStep, OweStep DEF OweInv
<1>3. OweInv => SyncDone
  BY DEF OweInv, OweOf, SyncDone, Settled
<1> QED BY <1>1, <1>2, <1>3, TypeInvariant, PTL DEF Spec
=============================================================================
