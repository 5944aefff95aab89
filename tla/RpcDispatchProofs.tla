-------------------------- MODULE RpcDispatchProofs --------------------------
(***************************************************************************)
(* Requests and replies, for any number of connections, requests,          *)
(* parameters and callbacks, and for every width of int and long.          *)
(***************************************************************************)
EXTENDS RpcDispatch, ParamCodecProofs, WellFoundedInduction

-----------------------------------------------------------------------------
(* Induction, as the least counterexample. *)

\* A set of naturals that is not empty has a least element.
LEMMA LeastNumber ==
    ASSUME NEW S \in SUBSET Nat, S # {}
    PROVE  \E n \in S : \A m \in S : n <= m
<1> DEFINE Less == { q \in Nat \X Nat : q[1] < q[2] }
<1>1. IsWellFoundedOn(Less, Nat)
  BY NatLessThanWellFounded, Zenon DEF OpToRel
<1>2. PICK n \in S : \A m \in S : << m, n >> \notin Less
  BY <1>1, WFMin, Zenon
<1>3. ASSUME NEW m \in S PROVE n <= m
  <2>1. m \in Nat /\ n \in Nat
    OBVIOUS
  <2>2. m < n => << m, n >> \in Less
    BY <2>1
  <2> QED BY <1>2, <2>1, <2>2
<1> QED BY <1>3

\* The largest of a set of naturals with a bound is in the set.
LEMMA LargestNumber ==
    ASSUME NEW n \in Nat, NEW S \in SUBSET (0 .. n), S # {}
    PROVE  Max(S) \in S
<1> DEFINE T == { n - i : i \in S }
<1>1. T \in SUBSET Nat /\ T # {}
  <2>1. \A i \in S : i \in 0 .. n /\ n - i \in Nat
    OBVIOUS
  <2>2. \E i : i \in S
    OBVIOUS
  <2> QED BY <2>1, <2>2
<1>2. PICK t \in T : \A u \in T : t <= u
  BY <1>1, LeastNumber
<1>3. PICK m \in S : t = n - m
  OBVIOUS
<1>4. \A i \in S : m >= i
  <2> TAKE i \in S
  <2>1. t <= n - i /\ i \in Int /\ m \in Int
    BY <1>2
  <2> QED BY <1>3, <2>1
<1> QED BY <1>3, <1>4 DEF Max

-----------------------------------------------------------------------------
(* Sequences and queues of whatever there is. *)

IsSeq(s) == \E S : s \in Seq(S)

\* Appending to a sequence of anything: where its elements are.
LEMMA AppendOne ==
    ASSUME NEW s, IsSeq(s), NEW e
    PROVE  /\ IsSeq(Append(s, e)) /\ Len(s) \in Nat
           /\ DOMAIN s = 1 .. Len(s)
           /\ DOMAIN Append(s, e) = 1 .. (Len(s) + 1)
           /\ Append(s, e)[Len(s) + 1] = e
           /\ \A i \in 1 .. Len(s) : Append(s, e)[i] = s[i]
           /\ s \o << e >> = Append(s, e)
<1>1. PICK S : s \in Seq(S)
  BY DEF IsSeq
<1> DEFINE T == S \union {e}
<1>2. s \in Seq(T) /\ e \in T
  BY <1>1
<1> HIDE DEF T
<1>3. Append(s, e) \in Seq(T)
  BY <1>2
<1> QED BY <1>2, <1>3 DEF IsSeq

\* Taking the first element off: where the others are.
LEMMA DropOne ==
    ASSUME NEW s, IsSeq(s), s # << >>
    PROVE  /\ IsSeq(Tail(s)) /\ Len(s) \in Nat \ {0}
           /\ DOMAIN s = 1 .. Len(s) /\ Head(s) = s[1]
           /\ DOMAIN Tail(s) = 1 .. (Len(s) - 1)
           /\ \A i \in 1 .. (Len(s) - 1) : Tail(s)[i] = s[i + 1]
<1>1. PICK S : s \in Seq(S)
  BY DEF IsSeq
<1>2. Tail(s) \in Seq(S)
  BY <1>1
<1> QED BY <1>1, <1>2 DEF IsSeq

\* A queue for every connection.
IsQueues(q) == DOMAIN q = Conns /\ \A k \in Conns : IsSeq(q[k])

Pushed(q, k, e) == [q EXCEPT ![k] = Append(@, e)]
Popped(q, k)    == [q EXCEPT ![k] = Tail(@)]

\* A message sent on connection k: what every queue holds then.
LEMMA AfterPush ==
    ASSUME NEW q, IsQueues(q), NEW k \in Conns, NEW e
    PROVE  /\ IsQueues(Pushed(q, k, e))
           /\ \A l \in Conns : \A i \in DOMAIN Pushed(q, k, e)[l] :
                 \/ l = k /\ i = Len(q[k]) + 1 /\ Pushed(q, k, e)[l][i] = e
                 \/ i \in DOMAIN q[l] /\ Pushed(q, k, e)[l][i] = q[l][i]
<1>0. DOMAIN q = Conns /\ \A l \in Conns : IsSeq(q[l])
  BY DEF IsQueues
<1>1. /\ Pushed(q, k, e)[k] = Append(q[k], e)
      /\ \A l \in Conns \ {k} : Pushed(q, k, e)[l] = q[l]
      /\ DOMAIN Pushed(q, k, e) = Conns
  BY <1>0 DEF Pushed
<1>2. IsQueues(Pushed(q, k, e))
  <2>1. IsSeq(Append(q[k], e))
    BY <1>0, AppendOne
  <2> QED BY <1>0, <1>1, <2>1 DEF IsQueues
<1>3. ASSUME NEW l \in Conns, NEW i \in DOMAIN Pushed(q, k, e)[l]
      PROVE  \/ l = k /\ i = Len(q[k]) + 1 /\ Pushed(q, k, e)[l][i] = e
             \/ i \in DOMAIN q[l] /\ Pushed(q, k, e)[l][i] = q[l][i]
  <2>1. CASE l # k
    BY <1>1, <2>1
  <2>2. CASE l = k
    <3> DEFINE s == q[k]
    <3>1. /\ Len(s) \in Nat
          /\ DOMAIN s = 1 .. Len(s)
          /\ DOMAIN Append(s, e) = 1 .. (Len(s) + 1)
          /\ Append(s, e)[Len(s) + 1] = e
          /\ \A j \in 1 .. Len(s) : Append(s, e)[j] = s[j]
      BY <1>0, AppendOne
    <3>2. i \in 1 .. (Len(s) + 1)
      BY <1>1, <2>2, <3>1
    <3> QED BY <1>1, <2>2, <3>1, <3>2
  <2> QED BY <2>1, <2>2
<1> QED BY <1>2, <1>3

\* The queues are extended by concatenation, which is the same.
LEMMA PushOne ==
    ASSUME NEW q, IsQueues(q), NEW k \in Conns, NEW e
    PROVE  [q EXCEPT ![k] = @ \o << e >>] = Pushed(q, k, e)
<1>1. q[k] \o << e >> = Append(q[k], e)
  BY AppendOne DEF IsQueues
<1> QED BY <1>1 DEF Pushed

\* A message received on connection k: what every queue holds then.
LEMMA AfterPop ==
    ASSUME NEW q, IsQueues(q), NEW k \in Conns, q[k] # << >>
    PROVE  /\ IsQueues(Popped(q, k))
           /\ 1 \in DOMAIN q[k] /\ Head(q[k]) = q[k][1]
           /\ \A l \in Conns : \A i \in DOMAIN Popped(q, k)[l] :
                 \/ l # k /\ i \in DOMAIN q[l] /\ Popped(q, k)[l][i] = q[l][i]
                 \/ /\ l = k /\ i \in Nat \ {0} /\ i + 1 \in DOMAIN q[l]
                    /\ Popped(q, k)[l][i] = q[l][i + 1]
<1>0. DOMAIN q = Conns /\ \A l \in Conns : IsSeq(q[l])
  BY DEF IsQueues
<1>1. /\ Popped(q, k)[k] = Tail(q[k])
      /\ \A l \in Conns \ {k} : Popped(q, k)[l] = q[l]
      /\ DOMAIN Popped(q, k) = Conns
  BY <1>0 DEF Popped
<1> DEFINE s == q[k]
<1>2. /\ IsSeq(Tail(s)) /\ Len(s) \in Nat \ {0}
      /\ DOMAIN s = 1 .. Len(s) /\ Head(s) = s[1]
      /\ DOMAIN Tail(s) = 1 .. (Len(s) - 1)
      /\ \A i \in 1 .. (Len(s) - 1) : Tail(s)[i] = s[i + 1]
  BY <1>0, DropOne
<1>3. IsQueues(Popped(q, k))
  BY <1>0, <1>1, <1>2 DEF IsQueues
<1>4. ASSUME NEW l \in Conns, NEW i \in DOMAIN Popped(q, k)[l]
      PROVE  \/ l # k /\ i \in DOMAIN q[l] /\ Popped(q, k)[l][i] = q[l][i]
             \/ /\ l = k /\ i \in Nat \ {0} /\ i + 1 \in DOMAIN q[l]
                /\ Popped(q, k)[l][i] = q[l][i + 1]
  BY <1>1, <1>2
<1> QED BY <1>2, <1>3, <1>4

-----------------------------------------------------------------------------
(* What the client builds. *)

\* Appending one more value to a sequence of n of them.
LEMMA OneMore ==
    ASSUME NEW f, NEW n \in Nat
    PROVE  /\ Append([j \in 1 .. n |-> f[j]], f[n + 1])
                = [j \in 1 .. (n + 1) |-> f[j]]
           /\ IsSeq([j \in 1 .. n |-> f[j]])
<1> DEFINE S == { f[j] : j \in 1 .. (n + 1) }
           s == [j \in 1 .. n |-> f[j]]
           t == [j \in 1 .. (n + 1) |-> f[j]]
<1>1. s \in Seq(S) /\ Len(s) = n /\ t \in Seq(S) /\ Len(t) = n + 1
  OBVIOUS
<1>2. \A j \in 1 .. n : s[j] = f[j]
  OBVIOUS
<1>3. f[n + 1] \in S
  OBVIOUS
<1>4. \A j \in 1 .. (n + 1) : t[j] = f[j]
  OBVIOUS
<1> HIDE DEF s, t, S
<1>5. Append(s, f[n + 1]) = t
  BY <1>1, <1>2, <1>3, <1>4
<1> QED BY <1>1, <1>5 DEF IsSeq, s, t

\* The element that json_hal_add_param makes for a request.
Element(action, p) ==
    IF action = "setParameters" THEN TypedElement(p) ELSE NameElement(p)

\* One call of json_hal_add_param by a client appends one element.
LEMMA ParamAdded ==
    ASSUME NEW r, NEW p,
           r = [id |-> r.id, action |-> r.action, params |-> r.params,
                given |-> r.given],
           r.action \in Actions \ {"getSchema"},
           r.action = "setParameters" => Accepted(p.type, p.value)
    PROVE  WithParam(r, p) = [id |-> r.id, action |-> r.action,
                              params |-> Append(r.params, Element(r.action, p)),
                              given |-> Append(r.given, p)]
<1> DEFINE out == json_hal_add_param(r.params, MessageType(r.action), p).out
           more == Append(r.given, p)
           s == [r EXCEPT !.params = out]
<1>1. out = Append(r.params, Element(r.action, p))
  BY DEF MessageType, json_hal_add_param, OK, Element, Actions
<1>2. WithParam(r, p) = [r EXCEPT !.params = out, !.given = more]
  BY DEF WithParam
<1> HIDE DEF out, more
<1>3. s = [id |-> r.id, action |-> r.action, params |-> out, given |-> r.given]
  OBVIOUS
<1>4. [r EXCEPT !.params = out, !.given = more] = [s EXCEPT !.given = more]
  OBVIOUS
<1> HIDE DEF s
<1>5. [s EXCEPT !.given = more]
        = [id |-> r.id, action |-> r.action, params |-> out, given |-> more]
  BY <1>3
<1> QED BY <1>1, <1>2, <1>4, <1>5 DEF more

\* The request of n calls holds the elements of the n parameters.
LEMMA ParamsAdded ==
    ASSUME NEW action \in Actions \ {"getSchema"}, NEW id, NEW n \in Nat,
           NEW ps \in [1 .. n -> HalParams(action)]
    PROVE  WithParams(Header(id, action), ps, n) =
             [id |-> id, action |-> action,
              params |-> [j \in 1 .. n |-> Element(action, ps[j])],
              given |-> [j \in 1 .. n |-> ps[j]]]
<1> DEFINE es == [j \in 1 .. n |-> Element(action, ps[j])]
           made(i) == [id |-> id, action |-> action,
                       params |-> [j \in 1 .. i |-> es[j]],
                       given |-> [j \in 1 .. i |-> ps[j]]]
           Is(f) == f = [i \in 0 .. n |->
                           IF i = 0 THEN Header(id, action)
                           ELSE WithParam(f[i - 1], ps[i])]
           g == [i \in 0 .. n |-> made(i)]
<1>1. made(0) = Header(id, action)
  <2>1. [j \in 1 .. 0 |-> es[j]] = << >> /\ [j \in 1 .. 0 |-> ps[j]] = << >>
    OBVIOUS
  <2> QED BY <2>1 DEF Header
<1>2. \A i \in 1 .. n : made(i) = WithParam(made(i - 1), ps[i])
  <2> TAKE i \in 1 .. n
  <2>1. action = "setParameters" => Accepted(ps[i].type, ps[i].value)
    <3>1. ps[i] \in HalParams(action)
      OBVIOUS
    <3> QED BY <3>1, DispatchAssumption DEF HalParams
  <2>2. /\ Append([j \in 1 .. (i - 1) |-> es[j]], es[(i - 1) + 1])
             = [j \in 1 .. ((i - 1) + 1) |-> es[j]]
        /\ Append([j \in 1 .. (i - 1) |-> ps[j]], ps[(i - 1) + 1])
             = [j \in 1 .. ((i - 1) + 1) |-> ps[j]]
    <3>1. i - 1 \in Nat
      OBVIOUS
    <3> HIDE DEF es
    <3> QED BY <3>1, OneMore
  <2>3. (i - 1) + 1 = i
    OBVIOUS
  <2>4. es[i] = Element(action, ps[i])
    OBVIOUS
  <2>5. WithParam(made(i - 1), ps[i]) =
          [id |-> id, action |-> action,
           params |-> Append([j \in 1 .. (i - 1) |-> es[j]], Element(action, ps[i])),
           given |-> Append([j \in 1 .. (i - 1) |-> ps[j]], ps[i])]
    <3> DEFINE a == [j \in 1 .. (i - 1) |-> es[j]]
               b == [j \in 1 .. (i - 1) |-> ps[j]]
    <3>1. made(i - 1) = [id |-> id, action |-> action, params |-> a, given |-> b]
      OBVIOUS
    <3> HIDE DEF a, b, made
    <3>2. WithParam(made(i - 1), ps[i])
            = [id |-> id, action |-> action,
               params |-> Append(a, Element(action, ps[i])),
               given |-> Append(b, ps[i])]
      <4> DEFINE r == made(i - 1)
      <4>1. /\ r = [id |-> r.id, action |-> r.action, params |-> r.params,
                    given |-> r.given]
            /\ r.id = id /\ r.action = action /\ r.params = a /\ r.given = b
        BY <3>1
      <4> HIDE DEF r
      <4>2. WithParam(r, ps[i])
              = [id |-> r.id, action |-> r.action,
                 params |-> Append(r.params, Element(r.action, ps[i])),
                 given |-> Append(r.given, ps[i])]
        BY <2>1, <4>1, ParamAdded
      <4> QED BY <4>1, <4>2 DEF r
    <3> QED BY <3>2 DEF a, b
  <2> HIDE DEF es
  <2> QED BY <2>2, <2>3, <2>4, <2>5
<1>3. Is(g)
  <2> SUFFICES \A i \in 0 .. n : g[i] = IF i = 0 THEN Header(id, action)
                                        ELSE WithParam(g[i - 1], ps[i])
    OBVIOUS
  <2> TAKE i \in 0 .. n
  <2>1. g[i] = made(i) /\ (i # 0 => g[i - 1] = made(i - 1))
    <3> HIDE DEF made
    <3> QED OBVIOUS
  <2> HIDE DEF made, g
  <2> QED BY <1>1, <1>2, <2>1
<1>4. \A f : Is(f) => f = g
  <2> SUFFICES ASSUME NEW f, Is(f), f # g PROVE FALSE
    OBVIOUS
  <2> DEFINE Bad == { i \in 0 .. n : f[i] # g[i] }
  <2>1. Bad \in SUBSET Nat /\ Bad # {}
    <3> HIDE DEF made
    <3>1. DOMAIN f = 0 .. n /\ f = [i \in 0 .. n |-> f[i]]
      OBVIOUS
    <3>2. DOMAIN g = 0 .. n /\ g = [i \in 0 .. n |-> g[i]]
      OBVIOUS
    <3> HIDE DEF g, Is
    <3> QED BY <3>1, <3>2
  <2>2. PICK i \in Bad : \A j \in Bad : i <= j
    BY <2>1, LeastNumber
  <2>3. /\ f[0] = Header(id, action) /\ g[0] = Header(id, action)
        /\ \A j \in 1 .. n : /\ f[j] = WithParam(f[j - 1], ps[j])
                             /\ g[j] = WithParam(g[j - 1], ps[j])
    <3> HIDE DEF g
    <3> QED BY <1>3
  <2> HIDE DEF g, Is
  <2>4. i # 0
    BY <2>3
  <2>5. i - 1 \in 0 .. n /\ i - 1 \notin Bad
    BY <2>2, <2>4
  <2> QED BY <2>3, <2>4, <2>5
<1>5. WithParams(Header(id, action), ps, n) = g[n]
  <2>1. WithParams(Header(id, action), ps, n) = (CHOOSE f : Is(f))[n]
    BY Zenon DEF WithParams
  <2>2. (CHOOSE f : Is(f)) = g
    <3> HIDE DEF Is, g
    <3> QED BY <1>3, <1>4
  <2> QED BY <2>1, <2>2
<1> QED BY <1>5

-----------------------------------------------------------------------------
(* What the callbacks unpack. *)

IsParam(p) == p = [name |-> p.name, type |-> p.type, value |-> p.value]

\* What is known of a request: its identifier, and where its parameters come
\* from.  One that lacks a header field, or that was not made with the library,
\* is covered too.
RequestOK(r) ==
    /\ r.id \in Nat \union {NULL}
    /\ r.action \in Actions \union {NULL}
    /\ r.action \in Actions \ {"getSchema"} => IsSeq(r.params)
    /\ r.action = "getParameters" =>
          \A i \in DOMAIN r.params : \E x \in Names :
              r.params[i].name = JString(Word(x))
    /\ r.action = "setParameters" =>
          \A i \in DOMAIN r.params : r.given[i] # NULL =>
              r.given[i] \in Settable /\ r.params[i] = TypedElement(r.given[i])

\* What is known of the platform's values: a value whose origin survives the
\* conversions is that value, read once.
StoreInv ==
    /\ DOMAIN store = Names /\ DOMAIN origin = Names
    /\ \A x \in Names : store[x] # NULL => IsParam(store[x])
    /\ \A x \in Names : origin[x] # NULL =>
          /\ origin[x] \in Settable
          /\ Survives(origin[x].type, origin[x].value) =>
                store[x] = [origin[x] EXCEPT
                              !.value = ReadsAs(origin[x].type, origin[x].value)]

\* A parameter that clients set is one that the codec's lemmas are about.
LEMMA SettableParams == Settable \subseteq Params
<1> SUFFICES ASSUME NEW p \in Settable PROVE p \in Params
  OBVIOUS
<1>1. /\ p \in [name : Names, type : TypeNames,
                 value : [kind : {"number"}, n : Int] \union
                         [kind : {"word"}, w : Words]]
      /\ Names \subseteq Words
  BY DispatchAssumption
<1>2. p.value \in Texts
  <2>1. CASE p.value \in [kind : {"number"}, n : Int]
    <3>1. p.value = Number(p.value.n) /\ p.value.n \in Int
      BY <2>1 DEF Number
    <3> QED BY <3>1 DEF Texts
  <2>2. CASE p.value \in [kind : {"word"}, w : Words]
    <3>1. p.value = Word(p.value.w) /\ p.value.w \in Words
      BY <2>2 DEF Word
    <3> QED BY <3>1 DEF Texts
  <2> QED BY <1>1, <2>1, <2>2
<1> QED BY <1>1, <1>2 DEF Params

\* The hal_param_t of a name and nothing else.
LEMMA NameOnly ==
    ASSUME NEW x
    PROVE  [NoParam EXCEPT !.name = x]
             = [name |-> x, type |-> NoType, value |-> Word("")]
<1> DEFINE q == NoParam
<1>1. q = [name |-> q.name, type |-> q.type, value |-> q.value]
  BY DEF NoParam
<1>2. q.type = NoType /\ q.value = Word("")
  BY DEF NoParam
<1> HIDE DEF q
<1>3. [q EXCEPT !.name = x] = [name |-> x, type |-> q.type, value |-> q.value]
  BY <1>1
<1> QED BY <1>2, <1>3 DEF q

\* json_hal_get_param fills in all the fields of a hal_param_t.
LEMMA UnpacksParam ==
    ASSUME NEW params, NEW i,
           NEW type \in {"SET_REQUEST_MESSAGE", "GET_REQUEST_MESSAGE",
                         "DELETE_REQUEST_MESSAGE"}
    PROVE  IsParam(json_hal_get_param(params, i, type).out)
<1> DEFINE result == json_hal_get_param(params, i, type)
           e == params[i]
           name == e.name.text.w
           read == ReadType(e.type.text.w)
           value == Decode(read, e.value)
<1>1. \/ result = ERR
      \/ result = OK([NoParam EXCEPT !.name = name])
      \/ result = OK([name |-> name, type |-> read, value |-> value])
      \/ result = OK([name |-> name, type |-> read, value |-> Word("")])
  BY DEF json_hal_get_param
<1> HIDE DEF result, name, read, value
<1>2. [NoParam EXCEPT !.name = name]
        = [name |-> name, type |-> NoType, value |-> Word("")]
  BY NameOnly
<1>3. \A n, t, v : IsParam([name |-> n, type |-> t, value |-> v])
  BY DEF IsParam
<1>4. IsParam(result.out)
  <2>1. ERR.out = [name |-> "", type |-> NoType, value |-> Word("")]
    BY DEF ERR, NoParam
  <2>2. \A x : OK(x).out = x
    BY DEF OK
  <2> HIDE DEF e
  <2>3. IsParam(ERR.out) /\ IsParam([NoParam EXCEPT !.name = name])
    <3>1. /\ IsParam([name |-> "", type |-> NoType, value |-> Word("")])
          /\ IsParam([name |-> name, type |-> NoType, value |-> Word("")])
      BY <1>3, Zenon
    <3> QED BY <1>2, <2>1, <3>1
  <2>4. /\ IsParam([name |-> name, type |-> read, value |-> value])
        /\ IsParam([name |-> name, type |-> read, value |-> Word("")])
    BY <1>3, Zenon
  <2> QED BY <1>1, <2>2, <2>3, <2>4, Zenon
<1> QED BY <1>4 DEF result

\* The getParameters callback finds the names that the client asked for.
LEMMA UnpacksName ==
    ASSUME NEW r, RequestOK(r), r.action = "getParameters",
           NEW i \in DOMAIN r.params
    PROVE  /\ Unpacked(r, i).out.name \in Names
           /\ Unpacked(r, i).rc = "RETURN_OK"
<1>1. PICK x \in Names : r.params[i].name = JString(Word(x))
  BY DEF RequestOK
<1>2. r.params[i].name # Absent /\ r.params[i].name.text.w = x
  BY <1>1 DEF JString, Word, Absent
<1>3. Unpacked(r, i) = OK([NoParam EXCEPT !.name = x])
  BY <1>2 DEF Unpacked, MessageType, json_hal_get_param
<1>4. [NoParam EXCEPT !.name = x].name = x
  BY NameOnly
<1>5. /\ OK([NoParam EXCEPT !.name = x]).out = [NoParam EXCEPT !.name = x]
      /\ OK([NoParam EXCEPT !.name = x]).rc = "RETURN_OK"
  BY DEF OK
<1> QED BY <1>3, <1>4, <1>5

\* setparam_rpc_cb finds the values that the client passed, if they survive.
LEMMA UnpacksValue ==
    ASSUME NEW r, RequestOK(r), r.action = "setParameters",
           NEW i \in DOMAIN r.params, r.given[i] # NULL,
           Survives(r.given[i].type, r.given[i].value)
    PROVE  Unpacked(r, i).out
             = [r.given[i] EXCEPT !.value = ReadsAs(r.given[i].type, r.given[i].value)]
<1>1. r.given[i] \in Params /\ r.params[i] = TypedElement(r.given[i])
  BY SettableParams DEF RequestOK
<1>2. Unpacked(r, i) = OK([r.given[i] EXCEPT
                             !.value = ReadsAs(r.given[i].type, r.given[i].value)])
  BY <1>1, ElementReads DEF Unpacked, MessageType
<1> QED BY <1>2 DEF OK

\* The number of parameters the server counts is within the request's array.
LEMMA Counted ==
    ASSUME NEW r, RequestOK(r), r.action \in Actions \ {"getSchema"}
    PROVE  /\ ParamCount(r) \in Nat
           /\ \A i \in 1 .. ParamCount(r) : i \in DOMAIN r.params
<1>1. PICK S : r.params \in Seq(S)
  BY DEF RequestOK, IsSeq
<1>2. Len(r.params) \in Nat /\ DOMAIN r.params = 1 .. Len(r.params)
  BY <1>1
<1> QED BY <1>2 DEF ParamCount

\* The parameters a callback gets through are parameters of its request.
LEMMA GoodCount ==
    ASSUME NEW r, RequestOK(r), r.action \in Actions \ {"getSchema"}
    PROVE  GoodParams(r) \in 0 .. ParamCount(r)
<1> DEFINE S == { n \in 0 .. ParamCount(r) :
                    \A i \in 1 .. n : Unpacked(r, i).rc = "RETURN_OK" }
<1>1. ParamCount(r) \in Nat
  BY Counted
<1>2. 0 \in S /\ S \in SUBSET (0 .. ParamCount(r))
  BY <1>1
<1>3. Max(S) \in S
  <2> HIDE DEF S
  <2> QED BY <1>1, <1>2, LargestNumber
<1> QED BY <1>3 DEF GoodParams

\* The last of the first n parameters with a name is one of them, or none.
LEMMA LastIn ==
    ASSUME NEW r, NEW n \in Nat, NEW x
    PROVE  LastOf(r, n, x) \in 0 .. n
<1> DEFINE S == {0} \union { i \in 1 .. n : Unpacked(r, i).out.name = x }
<1>1. S # {} /\ S \in SUBSET (0 .. n)
  OBVIOUS
<1>2. Max(S) \in S
  <2> HIDE DEF S
  <2> QED BY <1>1, LargestNumber
<1> QED BY <1>1, <1>2 DEF LastOf

\* setparam_rpc_cb and deleteobj_rpc_cb leave the platform with values and
\* their origins, even when they stop half way.
LEMMA StoreAfterWork ==
    ASSUME StoreInv, NEW r, RequestOK(r),
           r.action \in {"setParameters", "deleteObject"},
           NEW n \in 0 .. ParamCount(r), WorkThrough(r, n)
    PROVE  StoreInv'
<1>0. ParamCount(r) \in Nat /\ \A i \in 1 .. ParamCount(r) : i \in DOMAIN r.params
  BY Counted DEF Actions
<1>1. n \in Nat /\ \A i \in 1 .. n : i \in DOMAIN r.params
  BY <1>0
<1>2. DOMAIN store' = Names /\ DOMAIN origin' = Names
  BY DEF WorkThrough
<1>3. ASSUME NEW x \in Names
      PROVE  /\ store'[x] # NULL => IsParam(store'[x])
             /\ origin'[x] # NULL =>
                  /\ origin'[x] \in Settable
                  /\ Survives(origin'[x].type, origin'[x].value) =>
                        store'[x] = [origin'[x] EXCEPT
                            !.value = ReadsAs(origin'[x].type, origin'[x].value)]
  <2> DEFINE i == LastOf(r, n, x)
  <2>1. i \in 0 .. n
    BY <1>1, LastIn
  <2>2. /\ store'[x] = IF i = 0 THEN store[x]
                       ELSE IF r.action = "deleteObject" THEN NULL
                       ELSE Unpacked(r, i).out
        /\ origin'[x] = IF i = 0 THEN origin[x]
                        ELSE IF r.action = "deleteObject" THEN NULL
                        ELSE r.given[i]
    BY DEF WorkThrough
  <2> HIDE DEF i
  <2>3. CASE i = 0
    BY <2>2, <2>3 DEF StoreInv
  <2>4. CASE i # 0 /\ r.action = "deleteObject"
    BY <2>2, <2>4
  <2>5. CASE i # 0 /\ r.action = "setParameters"
    <3>1. i \in DOMAIN r.params
      BY <1>1, <2>1, <2>5
    <3>2. store'[x] = Unpacked(r, i).out /\ origin'[x] = r.given[i]
      BY <2>2, <2>5
    <3>3. IsParam(Unpacked(r, i).out)
      BY <2>5, UnpacksParam DEF Unpacked, MessageType
    <3>4. r.given[i] # NULL => r.given[i] \in Settable
      BY <2>5, <3>1 DEF RequestOK
    <3>5. r.given[i] # NULL /\ Survives(r.given[i].type, r.given[i].value) =>
            Unpacked(r, i).out = [r.given[i] EXCEPT
                !.value = ReadsAs(r.given[i].type, r.given[i].value)]
      BY <2>5, <3>1, UnpacksValue
    <3> QED BY <3>2, <3>3, <3>4, <3>5
  <2> QED BY <2>3, <2>4, <2>5
<1> QED BY <1>2, <1>3 DEF StoreInv

-----------------------------------------------------------------------------
(* What the callbacks answer. *)

\* The hal_param_t that the callback passes to json_hal_add_param for x.
Answer(x) == [store[x] EXCEPT !.value = VendorText(store[x])]

\* json_hal_add_param accepts what the callback passes.
LEMMA AnswerAccepted ==
    ASSUME NEW x, IsParam(store[x])
    PROVE  /\ Answer(x) = [name |-> store[x].name, type |-> store[x].type,
                           value |-> VendorText(store[x])]
           /\ Accepted(Answer(x).type, Answer(x).value)
<1> DEFINE v == VendorText(store[x])
           p == store[x]
<1>1. p = [name |-> p.name, type |-> p.type, value |-> p.value]
  BY DEF IsParam
<1>2. p.type = "boolean" => v \in {Word("true"), Word("false")}
  BY DEF VendorText
<1> HIDE DEF v, p
<1>3. [p EXCEPT !.value = v] = [name |-> p.name, type |-> p.type, value |-> v]
  BY <1>1
<1>4. Accepted(p.type, v)
  BY <1>2 DEF Accepted
<1>5. /\ [name |-> p.name, type |-> p.type, value |-> v].type = p.type
      /\ [name |-> p.name, type |-> p.type, value |-> v].value = v
  OBVIOUS
<1>6. Answer(x) = [name |-> p.name, type |-> p.type, value |-> v]
  BY <1>3 DEF Answer, v, p
<1> QED BY <1>4, <1>5, <1>6 DEF v, p

\* One call of json_hal_add_param by the callback appends one element.
LEMMA ValueAdded ==
    ASSUME NEW r, NEW x, IsParam(store[x]),
           r = [id |-> r.id, action |-> r.action, params |-> r.params,
                Result |-> r.Result, SchemaInfo |-> r.SchemaInfo,
                want |-> r.want]
    PROVE  WithValue(r, x) =
             [id |-> r.id, action |-> r.action,
              params |-> Append(r.params, TypedElement(Answer(x))),
              Result |-> r.Result, SchemaInfo |-> r.SchemaInfo,
              want |-> Append(r.want, origin[x])]
<1> DEFINE out == json_hal_add_param(r.params, "GET_RESPONSE_MESSAGE", Answer(x)).out
           more == Append(r.want, origin[x])
           s == [r EXCEPT !.params = out]
<1>1. out = Append(r.params, TypedElement(Answer(x)))
  BY AnswerAccepted DEF json_hal_add_param, OK
<1>2. WithValue(r, x) = [r EXCEPT !.params = out, !.want = more]
  BY DEF WithValue, Answer
<1> HIDE DEF out, more
<1>3. s = [id |-> r.id, action |-> r.action, params |-> out, Result |-> r.Result,
           SchemaInfo |-> r.SchemaInfo, want |-> r.want]
  OBVIOUS
<1>4. [r EXCEPT !.params = out, !.want = more] = [s EXCEPT !.want = more]
  OBVIOUS
<1> HIDE DEF s
<1>5. [s EXCEPT !.want = more]
        = [id |-> r.id, action |-> r.action, params |-> out, Result |-> r.Result,
           SchemaInfo |-> r.SchemaInfo, want |-> more]
  BY <1>3
<1> QED BY <1>1, <1>2, <1>4, <1>5 DEF more

\* The name of the i-th parameter asked for.
Asked(r, i) == Unpacked(r, i).out.name

\* The reply of the getParameters callback holds the elements of all the values.
LEMMA ValuesAdded ==
    ASSUME NEW r, r.action = "getParameters", ParamCount(r) \in Nat,
           \A i \in 1 .. ParamCount(r) : IsParam(store[Asked(r, i)])
    PROVE  ValuesReply(r) =
             [id |-> r.id, action |-> "getParametersResponse",
              params |-> [j \in 1 .. ParamCount(r) |->
                            TypedElement(Answer(Asked(r, j)))],
              Result |-> NULL, SchemaInfo |-> NULL,
              want |-> [j \in 1 .. ParamCount(r) |-> origin[Asked(r, j)]]]
<1> DEFINE n == ParamCount(r)
           header == ReplyHeader(r.action, r.id)
           es == [j \in 1 .. n |-> TypedElement(Answer(Asked(r, j)))]
           ws == [j \in 1 .. n |-> origin[Asked(r, j)]]
           made(i) == [id |-> r.id, action |-> "getParametersResponse",
                       params |-> [j \in 1 .. i |-> es[j]],
                       Result |-> NULL, SchemaInfo |-> NULL,
                       want |-> [j \in 1 .. i |-> ws[j]]]
           Is(f) == f = [i \in 0 .. n |->
                           IF i = 0 THEN header
                           ELSE WithValue(f[i - 1], Asked(r, i))]
           g == [i \in 0 .. n |-> made(i)]
<1>0. n \in Nat
  OBVIOUS
<1>1. made(0) = header
  <2>1. [j \in 1 .. 0 |-> es[j]] = << >> /\ [j \in 1 .. 0 |-> ws[j]] = << >>
    OBVIOUS
  <2> QED BY <2>1 DEF ReplyHeader
<1>2. \A i \in 1 .. n : made(i) = WithValue(made(i - 1), Asked(r, i))
  <2> TAKE i \in 1 .. n
  <2>1. IsParam(store[Asked(r, i)])
    OBVIOUS
  <2>2. /\ Append([j \in 1 .. (i - 1) |-> es[j]], es[(i - 1) + 1])
             = [j \in 1 .. ((i - 1) + 1) |-> es[j]]
        /\ Append([j \in 1 .. (i - 1) |-> ws[j]], ws[(i - 1) + 1])
             = [j \in 1 .. ((i - 1) + 1) |-> ws[j]]
    <3>1. i - 1 \in Nat
      OBVIOUS
    <3> HIDE DEF es, ws
    <3> QED BY <3>1, OneMore
  <2>3. (i - 1) + 1 = i
    OBVIOUS
  <2>4. es[i] = TypedElement(Answer(Asked(r, i))) /\ ws[i] = origin[Asked(r, i)]
    OBVIOUS
  <2>5. WithValue(made(i - 1), Asked(r, i)) =
          [id |-> r.id, action |-> "getParametersResponse",
           params |-> Append([j \in 1 .. (i - 1) |-> es[j]], es[i]),
           Result |-> NULL, SchemaInfo |-> NULL,
           want |-> Append([j \in 1 .. (i - 1) |-> ws[j]], ws[i])]
    <3> DEFINE a == [j \in 1 .. (i - 1) |-> es[j]]
               b == [j \in 1 .. (i - 1) |-> ws[j]]
               q == made(i - 1)
               x == Asked(r, i)
    <3>1. q = [id |-> r.id, action |-> "getParametersResponse", params |-> a,
               Result |-> NULL, SchemaInfo |-> NULL, want |-> b]
      OBVIOUS
    <3> HIDE DEF a, b, made, q, x, es, ws
    <3>2. /\ q = [id |-> q.id, action |-> q.action, params |-> q.params,
                  Result |-> q.Result, SchemaInfo |-> q.SchemaInfo,
                  want |-> q.want]
          /\ q.id = r.id /\ q.action = "getParametersResponse"
          /\ q.params = a /\ q.want = b
          /\ q.Result = NULL /\ q.SchemaInfo = NULL
      BY <3>1
    <3>3. WithValue(q, x) =
             [id |-> q.id, action |-> q.action,
              params |-> Append(q.params, TypedElement(Answer(x))),
              Result |-> q.Result, SchemaInfo |-> q.SchemaInfo,
              want |-> Append(q.want, origin[x])]
      BY <2>1, <3>2, ValueAdded DEF x
    <3> QED BY <2>4, <3>2, <3>3 DEF a, b, q, x
  <2> HIDE DEF es, ws
  <2> QED BY <2>2, <2>3, <2>5
<1>3. Is(g)
  <2> SUFFICES \A i \in 0 .. n : g[i] = IF i = 0 THEN header
                                  ELSE WithValue(g[i - 1], Asked(r, i))
    OBVIOUS
  <2> TAKE i \in 0 .. n
  <2>1. g[i] = made(i) /\ (i # 0 => g[i - 1] = made(i - 1))
    <3> HIDE DEF made, n
    <3> QED BY <1>0
  <2> HIDE DEF made, g, header
  <2> QED BY <1>0, <1>1, <1>2, <2>1
<1>4. \A f : Is(f) => f = g
  <2> SUFFICES ASSUME NEW f, Is(f), f # g PROVE FALSE
    OBVIOUS
  <2> DEFINE Bad == { i \in 0 .. n : f[i] # g[i] }
  <2> HIDE DEF made, n, header
  <2>1. Bad \in SUBSET Nat /\ Bad # {}
    <3>1. DOMAIN f = 0 .. n /\ f = [i \in 0 .. n |-> f[i]]
      OBVIOUS
    <3>2. DOMAIN g = 0 .. n /\ g = [i \in 0 .. n |-> g[i]]
      OBVIOUS
    <3> HIDE DEF g, Is
    <3> QED BY <1>0, <3>1, <3>2
  <2>2. PICK i \in Bad : \A j \in Bad : i <= j
    BY <2>1, LeastNumber
  <2>3. /\ f[0] = header /\ g[0] = header
        /\ \A j \in 1 .. n : /\ f[j] = WithValue(f[j - 1], Asked(r, j))
                             /\ g[j] = WithValue(g[j - 1], Asked(r, j))
    <3> HIDE DEF g
    <3> QED BY <1>0, <1>3
  <2> HIDE DEF g, Is
  <2>4. i # 0
    BY <2>3
  <2>5. i - 1 \in 0 .. n /\ i - 1 \notin Bad
    BY <1>0, <2>2, <2>4
  <2> QED BY <1>0, <2>3, <2>4, <2>5
<1>5. ValuesReply(r) = g[n]
  <2>1. ValuesReply(r) = (CHOOSE f : Is(f))[n]
    BY Zenon DEF ValuesReply, Asked
  <2>2. (CHOOSE f : Is(f)) = g
    <3> HIDE DEF Is, g
    <3> QED BY <1>3, <1>4
  <2> QED BY <2>1, <2>2
<1>6. [j \in 1 .. n |-> es[j]] = es /\ [j \in 1 .. n |-> ws[j]] = ws
  OBVIOUS
<1>7. g[n] = made(n)
  <2> HIDE DEF made, n
  <2> QED BY <1>0
<1> HIDE DEF g, n, es, ws
<1>8. made(n) = [id |-> r.id, action |-> "getParametersResponse", params |-> es,
                 Result |-> NULL, SchemaInfo |-> NULL, want |-> ws]
  BY <1>6
<1> QED BY <1>5, <1>7, <1>8 DEF es, ws, n

\* A reply from which the client reads what was set (see ReadsWhatWasSet).
ReadsRight(reply) ==
    \A j \in 1 .. json_hal_get_total_param_count(reply) :
        LET p == reply.want[j]
        IN  p # NULL /\ Survives(p.type, p.value) =>
              json_hal_get_param(reply.params, j, "GET_RESPONSE_MESSAGE")
                = OK([p EXCEPT !.value = ReadsAs(p.type, p.value)])

\* A value that survives the way to the platform survives the way back: the
\* callback passes a parameter that reads as the one that was set.
LEMMA AnswerReads ==
    ASSUME StoreInv, NEW x \in Names, origin[x] # NULL,
           Survives(origin[x].type, origin[x].value)
    PROVE  /\ Answer(x) \in Params
           /\ Survives(Answer(x).type, Answer(x).value)
           /\ [Answer(x) EXCEPT !.value = ReadsAs(Answer(x).type, Answer(x).value)]
                = [origin[x] EXCEPT !.value = ReadsAs(origin[x].type, origin[x].value)]
<1> DEFINE p == origin[x]
           q == Answer(x)
           v == ReadsAs(p.type, p.value)
           t == VendorText(store[x])
<1>1. p \in Params /\ store[x] = [p EXCEPT !.value = v]
  BY SettableParams DEF StoreInv
<1>2. p = [name |-> p.name, type |-> p.type, value |-> p.value]
  BY <1>1 DEF Params
<1>3. store[x] = [name |-> p.name, type |-> p.type, value |-> v]
  <2> HIDE DEF v, p
  <2> QED BY <1>1, <1>2
<1>4. q = [name |-> p.name, type |-> p.type, value |-> t]
  <2>1. IsParam(store[x])
    <3> HIDE DEF v, p
    <3> QED BY <1>3 DEF IsParam
  <2>2. q = [name |-> store[x].name, type |-> store[x].type, value |-> t]
    BY <2>1, AnswerAccepted
  <2> HIDE DEF v, p, q, t
  <2> QED BY <1>3, <2>2
<1>5. t = IF p.type # "boolean" THEN v
          ELSE Word(IF v = Number(1) THEN "true" ELSE "false")
  <2>1. store[x].type = p.type /\ store[x].value = v
    <3> HIDE DEF v, p
    <3> QED BY <1>3
  <2> QED BY <2>1 DEF VendorText
<1>6. t \in Texts /\ Survives(p.type, t) /\ ReadsAs(p.type, t) = v
  <2>1. CASE p.type # "boolean"
    BY <1>1, <1>5, <2>1 DEF ReadsAs, Params
  <2>2. CASE p.type = "boolean"
    <3>1. t \in {Word("true"), Word("false")}
      BY <1>5, <2>2
    <3>2. t \in Texts
      BY <3>1, CodecAssumption DEF Texts
    <3>3. Survives(p.type, t)
      BY <2>2, <3>1 DEF Survives, Accepted
    <3>4. v \in {Number(1), Number(0)} /\ Number(1) # Number(0)
      BY <2>2 DEF ReadsAs, Number
    <3>5. Word("false") \notin {Word("true"), Word("TRUE")}
      BY DEF Word
    <3>6. ReadsAs(p.type, t) = v
      <4>1. ReadsAs(p.type, t) =
              Number(IF t \in {Word("true"), Word("TRUE")} THEN 1 ELSE 0)
        BY <2>2 DEF ReadsAs
      <4> HIDE DEF v, t
      <4> QED BY <1>5, <2>2, <3>4, <3>5, <4>1
    <3> QED BY <3>2, <3>3, <3>6
  <2> QED BY <2>1, <2>2
<1> HIDE DEF p, q, t, v
<1>7. q.name = p.name /\ q.type = p.type /\ q.value = t
  BY <1>4
<1>8. q \in Params
  BY <1>1, <1>4, <1>6 DEF Params
<1>9. [q EXCEPT !.value = v] = [p EXCEPT !.value = v]
  <2>1. [q EXCEPT !.value = v] = [name |-> p.name, type |-> p.type, value |-> v]
    BY <1>4
  <2>2. [p EXCEPT !.value = v] = [name |-> p.name, type |-> p.type, value |-> v]
    BY <1>2
  <2> QED BY <2>1, <2>2
<1>10. Survives(q.type, q.value) /\ ReadsAs(q.type, q.value) = v
  BY <1>6, <1>7
<1> QED BY <1>8, <1>9, <1>10 DEF p, q, v

\* A reply of create_json_reply_msg has no parameters.
LEMMA StatusReplyOK ==
    ASSUME NEW id, NEW status
    PROVE  StatusReply(id, status).id = id /\ ReadsRight(StatusReply(id, status))
<1>1. /\ StatusReply(id, status).id = id
      /\ StatusReply(id, status).params = NULL
  BY DEF StatusReply
<1>2. json_hal_get_total_param_count(StatusReply(id, status)) = 0
  BY <1>1 DEF json_hal_get_total_param_count
<1> QED BY <1>1, <1>2 DEF ReadsRight

\* The reply of a callback carries the request's reqId, and what it reads.
LEMMA CallbackReplyOK ==
    ASSUME StoreInv, NEW r, RequestOK(r), r.action \in Actions, CanDo(r)
    PROVE  CallbackReply(r).id = r.id /\ ReadsRight(CallbackReply(r))
<1> DEFINE reply == CallbackReply(r)
<1>1. CASE r.action = "getParameters"
  <2> DEFINE n == ParamCount(r)
             es == [j \in 1 .. n |-> TypedElement(Answer(Asked(r, j)))]
             ws == [j \in 1 .. n |-> origin[Asked(r, j)]]
  <2>1. n \in Nat /\ \A i \in 1 .. n : i \in DOMAIN r.params
    BY <1>1, Counted
  <2>2. \A i \in 1 .. n : Asked(r, i) \in Names
    BY <1>1, <2>1, UnpacksName DEF Asked
  <2>3. \A i \in 1 .. n : store[Asked(r, i)] # NULL
    BY <1>1 DEF CanDo, Asked
  <2>4. \A i \in 1 .. n : IsParam(store[Asked(r, i)])
    BY <2>2, <2>3 DEF StoreInv
  <2>5. reply = [id |-> r.id, action |-> "getParametersResponse", params |-> es,
                 Result |-> NULL, SchemaInfo |-> NULL, want |-> ws]
    <3>1. ValuesReply(r) =
             [id |-> r.id, action |-> "getParametersResponse", params |-> es,
              Result |-> NULL, SchemaInfo |-> NULL, want |-> ws]
      BY <1>1, <2>1, <2>4, ValuesAdded
    <3>2. reply = ValuesReply(r)
      BY <1>1 DEF CallbackReply
    <3> QED BY <3>1, <3>2
  <2> HIDE DEF es, ws, reply
  <2>6. reply.id = r.id /\ reply.params = es /\ reply.want = ws
    BY <2>5
  <2>7. Len(es) = n
    BY <2>1 DEF es
  <2>8. json_hal_get_total_param_count(reply) \in {0, n}
    BY <2>6, <2>7 DEF json_hal_get_total_param_count
  <2>9. ASSUME NEW j \in 1 .. n, ws[j] # NULL, Survives(ws[j].type, ws[j].value)
        PROVE  json_hal_get_param(es, j, "GET_RESPONSE_MESSAGE")
                 = OK([ws[j] EXCEPT !.value = ReadsAs(ws[j].type, ws[j].value)])
    <3> DEFINE x == Asked(r, j)
               q == Answer(x)
    <3>1. ws[j] = origin[x] /\ es[j] = TypedElement(q) /\ j \in DOMAIN es
      BY DEF es, ws
    <3>2. x \in Names
      BY <2>2
    <3> HIDE DEF x
    <3>3. /\ q \in Params /\ Survives(q.type, q.value)
          /\ [q EXCEPT !.value = ReadsAs(q.type, q.value)]
               = [origin[x] EXCEPT !.value = ReadsAs(origin[x].type, origin[x].value)]
      BY <2>9, <3>1, <3>2, AnswerReads
    <3> HIDE DEF q
    <3>4. json_hal_get_param(es, j, "GET_RESPONSE_MESSAGE")
            = OK([q EXCEPT !.value = ReadsAs(q.type, q.value)])
      BY <3>1, <3>3, ElementReads
    <3> QED BY <3>1, <3>3, <3>4
  <2>10. ReadsRight(reply)
    <3>1. \A j \in 1 .. json_hal_get_total_param_count(reply) : j \in 1 .. n
      BY <2>1, <2>8
    <3> QED BY <2>6, <2>9, <3>1 DEF ReadsRight
  <2> QED BY <2>6, <2>10 DEF reply
<1>2. CASE r.action # "getParameters"
  <2>1. reply.id = r.id /\ reply.params = NULL
    <3>1. CASE r.action = "getSchema"
      BY <3>1 DEF CallbackReply, ReplyHeader, json_hal_add_schema_response
    <3>2. CASE r.action \in {"setParameters", "deleteObject"}
      BY <3>2 DEF CallbackReply, ReplyHeader, json_hal_add_result_status
    <3> QED BY <1>2, <3>1, <3>2 DEF Actions
  <2>2. json_hal_get_total_param_count(reply) = 0
    <3> HIDE DEF reply
    <3> QED BY <2>1 DEF json_hal_get_total_param_count
  <2> QED BY <2>1, <2>2 DEF ReadsRight
<1> QED BY <1>1, <1>2

-----------------------------------------------------------------------------
(* The kinds of steps. *)

\* Only requests that RequestOK describes are on their way to the server.
QueueInv ==
    /\ IsQueues(toServer) /\ IsQueues(toClient) /\ DOMAIN owed = Conns
    /\ requests \in Nat
    /\ \A k \in Conns : \A i \in DOMAIN toServer[k] : RequestOK(toServer[k][i])

\* A request is sent: any that RequestOK describes, with a new reqId or none.
Sent(k, r) ==
    /\ RequestOK(r) /\ r.id \in {NULL, requests + 1}
    /\ requests' = requests + 1
    /\ toServer' = Pushed(toServer, k, r)
    /\ UNCHANGED << store, toClient, owed, applied, origin >>

\* The server has dealt with a request that asks for a reply.
Served(k, r, reply) ==
    /\ toServer[k] # << >> /\ r = Head(toServer[k])
    /\ toServer' = Popped(toServer, k)
    /\ r.id # NULL
    /\ owed' = Pushed(owed, k, r.id)
    /\ toClient' = Pushed(toClient, k, reply)
    /\ reply.id = r.id /\ ReadsRight(reply)
    /\ applied \subseteq applied'
    /\ json_hal_get_result_status(reply) = TRUE => r.id \in applied'
    /\ UNCHANGED requests
    /\ StoreInv'

Skipped(k) ==
    /\ toServer[k] # << >>
    /\ toServer' = Popped(toServer, k)
    /\ UNCHANGED << store, toClient, requests, owed, applied, origin >>

Quiet == UNCHANGED << store, toServer, toClient, requests, owed, applied, origin >>

\* What clients send is what RequestOK describes.
LEMMA SendKinds ==
    ASSUME QueueInv, NEW k \in Conns,
           \/ SendSchemaRequest(k) \/ SendRequest(k) \/ SendHeadless(k) \/ SendRaw(k)
    PROVE  \E r : Sent(k, r)
<1>0. requests + 1 \in Nat /\ NULL \notin Actions /\ IsSeq(<< >>)
  <2>1. << >> \in Seq({})
    OBVIOUS
  <2>2. IsSeq(<< >>)
    BY <2>1 DEF IsSeq
  <2>3. NULL \notin Actions
    BY DispatchAssumption DEF Actions
  <2> QED BY <2>2, <2>3 DEF QueueInv
<1>1. ASSUME NEW r, Send(k, r), RequestOK(r), r.id \in {NULL, requests + 1}
      PROVE  Sent(k, r)
  BY <1>1 DEF Send, Sent, Pushed
<1>2. CASE SendSchemaRequest(k)
  <2> DEFINE r == Header(NextId, "getSchema")
  <2>1. r.id = requests + 1 /\ r.action = "getSchema"
    BY DEF Header, NextId
  <2> HIDE DEF r
  <2>2. RequestOK(r)
    BY <1>0, <2>1 DEF RequestOK, Actions
  <2> QED BY <1>1, <1>2, <2>1, <2>2 DEF SendSchemaRequest, r
<1>3. CASE SendRequest(k)
  <2>1. PICK action \in Actions \ {"getSchema"}, n \in 1 .. MaxParams :
          \E ps \in [1 .. n -> HalParams(action)] :
              Send(k, WithParams(Header(NextId, action), ps, n))
    BY <1>3 DEF SendRequest
  <2>2. PICK ps \in [1 .. n -> HalParams(action)] :
              Send(k, WithParams(Header(NextId, action), ps, n))
    BY <2>1
  <2> DEFINE r == WithParams(Header(NextId, action), ps, n)
             es == [j \in 1 .. n |-> Element(action, ps[j])]
             gs == [j \in 1 .. n |-> ps[j]]
  <2>3. n \in Nat
    BY DispatchAssumption
  <2>4. r = [id |-> NextId, action |-> action, params |-> es, given |-> gs]
    BY <2>3, ParamsAdded
  <2> HIDE DEF r, es, gs
  <2>5. r.id = requests + 1 /\ r.action = action /\ r.params = es /\ r.given = gs
    BY <2>4 DEF NextId
  <2>6. IsSeq(es)
    <3>1. es = [j \in 1 .. n |-> es[j]]
      BY DEF es
    <3>2. IsSeq([j \in 1 .. n |-> es[j]])
      BY <2>3, OneMore
    <3> QED BY <3>1, <3>2
  <2>7. ASSUME action = "getParameters", NEW i \in DOMAIN es
        PROVE  \E x \in Names : es[i].name = JString(Word(x))
    <3>1. i \in 1 .. n /\ ps[i] \in HalParams(action)
      BY DEF es
    <3>2. ps[i].name \in Names
      BY <2>7, <3>1 DEF HalParams
    <3>3. es[i] = NameElement(ps[i])
      BY <2>7, <3>1 DEF es, Element
    <3> QED BY <3>2, <3>3 DEF NameElement
  <2>8. ASSUME action = "setParameters", NEW i \in DOMAIN es
        PROVE  gs[i] \in Settable /\ es[i] = TypedElement(gs[i])
    <3>1. i \in 1 .. n /\ ps[i] \in HalParams(action)
      BY DEF es
    <3> QED BY <2>8, <3>1 DEF es, gs, Element, HalParams
  <2>9. RequestOK(r)
    BY <1>0, <2>5, <2>6, <2>7, <2>8 DEF RequestOK
  <2> QED BY <1>1, <2>2, <2>5, <2>9 DEF r
<1>4. CASE SendHeadless(k)
  <2>1. PICK id \in {NULL, NextId} :
          Send(k, [Header(id, "getParameters") EXCEPT
                     !.action = IF id = NULL THEN @ ELSE NULL])
    BY <1>4 DEF SendHeadless
  <2> DEFINE h == Header(id, "getParameters")
             a == IF id = NULL THEN "getParameters" ELSE NULL
             r == [h EXCEPT !.action = a]
  <2>2. h.action = "getParameters" /\ h.params = << >> /\ h.id = id
    BY DEF Header
  <2>3. DOMAIN h = {"id", "action", "params", "given"}
    BY DEF Header
  <2>4. Send(k, r)
    BY <2>1, <2>2
  <2> HIDE DEF h, a
  <2>5. r.action = a /\ r.params = << >> /\ r.id = id
    BY <2>2, <2>3
  <2> HIDE DEF r
  <2>6. RequestOK(r) /\ r.id \in {NULL, requests + 1}
    <3>1. a \in {"getParameters", NULL}
      BY DEF a
    <3>2. DOMAIN << >> = {}
      OBVIOUS
    <3>3. a \in Actions \union {NULL} /\ a # "setParameters"
      BY <1>0, <3>1, DispatchAssumption DEF Actions
    <3> QED BY <1>0, <2>5, <3>2, <3>3 DEF RequestOK, NextId
  <2> QED BY <1>1, <2>4, <2>6
<1>5. CASE SendRaw(k)
  <2> DEFINE set == "setParameters"
  <2>1. PICK e \in RawElements, n \in 0 .. MaxParams - 1 :
          \E ps \in [1 .. n -> Settable] :
              Send(k, WithRaw(WithParams(Header(NextId, set), ps, n), e))
    BY <1>5 DEF SendRaw
  <2>2. PICK ps \in [1 .. n -> Settable] :
              Send(k, WithRaw(WithParams(Header(NextId, set), ps, n), e))
    BY <2>1
  <2> DEFINE h == WithParams(Header(NextId, set), ps, n)
             r == WithRaw(h, e)
             es == [j \in 1 .. n |-> Element(set, ps[j])]
             gs == [j \in 1 .. n |-> ps[j]]
  <2>3. n \in Nat
    BY DispatchAssumption
  <2>4. h = [id |-> NextId, action |-> set, params |-> es, given |-> gs]
    <3>1. set \in Actions \ {"getSchema"} /\ ps \in [1 .. n -> HalParams(set)]
      BY DEF Actions, HalParams
    <3> HIDE DEF set
    <3> QED BY <2>3, <3>1, ParamsAdded
  <2>5. /\ \A i \in DOMAIN es : gs[i] \in Settable /\ es[i] = TypedElement(gs[i])
        /\ DOMAIN es = 1 .. n /\ DOMAIN gs = 1 .. n
    BY DEF Element
  <2>6. IsSeq(es) /\ IsSeq(gs)
    <3>1. es = [j \in 1 .. n |-> es[j]] /\ gs = [j \in 1 .. n |-> gs[j]]
      OBVIOUS
    <3> HIDE DEF es, gs
    <3>2. IsSeq([j \in 1 .. n |-> es[j]]) /\ IsSeq([j \in 1 .. n |-> gs[j]])
      BY <2>3, OneMore
    <3> QED BY <3>1, <3>2
  <2> HIDE DEF h, es, gs
  <2>7. /\ r.action = set /\ r.id = requests + 1
        /\ r.params = Append(es, e) /\ r.given = Append(gs, NULL)
    <3> DEFINE a == Append(es, e)
               b == Append(gs, NULL)
    <3>1. h.params = es /\ h.given = gs /\ h.id = requests + 1 /\ h.action = set
      BY <2>4 DEF NextId
    <3>2. DOMAIN h = {"id", "action", "params", "given"}
      BY <2>4
    <3>3. r = [h EXCEPT !.params = a, !.given = b]
      BY <3>1 DEF WithRaw
    <3> HIDE DEF a, b, r
    <3>4. r.action = set /\ r.id = requests + 1 /\ r.params = a /\ r.given = b
      BY <3>1, <3>2, <3>3
    <3> QED BY <3>4 DEF a, b
  <2>8. Len(es) = n /\ Len(gs) = n
    BY <2>3, <2>5, <2>6, AppendOne
  <2>9. /\ IsSeq(Append(es, e)) /\ DOMAIN Append(es, e) = 1 .. (n + 1)
        /\ \A i \in 1 .. n : Append(es, e)[i] = es[i]
    BY <2>6, <2>8, AppendOne
  <2>10. /\ Append(gs, NULL)[n + 1] = NULL
         /\ \A i \in 1 .. n : Append(gs, NULL)[i] = gs[i]
    BY <2>6, <2>8, AppendOne
  <2> HIDE DEF r
  <2>11. ASSUME NEW i \in DOMAIN r.params, r.given[i] # NULL
         PROVE  r.given[i] \in Settable /\ r.params[i] = TypedElement(r.given[i])
    <3>1. i \in 1 .. (n + 1) /\ i # n + 1
      BY <2>7, <2>9, <2>10, <2>11
    <3>2. i \in 1 .. n
      BY <2>3, <3>1
    <3> QED BY <2>5, <2>7, <2>9, <2>10, <3>2
  <2>12. RequestOK(r)
    BY <1>0, <2>7, <2>9, <2>11 DEF RequestOK, Actions
  <2> QED BY <1>1, <2>2, <2>7, <2>12 DEF r, h
<1> QED BY <1>2, <1>3, <1>4, <1>5

\* A status other than Success is not read as success.
LEMMA NoSuccess ==
    ASSUME NEW id, NEW status \in {"Failed", "Not Supported"}
    PROVE  json_hal_get_result_status(StatusReply(id, status)) # TRUE
<1>1. NULL # TRUE
  BY DispatchAssumption
<1>2. StatusReply(id, status).Result = status
  BY DEF StatusReply
<1>3. status # "Success"
  OBVIOUS
<1> QED BY <1>1, <1>2, <1>3 DEF json_hal_get_result_status

\* message_process_cb serves every request that has a reqId and an action,
\* whatever its callback does.
LEMMA ServeKinds ==
    ASSUME QueueInv, StoreInv, NEW k \in Conns, toServer[k] # << >>,
           \/ NotSupported(k) \/ CallbackFails(k) \/ CallbackSucceeds(k)
           \/ ReplyRejected(k)
    PROVE  \E r, reply : Served(k, r, reply)
<1> DEFINE r == Head(toServer[k])
<1>1. RequestOK(r)
  <2>1. 1 \in DOMAIN toServer[k] /\ r = toServer[k][1]
    BY AfterPop DEF QueueInv
  <2> QED BY <2>1 DEF QueueInv
<1>2. ASSUME NEW reply, WellFormed(k, r), Reply(k, << reply >>),
             reply.id = r.id, ReadsRight(reply), applied \subseteq applied',
             json_hal_get_result_status(reply) = TRUE => r.id \in applied',
             StoreInv'
      PROVE  Served(k, r, reply)
  <2>1. toClient' = Pushed(toClient, k, reply)
    <3>1. IsQueues(toClient)
      BY DEF QueueInv
    <3>2. [toClient EXCEPT ![k] = @ \o << reply >>] = Pushed(toClient, k, reply)
      BY <3>1, PushOne
    <3> QED BY <1>2, <3>2 DEF Reply
  <2> QED BY <1>2, <2>1 DEF WellFormed, Takes, Served, Pushed, Popped
<1>3. CASE NotSupported(k)
  <2> DEFINE reply == StatusReply(r.id, "Not Supported")
  <2>1. WellFormed(k, r) /\ Reply(k, << reply >>) /\ UNCHANGED << store, applied, origin >>
    BY <1>3 DEF NotSupported
  <2>2. reply.id = r.id /\ ReadsRight(reply)
    BY StatusReplyOK
  <2>3. json_hal_get_result_status(reply) # TRUE
    BY NoSuccess
  <2>4. StoreInv'
    BY <2>1 DEF StoreInv
  <2> HIDE DEF reply
  <2> QED BY <1>2, <2>1, <2>2, <2>3, <2>4
<1>4. CASE CallbackFails(k)
  <2> DEFINE reply == StatusReply(r.id, "Failed")
  <2>1. /\ WellFormed(k, r) /\ Reply(k, << reply >>) /\ UNCHANGED applied
        /\ \E n \in 0 .. GoodParams(r) :
              IF r.action \in {"setParameters", "deleteObject"}
              THEN WorkThrough(r, n)
              ELSE n = 0 /\ UNCHANGED << store, origin >>
    BY <1>4 DEF CallbackFails
  <2>2. reply.id = r.id /\ ReadsRight(reply)
    BY StatusReplyOK
  <2>3. json_hal_get_result_status(reply) # TRUE
    BY NoSuccess
  <2>4. StoreInv'
    <3>1. CASE r.action \in {"setParameters", "deleteObject"}
      <4>1. PICK n \in 0 .. GoodParams(r) : WorkThrough(r, n)
        BY <2>1, <3>1
      <4>2. GoodParams(r) \in 0 .. ParamCount(r) /\ ParamCount(r) \in Nat
        BY <1>1, <3>1, GoodCount, Counted DEF Actions
      <4>3. n \in 0 .. ParamCount(r)
        BY <4>2
      <4> HIDE DEF r
      <4> QED BY <1>1, <3>1, <4>1, <4>3, StoreAfterWork
    <3>2. CASE r.action \notin {"setParameters", "deleteObject"}
      BY <2>1, <3>2 DEF StoreInv
    <3> QED BY <3>1, <3>2
  <2> HIDE DEF reply
  <2> QED BY <1>2, <2>1, <2>2, <2>3, <2>4
<1>5. ASSUME CallbackDone(k, r)
      PROVE  /\ WellFormed(k, r) /\ CanDo(r) /\ r.action \in Actions
             /\ applied' = applied \union {r.id}
             /\ StoreInv'
  <2>1. WellFormed(k, r) /\ CanDo(r) /\ applied' = applied \union {r.id}
    BY <1>5 DEF CallbackDone
  <2>2. r.action \in Actions
    BY <1>1, <2>1 DEF WellFormed, RequestOK
  <2>3. CASE r.action \in {"setParameters", "deleteObject"}
    <3>1. WorkThrough(r, ParamCount(r))
      BY <1>5, <2>3 DEF CallbackDone
    <3>2. ParamCount(r) \in Nat
      BY <1>1, <2>3, Counted DEF Actions
    <3>3. ParamCount(r) \in 0 .. ParamCount(r)
      BY <3>2
    <3> HIDE DEF r
    <3>4. StoreInv'
      BY <1>1, <2>3, <3>1, <3>3, StoreAfterWork
    <3> QED BY <2>1, <2>2, <3>4
  <2>4. CASE r.action \notin {"setParameters", "deleteObject"}
    <3>1. UNCHANGED << store, origin >>
      BY <1>5, <2>4 DEF CallbackDone
    <3>2. StoreInv'
      BY <3>1 DEF StoreInv
    <3> QED BY <2>1, <2>2, <3>2
  <2> QED BY <2>3, <2>4
<1>6. CASE CallbackSucceeds(k)
  <2> DEFINE reply == CallbackReply(r)
  <2>1. CallbackDone(k, r) /\ Reply(k, << reply >>)
    BY <1>6 DEF CallbackSucceeds
  <2>2. reply.id = r.id /\ ReadsRight(reply)
    <3> HIDE DEF r
    <3> QED BY <1>1, <1>5, <2>1, CallbackReplyOK
  <2> HIDE DEF reply
  <2> QED BY <1>2, <1>5, <2>1, <2>2
<1>7. CASE ReplyRejected(k)
  <2> DEFINE reply == StatusReply(r.id, "Not Supported")
  <2>1. CallbackDone(k, r) /\ Reply(k, << reply >>)
    BY <1>7 DEF ReplyRejected
  <2>2. reply.id = r.id /\ ReadsRight(reply)
    BY StatusReplyOK
  <2> HIDE DEF reply
  <2> QED BY <1>2, <1>5, <2>1, <2>2
<1> QED BY <1>3, <1>4, <1>6, <1>7

\* Every step is of one of the kinds.
LEMMA StepKinds ==
    ASSUME QueueInv, StoreInv, [Next]_vars
    PROVE  \/ Quiet
           \/ \E k \in Conns : \/ \E r : Sent(k, r)
                               \/ \E r, reply : Served(k, r, reply)
                               \/ Skipped(k)
                               \/ ReadReply(k)
<1>1. ASSUME NEW action, NEW cb, Register(action, cb) PROVE Quiet
  BY <1>1 DEF Register, Quiet
<1>2. ASSUME NEW k \in Conns, toServer[k] # << >>, Skip(k) PROVE Skipped(k)
  BY <1>2 DEF Skip, Takes, Skipped, Popped
<1>3. CASE UNCHANGED vars
  BY <1>3 DEF vars, Quiet
<1>4. ASSUME NEW k \in Conns,
             \/ SendSchemaRequest(k) \/ SendRequest(k) \/ SendHeadless(k)
             \/ SendRaw(k)
      PROVE  \E r : Sent(k, r)
  BY <1>4, SendKinds
<1>5. ASSUME NEW k \in Conns, toServer[k] # << >>,
             \/ NotSupported(k) \/ CallbackFails(k) \/ CallbackSucceeds(k)
             \/ ReplyRejected(k)
      PROVE  \E r, reply : Served(k, r, reply)
  BY <1>5, ServeKinds
<1> QED BY <1>1, <1>2, <1>3, <1>4, <1>5 DEF Next

-----------------------------------------------------------------------------
(* One reply to every request, from which the client reads what was set. *)

Ids(s) == [i \in DOMAIN s |-> s[i].id]

\* A queue's identifiers follow its messages.
LEMMA IdsAfter ==
    ASSUME NEW s, IsSeq(s)
    PROVE  /\ \A e : Append(Ids(s), e.id) = Ids(Append(s, e))
           /\ s # << >> => Tail(Ids(s)) = Ids(Tail(s))
<1>0. Len(s) \in Nat /\ DOMAIN s = 1 .. Len(s)
  BY AppendOne
<1> DEFINE T == { s[i].id : i \in DOMAIN s }
<1>1. Ids(s) \in Seq(T) /\ Len(Ids(s)) = Len(s) /\ DOMAIN Ids(s) = 1 .. Len(s)
  <2>1. Ids(s) \in [1 .. Len(s) -> T]
    BY <1>0 DEF Ids
  <2> HIDE DEF T
  <2> QED BY <1>0, <2>1
<1>2. \A i \in 1 .. Len(s) : Ids(s)[i] = s[i].id
  BY <1>0 DEF Ids
<1> HIDE DEF T
<1>3. ASSUME NEW e PROVE Append(Ids(s), e.id) = Ids(Append(s, e))
  <2>1. /\ DOMAIN Append(s, e) = 1 .. (Len(s) + 1)
        /\ Append(s, e)[Len(s) + 1] = e
        /\ \A i \in 1 .. Len(s) : Append(s, e)[i] = s[i]
    BY AppendOne
  <2>2. /\ DOMAIN Append(Ids(s), e.id) = 1 .. (Len(s) + 1)
        /\ Append(Ids(s), e.id)[Len(s) + 1] = e.id
        /\ \A i \in 1 .. Len(s) : Append(Ids(s), e.id)[i] = s[i].id
        /\ IsSeq(Append(Ids(s), e.id))
    <3>1. IsSeq(Ids(s))
      BY <1>1 DEF IsSeq
    <3> QED BY <1>1, <1>2, <3>1, AppendOne
  <2>3. PICK S : Append(Ids(s), e.id) \in Seq(S)
    BY <2>2 DEF IsSeq
  <2> DEFINE a == Append(Ids(s), e.id)
             b == Ids(Append(s, e))
  <2>4. a = [i \in 1 .. (Len(s) + 1) |-> a[i]]
    BY <2>2, <2>3
  <2>5. b = [i \in 1 .. (Len(s) + 1) |-> Append(s, e)[i].id]
    BY <2>1 DEF Ids
  <2>6. \A i \in 1 .. (Len(s) + 1) : a[i] = Append(s, e)[i].id
    <3> TAKE i \in 1 .. (Len(s) + 1)
    <3>1. i = Len(s) + 1 \/ i \in 1 .. Len(s)
      BY <1>0
    <3> QED BY <2>1, <2>2, <3>1
  <2> HIDE DEF a, b
  <2>7. a = b
    BY <2>4, <2>5, <2>6
  <2> QED BY <2>7 DEF a, b
<1>4. ASSUME s # << >> PROVE Tail(Ids(s)) = Ids(Tail(s))
  <2>1. /\ Len(s) \in Nat \ {0} /\ DOMAIN Tail(s) = 1 .. (Len(s) - 1)
        /\ \A i \in 1 .. (Len(s) - 1) : Tail(s)[i] = s[i + 1]
    BY <1>4, DropOne
  <2>2. /\ DOMAIN Tail(Ids(s)) = 1 .. (Len(s) - 1)
        /\ \A i \in 1 .. (Len(s) - 1) : Tail(Ids(s))[i] = s[i + 1].id
        /\ Tail(Ids(s)) \in Seq(T)
    BY <1>1, <1>2, <2>1
  <2> DEFINE a == Tail(Ids(s))
             b == Ids(Tail(s))
  <2>3. a = [i \in 1 .. (Len(s) - 1) |-> a[i]]
    <3>1. a \in Seq(T) /\ DOMAIN a = 1 .. (Len(s) - 1)
      BY <2>2
    <3> HIDE DEF a
    <3> QED BY <3>1
  <2>4. b = [i \in 1 .. (Len(s) - 1) |-> Tail(s)[i].id]
    BY <2>1 DEF Ids
  <2>5. \A i \in 1 .. (Len(s) - 1) : a[i] = Tail(s)[i].id
    BY <2>1, <2>2
  <2> HIDE DEF a, b
  <2>6. a = b
    BY <2>3, <2>4, <2>5
  <2> QED BY <2>6 DEF a, b
<1> QED BY <1>3, <1>4

\* The inductive invariant of OneReplyEach and ReadsWhatWasSet.
DispatchInv == QueueInv /\ StoreInv /\ OneReplyEach /\ ReadsWhatWasSet

\* No request and no reply is on its way initially.
LEMMA InitDispatch == Init => DispatchInv
<1> SUFFICES ASSUME Init PROVE DispatchInv
  OBVIOUS
<1> USE DEF Init
<1>1. IsSeq(<< >>)
  <2>1. << >> \in Seq({})
    OBVIOUS
  <2> QED BY <2>1 DEF IsSeq
<1>2. DOMAIN << >> = {}
  OBVIOUS
<1>3. QueueInv
  BY <1>1, <1>2 DEF QueueInv, IsQueues
<1>4. StoreInv
  BY DEF StoreInv
<1>5. OneReplyEach
  <2>1. \A k \in Conns : toClient[k] = << >> /\ owed[k] = << >>
    OBVIOUS
  <2>2. [i \in DOMAIN << >> |-> << >>[i].id] = << >>
    OBVIOUS
  <2> QED BY <2>1, <2>2 DEF OneReplyEach
<1>6. ReadsWhatWasSet
  BY <1>2 DEF ReadsWhatWasSet
<1> QED BY <1>3, <1>4, <1>5, <1>6 DEF DispatchInv

\* Each kind of step keeps the queues, the store and the replies in agreement.
LEMMA DispatchStep == DispatchInv /\ [Next]_vars => DispatchInv'
<1> SUFFICES ASSUME DispatchInv, [Next]_vars PROVE DispatchInv'
  OBVIOUS
<1>0. QueueInv /\ StoreInv /\ OneReplyEach /\ ReadsWhatWasSet
  BY DEF DispatchInv
<1>1. IsQueues(toServer) /\ IsQueues(toClient)
  BY <1>0 DEF QueueInv
<1>2. \A k \in Conns : owed[k] = Ids(toClient[k])
  BY <1>0 DEF OneReplyEach, Ids
<1>3. \A k \in Conns : \A i \in DOMAIN toClient[k] : ReadsRight(toClient[k][i])
  BY <1>0 DEF ReadsWhatWasSet, ReadsRight
\* A request more or less.
<1>4. ASSUME NEW k \in Conns, NEW r, RequestOK(r),
             \/ toServer' = Pushed(toServer, k, r)
             \/ toServer[k] # << >> /\ toServer' = Popped(toServer, k)
      PROVE  /\ IsQueues(toServer')
             /\ \A l \in Conns : \A i \in DOMAIN toServer'[l] : RequestOK(toServer'[l][i])
  <2>1. CASE toServer' = Pushed(toServer, k, r)
    <3> DEFINE q == toServer'
    <3>0. q = Pushed(toServer, k, r)
      BY <2>1
    <3> HIDE DEF q
    <3>1. /\ IsQueues(q)
          /\ \A l \in Conns : \A i \in DOMAIN q[l] :
                q[l][i] = r \/ (i \in DOMAIN toServer[l] /\ q[l][i] = toServer[l][i])
      BY <1>1, <3>0, AfterPush
    <3> QED BY <1>0, <1>4, <3>1 DEF QueueInv, q
  <2>2. CASE toServer[k] # << >> /\ toServer' = Popped(toServer, k)
    <3> DEFINE q == toServer'
    <3>1. /\ IsQueues(q)
          /\ \A l \in Conns : \A i \in DOMAIN q[l] : \E j \in DOMAIN toServer[l] :
                q[l][i] = toServer[l][j]
      BY <1>1, <2>2, AfterPop
    <3> HIDE DEF q
    <3> QED BY <1>0, <3>1 DEF QueueInv, q
  <2> QED BY <1>4, <2>1, <2>2
<1>5. CASE Quiet
  BY <1>0, <1>5 DEF Quiet, DispatchInv, QueueInv, StoreInv, OneReplyEach,
                    ReadsWhatWasSet
<1>6. ASSUME NEW k \in Conns, NEW r, Sent(k, r) PROVE DispatchInv'
  <2>1. QueueInv'
    BY <1>0, <1>4, <1>6 DEF Sent, QueueInv
  <2>2. StoreInv' /\ OneReplyEach' /\ ReadsWhatWasSet'
    BY <1>0, <1>6 DEF Sent, StoreInv, OneReplyEach, ReadsWhatWasSet
  <2> QED BY <2>1, <2>2 DEF DispatchInv
<1>7. ASSUME NEW k \in Conns, Skipped(k) PROVE DispatchInv'
  <2>1. PICK r : RequestOK(r)
    <3>1. 1 \in DOMAIN toServer[k]
      BY <1>1, <1>7, AfterPop DEF Skipped
    <3> QED BY <1>0, <3>1 DEF QueueInv
  <2>2. QueueInv'
    BY <1>0, <1>4, <1>7, <2>1 DEF Skipped, QueueInv
  <2>3. StoreInv' /\ OneReplyEach' /\ ReadsWhatWasSet'
    BY <1>0, <1>7 DEF Skipped, StoreInv, OneReplyEach, ReadsWhatWasSet
  <2> QED BY <2>2, <2>3 DEF DispatchInv
<1>8. ASSUME NEW k \in Conns, NEW r, NEW reply, Served(k, r, reply)
      PROVE  DispatchInv'
  <2>1. RequestOK(r)
    <3>1. 1 \in DOMAIN toServer[k] /\ Head(toServer[k]) = toServer[k][1]
      BY <1>1, <1>8, AfterPop DEF Served
    <3> QED BY <1>0, <1>8, <3>1 DEF QueueInv, Served
  <2> DEFINE q == toClient'
  <2>2. /\ IsQueues(q)
        /\ \A l \in Conns : \A i \in DOMAIN q[l] :
              q[l][i] = reply \/ (i \in DOMAIN toClient[l] /\ q[l][i] = toClient[l][i])
    <3>1. q = Pushed(toClient, k, reply)
      BY <1>8 DEF Served
    <3> HIDE DEF q
    <3> QED BY <1>1, <3>1, AfterPush
  <2>3. /\ q[k] = Append(toClient[k], reply)
        /\ \A l \in Conns \ {k} : q[l] = toClient[l]
    BY <1>1, <1>8 DEF Served, Pushed, IsQueues
  <2>4. /\ owed'[k] = Append(owed[k], r.id) /\ DOMAIN owed' = Conns
        /\ \A l \in Conns \ {k} : owed'[l] = owed[l]
    BY <1>0, <1>8 DEF Served, Pushed, QueueInv
  <2>5. reply.id = r.id /\ ReadsRight(reply) /\ UNCHANGED requests /\ StoreInv'
    BY <1>8 DEF Served
  <2>6. /\ IsQueues(toServer')
        /\ \A l \in Conns : \A i \in DOMAIN toServer'[l] : RequestOK(toServer'[l][i])
    <3>1. toServer[k] # << >> /\ toServer' = Popped(toServer, k)
      BY <1>8 DEF Served
    <3> QED BY <1>4, <2>1, <3>1
  <2> HIDE DEF q
  <2>7. QueueInv'
    <3>1. requests' \in Nat
      BY <1>0, <2>5 DEF QueueInv
    <3> QED BY <2>2, <2>4, <2>6, <3>1 DEF QueueInv, q
  <2>8. \A l \in Conns : owed'[l] = Ids(q[l])
    <3> TAKE l \in Conns
    <3>1. CASE l = k
      <4>1. IsSeq(toClient[k])
        BY <1>1 DEF IsQueues
      <4>2. Append(Ids(toClient[k]), reply.id) = Ids(Append(toClient[k], reply))
        BY <4>1, IdsAfter
      <4> QED BY <1>2, <2>3, <2>4, <2>5, <3>1, <4>2
    <3>2. CASE l # k
      BY <1>2, <2>3, <2>4, <3>2
    <3> QED BY <3>1, <3>2
  <2>9. OneReplyEach'
    BY <2>8 DEF OneReplyEach, Ids, q
  <2>10. \A l \in Conns : \A i \in DOMAIN q[l] : ReadsRight(q[l][i])
    BY <1>3, <2>2, <2>5
  <2>11. ReadsWhatWasSet'
    BY <2>10 DEF ReadsWhatWasSet, ReadsRight, q
  <2> QED BY <2>5, <2>7, <2>9, <2>11 DEF DispatchInv
<1>9. ASSUME NEW k \in Conns, ReadReply(k) PROVE DispatchInv'
  <2> DEFINE q == toClient'
  <2>1. toClient[k] # << >> /\ q = Popped(toClient, k)
    BY <1>9 DEF ReadReply, Popped
  <2>2. /\ q[k] = Tail(toClient[k])
        /\ \A l \in Conns \ {k} : q[l] = toClient[l]
    BY <1>1, <2>1 DEF Popped, IsQueues
  <2>3. /\ owed'[k] = Tail(owed[k]) /\ DOMAIN owed' = Conns
        /\ \A l \in Conns \ {k} : owed'[l] = owed[l]
    BY <1>0, <1>9 DEF ReadReply, QueueInv
  <2>4. UNCHANGED << store, origin, toServer, requests >>
    BY <1>9 DEF ReadReply
  <2> HIDE DEF q
  <2>5. /\ IsQueues(q)
        /\ \A l \in Conns : \A i \in DOMAIN q[l] : \E j \in DOMAIN toClient[l] :
              q[l][i] = toClient[l][j]
    BY <1>1, <2>1, AfterPop
  <2>6. QueueInv'
    BY <1>0, <2>3, <2>4, <2>5 DEF QueueInv, q
  <2>7. \A l \in Conns : owed'[l] = Ids(q[l])
    <3> TAKE l \in Conns
    <3>1. CASE l = k
      <4>1. IsSeq(toClient[k])
        BY <1>1 DEF IsQueues
      <4>2. Tail(Ids(toClient[k])) = Ids(Tail(toClient[k]))
        BY <2>1, <4>1, IdsAfter
      <4> QED BY <1>2, <2>2, <2>3, <3>1, <4>2
    <3>2. CASE l # k
      BY <1>2, <2>2, <2>3, <3>2
    <3> QED BY <3>1, <3>2
  <2>8. OneReplyEach'
    BY <2>7 DEF OneReplyEach, Ids, q
  <2>9. \A l \in Conns : \A i \in DOMAIN q[l] : ReadsRight(q[l][i])
    BY <1>3, <2>5
  <2>10. ReadsWhatWasSet'
    BY <2>9 DEF ReadsWhatWasSet, ReadsRight, q
  <2>11. StoreInv'
    BY <1>0, <2>4 DEF StoreInv
  <2> QED BY <2>6, <2>8, <2>10, <2>11 DEF DispatchInv
<1>10. QED BY <1>0, <1>5, <1>6, <1>7, <1>8, <1>9, StepKinds

\* The invariant holds of every behaviour.
LEMMA DispatchSafety == Spec => []DispatchInv
BY InitDispatch, DispatchStep, PTL DEF Spec

\* message_process_cb answers every request that has a reqId and an action
\* exactly once, on its connection and in the order of the requests.
THEOREM EveryRequestAnswered == Spec => []OneReplyEach
<1>1. DispatchInv => OneReplyEach
  BY DEF DispatchInv
<1> QED BY DispatchSafety, <1>1, PTL

\* A value that a client sets and any client reads later comes through
\* json_hal_add_param and json_hal_get_param twice unchanged, if it survives
\* them once.
THEOREM SetThenRead == Spec => []ReadsWhatWasSet
<1>1. DispatchInv => ReadsWhatWasSet
  BY DEF DispatchInv
<1> QED BY DispatchSafety, <1>1, PTL

-----------------------------------------------------------------------------
(* Success is said of what is done. *)

\* A reqId is on its way once: in a request or in its reply.
IdsInv ==
    /\ \A k \in Conns : \A i \in DOMAIN toServer[k] :
          toServer[k][i].id # NULL => toServer[k][i].id \in 1 .. requests
    /\ \A k \in Conns : \A i \in DOMAIN toClient[k] :
          toClient[k][i].id \in 1 .. requests
    /\ \A k, l \in Conns : \A i \in DOMAIN toServer[k], j \in DOMAIN toServer[l] :
          toServer[k][i].id = toServer[l][j].id /\ toServer[k][i].id # NULL
             => k = l /\ i = j
    /\ \A k, l \in Conns : \A i \in DOMAIN toClient[k], j \in DOMAIN toClient[l] :
          toClient[k][i].id = toClient[l][j].id => k = l /\ i = j
    /\ \A k, l \in Conns : \A i \in DOMAIN toServer[k], j \in DOMAIN toClient[l] :
          toServer[k][i].id # toClient[l][j].id

\* The inductive invariant of SuccessMeansDone.
DoneInv == DispatchInv /\ IdsInv /\ SuccessMeansDone

\* A reply takes over the reqId of the request it answers, and with Success
\* only if that reqId has been entered in applied.
LEMMA DoneStep == DoneInv /\ [Next]_vars => (IdsInv /\ SuccessMeansDone)'
<1> SUFFICES ASSUME DoneInv, [Next]_vars PROVE IdsInv' /\ SuccessMeansDone'
  OBVIOUS
<1>0. QueueInv /\ StoreInv /\ IdsInv /\ SuccessMeansDone
  BY DEF DoneInv, DispatchInv
<1>1. IsQueues(toServer) /\ IsQueues(toClient) /\ requests \in Nat /\ NULL \notin Nat
  BY <1>0, DispatchAssumption DEF QueueInv
<1>2. CASE Quiet
  BY <1>0, <1>2 DEF Quiet, IdsInv, SuccessMeansDone
<1>3. ASSUME NEW k \in Conns, NEW r, Sent(k, r)
      PROVE  IdsInv' /\ SuccessMeansDone'
  <2> DEFINE q == toServer'
  <2>1. /\ requests' = requests + 1 /\ UNCHANGED << toClient, applied >>
        /\ q = Pushed(toServer, k, r) /\ r.id \in {NULL, requests + 1}
    BY <1>3 DEF Sent
  <2> HIDE DEF q
  <2>2. \A l \in Conns : \A i \in DOMAIN q[l] :
          \/ l = k /\ i = Len(toServer[k]) + 1 /\ q[l][i] = r
          \/ i \in DOMAIN toServer[l] /\ q[l][i] = toServer[l][i]
    BY <1>1, <2>1, AfterPush
  <2>3. /\ requests + 1 \notin 1 .. requests
        /\ requests + 1 \in 1 .. (requests + 1)
        /\ \A n \in 1 .. requests : n \in 1 .. (requests + 1) /\ n # NULL
    BY <1>1
  <2>4. \A l \in Conns : \A i \in DOMAIN q[l] :
          q[l][i].id # NULL => q[l][i].id \in 1 .. (requests + 1)
    BY <1>0, <2>1, <2>2, <2>3 DEF IdsInv
  <2>5. ASSUME NEW l \in Conns, NEW m \in Conns,
               NEW i \in DOMAIN q[l], NEW j \in DOMAIN q[m],
               q[l][i].id = q[m][j].id, q[l][i].id # NULL
        PROVE  l = m /\ i = j
    <3>1. CASE q[l][i] = r /\ l = k /\ i = Len(toServer[k]) + 1
      BY <1>0, <2>1, <2>2, <2>3, <2>5, <3>1 DEF IdsInv
    <3>2. CASE i \in DOMAIN toServer[l] /\ q[l][i] = toServer[l][i]
      BY <1>0, <2>1, <2>2, <2>3, <2>5, <3>2 DEF IdsInv
    <3> QED BY <2>2, <3>1, <3>2
  <2>6. ASSUME NEW l \in Conns, NEW m \in Conns,
               NEW i \in DOMAIN q[l], NEW j \in DOMAIN toClient[m]
        PROVE  q[l][i].id # toClient[m][j].id
    BY <1>0, <2>1, <2>2, <2>3 DEF IdsInv
  <2>7. \A l \in Conns : \A i \in DOMAIN toClient[l] :
          toClient[l][i].id \in 1 .. (requests + 1)
    BY <1>0, <2>3 DEF IdsInv
  <2>8. IdsInv'
    BY <1>0, <2>1, <2>4, <2>5, <2>6, <2>7 DEF IdsInv, q
  <2> QED BY <1>0, <2>1, <2>8 DEF SuccessMeansDone
<1>4. ASSUME NEW k \in Conns, toServer[k] # << >>, toServer' = Popped(toServer, k)
      PROVE  /\ 1 \in DOMAIN toServer[k] /\ Head(toServer[k]) = toServer[k][1]
             /\ \A l \in Conns : \A i \in DOMAIN toServer'[l] :
                   \/ l # k /\ i \in DOMAIN toServer[l] /\ toServer'[l][i] = toServer[l][i]
                   \/ /\ l = k /\ i \in Nat \ {0} /\ i + 1 \in DOMAIN toServer[l]
                      /\ toServer'[l][i] = toServer[l][i + 1]
  BY <1>1, <1>4, AfterPop
<1>5. ASSUME NEW k \in Conns, toServer[k] # << >>, toServer' = Popped(toServer, k),
             UNCHANGED requests
      PROVE  /\ \A l \in Conns : \A i \in DOMAIN toServer'[l] :
                   toServer'[l][i].id # NULL => toServer'[l][i].id \in 1 .. requests
             /\ \A l, m \in Conns :
                   \A i \in DOMAIN toServer'[l], j \in DOMAIN toServer'[m] :
                      toServer'[l][i].id = toServer'[m][j].id /\ toServer'[l][i].id # NULL
                         => l = m /\ i = j
             /\ \A l, m \in Conns :
                   \A i \in DOMAIN toServer'[l], j \in DOMAIN toClient[m] :
                      toServer'[l][i].id # toClient[m][j].id
             /\ toServer[k][1].id # NULL =>
                   \A l \in Conns : \A i \in DOMAIN toServer'[l] :
                      toServer'[l][i].id # toServer[k][1].id
  <2> DEFINE q == toServer'
  <2>1. /\ 1 \in DOMAIN toServer[k]
        /\ \A l \in Conns : \A i \in DOMAIN q[l] :
             \/ l # k /\ i \in DOMAIN toServer[l] /\ q[l][i] = toServer[l][i]
             \/ /\ l = k /\ i \in Nat \ {0} /\ i + 1 \in DOMAIN toServer[l]
                /\ q[l][i] = toServer[l][i + 1]
    BY <1>4, <1>5
  <2> HIDE DEF q
  <2>2. \A l \in Conns : \A i \in DOMAIN q[l] :
           q[l][i].id # NULL => q[l][i].id \in 1 .. requests
    BY <1>0, <2>1 DEF IdsInv
  <2>3. ASSUME NEW l \in Conns, NEW m \in Conns,
               NEW i \in DOMAIN q[l], NEW j \in DOMAIN q[m],
               q[l][i].id = q[m][j].id, q[l][i].id # NULL
        PROVE  l = m /\ i = j
    <3>1. CASE l # k
      BY <1>0, <2>1, <2>3, <3>1 DEF IdsInv
    <3>2. CASE l = k
      <4>1. i \in Nat \ {0} /\ i + 1 \in DOMAIN toServer[l] /\ q[l][i] = toServer[l][i + 1]
        BY <2>1, <3>2
      <4>2. m = k
        BY <1>0, <2>1, <2>3, <3>2, <4>1 DEF IdsInv
      <4>3. j \in Nat \ {0} /\ j + 1 \in DOMAIN toServer[l] /\ q[m][j] = toServer[l][j + 1]
        BY <2>1, <3>2, <4>2
      <4>4. i + 1 = j + 1
        BY <1>0, <2>3, <4>1, <4>2, <4>3 DEF IdsInv
      <4> QED BY <3>2, <4>1, <4>2, <4>3, <4>4
    <3> QED BY <3>1, <3>2
  <2>4. ASSUME NEW l \in Conns, NEW m \in Conns,
               NEW i \in DOMAIN q[l], NEW j \in DOMAIN toClient[m]
        PROVE  q[l][i].id # toClient[m][j].id
    BY <1>0, <2>1 DEF IdsInv
  <2>5. ASSUME toServer[k][1].id # NULL, NEW l \in Conns, NEW i \in DOMAIN q[l]
        PROVE  q[l][i].id # toServer[k][1].id
    <3>1. CASE l # k
      BY <1>0, <2>1, <2>5, <3>1 DEF IdsInv
    <3>2. CASE l = k
      <4>1. i \in Nat \ {0} /\ i + 1 \in DOMAIN toServer[l] /\ q[l][i] = toServer[l][i + 1]
        BY <2>1, <3>2
      <4>2. i + 1 # 1
        BY <4>1
      <4> QED BY <1>0, <2>1, <2>5, <3>2, <4>1, <4>2 DEF IdsInv
    <3> QED BY <3>1, <3>2
  <2> QED BY <2>2, <2>3, <2>4, <2>5 DEF q
<1>6. ASSUME NEW k \in Conns, Skipped(k) PROVE IdsInv' /\ SuccessMeansDone'
  <2>1. /\ toServer[k] # << >> /\ toServer' = Popped(toServer, k)
        /\ UNCHANGED << toClient, requests, applied >>
    BY <1>6 DEF Skipped
  <2>2. IdsInv'
    BY <1>0, <1>5, <2>1 DEF IdsInv
  <2> QED BY <1>0, <2>1, <2>2 DEF SuccessMeansDone
<1>7. ASSUME NEW k \in Conns, NEW r, NEW reply, Served(k, r, reply)
      PROVE  IdsInv' /\ SuccessMeansDone'
  <2> DEFINE q == toClient'
  <2>1. /\ toServer[k] # << >> /\ toServer' = Popped(toServer, k) /\ UNCHANGED requests
        /\ r = Head(toServer[k]) /\ r.id # NULL
        /\ q = Pushed(toClient, k, reply) /\ reply.id = r.id
        /\ applied \subseteq applied'
        /\ json_hal_get_result_status(reply) = TRUE => r.id \in applied'
    BY <1>7 DEF Served
  <2> HIDE DEF q
  <2>2. r = toServer[k][1] /\ 1 \in DOMAIN toServer[k]
    BY <1>4, <2>1
  <2>3. \A l \in Conns : \A i \in DOMAIN q[l] :
          \/ l = k /\ i = Len(toClient[k]) + 1 /\ q[l][i] = reply
          \/ i \in DOMAIN toClient[l] /\ q[l][i] = toClient[l][i]
    BY <1>1, <2>1, AfterPush
  <2>4. reply.id \in 1 .. requests
    BY <1>0, <2>1, <2>2 DEF IdsInv
  <2>5. \A l \in Conns : \A i \in DOMAIN toClient[l] : toClient[l][i].id # reply.id
    BY <1>0, <2>1, <2>2 DEF IdsInv
  <2>6. \A l \in Conns : \A i \in DOMAIN q[l] : q[l][i].id \in 1 .. requests
    BY <1>0, <2>3, <2>4 DEF IdsInv
  <2>7. ASSUME NEW l \in Conns, NEW m \in Conns,
               NEW i \in DOMAIN q[l], NEW j \in DOMAIN q[m], q[l][i].id = q[m][j].id
        PROVE  l = m /\ i = j
    <3>1. CASE q[l][i] = reply /\ l = k /\ i = Len(toClient[k]) + 1
      BY <2>3, <2>5, <2>7, <3>1
    <3>2. CASE i \in DOMAIN toClient[l] /\ q[l][i] = toClient[l][i]
      BY <1>0, <2>3, <2>5, <2>7, <3>2 DEF IdsInv
    <3> QED BY <2>3, <3>1, <3>2
  <2>8. ASSUME NEW l \in Conns, NEW m \in Conns,
               NEW i \in DOMAIN toServer'[l], NEW j \in DOMAIN q[m]
        PROVE  toServer'[l][i].id # q[m][j].id
    <3>1. toServer'[l][i].id # reply.id
      BY <1>5, <2>1, <2>2
    <3>2. j \in DOMAIN toClient[m] => toServer'[l][i].id # toClient[m][j].id
      BY <1>5, <2>1
    <3> QED BY <2>3, <3>1, <3>2
  <2>9. IdsInv'
    <3>1. /\ \A l \in Conns : \A i \in DOMAIN toServer'[l] :
                toServer'[l][i].id # NULL => toServer'[l][i].id \in 1 .. requests
          /\ \A l, m \in Conns :
                \A i \in DOMAIN toServer'[l], j \in DOMAIN toServer'[m] :
                   toServer'[l][i].id = toServer'[m][j].id /\ toServer'[l][i].id # NULL
                      => l = m /\ i = j
      BY <1>5, <2>1
    <3> QED BY <2>1, <2>6, <2>7, <2>8, <3>1 DEF IdsInv, q
  <2>10. \A l \in Conns : \A i \in DOMAIN q[l] :
           json_hal_get_result_status(q[l][i]) = TRUE => q[l][i].id \in applied'
    BY <1>0, <2>1, <2>3 DEF SuccessMeansDone
  <2>11. SuccessMeansDone'
    BY <2>10 DEF SuccessMeansDone, q
  <2> QED BY <2>9, <2>11
<1>8. ASSUME NEW k \in Conns, ReadReply(k) PROVE IdsInv' /\ SuccessMeansDone'
  <2> DEFINE q == toClient'
  <2>1. /\ toClient[k] # << >> /\ q = Popped(toClient, k)
        /\ applied' = applied \ {Head(toClient[k]).id}
        /\ UNCHANGED << toServer, requests >>
    BY <1>8 DEF ReadReply, Popped
  <2> HIDE DEF q
  <2>2. /\ 1 \in DOMAIN toClient[k] /\ Head(toClient[k]) = toClient[k][1]
        /\ \A l \in Conns : \A i \in DOMAIN q[l] :
              \/ l # k /\ i \in DOMAIN toClient[l] /\ q[l][i] = toClient[l][i]
              \/ /\ l = k /\ i \in Nat \ {0} /\ i + 1 \in DOMAIN toClient[l]
                 /\ q[l][i] = toClient[l][i + 1]
    BY <1>1, <2>1, AfterPop
  <2>3. \A l \in Conns : \A i \in DOMAIN q[l] : q[l][i].id \in 1 .. requests
    BY <1>0, <2>2 DEF IdsInv
  <2>4. ASSUME NEW l \in Conns, NEW m \in Conns,
               NEW i \in DOMAIN q[l], NEW j \in DOMAIN q[m], q[l][i].id = q[m][j].id
        PROVE  l = m /\ i = j
    <3>1. CASE l # k
      BY <1>0, <2>2, <2>4, <3>1 DEF IdsInv
    <3>2. CASE l = k
      <4>1. i \in Nat \ {0} /\ i + 1 \in DOMAIN toClient[l] /\ q[l][i] = toClient[l][i + 1]
        BY <2>2, <3>2
      <4>2. m = k
        BY <1>0, <2>2, <2>4, <3>2, <4>1 DEF IdsInv
      <4>3. j \in Nat \ {0} /\ j + 1 \in DOMAIN toClient[l] /\ q[m][j] = toClient[l][j + 1]
        BY <2>2, <3>2, <4>2
      <4>4. i + 1 = j + 1
        BY <1>0, <2>4, <4>1, <4>2, <4>3 DEF IdsInv
      <4> QED BY <3>2, <4>1, <4>2, <4>3, <4>4
    <3> QED BY <3>1, <3>2
  <2>5. ASSUME NEW l \in Conns, NEW i \in DOMAIN q[l]
        PROVE  /\ q[l][i].id # Head(toClient[k]).id
               /\ \E j \in DOMAIN toClient[l] : q[l][i] = toClient[l][j]
    <3>1. CASE l # k
      BY <1>0, <2>2, <3>1 DEF IdsInv
    <3>2. CASE l = k
      <4>1. i \in Nat \ {0} /\ i + 1 \in DOMAIN toClient[l] /\ q[l][i] = toClient[l][i + 1]
        BY <2>2, <3>2
      <4>2. i + 1 # 1
        BY <4>1
      <4> QED BY <1>0, <2>2, <3>2, <4>1, <4>2 DEF IdsInv
    <3> QED BY <3>1, <3>2
  <2>6. ASSUME NEW l \in Conns, NEW m \in Conns,
               NEW i \in DOMAIN toServer[l], NEW j \in DOMAIN q[m]
        PROVE  toServer[l][i].id # q[m][j].id
    BY <1>0, <2>5 DEF IdsInv
  <2>7. IdsInv'
    BY <1>0, <2>1, <2>3, <2>4, <2>6 DEF IdsInv, q
  <2>8. \A l \in Conns : \A i \in DOMAIN q[l] :
          json_hal_get_result_status(q[l][i]) = TRUE => q[l][i].id \in applied'
    BY <1>0, <2>1, <2>5 DEF SuccessMeansDone
  <2>9. SuccessMeansDone'
    BY <2>8 DEF SuccessMeansDone, q
  <2> QED BY <2>7, <2>9
<1> QED BY <1>0, <1>2, <1>3, <1>6, <1>7, <1>8, StepKinds

\* A client that reads Success in a reply has had its whole request done: no
\* callback that failed half way is ever reported as done.
THEOREM SuccessIsDone == Spec => []SuccessMeansDone
<1>1. Init => DoneInv
  <2> SUFFICES ASSUME Init PROVE DoneInv
    OBVIOUS
  <2>1. DispatchInv
    BY InitDispatch
  <2>2. \A k \in Conns : toServer[k] = << >> /\ toClient[k] = << >>
    BY DEF Init
  <2>3. DOMAIN << >> = {}
    OBVIOUS
  <2>4. IdsInv /\ SuccessMeansDone
    BY <2>2, <2>3 DEF IdsInv, SuccessMeansDone
  <2> QED BY <2>1, <2>4 DEF DoneInv
<1>2. DoneInv /\ [Next]_vars => DoneInv'
  BY DispatchStep, DoneStep DEF DoneInv
<1>3. DoneInv => SuccessMeansDone
  BY DEF DoneInv
<1> QED BY <1>1, <1>2, <1>3, PTL DEF Spec
=============================================================================
