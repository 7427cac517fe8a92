--------------------------- MODULE RoundRobin_proofs ---------------------------
(***************************************************************************)
(* Proofs about RoundRobin, for any number of requests, any lists, any      *)
(* bounds: the state keeps its types, the endpoints of a list come first    *)
(* equally often while it alone is rotated, a rotation loses no endpoint,   *)
(* and what the resolver gives a request is an order as ChatRouting assumes *)
(* one.                                                                     *)
(***************************************************************************)
EXTENDS RoundRobin, TLAPS

\* A multiple is as far from the next one as the factor says.
LEMMA MultiplesApart ==
    ASSUME NEW n \in Nat \ {0}, NEW p \in Nat, NEW q \in Nat, p < q
    PROVE  n * p + n <= n * q
  <1>1. PICK k \in Nat : q = p + 1 + k
    <2>1. q - (p + 1) \in Nat /\ q = p + 1 + (q - (p + 1))
      OBVIOUS
    <2> QED  BY <2>1
  <1>2. n * q = n * p + n + n * k
    BY <1>1
  <1>3. n * k \in Nat /\ n * p \in Nat
    OBVIOUS
  <1> QED
    BY <1>2, <1>3

\* A remainder is the only number below the divisor that a multiple leaves.
LEMMA RemainderUnique ==
    ASSUME NEW n \in Nat \ {0}, NEW q \in Nat, NEW s \in 0..(n - 1)
    PROVE  (n * q + s) % n = s
  <1> DEFINE x == n * q + s
  <1>1. x \in Nat
    OBVIOUS
  <1>2. PICK p \in Nat, t \in 0..(n - 1) : x = n * p + t /\ t = x % n
    <2>1. /\ x = n * (x \div n) + (x % n)
          /\ x \div n \in Nat
          /\ x % n \in 0..(n - 1)
      BY <1>1
    <2> QED  BY <2>1
  <1>3. n * p \in Nat /\ n * q \in Nat
    OBVIOUS
  <1>4. ~(p < q) /\ ~(q < p)
    BY <1>2, <1>3, MultiplesApart
  <1>5. p = q
    BY <1>4
  <1> QED
    BY <1>2, <1>3, <1>5

\* Taking the remainder before or after adding one gives the same position.
LEMMA ModSuccessor ==
    ASSUME NEW c \in Nat, NEW n \in Nat \ {0}
    PROVE  (c + 1) % n = ((c % n) + 1) % n
  <1>1. PICK q \in Nat, r \in 0..(n - 1) : c = n * q + r /\ r = c % n
    <2>1. c = n * (c \div n) + (c % n) /\ c \div n \in Nat /\ c % n \in 0..(n - 1)
      OBVIOUS
    <2> QED  BY <2>1
  <1>2. CASE r + 1 < n
    <2>1. (n * q + (r + 1)) % n = r + 1 /\ (n * 0 + (r + 1)) % n = r + 1
      BY <1>2, RemainderUnique
    <2>2. c + 1 = n * q + (r + 1) /\ r + 1 = n * 0 + (r + 1)
      BY <1>1
    <2> QED
      BY <1>1, <2>1, <2>2
  <1>3. CASE r + 1 = n
    <2>1. (n * (q + 1) + 0) % n = 0 /\ (n * 1 + 0) % n = 0
      BY RemainderUnique
    <2>2. c + 1 = n * (q + 1) + 0 /\ r + 1 = n * 1 + 0
      BY <1>1, <1>3
    <2> QED
      BY <1>1, <2>1, <2>2
  <1> QED
    BY <1>2, <1>3

\* A rotation of a list of endpoints is a list of as many endpoints.
LEMMA RotationType ==
    ASSUME NEW list \in Seq(Endpoints), NEW index \in Nat, index < Len(list)
    PROVE  /\ Rotation(list, index) \in Seq(Endpoints)
           /\ Len(Rotation(list, index)) = Len(list)
  <1> DEFINE back == SubSeq(list, index + 1, Len(list))
             front == SubSeq(list, 1, index)
  <1>1. back \in Seq(Endpoints) /\ Len(back) = Len(list) - index
    OBVIOUS
  <1>2. front \in Seq(Endpoints) /\ Len(front) = index
    OBVIOUS
  <1>3. Rotation(list, index) = back \o front
    BY DEF Rotation
  <1> HIDE DEF back, front
  <1>4. back \o front \in Seq(Endpoints) /\ Len(back \o front) = Len(back) + Len(front)
    BY <1>1, <1>2
  <1> QED
    BY <1>1, <1>2, <1>3, <1>4

-----------------------------------------------------------------------------
(* The types *)

LEMMA InitType == Init => TypeOK
  <1> SUFFICES ASSUME Init PROVE TypeOK
    OBVIOUS
  <1>1. last \in [list: Seq(Endpoints), turns: [Endpoints -> Nat]]
    BY DEF Init, NoTurns
  <1>2. req \in [Requests -> Request] /\ \A r \in Requests : req[r].pc # "routed"
    BY DEF Init, Request
  <1>3. loop \in [job: Requests \cup {None, Extra}, list: Seq(Endpoints)]
    BY DEF Init, Free
  <1> QED
    BY <1>1, <1>2, <1>3 DEF Init, TypeOK

\* A resolution that begins has a list to route and somebody to route it for.
LEMMA LoopBegins ==
    ASSUME NEW j \in Requests \cup {Extra}, NEW list \in Seq(Endpoints), list # <<>>,
           loop' = [job |-> j, list |-> list]
    PROVE  /\ loop' \in [job: Requests \cup {None, Extra}, list: Seq(Endpoints)]
           /\ loop'.job # None /\ loop'.list # <<>>
  BY RoutingAssumption DEF Extra

\* A request that does not become routed keeps the shape of its record.
LEMMA PcChanges ==
    ASSUME TypeOK, NEW r \in Requests,
           NEW pc \in {"tracked", "unavailable", "refused", "killed"},
           req' = [req EXCEPT ![r].pc = pc]
    PROVE  /\ req' \in [Requests -> Request]
           /\ \A i \in Requests : req'[i].pc = "routed" => req'[i].order # <<>>
  <1>1. PICK w : w = [req[r] EXCEPT !.pc = pc]
    OBVIOUS
  <1>2. req[r] \in Request
    BY DEF TypeOK
  <1>3. w \in Request /\ w.pc # "routed"
    BY <1>1, <1>2 DEF Request
  <1>4. req' = [req EXCEPT ![r] = w]
    BY <1>1
  <1> QED
    BY <1>3, <1>4 DEF TypeOK

\* Whoever the list is for, the record that takes it keeps its shape.
LEMMA DeliverType ==
    ASSUME TypeOK, NEW order \in Seq(Endpoints), order # <<>>, Deliver(order)
    PROVE  /\ req' \in [Requests -> Request]
           /\ \A i \in Requests : req'[i].pc = "routed" => req'[i].order # <<>>
  <1> DEFINE r == loop.job
  <1>1. CASE r \notin Requests
    BY <1>1 DEF Deliver, TypeOK
  <1>2. CASE r \in Requests /\ req[r].pc = "new"
    <2>1. req' = [req EXCEPT ![r].pc = "tracked"]
      BY <1>2 DEF Deliver
    <2> QED
      BY <1>2, <2>1, PcChanges
  <1>3. CASE r \in Requests /\ req[r].pc # "new"
    <2>1. PICK w : w = [req[r] EXCEPT !.pc = "routed", !.order = order]
      OBVIOUS
    <2>2. req[r] \in Request
      BY <1>3 DEF TypeOK
    <2>3. w \in Request /\ w.order = order
      BY <2>1, <2>2 DEF Request
    <2>4. req' = [req EXCEPT ![r] = w]
      BY <1>3, <2>1 DEF Deliver
    <2> QED
      BY <1>3, <2>3, <2>4 DEF TypeOK
  <1> QED
    BY <1>1, <1>2, <1>3

\* A turn that is taken is one more for the endpoint that takes it.
LEMMA TurnType ==
    ASSUME TypeOK, NEW list \in Seq(Endpoints), NEW e \in Endpoints
    PROVE  TakesTurn(list, e) \in [list: Seq(Endpoints), turns: [Endpoints -> Nat]]
  <1>1. PICK before : before = IF last.list = list THEN last.turns ELSE NoTurns.turns
    OBVIOUS
  <1>2. before \in [Endpoints -> Nat]
    BY <1>1 DEF TypeOK, NoTurns
  <1>3. [before EXCEPT ![e] = @ + 1] \in [Endpoints -> Nat]
    BY <1>2
  <1> QED
    BY <1>1, <1>3 DEF TakesTurn

LEMMA RouteType ==
    ASSUME TypeOK, Route
    PROVE  TypeOK'
  <1> DEFINE list == loop.list
             index == counter % Len(list)
  <1>1. list \in Seq(Endpoints) /\ list # <<>> /\ Len(list) \in Nat \ {0}
    BY DEF TypeOK, Route
  <1>2. index \in Nat /\ index < Len(list)
    BY <1>1 DEF TypeOK
  <1>3. PICK i \in Nat, l \in Seq(Endpoints) : i = index /\ l = list
    BY <1>1, <1>2
  <1>4. Rotation(list, index) \in Seq(Endpoints) /\ Rotation(list, index) # <<>>
    BY <1>1, <1>2, <1>3, RotationType
  <1>5. PICK order \in Seq(Endpoints) : order # <<>> /\ Deliver(order)
    BY <1>1, <1>4 DEF Route
  <1>6. /\ req' \in [Requests -> Request]
        /\ \A q \in Requests : req'[q].pc = "routed" => req'[q].order # <<>>
    BY <1>5, DeliverType DEF TypeOK
  <1>7. counter' \in Nat /\ last' \in [list: Seq(Endpoints), turns: [Endpoints -> Nat]]
    <2>1. CASE Rotates(list)
      <3>1. Rotation(list, index)[1] \in Endpoints
        BY <1>4
      <3>2. counter' = counter + 1 /\ last' = TakesTurn(list, Rotation(list, index)[1])
        BY <2>1 DEF Route, NextCount
      <3>3. PICK e \in Endpoints : e = Rotation(list, index)[1]
        BY <3>1
      <3>4. TakesTurn(list, e) \in [list: Seq(Endpoints), turns: [Endpoints -> Nat]]
        BY <1>1, TurnType
      <3>5. last' \in [list: Seq(Endpoints), turns: [Endpoints -> Nat]]
        BY <3>2, <3>3, <3>4
      <3> QED
        BY <3>2, <3>5 DEF TypeOK
    <2>2. CASE ~Rotates(list)
      BY <2>2 DEF Route, TypeOK
    <2> QED
      BY <2>1, <2>2
  <1>8. loop' = Free
    BY DEF Route
  <1> QED
    BY <1>6, <1>7, <1>8 DEF Route, TypeOK, Free

LEMMA NextType ==
    ASSUME TypeOK, [Next]_vars
    PROVE  TypeOK'
  <1>1. ASSUME NEW r \in Requests, Track(r) PROVE TypeOK'
    <2>1. PICK list \in Seq(Endpoints) : Begin(r, list)
      BY <1>1, RoutingAssumption DEF Track, TypeOK
    <2> QED
      BY <2>1, LoopBegins DEF Begin, TypeOK
  <1>2. ASSUME NEW r \in Requests, TrackUnresolved(r) PROVE TypeOK'
    BY <1>2, PcChanges DEF TrackUnresolved, TypeOK
  <1>3. ASSUME NEW r \in Requests, Refuse(r) PROVE TypeOK'
    BY <1>3, PcChanges DEF Refuse, TypeOK
  <1>4. ASSUME NEW r \in Requests, Handle(r) PROVE TypeOK'
    <2>1. PICK list \in Seq(Endpoints) : Begin(r, list)
      BY <1>4, RoutingAssumption DEF Handle, TypeOK
    <2> QED
      BY <2>1, LoopBegins DEF Begin, TypeOK
  <1>5. ASSUME NEW r \in Requests, HandleUnavailable(r) PROVE TypeOK'
    BY <1>5, PcChanges DEF HandleUnavailable, TypeOK
  <1>6. ASSUME OthersResolve PROVE TypeOK'
    <2>1. PICK list \in Seq(Endpoints) :
            list # <<>> /\ loop' = [job |-> Extra, list |-> list]
      BY <1>6, RoutingAssumption DEF OthersResolve, TypeOK
    <2> QED
      BY <1>6, <2>1, LoopBegins DEF OthersResolve, TypeOK
  <1>7. ASSUME Route PROVE TypeOK'
    BY <1>7, RouteType
  <1>8. ASSUME ChangeConfig PROVE TypeOK'
    BY <1>8 DEF ChangeConfig, TypeOK
  <1>9. ASSUME Restart PROVE TypeOK'
    <2>1. last' \in [list: Seq(Endpoints), turns: [Endpoints -> Nat]]
      BY <1>9 DEF Restart, NoTurns
    <2>2. ASSUME NEW r \in Requests
          PROVE  req'[r] \in Request /\ (req'[r].pc = "routed" => req'[r].order # <<>>)
      <3>1. PICK w : w = [req[r] EXCEPT !.pc = "killed"]
        OBVIOUS
      <3>2. req[r] \in Request /\ (req[r].pc = "routed" => req[r].order # <<>>)
        BY DEF TypeOK
      <3>3. w \in Request /\ w.pc # "routed"
        BY <3>1, <3>2 DEF Request
      <3>4. req'[r] = w \/ req'[r] = req[r]
        BY <1>9, <3>1 DEF Restart
      <3> QED
        BY <3>2, <3>3, <3>4
    <2>3. req' \in [Requests -> Request]
      BY <1>9, <2>2 DEF Restart
    <2> QED
      BY <1>9, <2>1, <2>2, <2>3 DEF Restart, Free, TypeOK
  <1>10. ASSUME UNCHANGED vars PROVE TypeOK'
    BY <1>10 DEF vars, TypeOK
  <1> QED
    BY <1>1, <1>2, <1>3, <1>4, <1>5, <1>6, <1>7, <1>8, <1>9, <1>10 DEF Next

\* The state keeps its types: nothing is routed for nobody and no request is
\* routed to nowhere (resolve_requested_model, route_endpoints).
THEOREM TypeCorrect == Spec => []TypeOK
  <1>1. TypeOK /\ [Next]_vars => TypeOK'
    BY NextType
  <1> QED
    BY <1>1, InitType, PTL DEF Spec

-----------------------------------------------------------------------------
(* A rotation has what its list has *)

\* Two parts that change places.
LEMMA PartsSwapped ==
    ASSUME NEW S, NEW list \in Seq(S), NEW whole \in Seq(S),
           NEW m \in Nat, NEW k \in Nat, Len(list) = k + m, Len(whole) = k + m,
           \A i \in 1..m : whole[i] = list[k + i],
           \A i \in 1..k : whole[m + i] = list[i]
    PROVE  ToSet(whole) = ToSet(list)
  <1>1. DOMAIN whole = 1..(k + m) /\ DOMAIN list = 1..(k + m)
    OBVIOUS
  <1>2. ASSUME NEW i \in 1..(k + m) PROVE \E j \in 1..(k + m) : whole[i] = list[j]
    <2>1. CASE i <= m
      <3>1. k + i \in 1..(k + m) /\ whole[i] = list[k + i]
        BY <2>1
      <3> QED
        BY <3>1
    <2>2. CASE i > m
      <3>1. PICK j \in 1..k : j = i - m
        BY <2>2
      <3>2. i = m + j /\ j \in 1..(k + m)
        BY <3>1
      <3> QED
        BY <3>1, <3>2
    <2> QED
      BY <2>1, <2>2
  <1>3. ASSUME NEW j \in 1..(k + m) PROVE \E i \in 1..(k + m) : whole[i] = list[j]
    <2>1. CASE j <= k
      <3>1. m + j \in 1..(k + m) /\ whole[m + j] = list[j]
        BY <2>1
      <3> QED
        BY <3>1
    <2>2. CASE j > k
      <3>1. PICK i \in 1..m : i = j - k
        BY <2>2
      <3>2. j = k + i /\ i \in 1..(k + m)
        BY <3>1
      <3> QED
        BY <3>1, <3>2
    <2> QED
      BY <2>1, <2>2
  <1>4. ASSUME NEW e \in ToSet(whole) PROVE e \in ToSet(list)
    <2>1. PICK i \in 1..(k + m) : e = whole[i]
      BY <1>1, <1>4 DEF ToSet
    <2>2. PICK j \in 1..(k + m) : whole[i] = list[j]
      BY <1>2
    <2> QED
      BY <1>1, <2>1, <2>2 DEF ToSet
  <1>5. ASSUME NEW e \in ToSet(list) PROVE e \in ToSet(whole)
    <2>1. PICK j \in 1..(k + m) : e = list[j]
      BY <1>1, <1>5 DEF ToSet
    <2>2. PICK i \in 1..(k + m) : whole[i] = list[j]
      BY <1>3
    <2> QED
      BY <1>1, <2>1, <2>2 DEF ToSet
  <1> QED
    BY <1>4, <1>5

\* Two parts, one after the other.
LEMMA Joined ==
    ASSUME NEW S, NEW back \in Seq(S), NEW front \in Seq(S)
    PROVE  /\ back \o front \in Seq(S)
           /\ Len(back \o front) = Len(back) + Len(front)
           /\ \A i \in 1..Len(back) : (back \o front)[i] = back[i]
           /\ \A i \in 1..Len(front) : (back \o front)[Len(back) + i] = front[i]
  <1>1. back \o front \in Seq(S)
    OBVIOUS
  <1>2. Len(back \o front) = Len(back) + Len(front)
    OBVIOUS
  <1>3. \A i \in 1..Len(back) : (back \o front)[i] = back[i]
    OBVIOUS
  <1>4. \A i \in 1..Len(front) : (back \o front)[Len(back) + i] = front[i]
    OBVIOUS
  <1> QED
    BY <1>1, <1>2, <1>3, <1>4

\* Where a rotation has what.
LEMMA RotationParts ==
    ASSUME NEW list \in Seq(Endpoints), NEW index \in Nat, index < Len(list)
    PROVE  /\ \A i \in 1..(Len(list) - index) :
                Rotation(list, index)[i] = list[index + i]
           /\ \A i \in 1..index :
                Rotation(list, index)[(Len(list) - index) + i] = list[i]
  <1>1. Len(list) \in Nat /\ Len(list) - index \in Nat
    OBVIOUS
  <1>2. PICK m \in Nat : m = Len(list) - index
    BY <1>1
  <1>3. PICK back : back = SubSeq(list, index + 1, Len(list))
    OBVIOUS
  <1>4. PICK front : front = SubSeq(list, 1, index)
    OBVIOUS
  <1>a. /\ back \in Seq(Endpoints) /\ Len(back) = m
        /\ \A i \in 1..m : back[i] = list[index + i]
    <2>1. Len(back) = Len(list) - index
      BY <1>1, <1>3
    <2>2. back \in Seq(Endpoints)
      BY <1>1, <1>3
    <2>3. \A i \in 1..(Len(list) - index) : back[i] = list[index + i]
      BY <1>1, <1>3
    <2> QED
      BY <1>2, <2>1, <2>2, <2>3
  <1>b. /\ front \in Seq(Endpoints) /\ Len(front) = index
        /\ \A i \in 1..index : front[i] = list[i]
    BY <1>1, <1>4
  <1>5. PICK whole : whole = back \o front
    OBVIOUS
  <1>6. /\ whole \in Seq(Endpoints) /\ Len(whole) = Len(back) + Len(front)
        /\ \A i \in 1..Len(back) : whole[i] = back[i]
        /\ \A i \in 1..Len(front) : whole[Len(back) + i] = front[i]
    <2>1. back \in Seq(Endpoints) /\ front \in Seq(Endpoints)
      BY <1>a, <1>b
    <2>2. /\ back \o front \in Seq(Endpoints)
          /\ Len(back \o front) = Len(back) + Len(front)
          /\ \A i \in 1..Len(back) : (back \o front)[i] = back[i]
          /\ \A i \in 1..Len(front) : (back \o front)[Len(back) + i] = front[i]
      BY <2>1, Joined
    <2> QED
      BY <2>2, <1>5, Zenon
  <1>7. \A i \in 1..m : whole[i] = list[index + i]
    BY <1>a, <1>6
  <1>8. \A i \in 1..index : whole[m + i] = list[i]
    BY <1>a, <1>b, <1>6
  <1>9. whole = Rotation(list, index)
    BY <1>3, <1>4, <1>5 DEF Rotation
  <1> QED
    BY <1>2, <1>7, <1>8, <1>9, Zenon

\* A rotation has the endpoints of its list, and no others.
LEMMA RotationKeepsAll ==
    ASSUME NEW list \in Seq(Endpoints), NEW index \in Nat, index < Len(list)
    PROVE  ToSet(Rotation(list, index)) = ToSet(list)
  <1>1. PICK m \in Nat : m = Len(list) - index
    OBVIOUS
  <1>2. PICK whole \in Seq(Endpoints) :
          whole = Rotation(list, index) /\ Len(whole) = Len(list)
    BY RotationType
  <1>3. /\ \A i \in 1..m : whole[i] = list[index + i]
        /\ \A i \in 1..index : whole[m + i] = list[i]
    BY <1>1, <1>2, RotationParts
  <1>4. Len(list) = index + m /\ Len(whole) = index + m
    BY <1>1, <1>2
  <1>5. ToSet(whole) = ToSet(list)
    BY <1>3, <1>4, PartsSwapped
  <1> QED
    BY <1>2, <1>5

\* A routed request is routed by a list that is being resolved for it.
LEMMA RoutedByRoute ==
    ASSUME TypeOK, [Next]_vars, NEW r \in Requests,
           req[r].pc # "routed", req'[r].pc = "routed"
    PROVE  Route
  <1> SUFFICES ASSUME ~Route PROVE FALSE
    OBVIOUS
  <1>1. req \in [Requests -> Request]
    BY DEF TypeOK
  <1>2. ASSUME NEW i \in Requests,
               NEW pc \in {"tracked", "unavailable", "refused"},
               req' = [req EXCEPT ![i].pc = pc]
        PROVE  FALSE
    BY <1>1, <1>2 DEF Request
  <1>3. CASE req' = req
    BY <1>3
  <1>4. CASE Restart
    BY <1>1, <1>4 DEF Restart, Request
  <1>5. CASE \E i \in Requests : TrackUnresolved(i) \/ Refuse(i) \/ HandleUnavailable(i)
    <2>1. PICK i \in Requests : TrackUnresolved(i) \/ Refuse(i) \/ HandleUnavailable(i)
      BY <1>5
    <2>2. \E pc \in {"tracked", "unavailable", "refused"} : req' = [req EXCEPT ![i].pc = pc]
      BY <2>1 DEF TrackUnresolved, Refuse, HandleUnavailable
    <2> QED
      BY <1>2, <2>2
  <1> QED
    BY <1>3, <1>4, <1>5 DEF Next, vars, Track, Handle, Begin, OthersResolve, ChangeConfig

\* A routed request has each endpoint that was usable when it was resolved.
THEOREM OrdersAreComplete == Spec => OrderIsComplete
  <1> DEFINE Complete ==
             \A r \in Requests :
                 req[r].pc # "routed" /\ req'[r].pc = "routed" =>
                     /\ ToSet(req'[r].order) = ToSet(loop.list)
                     /\ Len(req'[r].order) = Len(loop.list)
  <1>1. TypeOK /\ [Next]_vars => [Complete]_vars
    <2> SUFFICES ASSUME TypeOK, [Next]_vars, NEW r \in Requests,
                        req[r].pc # "routed", req'[r].pc = "routed"
                 PROVE  /\ ToSet(req'[r].order) = ToSet(loop.list)
                        /\ Len(req'[r].order) = Len(loop.list)
      OBVIOUS
    <2>1. Route
      BY RoutedByRoute
    <2>a. PICK index : index = counter % Len(loop.list)
      OBVIOUS
    <2>2. /\ loop.list \in Seq(Endpoints) /\ loop.list # <<>> /\ counter \in Nat
          /\ req \in [Requests -> Request]
      BY <2>1 DEF TypeOK, Route
    <2>3. index \in Nat /\ index < Len(loop.list)
      <3>1. PICK n \in Nat \ {0} : n = Len(loop.list)
        BY <2>2
      <3>2. PICK k \in Nat : k = counter
        BY <2>2
      <3>3. k % n \in 0..(n - 1)
        OBVIOUS
      <3>4. index = k % n
        BY <2>a, <3>1, <3>2
      <3>5. index \in Nat /\ index < n
        BY <3>3, <3>4
      <3> QED
        BY <3>1, <3>5
    <2>4. PICK order \in {Rotation(loop.list, index), loop.list} : Deliver(order)
      BY <2>1, <2>a DEF Route
    <2>5. req'[r].order = order
      BY <2>2, <2>4 DEF Deliver, Request
    <2>6. ToSet(order) = ToSet(loop.list) /\ Len(order) = Len(loop.list)
      BY <2>2, <2>3, <2>4, RotationKeepsAll, RotationType
    <2> QED
      BY <2>5, <2>6
  <1> QED
    BY <1>1, TypeCorrect, PTL DEF Spec, OrderIsComplete

-----------------------------------------------------------------------------
(* The resolver gives ChatRouting's loop what it counts on *)

Distinct(list) == \A i, k \in 1 .. Len(list) : list[i] = list[k] => i = k

\* resolve_requested_model keeps one endpoint of each provider and model
\* (src/codex_registry.py:268).
Unrepeated == \A c \in Configs : \A list \in Lists[c] : Distinct(list)

\* What OrdersAssumption says of the orders of ChatRouting.
Usable(order) == order \in Seq(Endpoints) /\ Len(order) > 0 /\ Distinct(order)

\* A list that is being resolved for a request, and an order one has.
Suited ==
    /\ loop.job \in Requests => Distinct(loop.list)
    /\ \A r \in Requests : req[r].pc = "routed" => Usable(req[r].order)

\* A rotation repeats nothing that its list does not.
LEMMA RotationDistinct ==
    ASSUME NEW list \in Seq(Endpoints), NEW index \in Nat, index < Len(list), Distinct(list)
    PROVE  Distinct(Rotation(list, index))
  <1>1. PICK n \in Nat, whole \in Seq(Endpoints) :
          n = Len(list) /\ whole = Rotation(list, index) /\ Len(whole) = n
    BY RotationType
  <1>2. /\ \A i \in 1 .. (n - index) : whole[i] = list[index + i]
        /\ \A i \in 1 .. index : whole[(n - index) + i] = list[i]
    BY <1>1, RotationParts
  <1>3. ASSUME NEW i \in 1 .. n
        PROVE  \E k \in 1 .. n :
                 /\ whole[i] = list[k]
                 /\ k = IF i <= n - index THEN index + i ELSE i - (n - index)
    <2>1. CASE i <= n - index
      BY <1>1, <1>2, <2>1
    <2>2. CASE ~(i <= n - index)
      <3>1. PICK k \in 1 .. index : k = i - (n - index)
        BY <1>1, <2>2
      <3>2. whole[(n - index) + k] = list[k] /\ i = (n - index) + k /\ k \in 1 .. n
        BY <1>1, <1>2, <3>1
      <3> QED
        BY <2>2, <3>1, <3>2
    <2> QED
      BY <2>1, <2>2
  <1>4. ASSUME NEW i \in 1 .. n, NEW j \in 1 .. n, whole[i] = whole[j] PROVE i = j
    <2>1. PICK k \in 1 .. n : /\ whole[i] = list[k]
                              /\ k = IF i <= n - index THEN index + i ELSE i - (n - index)
      BY <1>3
    <2>2. PICK l \in 1 .. n : /\ whole[j] = list[l]
                              /\ l = IF j <= n - index THEN index + j ELSE j - (n - index)
      BY <1>3
    <2>3. k = l
      BY <1>1, <1>4, <2>1, <2>2 DEF Distinct
    <2> QED
      BY <1>1, <2>1, <2>2, <2>3
  <1> QED
    BY <1>1, <1>4 DEF Distinct

\* Delivering a usable order keeps every request's order usable.
LEMMA DeliverSuited ==
    ASSUME TypeOK, Suited, NEW order, Usable(order), Deliver(order),
           NEW r \in Requests, req'[r].pc = "routed"
    PROVE  Usable(req'[r].order)
  <1>1. req \in [Requests -> Request]
    BY DEF TypeOK
  <1>2. CASE req'[r] = req[r]
    BY <1>2 DEF Suited
  <1>3. CASE req'[r] # req[r]
    <2>1. req'[r].order = order
      BY <1>1, <1>3 DEF Deliver, Request
    <2> QED
      BY <2>1
  <1> QED
    BY <1>2, <1>3

LEMMA RouteSuited ==
    ASSUME TypeOK, Suited, Route, NEW r \in Requests, req'[r].pc = "routed"
    PROVE  Usable(req'[r].order)
  <1>1. CASE req'[r] = req[r]
    BY <1>1 DEF Suited
  <1>2. CASE req'[r] # req[r]
    <2>1. loop.job = r
      BY <1>2 DEF Route, Deliver, TypeOK
    <2>2. PICK index : index = counter % Len(loop.list)
      OBVIOUS
    <2>3. /\ loop.list \in Seq(Endpoints) /\ loop.list # <<>> /\ Distinct(loop.list)
          /\ index \in Nat /\ index < Len(loop.list)
      <3>1. /\ loop.list \in Seq(Endpoints) /\ loop.list # <<>> /\ Distinct(loop.list)
            /\ counter \in Nat
        BY <2>1 DEF Route, TypeOK, Suited
      <3>2. PICK n \in Nat \ {0}, k \in Nat : n = Len(loop.list) /\ k = counter
        BY <3>1
      <3>3. k % n \in 0 .. (n - 1)
        OBVIOUS
      <3>4. index = k % n
        BY <2>2, <3>2
      <3>5. index \in Nat /\ index < n
        BY <3>3, <3>4
      <3> QED
        BY <3>1, <3>2, <3>5
    <2>4. PICK order \in {Rotation(loop.list, index), loop.list} : Deliver(order)
      BY <2>2 DEF Route
    <2>5. Usable(loop.list)
      BY <2>3 DEF Usable
    <2>6. Usable(Rotation(loop.list, index))
      BY <2>3, RotationType, RotationDistinct DEF Usable
    <2> QED
      BY <2>4, <2>5, <2>6, DeliverSuited
  <1> QED
    BY <1>1, <1>2

\* A resolution that begins for a request is of a list without repetitions.
LEMMA SuitedGoesOn ==
    ASSUME Unrepeated, TypeOK, Suited, [Next]_vars
    PROVE  Suited'
  <1>1. req \in [Requests -> Request] /\ config \in Configs
    BY DEF TypeOK
  <1>2. ASSUME NEW r \in Requests, req'[r].pc = "routed" PROVE Usable(req'[r].order)
    <2>1. CASE req[r].pc = "routed" /\ req'[r] = req[r]
      BY <2>1 DEF Suited
    <2>2. CASE Route
      BY <1>2, <2>2, RouteSuited
    <2>3. CASE ~Route
      <3>1. req[r].pc = "routed"
        BY <1>2, <2>3, RoutedByRoute
      <3>2. req'[r] = req[r]
        BY <1>1, <1>2, <2>3, <3>1
           DEF Next, vars, Track, TrackUnresolved, Refuse,
               Handle, HandleUnavailable, Begin, OthersResolve,
               ChangeConfig, Restart, Request
      <3> QED
        BY <2>1, <3>1, <3>2
    <2> QED
      BY <2>2, <2>3
  <1>3. loop'.job \in Requests => Distinct(loop'.list)
    <2>1. ASSUME NEW j, NEW list \in Lists[config], Begin(j, list)
          PROVE  Distinct(loop'.list)
      <3>1. loop'.list = list
        BY <2>1 DEF Begin
      <3> QED
        BY <1>1, <2>1, <3>1 DEF Unrepeated
    <2>2. CASE \E r \in Requests : Track(r) \/ Handle(r)
      BY <2>1, <2>2 DEF Track, Handle
    <2>3. CASE loop' = loop
      BY <2>3 DEF Suited
    <2>4. CASE loop' = Free
      BY <2>4, RoutingAssumption DEF Free
    <2>5. CASE OthersResolve
      BY <2>5, RoutingAssumption DEF OthersResolve, Extra
    <2> QED
      BY <2>2, <2>3, <2>4, <2>5
         DEF Next, vars, TrackUnresolved, Refuse,
             HandleUnavailable, Route, ChangeConfig, Restart
  <1> QED
    BY <1>2, <1>3 DEF Suited

\* Every order that the resolver gives a request is one that the loop of the
\* handler is checked and proved for (OrdersAssumption of ChatRouting): endpoints,
\* at least one, none twice.
THEOREM OrdersAreUsable ==
    ASSUME Unrepeated
    PROVE  Spec => [](\A r \in Requests :
                               req[r].pc = "routed" => Usable(req[r].order))
  <1>1. Init => Suited
    BY RoutingAssumption DEF Init, Free, Suited
  <1>2. TypeOK /\ Suited /\ [Next]_vars => Suited'
    BY SuitedGoesOn
  <1>3. Suited => \A r \in Requests : req[r].pc = "routed" => Usable(req[r].order)
    BY DEF Suited
  <1> QED
    BY <1>1, <1>2, <1>3, TypeCorrect, PTL DEF Spec
-----------------------------------------------------------------------------
(* Turns *)

\* Position p is between s and c, s included, going up and around the end.
Between(p, s, c) == IF s <= c THEN s <= p /\ p < c ELSE s <= p \/ p < c

\* Each of n counts is b, and one more between s and c.
Even(u, n, c) ==
    \E b \in Nat, s \in 0 .. (n - 1) :
        \A i \in 1 .. n : u[i] = b + (IF Between(i - 1, s, c) THEN 1 ELSE 0)

\* The turns of a list by position.
TurnsOf(list, turns) == [i \in 1 .. Len(list) |-> turns[list[i]]]

Balanced ==
    last.list # <<>> =>
        /\ Distinct(last.list)
        /\ Even(TurnsOf(last.list, last.turns), Len(last.list),
                 counter % Len(last.list))

\* No list that is being resolved repeats an endpoint: the resolver's does not,
\* and the hypothesis says so of the members that the playground routes.
MembersApart == \A c \in Configs : Distinct(c.members)

LoopApart == loop # Free => Distinct(loop.list)

\* The position of the counter after the next turn.
LEMMA NextPosition ==
    ASSUME NEW k \in Nat, NEW n \in Nat \ {0}
    PROVE  (k + 1) % n = IF (k % n) + 1 = n THEN 0 ELSE (k % n) + 1
  <1>1. PICK r \in 0 .. (n - 1) : r = k % n
    OBVIOUS
  <1>2. (k + 1) % n = (r + 1) % n
    BY <1>1, ModSuccessor
  <1>3. CASE r + 1 = n
    <2>1. (n * 1 + 0) % n = 0
      BY RemainderUnique
    <2>2. n * 1 + 0 = r + 1
      BY <1>3
    <2> QED
      BY <1>1, <1>2, <1>3, <2>1, <2>2
  <1>4. CASE r + 1 < n
    <2>1. r + 1 \in 0 .. (n - 1)
      BY <1>4
    <2>2. (n * 0 + (r + 1)) % n = r + 1
      BY <2>1, RemainderUnique
    <2>3. n * 0 + (r + 1) = r + 1
      OBVIOUS
    <2> QED
      BY <1>1, <1>2, <1>4, <2>2, <2>3
  <1> QED
    BY <1>1, <1>3, <1>4

\* One more turn where the counter stands leaves the counts even.
LEMMA TurnTaken ==
    ASSUME NEW n \in Nat \ {0}, NEW u \in [1 .. n -> Nat], NEW c \in 0 .. (n - 1),
           Even(u, n, c),
           NEW v, v = [u EXCEPT ![c + 1] = @ + 1],
           NEW d, d = IF c + 1 = n THEN 0 ELSE c + 1
    PROVE  Even(v, n, d)
  <1>1. PICK b \in Nat, s \in 0 .. (n - 1) :
          \A i \in 1 .. n : u[i] = b + (IF Between(i - 1, s, c) THEN 1 ELSE 0)
    BY DEF Even
  <1>2. d \in 0 .. (n - 1)
    OBVIOUS
  <1>3. v \in [1 .. n -> Nat]
    OBVIOUS
  <1>4. \A i \in 1 .. n : v[i] = u[i] + (IF i = c + 1 THEN 1 ELSE 0)
    BY <1>3
  <1>5. CASE d # s
    <2>1. ASSUME NEW i \in 1 .. n
          PROVE  v[i] = b + (IF Between(i - 1, s, d) THEN 1 ELSE 0)
      BY <1>1, <1>2, <1>4, <1>5 DEF Between
    <2> QED
      BY <2>1 DEF Even
  <1>6. CASE d = s
    <2>1. ASSUME NEW i \in 1 .. n
          PROVE  v[i] = (b + 1) + (IF Between(i - 1, s, d) THEN 1 ELSE 0)
      BY <1>1, <1>2, <1>3, <1>4, <1>6 DEF Between
    <2>2. b + 1 \in Nat
      OBVIOUS
    <2> QED
      BY <2>1, <2>2 DEF Even
  <1> QED
    BY <1>5, <1>6

\* Taking the turn of a list keeps the turns balanced.
LEMMA RouteBalanced ==
    ASSUME TypeOK, Balanced, LoopApart, Route
    PROVE  Balanced'
  <1>1. CASE ~Rotates(loop.list)
    BY <1>1 DEF Route, Balanced
  <1>2. CASE Rotates(loop.list)
    <2>1. PICK list \in Seq(Endpoints) : list = loop.list /\ list # <<>> /\ Distinct(list)
      BY DEF Route, TypeOK, LoopApart
    <2>2. PICK n \in Nat \ {0} : n = Len(list)
      BY <2>1
    <2>3. PICK k \in Nat : k = counter
      BY DEF TypeOK
    <2>4. PICK c \in 0 .. (n - 1) : c = k % n
      OBVIOUS
    <2>5. PICK before \in [Endpoints -> Nat] :
            before = IF last.list = list THEN last.turns ELSE NoTurns.turns
      BY DEF TypeOK, NoTurns
    <2>6. PICK h \in 1 .. n : h = c + 1
      OBVIOUS
    <2>7. PICK e \in Endpoints : e = list[h] /\ e = Rotation(list, c)[1]
      <3>1. c \in Nat /\ c < Len(list)
        BY <2>2
      <3>2. Rotation(list, c)[1] = list[c + 1]
        BY <2>2, <3>1, RotationParts
      <3>3. list[h] \in Endpoints
        BY <2>2
      <3> QED
        BY <2>6, <3>2, <3>3
    <2>8. PICK after \in [Endpoints -> Nat] : after = [before EXCEPT ![e] = @ + 1]
      <3>1. [before EXCEPT ![e] = @ + 1] \in [Endpoints -> Nat]
        OBVIOUS
      <3> QED
        BY <3>1
    <2>9. counter' = k + 1 /\ last' = [list |-> list, turns |-> after]
      BY <1>2, <2>1, <2>2, <2>3, <2>4, <2>5, <2>7, <2>8
         DEF Route, NextCount, TakesTurn
    <2>10. PICK u \in [1 .. n -> Nat] : u = TurnsOf(list, before)
      <3>1. TurnsOf(list, before) \in [1 .. n -> Nat]
        BY <2>2 DEF TurnsOf
      <3> QED
        BY <3>1
    <2>11. Even(u, n, c)
      <3>1. CASE last.list = list
        BY <2>1, <2>2, <2>3, <2>4, <2>5, <2>10, <3>1 DEF Balanced
      <3>2. CASE last.list # list
        <4>1. ASSUME NEW i \in 1 .. n
              PROVE  u[i] = 0 + (IF Between(i - 1, c, c) THEN 1 ELSE 0)
          BY <2>2, <2>5, <2>10, <3>2 DEF Between, NoTurns, TurnsOf
        <4> QED
          BY <4>1 DEF Even
      <3> QED
        BY <3>1, <3>2
    <2>12. TurnsOf(list, after) = [u EXCEPT ![h] = @ + 1]
      <3>1. ASSUME NEW i \in 1 .. n
            PROVE  after[list[i]] = [u EXCEPT ![h] = @ + 1][i]
        <4>1. list[i] = e <=> i = h
          BY <2>1, <2>2, <2>7 DEF Distinct
        <4>2. list[i] \in Endpoints /\ u[i] = before[list[i]]
          BY <2>2, <2>10 DEF TurnsOf
        <4> QED
          BY <2>7, <2>8, <4>1, <4>2
      <3> QED
        BY <2>2, <3>1 DEF TurnsOf
    <2>13. (k + 1) % n = IF c + 1 = n THEN 0 ELSE c + 1
      BY <2>4, NextPosition
    <2>14. Even(TurnsOf(list, after), n, (k + 1) % n)
      <3>1. PICK v, d : v = TurnsOf(list, after) /\ d = (k + 1) % n
        OBVIOUS
      <3>2. v = [u EXCEPT ![c + 1] = @ + 1]
        BY <2>6, <2>12, <3>1
      <3>3. d = IF c + 1 = n THEN 0 ELSE c + 1
        BY <2>13, <3>1
      <3>4. Even(v, n, d)
        BY <2>11, <3>2, <3>3, TurnTaken
      <3> QED
        BY <3>1, <3>4
    <2> QED
      BY <2>1, <2>2, <2>9, <2>14 DEF Balanced
  <1> QED
    BY <1>1, <1>2

LEMMA BalanceGoesOn ==
    ASSUME Unrepeated, MembersApart, TypeOK, LoopApart, Balanced, [Next]_vars
    PROVE  LoopApart' /\ Balanced'
  <1>1. LoopApart'
    <2>1. ASSUME NEW j, NEW list \in Lists[config], Begin(j, list)
          PROVE  Distinct(loop'.list)
      <3>1. loop'.list = list /\ config \in Configs
        BY <2>1 DEF Begin, TypeOK
      <3> QED
        BY <2>1, <3>1 DEF Unrepeated
    <2>2. CASE \E r \in Requests : Track(r) \/ Handle(r)
      BY <2>1, <2>2 DEF Track, Handle, LoopApart
    <2>3. CASE loop' = loop
      BY <2>3 DEF LoopApart
    <2>4. CASE loop' = Free
      BY <2>4 DEF LoopApart, Free
    <2>5. CASE OthersResolve
      <3>1. PICK list \in Lists[config] \cup {config.members} : loop'.list = list
        BY <2>5 DEF OthersResolve
      <3>2. config \in Configs
        BY DEF TypeOK
      <3> QED
        BY <3>1, <3>2 DEF Unrepeated, MembersApart, LoopApart
    <2> QED
      BY <2>2, <2>3, <2>4, <2>5
         DEF Next, vars, TrackUnresolved, Refuse,
             HandleUnavailable, Route, ChangeConfig, Restart
  <1>2. Balanced'
    <2>1. CASE Route
      BY <2>1, RouteBalanced
    <2>2. CASE Restart
      BY <2>2 DEF Restart, NoTurns, Balanced
    <2>3. CASE counter' = counter /\ last' = last
      BY <2>3 DEF Balanced
    <2> QED
      BY <2>1, <2>2, <2>3
         DEF Next, vars, Track, TrackUnresolved, Refuse, Handle,
             HandleUnavailable, Begin, OthersResolve, ChangeConfig
  <1> QED
    BY <1>1, <1>2

\* While one list is rotated and no other, no endpoint of it comes first two
\* times more than another, for lists of any length and whoever has them resolved
\* (route_endpoints), provided no list repeats an endpoint.
THEOREM TurnsAreEven ==
    ASSUME Unrepeated, MembersApart
    PROVE  Spec => []EvenTurns
  <1>1. Init => TypeOK /\ LoopApart /\ Balanced
    BY InitType DEF Init, LoopApart, Balanced, NoTurns
  <1>2. TypeOK /\ LoopApart /\ Balanced /\ [Next]_vars => LoopApart' /\ Balanced'
    BY BalanceGoesOn
  <1>3. TypeOK /\ Balanced => EvenTurns
    <2> SUFFICES ASSUME TypeOK, Balanced, NEW e \in ToSet(last.list), NEW f \in ToSet(last.list)
                 PROVE  last.turns[e] <= last.turns[f] + 1
      BY DEF EvenTurns
    <2>1. PICK n \in Nat : n = Len(last.list)
      BY DEF TypeOK
    <2>2. DOMAIN last.list = 1 .. n
      BY <2>1 DEF TypeOK
    <2>3. PICK i \in 1 .. n : last.list[i] = e
      BY <2>2 DEF ToSet
    <2>4. PICK k \in 1 .. n : last.list[k] = f
      BY <2>2 DEF ToSet
    <2>5. last.list # <<>>
      BY <2>1, <2>3
    <2>6. PICK c : c = counter % Len(last.list)
      OBVIOUS
    <2>7. PICK b \in Nat, s \in 0 .. (n - 1) :
            \A m \in 1 .. n :
              last.turns[last.list[m]] = b + (IF Between(m - 1, s, c) THEN 1 ELSE 0)
      BY <2>1, <2>5, <2>6 DEF Balanced, Even, TurnsOf
    <2>8. last.turns[e] \in {b, b + 1} /\ last.turns[f] \in {b, b + 1}
      BY <2>3, <2>4, <2>7
    <2> QED
      BY <2>8
  <1> QED
    BY <1>1, <1>2, <1>3, TypeCorrect, PTL DEF Spec
=============================================================================
