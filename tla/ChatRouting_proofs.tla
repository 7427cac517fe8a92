------------------------- MODULE ChatRouting_proofs -------------------------
(***************************************************************************)
(* Theorems of ChatRouting, for any requests, endpoints, orders and times:  *)
(* the shape of the state, the numbering of the attempts, the record of the *)
(* outcome, that failures never shorten a cooldown, and that the endpoints  *)
(* are decided about in the resolver's order.                               *)
(*                                                                         *)
(* The invariant is a conjunction over the requests of a condition on each  *)
(* one's own place, order, rows and logs: a step moves one request, and the *)
(* others share nothing with it but the cooldowns.                          *)
(***************************************************************************)
EXTENDS ChatRouting, TLAPS

Numbered(w) == \A i \in 1 .. Len(w) : w[i].no = i
Ongoing(w) == \A i \in 1 .. Len(w) : w[i].action \notin Final

\* A request at q, with the endpoints o, the attempts w and the logs l.
Fine(q, o, w, l) ==
    /\ q \in Request
    /\ o \in Orders \cup {<<>>}
    /\ w \in Seq(AttemptRow)
    /\ l \in Seq(LogRow)
    /\ q.pc \in InFlight => q.at \in 1 .. Len(o)
    /\ (q.pc = "new") <=> (o = <<>>)
    /\ Numbered(w)
    /\ q.pc \in InFlight => q.attempt_no = Len(w) + 1
    /\ q.pc = "new" => q.attempt_no = Len(w)
    /\ q.pc \in InFlight \cup {"new", "failed"} => Ongoing(w)
    /\ q.pc = "failed" => l # <<>> /\ l[Len(l)].status = 502
    /\ q.pc \in {"answered", "errored", "broken"} =>
         /\ w # <<>> /\ l # <<>>
         /\ w[Len(w)].endpoint = o[q.at] /\ l[Len(l)].endpoint = o[q.at]
         /\ (q.pc = "answered") <=> (w[Len(w)].action = "success")
         /\ (q.pc = "answered") <=> (l[Len(l)].status = 200)

IInv ==
    /\ req \in [Requests -> Request]
    /\ order \in [Requests -> Orders \cup {<<>>}]
    /\ rows \in [Requests -> Seq(AttemptRow)]
    /\ logs \in [Requests -> Seq(LogRow)]
    /\ \A r \in Requests : Fine(req[r], order[r], rows[r], logs[r])
    /\ cool \in [Endpoints -> Nat]
    /\ crashes \in Nat

-----------------------------------------------------------------------------
(* Rows *)

\* An attempt with the next number, appended to the attempts so far.
LEMMA AppendRow ==
    ASSUME NEW w \in Seq(AttemptRow), Numbered(w),
           NEW x \in AttemptRow, x.no = Len(w) + 1
    PROVE  /\ Append(w, x) \in Seq(AttemptRow)
           /\ Append(w, x) # <<>>
           /\ Append(w, x)[Len(Append(w, x))] = x
           /\ Numbered(Append(w, x))
           /\ Ongoing(w) /\ x.action \notin Final => Ongoing(Append(w, x))
<1> DEFINE v == Append(w, x)
<1>1. v \in Seq(AttemptRow) /\ Len(v) = Len(w) + 1 /\ Len(w) \in Nat
  OBVIOUS
<1>2. v[Len(w) + 1] = x /\ \A i \in 1 .. Len(w) : v[i] = w[i]
  OBVIOUS
<1>3. \A i \in 1 .. Len(v) : i \in 1 .. Len(w) \/ i = Len(w) + 1
  BY <1>1
<1>4. v # <<>>
  BY <1>1
<1> HIDE DEF v
<1>5. Numbered(v)
  BY <1>2, <1>3 DEF Numbered
<1>6. Ongoing(w) /\ x.action \notin Final => Ongoing(v)
  BY <1>2, <1>3 DEF Ongoing
<1> QED
  BY <1>1, <1>2, <1>4, <1>5, <1>6 DEF v

\* The rows of n endpoints that are passed over, after the attempts so far.
LEMMA AppendSkips ==
    ASSUME NEW w \in Seq(AttemptRow), Numbered(w), Ongoing(w),
           NEW n \in Nat, NEW f,
           f = [m \in 1 .. n |-> f[m]],
           \A m \in 1 .. n : /\ f[m] \in AttemptRow
                             /\ f[m].no = Len(w) + m
                             /\ f[m].action \notin Final
    PROVE  /\ w \o f \in Seq(AttemptRow) /\ Numbered(w \o f) /\ Ongoing(w \o f)
           /\ Len(w \o f) = Len(w) + n
<1>1. f \in Seq(AttemptRow) /\ Len(f) = n
  OBVIOUS
<1> DEFINE v == w \o f
<1>2. v \in Seq(AttemptRow) /\ Len(v) = Len(w) + n /\ Len(w) \in Nat
  BY <1>1
<1>3. \A i \in 1 .. Len(w) : v[i] = w[i]
  BY <1>1
<1>4. \A i \in (Len(w) + 1) .. Len(v) : i - Len(w) \in 1 .. n /\ v[i] = f[i - Len(w)]
  BY <1>1, <1>2
<1>5. \A i \in 1 .. Len(v) : i \in 1 .. Len(w) \/ i \in (Len(w) + 1) .. Len(v)
  BY <1>2
<1> HIDE DEF v
<1>6. \A i \in (Len(w) + 1) .. Len(v) : v[i].no = i /\ v[i].action \notin Final
  <2> TAKE i \in (Len(w) + 1) .. Len(v)
  <2> DEFINE m == i - Len(w)
  <2>1. m \in 1 .. n /\ v[i] = f[m]
    BY <1>4
  <2>2. Len(w) + m = i
    BY <1>2
  <2> HIDE DEF m
  <2> QED
    BY <2>1, <2>2
<1>7. Numbered(v) /\ Ongoing(v)
  BY <1>3, <1>5, <1>6 DEF Numbered, Ongoing
<1> QED
  BY <1>2, <1>7 DEF v

LEMMA AppendLog ==
    ASSUME NEW l \in Seq(LogRow), NEW x \in LogRow
    PROVE  /\ Append(l, x) \in Seq(LogRow)
           /\ Append(l, x) # <<>>
           /\ Append(l, x)[Len(Append(l, x))] = x
<1>1. Len(Append(l, x)) = Len(l) + 1 /\ Len(l) \in Nat
  OBVIOUS
<1> QED
  BY <1>1

-----------------------------------------------------------------------------
(* One request moves *)

\* r moves to q, with the attempts w and the logs l.
Placed(r, q, w, l) ==
    /\ req' = [req EXCEPT ![r] = q]
    /\ rows' = [rows EXCEPT ![r] = w]
    /\ logs' = [logs EXCEPT ![r] = l]

LEMMA MoveOne ==
    ASSUME IInv, NEW r \in Requests,
           NEW q, NEW o, NEW w, NEW l, Fine(q, o, w, l),
           Placed(r, q, w, l), order' = [order EXCEPT ![r] = o],
           cool' \in [Endpoints -> Nat], crashes' \in Nat
    PROVE  IInv'
<1>1. q \in Request /\ o \in Orders \cup {<<>>} /\ w \in Seq(AttemptRow) /\ l \in Seq(LogRow)
  BY DEF Fine
<1>2. /\ req' \in [Requests -> Request]
      /\ order' \in [Requests -> Orders \cup {<<>>}]
      /\ rows' \in [Requests -> Seq(AttemptRow)]
      /\ logs' \in [Requests -> Seq(LogRow)]
  BY <1>1 DEF IInv, Placed
<1>3. \A x \in Requests : Fine(req'[x], order'[x], rows'[x], logs'[x])
  <2> TAKE x \in Requests
  <2>1. CASE x = r
    <3>1. req'[x] = q /\ order'[x] = o /\ rows'[x] = w /\ logs'[x] = l
      BY <2>1 DEF IInv, Placed
    <3> QED
      BY <3>1
  <2>2. CASE x # r
    <3>1. /\ req'[x] = req[x] /\ order'[x] = order[x]
          /\ rows'[x] = rows[x] /\ logs'[x] = logs[x]
      BY <2>2 DEF IInv, Placed
    <3>2. Fine(req[x], order[x], rows[x], logs[x])
      BY DEF IInv
    <3> QED
      BY <3>1, <3>2
  <2> QED
    BY <2>1, <2>2
<1>4. \A x \in Requests : Fine(req[x], order[x], rows[x], logs[x])'
  BY <1>3 DEF Fine, Numbered, Ongoing
<1> QED
  BY <1>2, <1>4 DEF IInv

\* The endpoints passed over are recorded, and the request is at the next open
\* one or has failed.
LEMMA ProceedFine ==
    ASSUME NEW r \in Requests, NEW o \in Orders, NEW i \in 0 .. Len(o),
           NEW w \in Seq(AttemptRow), Numbered(w), Ongoing(w),
           NEW l \in Seq(LogRow), NEW c \in [Endpoints -> Nat],
           NEW b, b = Len(w), Proceed(r, o, i, b, w, l, c)
    PROVE  \E q, v, m : /\ Fine(q, o, v, m)
                        /\ q.pc \in {"asked", "refreshing", "failed"}
                        /\ Placed(r, q, v, m)
<1>1. o \in Seq(Endpoints) /\ Len(o) \in Nat /\ Len(o) > 0 /\ o # <<>>
  BY OrdersAssumption
<1> DEFINE skips(k) == [m \in 1 .. (k - i - 1) |->
                          [no |-> b + m,
                           endpoint |-> o[i + m],
                           action |-> IF c[o[i + m]] > 0 THEN "cooldown_skip"
                                                         ELSE "preflight_skip"]]
           last == [endpoint |-> o[Len(o)], status |-> 502]
<1>2. PICK k \in (i + 1) .. (Len(o) + 1) :
        /\ rows' = [rows EXCEPT ![r] = w \o skips(k)]
        /\ IF k <= Len(o)
           THEN /\ logs' = [logs EXCEPT ![r] = l]
                /\ \E pc \in {"asked"} \cup (IF o[k] \in OAuth THEN {"refreshing"} ELSE {}) :
                     req' = [req EXCEPT ![r] = [pc |-> pc, at |-> k, clean |-> FALSE,
                                                attempt_no |-> b + k - i - 1 + 1]]
           ELSE /\ logs' = [logs EXCEPT ![r] = Append(l, last)]
                /\ req' = [req EXCEPT ![r] = [pc |-> "failed", at |-> k, clean |-> FALSE,
                                              attempt_no |-> b + k - i - 1]]
  BY DEF Proceed, BeginAttempt
<1> DEFINE n == k - i - 1
           f == skips(k)
           v == w \o f
<1>3. n \in Nat /\ k \in Nat /\ n <= Len(o) - i
  BY <1>1, <1>2
<1>4. f = [m \in 1 .. n |-> f[m]]
  BY <1>2
<1>5. \A m \in 1 .. n : /\ f[m] \in AttemptRow
                         /\ f[m].no = Len(w) + m
                         /\ f[m].action \notin Final
  <2> TAKE m \in 1 .. n
  <2> DEFINE no == b + m
             e == o[i + m]
             action == IF c[e] > 0 THEN "cooldown_skip" ELSE "preflight_skip"
  <2>1. no \in Nat
    BY <1>3
  <2>2. i + m \in 1 .. Len(o)
    BY <1>1, <1>3
  <2>3. e \in Endpoints
    BY <1>1, <2>2
  <2>4. action \in {"cooldown_skip", "preflight_skip"}
    OBVIOUS
  <2>5. f[m] = [no |-> no, endpoint |-> e, action |-> action]
    OBVIOUS
  <2>6. action \in Actions /\ action \notin Final
    BY <2>4 DEF Actions, Final
  <2>7. no = Len(w) + m
    OBVIOUS
  <2> HIDE DEF no, e, action, f
  <2>8. f[m].no = no /\ f[m].action = action
    BY <2>5
  <2>9. f[m] \in AttemptRow
    BY <2>1, <2>3, <2>5, <2>6 DEF AttemptRow
  <2> QED
    BY <2>6, <2>7, <2>8, <2>9
<1> HIDE DEF f, n
<1>6. v \in Seq(AttemptRow) /\ Numbered(v) /\ Ongoing(v) /\ Len(v) = Len(w) + n
  BY <1>3, <1>4, <1>5, AppendSkips
<1>7. rows' = [rows EXCEPT ![r] = v]
  BY <1>2 DEF f
<1> HIDE DEF v, skips
<1>n. PICK no : no = b + k - i - 1
  OBVIOUS
<1>m. no \in Nat /\ no = Len(v)
  <2>1. no = Len(w) + n /\ Len(w) \in Nat /\ n \in Nat
    BY <1>1, <1>2, <1>3, <1>n DEF n
  <2> QED
    BY <1>6, <2>1
<1>8. CASE k <= Len(o)
  <2>1. PICK pc \in {"asked", "refreshing"} :
          req' = [req EXCEPT ![r] = [pc |-> pc, at |-> k, clean |-> FALSE,
                                     attempt_no |-> no + 1]]
    BY <1>2, <1>8, <1>n
  <2> DEFINE q == [pc |-> pc, at |-> k, clean |-> FALSE, attempt_no |-> no + 1]
  <2>2. q \in Request
    BY <1>3, <1>m DEF Request, InFlight
  <2>3. k \in 1 .. Len(o)
    BY <1>1, <1>8
  <2>4. Fine(q, o, v, l)
    BY <1>1, <1>6, <1>m, <2>2, <2>3 DEF Fine, InFlight
  <2>5. logs' = [logs EXCEPT ![r] = l]
    BY <1>2, <1>8
  <2> QED
    BY <1>7, <2>1, <2>4, <2>5 DEF Placed
<1>9. CASE ~(k <= Len(o))
  <2> DEFINE q == [pc |-> "failed", at |-> k, clean |-> FALSE, attempt_no |-> no]
             m == Append(l, last)
  <2>1. last \in LogRow
    BY <1>1 DEF LogRow
  <2>2. m \in Seq(LogRow) /\ m # <<>> /\ m[Len(m)] = last
    BY <2>1, AppendLog
  <2>3. q \in Request
    BY <1>3, <1>m DEF Request, Ended
  <2>4. Fine(q, o, v, m)
    BY <1>1, <1>6, <2>2, <2>3 DEF Fine, InFlight
  <2>5. logs' = [logs EXCEPT ![r] = m] /\ req' = [req EXCEPT ![r] = q]
    BY <1>2, <1>9, <1>n
  <2> QED
    BY <1>7, <2>4, <2>5 DEF Placed
<1> QED
  BY <1>8, <1>9

-----------------------------------------------------------------------------
(* Cooldowns *)

LEMMA CooldownSet ==
    ASSUME cool \in [Endpoints -> Nat], NEW e \in Endpoints, NEW t \in Nat
    PROVE  /\ SetCooldown(e, t) \in [Endpoints -> Nat]
           /\ \A x \in Endpoints : cool[x] <= SetCooldown(e, t)[x]
<1>1. Longer(cool[e], t) \in Nat /\ cool[e] <= Longer(cool[e], t)
  BY DEF Longer
<1>2. SetCooldown(e, t) = [cool EXCEPT ![e] = Longer(cool[e], t)]
  BY DEF SetCooldown
<1> HIDE DEF SetCooldown
<1>3. SetCooldown(e, t) \in [Endpoints -> Nat]
  BY <1>1, <1>2
<1>4. ASSUME NEW x \in Endpoints PROVE cool[x] <= SetCooldown(e, t)[x]
  <2>1. CASE x = e
    BY <1>1, <1>2, <2>1
  <2>2. CASE x # e
    BY <1>2, <2>2
  <2> QED
    BY <2>1, <2>2
<1> QED
  BY <1>3, <1>4

LEMMA CooldownCleared ==
    ASSUME cool \in [Endpoints -> Nat], NEW e \in Endpoints
    PROVE  /\ ClearCooldown(e) \in [Endpoints -> Nat]
           /\ \A x \in Endpoints : x # e => ClearCooldown(e)[x] = cool[x]
BY DEF ClearCooldown

LEMMA AnswerTicksTyped ==
    ASSUME NEW r, NEW a, NEW t \in RetryAfters \cup {RateTicks}
    PROVE  AnswerTicks(r, a, t) \in Nat /\ t \in Nat
<1>1. t \in Nat /\ TimeoutTicks \in Nat /\ TransientTicks \in Nat
  BY TicksAssumption
<1>2. StatusTicks(a.status, t) \in Nat
  BY <1>1 DEF StatusTicks
<1> QED
  BY <1>1, <1>2 DEF AnswerTicks

-----------------------------------------------------------------------------
(* The two ways an attempt ends *)

\* What a request that waits for an endpoint has.
LEMMA Waiting ==
    ASSUME IInv, NEW r \in Requests, req[r].pc \in InFlight
    PROVE  /\ order[r] \in Orders /\ order[r] \in Seq(Endpoints)
           /\ req[r].at \in 1 .. Len(order[r])
           /\ At(r) \in Endpoints
           /\ rows[r] \in Seq(AttemptRow) /\ Numbered(rows[r]) /\ Ongoing(rows[r])
           /\ logs[r] \in Seq(LogRow)
           /\ req[r].attempt_no = Len(rows[r]) + 1
<1>1. Fine(req[r], order[r], rows[r], logs[r])
  BY DEF IInv
<1>2. order[r] \in Orders /\ req[r].at \in 1 .. Len(order[r])
  BY <1>1 DEF Fine, InFlight
<1>3. order[r] \in Seq(Endpoints)
  BY <1>2, OrdersAssumption
<1>4. At(r) \in Endpoints
  BY <1>2, <1>3 DEF At
<1> QED
  BY <1>1, <1>2, <1>3, <1>4 DEF Fine

LEMMA WithRowFine ==
    ASSUME IInv, NEW r \in Requests, req[r].pc \in InFlight, NEW action \in Actions
    PROVE  LET w == WithRow(r, action) IN
           /\ w \in Seq(AttemptRow) /\ w # <<>> /\ Numbered(w)
           /\ w[Len(w)].endpoint = At(r) /\ w[Len(w)].action = action
           /\ action \notin Final => Ongoing(w)
           /\ req[r].attempt_no = Len(w)
<1> DEFINE no == Len(rows[r]) + 1
           x == [no |-> no, endpoint |-> At(r), action |-> action]
<1>1. /\ At(r) \in Endpoints /\ rows[r] \in Seq(AttemptRow)
      /\ Numbered(rows[r]) /\ Ongoing(rows[r]) /\ req[r].attempt_no = no
  BY Waiting
<1>2. no \in Nat
  BY <1>1
<1>3. WithRow(r, action) = Append(rows[r], x)
  BY <1>1 DEF WithRow
<1>4. x.no = Len(rows[r]) + 1 /\ x.endpoint = At(r) /\ x.action = action
  OBVIOUS
<1> HIDE DEF no
<1>5. x \in AttemptRow
  BY <1>1, <1>2 DEF AttemptRow
<1> HIDE DEF x
<1>6. Len(Append(rows[r], x)) = no
  BY <1>1 DEF no
<1> QED
  BY <1>1, <1>3, <1>4, <1>5, <1>6, AppendRow

LEMMA WithLogFine ==
    ASSUME IInv, NEW r \in Requests, req[r].pc \in InFlight,
           NEW status \in {200, 400, 401, 502}
    PROVE  LET l == WithLog(r, status) IN
           /\ l \in Seq(LogRow) /\ l # <<>>
           /\ l[Len(l)].endpoint = At(r) /\ l[Len(l)].status = status
<1> DEFINE x == [endpoint |-> At(r), status |-> status]
<1>1. At(r) \in Endpoints /\ logs[r] \in Seq(LogRow)
  BY Waiting
<1>2. x \in LogRow
  BY <1>1 DEF LogRow
<1>3. x.endpoint = At(r) /\ x.status = status /\ WithLog(r, status) = Append(logs[r], x)
  BY DEF WithLog
<1> HIDE DEF x
<1> QED
  BY <1>1, <1>2, <1>3, AppendLog

LEMMA GoOnKeeps ==
    ASSUME IInv, NEW r \in Requests, req[r].pc \in InFlight,
           NEW action \in Actions \ Final, NEW log \in Seq(LogRow),
           NEW c \in [Endpoints -> Nat], GoOn(r, action, log, c)
    PROVE  IInv'
<1>a. PICK w : w = WithRow(r, action)
  OBVIOUS
<1>b. PICK o, i : o = order[r] /\ i = req[r].at
  OBVIOUS
<1>c. PICK b : b = req[r].attempt_no
  OBVIOUS
<1>1. w \in Seq(AttemptRow) /\ Numbered(w) /\ Ongoing(w) /\ b = Len(w)
  BY <1>a, <1>c, WithRowFine
<1>2. o \in Orders /\ i \in 1 .. Len(o) /\ o \in Seq(Endpoints)
  BY <1>b, Waiting
<1>3. i \in 0 .. Len(o)
  BY <1>2
<1>4. /\ Proceed(r, o, i, b, w, log, c)
      /\ cool' = c /\ order' = order /\ crashes' = crashes
  BY <1>a, <1>b, <1>c DEF GoOn
<1>5. PICK q, v, m : /\ Fine(q, o, v, m)
                     /\ Placed(r, q, v, m)
  BY <1>1, <1>2, <1>3, <1>4, ProceedFine
<1>6. order' = [order EXCEPT ![r] = o]
  BY <1>b, <1>4 DEF IInv
<1>7. cool' \in [Endpoints -> Nat] /\ crashes' \in Nat
  BY <1>4 DEF IInv
<1> QED
  BY <1>5, <1>6, <1>7, MoveOne

AtEnd(r, pc) == [req[r] EXCEPT !.pc = pc]

\* The last attempt and the last log say how the request ended.
Tells(pc, action, status) ==
    /\ pc \in {"answered", "errored", "broken", "left"}
    /\ action \in Final
    /\ status \in {200, 400, 401, 502}
    /\ pc # "left" => /\ (pc = "answered") <=> (action = "success")
                      /\ (pc = "answered") <=> (status = 200)

LEMMA FinishKeeps ==
    ASSUME IInv, NEW r \in Requests, req[r].pc \in InFlight,
           NEW pc, NEW action, NEW status, Tells(pc, action, status),
           NEW c \in [Endpoints -> Nat], Finish(r, pc, action, status, c)
    PROVE  IInv'
<1>a. PICK w, l : w = WithRow(r, action) /\ l = WithLog(r, status)
  OBVIOUS
<1>b. PICK o : o = order[r]
  OBVIOUS
<1>c. PICK q : q = AtEnd(r, pc)
  OBVIOUS
<1>1. action \in Actions
  BY DEF Actions, Final, Tells
<1>2. /\ w \in Seq(AttemptRow) /\ w # <<>> /\ Numbered(w)
      /\ w[Len(w)].endpoint = At(r) /\ w[Len(w)].action = action
  BY <1>1, <1>a, WithRowFine
<1>3. /\ l \in Seq(LogRow) /\ l # <<>>
      /\ l[Len(l)].endpoint = At(r) /\ l[Len(l)].status = status
  BY <1>a, WithLogFine DEF Tells
<1>4. o \in Orders /\ o # <<>>
  BY <1>b, Waiting, OrdersAssumption
<1>5. q \in Request /\ q.pc = pc /\ q.at = req[r].at
  <2>1. req[r] \in Request
    BY DEF IInv
  <2>2. pc \in {"new"} \cup InFlight \cup Ended
    BY DEF Ended, Tells
  <2> QED
    BY <1>c, <2>1, <2>2 DEF Request, AtEnd
<1>6. At(r) = o[q.at]
  BY <1>b, <1>5 DEF At
<1>7. /\ cool' = c /\ order' = order /\ crashes' = crashes
      /\ Placed(r, q, w, l)
  BY <1>a, <1>c DEF Finish, Placed, AtEnd
<1>8. Fine(q, o, w, l)
  BY <1>2, <1>3, <1>4, <1>5, <1>6 DEF Fine, InFlight, Tells
<1>9. order' = [order EXCEPT ![r] = o]
  BY <1>b, <1>7 DEF IInv
<1>10. cool' \in [Endpoints -> Nat]
  BY <1>7
<1>11. crashes' \in Nat
  BY <1>7 DEF IInv
<1> QED
  <2>1. Placed(r, q, w, l)
    BY <1>7
  <2> QED
    BY <2>1, <1>8, <1>9, <1>10, <1>11, MoveOne

\* A request stays at its endpoint, in flight or left by its client, with no
\* row or with one that does not end the chain.
LEMMA StayKeeps ==
    ASSUME IInv, NEW r \in Requests, req[r].pc \in InFlight,
           NEW q, q \in Request, q.at = req[r].at, q.pc \in InFlight \cup {"left"},
           NEW w, w \in Seq(AttemptRow), Numbered(w), Ongoing(w),
           q.attempt_no = Len(w) + 1,
           req' = [req EXCEPT ![r] = q], rows' = [rows EXCEPT ![r] = w],
           UNCHANGED <<order, logs, cool, crashes>>
    PROVE  IInv'
<1>a. PICK o, l : o = order[r] /\ l = logs[r]
  OBVIOUS
<1>1. o \in Orders /\ o # <<>> /\ req[r].at \in 1 .. Len(o) /\ l \in Seq(LogRow)
  BY <1>a, Waiting, OrdersAssumption
<1>2. Fine(q, o, w, l)
  BY <1>1 DEF Fine, InFlight
<1>3. Placed(r, q, w, l)
  BY <1>a DEF Placed, IInv
<1>4. order' = [order EXCEPT ![r] = o]
  BY <1>a DEF IInv
<1>5. cool' \in [Endpoints -> Nat] /\ crashes' \in Nat
  BY DEF IInv
<1> QED
  BY <1>2, <1>3, <1>4, <1>5, MoveOne

\* The same without a row.
LEMMA TurnKeeps ==
    ASSUME IInv, NEW r \in Requests, req[r].pc \in InFlight,
           NEW pc \in InFlight \cup {"left"},
           req' = [req EXCEPT ![r].pc = pc],
           UNCHANGED <<order, rows, logs, cool, crashes>>
    PROVE  IInv'
<1>a. PICK q : q = AtEnd(r, pc)
  OBVIOUS
<1>b. PICK w : w = rows[r]
  OBVIOUS
<1>1. req[r] \in Request /\ pc \in {"new"} \cup InFlight \cup Ended
  BY DEF IInv, Ended
<1>2. /\ q \in Request /\ q.at = req[r].at /\ q.pc = pc
      /\ q.attempt_no = req[r].attempt_no
  BY <1>a, <1>1 DEF AtEnd, Request
<1>3. /\ w \in Seq(AttemptRow) /\ Numbered(w) /\ Ongoing(w)
      /\ req[r].attempt_no = Len(w) + 1
  BY <1>b, Waiting
<1>4. req' = [req EXCEPT ![r] = q]
  BY <1>a DEF AtEnd
<1>5. rows' = [rows EXCEPT ![r] = w]
  BY <1>b DEF IInv
<1> QED
  BY <1>2, <1>3, <1>4, <1>5, StayKeeps

-----------------------------------------------------------------------------
(* The invariant *)

LEMMA Starts == Init => IInv
<1> SUFFICES ASSUME Init PROVE IInv
  OBVIOUS
<1> DEFINE q == [pc |-> "new", at |-> 0, attempt_no |-> 0, clean |-> FALSE]
<1>1. q \in Request
  BY DEF Request
<1>2. Fine(q, <<>>, <<>>, <<>>)
  BY <1>1 DEF Fine, Numbered, Ongoing, InFlight
<1>3. \A r \in Requests : /\ req[r] = q /\ order[r] = <<>>
                           /\ rows[r] = <<>> /\ logs[r] = <<>>
  BY DEF Init
<1>4. /\ req \in [Requests -> Request] /\ order \in [Requests -> Orders \cup {<<>>}]
      /\ rows \in [Requests -> Seq(AttemptRow)] /\ logs \in [Requests -> Seq(LogRow)]
      /\ cool \in [Endpoints -> Nat] /\ crashes \in Nat
  BY <1>1 DEF Init
<1> HIDE DEF q
<1> QED
  BY <1>2, <1>3, <1>4 DEF IInv

LEMMA ArriveKeeps ==
    ASSUME IInv, NEW r \in Requests, Arrive(r) PROVE IInv'
<1>1. PICK o \in Orders : /\ order' = [order EXCEPT ![r] = o]
                          /\ Proceed(r, o, 0, req[r].attempt_no, rows[r], logs[r], cool)
  BY DEF Arrive
<1>a. PICK w, l, c : w = rows[r] /\ l = logs[r] /\ c = cool
  OBVIOUS
<1>b. PICK i, b : i = 0 /\ b = req[r].attempt_no
  OBVIOUS
<1>2. Proceed(r, o, i, b, w, l, c)
  BY <1>1, <1>a, <1>b
<1>3. Fine(req[r], order[r], w, l) /\ req[r].pc = "new"
  BY <1>a DEF IInv, Arrive
<1>4. w \in Seq(AttemptRow) /\ Numbered(w) /\ Ongoing(w) /\ l \in Seq(LogRow) /\ b = Len(w)
  BY <1>3, <1>b DEF Fine
<1>5. c \in [Endpoints -> Nat] /\ i \in 0 .. Len(o)
  BY <1>a, <1>b, OrdersAssumption DEF IInv
<1>6. PICK q, v, m : Fine(q, o, v, m) /\ Placed(r, q, v, m)
  BY <1>2, <1>4, <1>5, ProceedFine
<1>7. cool' \in [Endpoints -> Nat] /\ crashes' \in Nat
  BY DEF IInv, Arrive
<1> QED
  BY <1>1, <1>6, <1>7, MoveOne

LEMMA HandleKeeps ==
    ASSUME IInv, NEW r \in Requests, Handle(r) PROVE IInv'
<1>1. req[r].pc \in InFlight
  BY DEF Handle, TokenReady, RetrySanitized, FallBack, ReturnError, Succeed,
         StartStream, LoseEndpoint, Raise, EndStream, BreakStream, InFlight
<1>2. /\ At(r) \in Endpoints /\ logs[r] \in Seq(LogRow)
      /\ cool \in [Endpoints -> Nat]
  BY <1>1, Waiting DEF IInv
<1>3. ClearCooldown(At(r)) \in [Endpoints -> Nat]
  BY <1>2, CooldownCleared
<1>4. SetCooldown(At(r), TimeoutTicks) \in [Endpoints -> Nat]
  BY <1>2, CooldownSet, TicksAssumption
<1>5. {"fallback", "fallback_exception"} \subseteq Actions \ Final
  BY DEF Actions, Final
<1>a. PICK e : e = At(r)
  OBVIOUS
<1>b. PICK log : log = logs[r]
  OBVIOUS
<1>6. CASE TokenReady(r)
  BY <1>1, <1>6, TurnKeeps DEF TokenReady, InFlight
<1>7. CASE StartStream(r)
  BY <1>1, <1>7, TurnKeeps DEF StartStream, InFlight
<1>8. CASE RetrySanitized(r)
  <2>a. PICK q : q = [req[r] EXCEPT !.clean = TRUE, !.attempt_no = BeginAttempt(@)]
    OBVIOUS
  <2>b. PICK w : w = WithRow(r, "retry_sanitized")
    OBVIOUS
  <2>1. /\ q \in Request /\ q.at = req[r].at /\ q.pc = req[r].pc
        /\ q.attempt_no = req[r].attempt_no + 1
    <3>1. req[r] \in Request /\ req[r].attempt_no \in Nat
      BY DEF IInv, Request
    <3>2. PICK n \in Nat : n = req[r].attempt_no + 1
      BY <3>1
    <3>3. q = [req[r] EXCEPT !.clean = TRUE, !.attempt_no = n]
      BY <2>a, <3>2 DEF BeginAttempt
    <3>4. q = [pc |-> req[r].pc, at |-> req[r].at, attempt_no |-> n, clean |-> TRUE]
      BY <3>1, <3>3 DEF Request
    <3> QED
      BY <3>1, <3>2, <3>4 DEF Request
  <2>2. "retry_sanitized" \in Actions /\ "retry_sanitized" \notin Final
    BY DEF Actions, Final
  <2>3. w \in Seq(AttemptRow) /\ Numbered(w) /\ Ongoing(w) /\ req[r].attempt_no = Len(w)
    BY <1>1, <2>2, <2>b, WithRowFine
  <2>4. /\ req' = [req EXCEPT ![r] = q] /\ rows' = [rows EXCEPT ![r] = w]
        /\ UNCHANGED <<order, logs, cool, crashes>>
    BY <1>8, <2>a, <2>b DEF RetrySanitized, BeginAttempt
  <2> QED
    BY <1>1, <2>1, <2>3, <2>4, StayKeeps
<1>9. CASE FallBack(r)
  <2>1. PICK a \in Answers, t \in RetryAfters \cup {RateTicks} :
          GoOn(r, "fallback",
               IF TokenExpired(r, a) THEN WithLog(r, 401)
               ELSE IF Page(r, a) THEN WithLog(r, 502) ELSE logs[r],
               SetCooldown(At(r), AnswerTicks(r, a, t)))
    BY <1>9 DEF FallBack
  <2>a. PICK c : c = SetCooldown(At(r), AnswerTicks(r, a, t))
    OBVIOUS
  <2>b. PICK l : l = IF TokenExpired(r, a) THEN WithLog(r, 401)
                     ELSE IF Page(r, a) THEN WithLog(r, 502) ELSE logs[r]
    OBVIOUS
  <2>2. AnswerTicks(r, a, t) \in Nat /\ t \in Nat
    BY AnswerTicksTyped
  <2>3. c \in [Endpoints -> Nat]
    BY <1>2, <2>2, <2>a, CooldownSet
  <2>4. WithLog(r, 401) \in Seq(LogRow) /\ WithLog(r, 502) \in Seq(LogRow)
    BY <1>1, WithLogFine
  <2>5. l \in Seq(LogRow)
    BY <1>2, <2>4, <2>b
  <2>6. GoOn(r, "fallback", l, c)
    BY <2>1, <2>a, <2>b
  <2> QED
    BY <1>1, <1>5, <2>3, <2>5, <2>6, GoOnKeeps
<1>10. CASE LoseEndpoint(r)
  <2>a. PICK c : c = SetCooldown(At(r), TimeoutTicks)
    OBVIOUS
  <2>1. GoOn(r, "fallback_exception", log, c)
    BY <1>10, <1>b, <2>a DEF LoseEndpoint
  <2> QED
    BY <1>1, <1>2, <1>4, <1>5, <1>b, <2>1, <2>a, GoOnKeeps
<1>11. CASE Raise(r)
  <2>a. PICK c : c = cool
    OBVIOUS
  <2>1. GoOn(r, "fallback_exception", log, c)
    BY <1>11, <1>b, <2>a DEF Raise
  <2> QED
    BY <1>1, <1>2, <1>5, <1>b, <2>1, <2>a, GoOnKeeps
<1>12. CASE ReturnError(r)
  <2>a. PICK c : c = cool
    OBVIOUS
  <2>1. Finish(r, "errored", "returned_error", 400, c)
    BY <1>12, <2>a DEF ReturnError
  <2>2. Tells("errored", "returned_error", 400)
    BY DEF Tells, Final
  <2> QED
    BY <1>1, <1>2, <2>1, <2>2, <2>a, FinishKeeps
<1>13. CASE Succeed(r) \/ EndStream(r)
  <2>a. PICK c : c = ClearCooldown(At(r))
    OBVIOUS
  <2>1. Finish(r, "answered", "success", 200, c)
    BY <1>13, <2>a DEF Succeed, EndStream
  <2>2. Tells("answered", "success", 200)
    BY DEF Tells, Final
  <2> QED
    BY <1>1, <1>3, <2>1, <2>2, <2>a, FinishKeeps
<1>14. CASE BreakStream(r)
  <2>a. PICK c : c = SetCooldown(At(r), TimeoutTicks)
    OBVIOUS
  <2>1. Finish(r, "broken", "stream_error", 502, c)
    BY <1>14, <2>a DEF BreakStream
  <2>2. Tells("broken", "stream_error", 502)
    BY DEF Tells, Final
  <2> QED
    BY <1>1, <1>4, <2>1, <2>2, <2>a, FinishKeeps
<1> QED
  BY <1>6, <1>7, <1>8, <1>9, <1>10, <1>11, <1>12, <1>13, <1>14 DEF Handle

LEMMA LeaveKeeps ==
    ASSUME IInv, NEW r \in Requests, LeaveStream(r) PROVE IInv'
<1>1. req[r].pc \in InFlight
  BY DEF LeaveStream, InFlight
<1>a. PICK c : c = ClearCooldown(At(r))
  OBVIOUS
<1>2. c \in [Endpoints -> Nat]
  BY <1>1, <1>a, Waiting, CooldownCleared DEF IInv
<1>3. Tells("left", "success", 200)
  BY DEF Tells, Final
<1>4. CASE Finish(r, "left", "success", 200, ClearCooldown(At(r)))
  BY <1>1, <1>2, <1>3, <1>4, <1>a, FinishKeeps
<1>5. CASE /\ req' = [req EXCEPT ![r].pc = "left"]
           /\ UNCHANGED <<order, rows, logs, cool, crashes>>
  BY <1>1, <1>5, TurnKeeps
<1> QED
  BY <1>4, <1>5 DEF LeaveStream

LEMMA RestartKeeps == IInv /\ Restart => IInv'
<1> SUFFICES ASSUME IInv, Restart PROVE IInv'
  OBVIOUS
<1>1. /\ cool' \in [Endpoints -> Nat]
      /\ crashes' \in Nat /\ order' = order /\ rows' = rows /\ logs' = logs
  BY DEF Restart, IInv
<1> DEFINE next(r) == IF req[r].pc \in InFlight
                      THEN [req[r] EXCEPT !.pc = "killed"] ELSE req[r]
<1>2. req' = [r \in Requests |-> next(r)]
  BY DEF Restart
<1>3. ASSUME NEW r \in Requests
      PROVE  next(r) \in Request /\ Fine(next(r), order[r], rows[r], logs[r])
  <2>1. Fine(req[r], order[r], rows[r], logs[r])
    BY DEF IInv
  <2>2. CASE req[r].pc \notin InFlight
    BY <2>1, <2>2 DEF Fine
  <2>3. CASE req[r].pc \in InFlight
    <3>1. req[r] \in Request /\ req[r].pc # "new"
      BY <2>1, <2>3 DEF Fine, InFlight
    <3>2. next(r) \in Request /\ next(r).pc = "killed"
      BY <2>3, <3>1 DEF Request, Ended
    <3> HIDE DEF next
    <3> QED
      BY <2>1, <2>3, <3>1, <3>2 DEF Fine, InFlight
  <2> QED
    BY <2>2, <2>3
<1> HIDE DEF next
<1>4. req' \in [Requests -> Request] /\ \A r \in Requests : req'[r] = next(r)
  BY <1>2, <1>3
<1>5. \A r \in Requests : Fine(req[r], order[r], rows[r], logs[r])'
  <2> SUFFICES ASSUME NEW r \in Requests
               PROVE  Fine(req'[r], order'[r], rows'[r], logs'[r])
    BY DEF Fine, Numbered, Ongoing
  <2> QED
    BY <1>1, <1>3, <1>4
<1> QED
  BY <1>1, <1>4, <1>5 DEF IInv

LEMMA LessTyped == \A t \in Nat : Less(t) \in Nat
BY DEF Less

LEMMA TickKeeps == IInv /\ Tick => IInv'
<1> SUFFICES ASSUME IInv, Tick PROVE IInv'
  OBVIOUS
<1>1. cool' \in [Endpoints -> Nat]
  BY LessTyped DEF Tick, IInv
<1>2. UNCHANGED <<req, order, rows, logs, crashes>>
  BY DEF Tick
<1> QED
  BY <1>1, <1>2 DEF IInv, Fine, Numbered, Ongoing

LEMMA StepKeeps == IInv /\ [Next]_vars => IInv'
<1> SUFFICES ASSUME IInv, [Next]_vars PROVE IInv'
  OBVIOUS
<1>1. ASSUME NEW r \in Requests, Arrive(r) \/ Handle(r) \/ LeaveStream(r) PROVE IInv'
  BY <1>1, ArriveKeeps, HandleKeeps, LeaveKeeps
<1>2. CASE Restart \/ Tick
  BY <1>2, RestartKeeps, TickKeeps
<1>3. CASE UNCHANGED vars
  BY <1>3 DEF vars, IInv, Fine, Numbered, Ongoing
<1> QED
  BY <1>1, <1>2, <1>3 DEF Next

LEMMA InvHolds == Spec => []IInv
BY Starts, StepKeeps, PTL DEF Spec

-----------------------------------------------------------------------------
(* The theorems *)

\* The state always has its type: in particular a request in flight is at one
\* of the endpoints the resolver returned.
THEOREM TypeCorrect == Spec => []TypeOK
<1>1. IInv => TypeOK
  BY DEF IInv, TypeOK, Fine
<1> QED
  BY <1>1, InvHolds, PTL

\* The attempts of a request are numbered 1, 2, 3, ... whatever happens.
THEOREM AttemptsAreNumbered == Spec => []AttemptsNumbered
<1>1. IInv => AttemptsNumbered
  BY DEF IInv, AttemptsNumbered, Fine, Numbered
<1> QED
  BY <1>1, InvHolds, PTL

\* The last rows of a request say how it ended and where; a chain whose
\* endpoints all failed, or that goes on, has no row that ends it.
THEOREM OutcomeIsRecorded == Spec => []OutcomeRecorded
<1>1. IInv => OutcomeRecorded
  <2> SUFFICES ASSUME IInv, NEW r \in Requests
               PROVE  /\ req[r].pc \in {"answered", "errored", "broken"} =>
                           /\ rows[r] # <<>> /\ logs[r] # <<>>
                           /\ LastRow(r).endpoint = At(r) /\ LastLog(r).endpoint = At(r)
                           /\ (req[r].pc = "answered") <=> (LastRow(r).action = "success")
                           /\ (req[r].pc = "answered") <=> (LastLog(r).status = 200)
                      /\ req[r].pc = "failed" =>
                           /\ \A i \in 1 .. Len(rows[r]) : rows[r][i].action \notin Final
                           /\ logs[r] # <<>> /\ LastLog(r).status = 502
                      /\ req[r].pc \in InFlight =>
                           \A i \in 1 .. Len(rows[r]) : rows[r][i].action \notin Final
    BY DEF OutcomeRecorded
  <2>1. Fine(req[r], order[r], rows[r], logs[r])
    BY DEF IInv
  <2> QED
    BY <2>1 DEF Fine, Ongoing, LastRow, LastLog, At
<1> QED
  BY <1>1, InvHolds, PTL

-----------------------------------------------------------------------------
(* Failures never shorten a cooldown *)

\* What a step may do to the cooldown of e.
Kept(e) ==
    cool'[e] < cool[e] =>
        \/ cool' = [x \in Endpoints |-> Less(cool[x])]
        \/ crashes' > crashes
        \/ \E r \in Requests : /\ req[r].pc \in InFlight /\ At(r) = e
                               /\ req'[r].pc \in {"answered", "left"}

LEMMA NotLess == ASSUME NEW i \in Nat, NEW k \in Nat, i <= k PROVE ~(k < i)
OBVIOUS

\* A request that ends and clears the cooldown of its own endpoint only.
LEMMA ClearingKept ==
    ASSUME IInv, NEW r \in Requests, req[r].pc \in InFlight,
           NEW pc \in {"answered", "left"}, NEW action, NEW status,
           Finish(r, pc, action, status, ClearCooldown(At(r))),
           NEW e \in Endpoints
    PROVE  Kept(e)
<1>1. cool' = ClearCooldown(At(r)) /\ req'[r].pc = pc
  <2>1. req \in [Requests -> Request]
    BY DEF IInv
  <2> QED
    BY <2>1 DEF Finish, Request
<1>2. CASE e = At(r)
  BY <1>1, <1>2 DEF Kept
<1>3. CASE e # At(r)
  <2>1. cool'[e] = cool[e] /\ cool[e] \in Nat
    BY <1>1, <1>3, Waiting, CooldownCleared DEF IInv
  <2>2. ~(cool'[e] < cool[e])
    BY <2>1
  <2> QED
    BY <2>2 DEF Kept
<1> QED
  BY <1>2, <1>3

LEMMA HandleKept ==
    ASSUME IInv, NEW r \in Requests, Handle(r), NEW e \in Endpoints
    PROVE  Kept(e)
<1>1. req[r].pc \in InFlight
  BY DEF Handle, TokenReady, RetrySanitized, FallBack, ReturnError, Succeed,
         StartStream, LoseEndpoint, Raise, EndStream, BreakStream, InFlight
<1>2. At(r) \in Endpoints /\ cool \in [Endpoints -> Nat] /\ cool[e] \in Nat
  BY <1>1, Waiting DEF IInv
<1>3. ASSUME NEW t \in Nat, cool' = SetCooldown(At(r), t) PROVE Kept(e)
  <2>1. cool'[e] \in Nat /\ cool[e] <= cool'[e]
    BY <1>2, <1>3, CooldownSet
  <2>2. ~(cool'[e] < cool[e])
    BY <1>2, <2>1, NotLess
  <2> QED
    BY <2>2 DEF Kept
<1>4. ASSUME cool' = cool PROVE Kept(e)
  <2>1. ~(cool'[e] < cool[e])
    BY <1>2, <1>4, NotLess
  <2> QED
    BY <2>1 DEF Kept
<1>5. CASE TokenReady(r) \/ StartStream(r) \/ RetrySanitized(r) \/ Raise(r) \/ ReturnError(r)
  BY <1>4, <1>5 DEF TokenReady, StartStream, RetrySanitized, Raise, ReturnError, GoOn, Finish
<1>6. CASE FallBack(r)
  <2>1. PICK a \in Answers, t \in RetryAfters \cup {RateTicks} :
          cool' = SetCooldown(At(r), AnswerTicks(r, a, t))
    BY <1>6 DEF FallBack, GoOn
  <2>a. PICK d : d = AnswerTicks(r, a, t)
    OBVIOUS
  <2>2. d \in Nat
    BY <2>a, AnswerTicksTyped
  <2> QED
    BY <1>3, <2>1, <2>2, <2>a
<1>7. CASE LoseEndpoint(r) \/ BreakStream(r)
  BY <1>3, <1>7, TicksAssumption DEF LoseEndpoint, BreakStream, GoOn, Finish
<1>8. CASE Succeed(r) \/ EndStream(r)
  BY <1>1, <1>8, ClearingKept DEF Succeed, EndStream
<1> QED
  BY <1>5, <1>6, <1>7, <1>8 DEF Handle

\* No failure shortens a cooldown, whichever request it is reported by and
\* however late: concurrent failures leave the longest cooldown asked for.
THEOREM FailuresKeepCooldowns == Spec => CooldownHolds
<1>1. ASSUME IInv, [Next]_vars, NEW e \in Endpoints PROVE Kept(e)
  <2>1. cool[e] \in Nat
    BY <1>1 DEF IInv
  <2>2. ASSUME cool' = cool PROVE Kept(e)
    <3>1. ~(cool'[e] < cool[e])
      BY <2>1, <2>2, NotLess
    <3> QED
      BY <3>1 DEF Kept
  <2>3. ASSUME NEW r \in Requests, LeaveStream(r) PROVE Kept(e)
    <3>1. req[r].pc \in InFlight
      BY <2>3 DEF LeaveStream, InFlight
    <3> QED
      BY <1>1, <2>2, <2>3, <3>1, ClearingKept DEF LeaveStream
  <2>4. ASSUME NEW r \in Requests, Arrive(r) PROVE Kept(e)
    BY <2>2, <2>4 DEF Arrive
  <2>5. ASSUME NEW r \in Requests, Handle(r) PROVE Kept(e)
    BY <1>1, <2>5, HandleKept
  <2>6. CASE Restart
    <3>1. crashes' > crashes
      BY <1>1, <2>6 DEF Restart, IInv
    <3> QED
      BY <3>1 DEF Kept
  <2>7. CASE Tick
    BY <2>7 DEF Tick, Kept
  <2>8. CASE UNCHANGED vars
    BY <2>2, <2>8 DEF vars
  <2> QED
    BY <1>1, <2>3, <2>4, <2>5, <2>6, <2>7, <2>8 DEF Next
<1>2. IInv /\ [Next]_vars => [\A e \in Endpoints : Kept(e)]_vars
  BY <1>1
<1> QED
  BY <1>2, InvHolds, PTL DEF Spec, CooldownHolds, Kept

-----------------------------------------------------------------------------
(* The endpoints are decided in order *)

\* A row that decides about its endpoint: all but those before a sanitized retry.
Decides(x) == x.action # "retry_sanitized"

\* No two rows for one endpoint, but for a sanitized retry and its outcome.
InTurn(w, o) ==
    \A i, k \in 1 .. Len(w) : \A p, s \in 1 .. Len(o) :
        i < k /\ w[i].endpoint = o[p] /\ w[k].endpoint = o[s] =>
            p < s \/ (p = s /\ k = i + 1 /\ ~Decides(w[i]) /\ Decides(w[k]))

\* The rows w decide about the first b endpoints of o and speak of no other.
Decided(w, o, b) ==
    /\ InTurn(w, o)
    /\ \A i \in 1 .. Len(w) : \E p \in 1 .. b : w[i].endpoint = o[p]
    /\ \A m \in 1 .. b : \E i \in 1 .. Len(w) : w[i].endpoint = o[m] /\ Decides(w[i])

\* The same, and then the row of the first try at the next endpoint.
Midway(w, o, b) ==
    \E v \in Seq(AttemptRow), x \in AttemptRow :
        /\ w = Append(v, x) /\ Decided(v, o, b)
        /\ x.endpoint = o[b + 1] /\ ~Decides(x)

\* Where a request at q is with its endpoints o and its rows w.
Stage(q, o, w) ==
    /\ q.pc = "new" => w = <<>> /\ q.at = 0
    /\ q.pc \in InFlight =>
           IF q.clean THEN Midway(w, o, q.at - 1) ELSE Decided(w, o, q.at - 1)
    /\ q.pc = "failed" => q.at = Len(o) + 1 /\ Decided(w, o, Len(o))
    /\ q.pc \in Ended \ {"failed"} =>
           /\ q.at \in 1 .. Len(o)
           /\ Decided(w, o, q.at - 1) \/ Midway(w, o, q.at - 1) \/ Decided(w, o, q.at)

Staged == \A r \in Requests : Stage(req[r], order[r], rows[r])

\* The resolver names an endpoint once.
Distinct(o) == \A i, k \in 1 .. Len(o) : o[i] = o[k] => i = k

\* One more row is for the next endpoint, behind rows for those before it.
LEMMA RowBehind ==
    ASSUME NEW o \in Seq(Endpoints), Distinct(o), NEW b \in Nat, b + 1 <= Len(o),
           NEW w \in Seq(AttemptRow), Decided(w, o, b),
           NEW x \in AttemptRow, x.endpoint = o[b + 1]
    PROVE  InTurn(Append(w, x), o)
<1>a. PICK v : v = Append(w, x)
  OBVIOUS
<1>b. PICK n \in Nat : n = Len(w)
  OBVIOUS
<1>1. Len(v) = n + 1 /\ v[n + 1] = x /\ \A i \in 1 .. n : v[i] = w[i]
  BY <1>a, <1>b
<1> SUFFICES ASSUME NEW i \in 1 .. Len(v), NEW k \in 1 .. Len(v), i < k,
                    NEW p \in 1 .. Len(o), NEW s \in 1 .. Len(o),
                    v[i].endpoint = o[p], v[k].endpoint = o[s]
             PROVE  p < s \/ (p = s /\ k = i + 1 /\ ~Decides(v[i]) /\ Decides(v[k]))
  BY <1>a DEF InTurn
<1>2. i \in 1 .. n /\ (k \in 1 .. n \/ k = n + 1)
  BY <1>1
<1>3. CASE k \in 1 .. n
  <2>1. v[i] = w[i] /\ v[k] = w[k]
    BY <1>1, <1>2, <1>3
  <2>2. InTurn(w, o) /\ i \in 1 .. Len(w) /\ k \in 1 .. Len(w)
    BY <1>2, <1>3, <1>b DEF Decided
  <2> QED
    BY <2>1, <2>2 DEF InTurn
<1>4. CASE k = n + 1
  <2>1. s = b + 1
    BY <1>1, <1>4 DEF Distinct
  <2>2. PICK t \in 1 .. b : w[i].endpoint = o[t]
    BY <1>2, <1>b DEF Decided
  <2>3. p = t
    BY <1>1, <1>2, <2>2 DEF Distinct
  <2> QED
    BY <2>1, <2>3
<1> QED
  BY <1>2, <1>3, <1>4

\* A row that decides about the next endpoint.
LEMMA DecideNext ==
    ASSUME NEW o \in Seq(Endpoints), Distinct(o), NEW b \in Nat, b + 1 <= Len(o),
           NEW w \in Seq(AttemptRow), Decided(w, o, b),
           NEW x \in AttemptRow, x.endpoint = o[b + 1], Decides(x)
    PROVE  Decided(Append(w, x), o, b + 1)
<1>a. PICK v : v = Append(w, x)
  OBVIOUS
<1>b. PICK n \in Nat : n = Len(w)
  OBVIOUS
<1>1. Len(v) = n + 1 /\ v[n + 1] = x /\ \A i \in 1 .. n : v[i] = w[i]
  BY <1>a, <1>b
<1>2. InTurn(v, o)
  BY <1>a, RowBehind
<1>3. ASSUME NEW i \in 1 .. Len(v) PROVE \E p \in 1 .. (b + 1) : v[i].endpoint = o[p]
  <2>1. CASE i \in 1 .. n
    <3>1. PICK p \in 1 .. b : w[i].endpoint = o[p]
      BY <1>b, <2>1 DEF Decided
    <3>2. p \in 1 .. (b + 1) /\ v[i] = w[i]
      BY <1>1, <2>1
    <3> QED
      BY <3>1, <3>2
  <2>2. CASE i = n + 1
    BY <1>1, <2>2
  <2> QED
    BY <1>1, <2>1, <2>2
<1>4. ASSUME NEW m \in 1 .. (b + 1)
      PROVE  \E i \in 1 .. Len(v) : v[i].endpoint = o[m] /\ Decides(v[i])
  <2>1. CASE m \in 1 .. b
    <3>1. PICK i \in 1 .. n : w[i].endpoint = o[m] /\ Decides(w[i])
      BY <1>b, <2>1 DEF Decided
    <3> QED
      BY <1>1, <3>1
  <2>2. CASE m = b + 1
    BY <1>1, <2>2
  <2> QED
    BY <2>1, <2>2
<1>5. Decided(v, o, b + 1)
  BY <1>2, <1>3, <1>4 DEF Decided
<1> QED
  BY <1>5, <1>a

\* The outcome of a sanitized retry, behind the row of the first try.
LEMMA DecideRetried ==
    ASSUME NEW o \in Seq(Endpoints), Distinct(o), NEW b \in Nat, b + 1 <= Len(o),
           NEW w \in Seq(AttemptRow), Midway(w, o, b),
           NEW x \in AttemptRow, x.endpoint = o[b + 1], Decides(x)
    PROVE  Decided(Append(w, x), o, b + 1)
<1>1. PICK u \in Seq(AttemptRow), y \in AttemptRow :
          w = Append(u, y) /\ Decided(u, o, b) /\ y.endpoint = o[b + 1] /\ ~Decides(y)
  BY DEF Midway
<1>a. PICK v : v = Append(w, x)
  OBVIOUS
<1>b. PICK n \in Nat : n = Len(u)
  OBVIOUS
<1>2. Len(w) = n + 1 /\ w[n + 1] = y /\ \A i \in 1 .. n : w[i] = u[i]
  BY <1>1, <1>b
<1>3. Len(v) = n + 2 /\ v[n + 2] = x /\ \A i \in 1 .. (n + 1) : v[i] = w[i]
  BY <1>2, <1>a
<1>4. v[n + 1] = y /\ \A i \in 1 .. n : v[i] = u[i]
  BY <1>2, <1>3
<1>5. InTurn(w, o)
  BY <1>1, RowBehind
<1>6. ASSUME NEW i \in 1 .. Len(v), NEW k \in 1 .. Len(v), i < k,
             NEW p \in 1 .. Len(o), NEW s \in 1 .. Len(o),
             v[i].endpoint = o[p], v[k].endpoint = o[s]
      PROVE  p < s \/ (p = s /\ k = i + 1 /\ ~Decides(v[i]) /\ Decides(v[k]))
  <2>1. CASE k \in 1 .. (n + 1)
    <3>1. i \in 1 .. (n + 1) /\ v[i] = w[i] /\ v[k] = w[k]
      BY <1>3, <1>6, <2>1
    <3> QED
      BY <1>2, <1>5, <1>6, <2>1, <3>1 DEF InTurn
  <2>2. CASE k = n + 2
    <3>1. s = b + 1
      BY <1>3, <1>6, <2>2 DEF Distinct
    <3>2. CASE i = n + 1
      <4>1. p = b + 1
        BY <1>1, <1>4, <1>6, <3>2 DEF Distinct
      <4> QED
        BY <1>1, <1>3, <1>4, <2>2, <3>1, <3>2, <4>1
    <3>3. CASE i \in 1 .. n
      <4>1. PICK t \in 1 .. b : u[i].endpoint = o[t]
        BY <1>1, <1>b, <3>3 DEF Decided
      <4>2. p = t
        BY <1>4, <1>6, <3>3, <4>1 DEF Distinct
      <4> QED
        BY <3>1, <4>2
    <3> QED
      BY <1>3, <1>6, <2>2, <3>2, <3>3
  <2> QED
    BY <1>3, <2>1, <2>2
<1>7. ASSUME NEW i \in 1 .. Len(v) PROVE \E p \in 1 .. (b + 1) : v[i].endpoint = o[p]
  <2>1. CASE i \in 1 .. n
    <3>1. PICK p \in 1 .. b : u[i].endpoint = o[p]
      BY <1>1, <1>b, <2>1 DEF Decided
    <3>2. p \in 1 .. (b + 1) /\ v[i] = u[i]
      BY <1>4, <2>1
    <3> QED
      BY <3>1, <3>2
  <2>2. CASE i \in {n + 1, n + 2}
    BY <1>1, <1>3, <1>4, <2>2
  <2> QED
    BY <1>3, <2>1, <2>2
<1>8. ASSUME NEW m \in 1 .. (b + 1)
      PROVE  \E i \in 1 .. Len(v) : v[i].endpoint = o[m] /\ Decides(v[i])
  <2>1. CASE m \in 1 .. b
    <3>1. PICK i \in 1 .. n : u[i].endpoint = o[m] /\ Decides(u[i])
      BY <1>1, <1>b, <2>1 DEF Decided
    <3> QED
      BY <1>3, <1>4, <3>1
  <2>2. CASE m = b + 1
    BY <1>3, <2>2
  <2> QED
    BY <2>1, <2>2
<1>9. InTurn(v, o)
  BY <1>6 DEF InTurn
<1>10. Decided(v, o, b + 1)
  BY <1>7, <1>8, <1>9 DEF Decided
<1> QED
  BY <1>10, <1>a

\* One list of rows behind another.
LEMMA RowsJoined ==
    ASSUME NEW w \in Seq(AttemptRow), NEW f \in Seq(AttemptRow)
    PROVE  /\ w \o f \in Seq(AttemptRow) /\ Len(w \o f) = Len(w) + Len(f)
           /\ \A i \in 1 .. Len(w) : (w \o f)[i] = w[i]
           /\ \A i \in 1 .. Len(w \o f) :
                  i \notin 1 .. Len(w) => (w \o f)[i] = f[i - Len(w)]
<1>1. w \o f \in Seq(AttemptRow) /\ Len(w \o f) = Len(w) + Len(f)
  OBVIOUS
<1>2. \A i \in 1 .. Len(w) : (w \o f)[i] = w[i]
  OBVIOUS
<1>3. \A i \in 1 .. Len(w \o f) : i \notin 1 .. Len(w) => (w \o f)[i] = f[i - Len(w)]
  BY <1>1
<1> QED
  BY <1>1, <1>2, <1>3

\* The rows of endpoints that are passed over.
LEMMA DecideSkips ==
    ASSUME NEW o \in Seq(Endpoints), Distinct(o), NEW b \in Nat,
           NEW n \in Nat, b + n <= Len(o),
           NEW w \in Seq(AttemptRow), Decided(w, o, b),
           NEW f \in Seq(AttemptRow), Len(f) = n,
           \A m \in 1 .. n : f[m].endpoint = o[b + m] /\ Decides(f[m])
    PROVE  Decided(w \o f, o, b + n)
<1>a. PICK v : v = w \o f
  OBVIOUS
<1>b. PICK l \in Nat : l = Len(w)
  OBVIOUS
<1>1. Len(v) = l + n /\ \A i \in 1 .. l : v[i] = w[i]
  BY <1>a, <1>b, RowsJoined
<1>2. ASSUME NEW i \in 1 .. Len(v), i \notin 1 .. l
      PROVE  \E m \in 1 .. n : m = i - l /\ v[i] = f[m]
  <2>1. i - l \in 1 .. n
    BY <1>1, <1>2
  <2>2. v[i] = f[i - l]
    BY <1>1, <1>2, <1>a, <1>b, RowsJoined
  <2> QED
    BY <2>1, <2>2
<1>3. ASSUME NEW i \in 1 .. l
      PROVE  \E t \in 1 .. b : v[i].endpoint = o[t]
  <2>1. v[i] = w[i] /\ i \in 1 .. Len(w)
    BY <1>1, <1>b
  <2>2. \E t \in 1 .. b : w[i].endpoint = o[t]
    BY <2>1 DEF Decided
  <2> QED
    BY <2>1, <2>2
<1>4. ASSUME NEW i \in 1 .. Len(v), NEW k \in 1 .. Len(v), i < k,
             NEW p \in 1 .. Len(o), NEW s \in 1 .. Len(o),
             v[i].endpoint = o[p], v[k].endpoint = o[s]
      PROVE  p < s \/ (p = s /\ k = i + 1 /\ ~Decides(v[i]) /\ Decides(v[k]))
  <2>1. CASE k \in 1 .. l
    <3>a. i \in 1 .. l
      BY <1>4, <2>1
    <3>1. i \in 1 .. l /\ v[i] = w[i] /\ v[k] = w[k]
      BY <1>1, <2>1, <3>a
    <3>2. InTurn(w, o) /\ i \in 1 .. Len(w) /\ k \in 1 .. Len(w)
      BY <1>b, <2>1, <3>1 DEF Decided
    <3> QED
      BY <1>4, <3>1, <3>2 DEF InTurn
  <2>2. CASE k \notin 1 .. l
    <3>1. PICK m \in 1 .. n : m = k - l /\ v[k] = f[m]
      BY <1>2, <2>2
    <3>2. b + m \in 1 .. Len(o) /\ o[s] = o[b + m]
      BY <1>4, <3>1
    <3>3. s = b + m
      BY <3>2 DEF Distinct
    <3>4. CASE i \in 1 .. l
      <4>1. PICK t \in 1 .. b : v[i].endpoint = o[t]
        BY <1>3, <3>4
      <4>2. t \in 1 .. Len(o) /\ o[p] = o[t]
        BY <1>4, <4>1
      <4>3. p = t
        BY <4>2 DEF Distinct
      <4> QED
        BY <3>3, <4>3
    <3>5. CASE i \notin 1 .. l
      <4>1. PICK j \in 1 .. n : j = i - l /\ v[i] = f[j]
        BY <1>2, <3>5
      <4>2. b + j \in 1 .. Len(o) /\ o[p] = o[b + j]
        BY <1>4, <4>1
      <4>3. p = b + j
        BY <4>2 DEF Distinct
      <4>4. j < m
        BY <1>4, <3>1, <4>1
      <4> QED
        BY <3>3, <4>3, <4>4
    <3> QED
      BY <3>4, <3>5
  <2> QED
    BY <2>1, <2>2
<1>5. ASSUME NEW i \in 1 .. Len(v) PROVE \E p \in 1 .. (b + n) : v[i].endpoint = o[p]
  <2>1. CASE i \in 1 .. l
    <3>1. PICK t \in 1 .. b : v[i].endpoint = o[t]
      BY <1>3, <2>1
    <3>2. t \in 1 .. (b + n)
      OBVIOUS
    <3> QED
      BY <3>1, <3>2
  <2>2. CASE i \notin 1 .. l
    <3>1. PICK m \in 1 .. n : v[i] = f[m]
      BY <1>2, <2>2
    <3>2. b + m \in 1 .. (b + n)
      OBVIOUS
    <3> QED
      BY <3>1, <3>2
  <2> QED
    BY <2>1, <2>2
<1>6. ASSUME NEW m \in 1 .. (b + n)
      PROVE  \E i \in 1 .. Len(v) : v[i].endpoint = o[m] /\ Decides(v[i])
  <2>1. CASE m \in 1 .. b
    <3>1. PICK i \in 1 .. l : w[i].endpoint = o[m] /\ Decides(w[i])
      BY <1>b, <2>1 DEF Decided
    <3>2. v[i] = w[i] /\ i \in 1 .. Len(v)
      BY <1>1, <3>1
    <3> QED
      BY <3>1, <3>2
  <2>2. CASE m \notin 1 .. b
    <3>1. PICK j \in 1 .. n : m = b + j
      <4>1. m - b \in 1 .. n /\ m = b + (m - b)
        BY <2>2
      <4> QED
        BY <4>1
    <3>2. l + j \in 1 .. Len(v) /\ l + j \notin 1 .. l
      BY <1>1
    <3>3. v[l + j] = f[j]
      <4>1. PICK i \in 1 .. n : i = (l + j) - l /\ v[l + j] = f[i]
        BY <1>2, <3>2
      <4>2. i = j
        BY <4>1
      <4> QED
        BY <4>1, <4>2
    <3> QED
      BY <3>1, <3>2, <3>3
  <2> QED
    BY <2>1, <2>2
<1>7. InTurn(v, o)
  BY <1>4 DEF InTurn
<1>8. Decided(v, o, b + n)
  BY <1>5, <1>6, <1>7 DEF Decided
<1> QED
  BY <1>8, <1>a

-----------------------------------------------------------------------------
(* Each step keeps the order *)

LEMMA OrdersDistinct ==
    ASSUME NEW o \in Orders PROVE o \in Seq(Endpoints) /\ Len(o) > 0 /\ Distinct(o)
BY OrdersAssumption DEF Distinct

\* One request moves, and the others keep their stages.
LEMMA StageMoves ==
    ASSUME IInv, Staged, NEW r \in Requests, NEW q, NEW o, NEW w, Stage(q, o, w),
           req' = [req EXCEPT ![r] = q], order' = [order EXCEPT ![r] = o],
           rows' = [rows EXCEPT ![r] = w]
    PROVE  Staged'
<1>1. ASSUME NEW x \in Requests PROVE Stage(req'[x], order'[x], rows'[x])
  <2>1. CASE x = r
    <3>1. req'[x] = q /\ order'[x] = o /\ rows'[x] = w
      BY <2>1 DEF IInv
    <3> QED
      BY <3>1
  <2>2. CASE x # r
    <3>1. req'[x] = req[x] /\ order'[x] = order[x] /\ rows'[x] = rows[x]
      BY <2>2 DEF IInv
    <3> QED
      BY <3>1 DEF Staged
  <2> QED
    BY <2>1, <2>2
<1> QED
  BY <1>1 DEF Staged, Stage, Decided, Midway, InTurn, Decides

\* All endpoints up to i are decided: those passed over are too, and the request
\* is at the first that is open, or at the end.
LEMMA ProceedStage ==
    ASSUME NEW r \in Requests, NEW o \in Orders, NEW i \in 0 .. Len(o),
           NEW w \in Seq(AttemptRow), Decided(w, o, i),
           NEW l, NEW c, NEW b \in Nat, Proceed(r, o, i, b, w, l, c)
    PROVE  \E q, v : /\ Stage(q, o, v)
                     /\ req' = [req EXCEPT ![r] = q] /\ rows' = [rows EXCEPT ![r] = v]
<1>1. o \in Seq(Endpoints) /\ Len(o) \in Nat /\ Len(o) > 0 /\ Distinct(o)
  BY OrdersDistinct
<1> DEFINE skips(k) == [m \in 1 .. (k - i - 1) |->
                          [no |-> b + m,
                           endpoint |-> o[i + m],
                           action |-> IF c[o[i + m]] > 0 THEN "cooldown_skip"
                                                         ELSE "preflight_skip"]]
<1>2. PICK k \in (i + 1) .. (Len(o) + 1) :
        /\ rows' = [rows EXCEPT ![r] = w \o skips(k)]
        /\ IF k <= Len(o)
           THEN \E pc \in {"asked"} \cup (IF o[k] \in OAuth THEN {"refreshing"} ELSE {}) :
                     req' = [req EXCEPT ![r] = [pc |-> pc, at |-> k, clean |-> FALSE,
                                                attempt_no |-> b + k - i - 1 + 1]]
           ELSE req' = [req EXCEPT ![r] = [pc |-> "failed", at |-> k, clean |-> FALSE,
                                              attempt_no |-> b + k - i - 1]]
  BY DEF Proceed, BeginAttempt
<1>a. PICK n : n = k - i - 1
  OBVIOUS
<1>b. PICK f : f = skips(k)
  OBVIOUS
<1>3. n \in Nat /\ k \in Nat /\ i + n <= Len(o) /\ k = i + n + 1
  BY <1>1, <1>2, <1>a
<1>4. f = [m \in 1 .. n |-> f[m]]
  BY <1>a, <1>b
<1>5. ASSUME NEW m \in 1 .. n
      PROVE  f[m] \in AttemptRow /\ f[m].endpoint = o[i + m] /\ Decides(f[m])
  <2>a. PICK no : no = b + m
    OBVIOUS
  <2>b. PICK e : e = o[i + m]
    OBVIOUS
  <2>c. PICK action : action = IF c[e] > 0 THEN "cooldown_skip" ELSE "preflight_skip"
    OBVIOUS
  <2>1. no \in Nat
    BY <1>3, <2>a
  <2>2. i + m \in 1 .. Len(o)
    BY <1>1, <1>3
  <2>3. e \in Endpoints
    BY <1>1, <2>2, <2>b
  <2>4. action \in Actions /\ action # "retry_sanitized"
    BY <2>c DEF Actions
  <2>5. f[m] = [no |-> no, endpoint |-> e, action |-> action]
    BY <1>a, <1>b, <2>a, <2>b, <2>c
  <2> QED
    BY <2>1, <2>3, <2>4, <2>5, <2>b DEF AttemptRow, Decides
<1> HIDE DEF skips
<1>6. f \in Seq(AttemptRow) /\ Len(f) = n
  <2>1. f \in [1 .. n -> AttemptRow]
    BY <1>4, <1>5
  <2> QED
    BY <1>3, <2>1
<1>c. PICK v : v = w \o f
  OBVIOUS
<1>7. Decided(v, o, i + n)
  <2>1. i \in Nat
    BY <1>1
  <2>2. \A m \in 1 .. n : f[m].endpoint = o[i + m] /\ Decides(f[m])
    BY <1>5
  <2>3. Decided(w \o f, o, i + n)
    BY <1>1, <1>3, <1>6, <2>1, <2>2, DecideSkips
  <2> QED
    BY <2>3, <1>c
<1>8. rows' = [rows EXCEPT ![r] = v]
  BY <1>2, <1>b, <1>c
<1>9. CASE k <= Len(o)
  <2>1. PICK pc \in {"asked", "refreshing"} :
          req' = [req EXCEPT ![r] = [pc |-> pc, at |-> k, clean |-> FALSE,
                                     attempt_no |-> b + k - i - 1 + 1]]
    BY <1>2, <1>9
  <2>a. PICK q : q = [pc |-> pc, at |-> k, clean |-> FALSE,
                      attempt_no |-> b + k - i - 1 + 1]
    OBVIOUS
  <2>2. q.at - 1 = i + n /\ q.pc \in InFlight /\ ~q.clean
    BY <1>3, <2>a DEF InFlight
  <2>3. Stage(q, o, v)
    BY <1>7, <2>2 DEF Stage, InFlight, Ended
  <2> QED
    BY <1>8, <2>1, <2>3, <2>a
<1>10. CASE ~(k <= Len(o))
  <2>a. PICK q : q = [pc |-> "failed", at |-> k, clean |-> FALSE, attempt_no |-> b + k - i - 1]
    OBVIOUS
  <2>1. k = Len(o) + 1 /\ i + n = Len(o)
    BY <1>1, <1>2, <1>3, <1>10
  <2>2. Stage(q, o, v)
    BY <1>7, <2>1, <2>a DEF Stage, InFlight, Ended
  <2>3. req' = [req EXCEPT ![r] = q]
    BY <1>2, <1>10, <2>a
  <2> QED
    BY <1>8, <2>2, <2>3
<1> QED
  BY <1>9, <1>10

\* The row of the attempt that is under way decides about its endpoint.
LEMMA AttemptDecides ==
    ASSUME IInv, Staged, NEW r \in Requests, req[r].pc \in InFlight,
           NEW action \in Actions \ {"retry_sanitized"}
    PROVE  Decided(WithRow(r, action), order[r], req[r].at)
<1>a. PICK o : o = order[r]
  OBVIOUS
<1>b. PICK w : w = rows[r]
  OBVIOUS
<1>c. PICK x : x = [no |-> Len(rows[r]) + 1, endpoint |-> At(r), action |-> action]
  OBVIOUS
<1>d. PICK b : b = req[r].at - 1
  OBVIOUS
<1>1. /\ o \in Orders /\ o \in Seq(Endpoints) /\ req[r].at \in 1 .. Len(o)
      /\ At(r) \in Endpoints /\ w \in Seq(AttemptRow)
  BY <1>a, <1>b, Waiting
<1>2. b \in Nat /\ b + 1 <= Len(o) /\ req[r].at = b + 1
  BY <1>1, <1>d
<1>3. Len(w) + 1 \in Nat
  BY <1>1
<1>4. x \in AttemptRow /\ x.endpoint = o[b + 1] /\ Decides(x)
  BY <1>1, <1>2, <1>3, <1>a, <1>b, <1>c DEF AttemptRow, Decides, At
<1>5. Decided(w, o, b) \/ Midway(w, o, b)
  <2>1. Stage(req[r], o, w)
    BY <1>a, <1>b DEF Staged
  <2> QED
    BY <2>1, <1>d DEF Stage
<1>6. Decided(Append(w, x), o, b + 1)
  BY <1>1, <1>2, <1>4, <1>5, OrdersDistinct, DecideNext, DecideRetried
<1>7. WithRow(r, action) = Append(w, x)
  BY <1>b, <1>c, Waiting DEF WithRow
<1> QED
  BY <1>2, <1>6, <1>7, <1>a

LEMMA GoOnStaged ==
    ASSUME IInv, Staged, NEW r \in Requests, req[r].pc \in InFlight,
           NEW action \in Actions \ {"retry_sanitized"}, NEW l, NEW c,
           GoOn(r, action, l, c)
    PROVE  Staged'
<1>a. PICK o : o = order[r]
  OBVIOUS
<1>b. PICK w : w = WithRow(r, action)
  OBVIOUS
<1>c. PICK i, b : i = req[r].at /\ b = req[r].attempt_no
  OBVIOUS
<1>1. o \in Orders /\ i \in 0 .. Len(o)
  <2>1. o \in Orders /\ o \in Seq(Endpoints) /\ i \in 1 .. Len(o)
    BY <1>a, <1>c, Waiting
  <2> QED
    BY <2>1
<1>2. w \in Seq(AttemptRow) /\ Decided(w, o, i)
  BY <1>a, <1>b, <1>c, WithRowFine, AttemptDecides
<1>3. Proceed(r, o, i, b, w, l, c) /\ order' = order /\ b \in Nat
  BY <1>a, <1>b, <1>c DEF GoOn, IInv, Request
<1>4. PICK q, v : /\ Stage(q, o, v)
                  /\ req' = [req EXCEPT ![r] = q] /\ rows' = [rows EXCEPT ![r] = v]
  BY <1>1, <1>2, <1>3, ProceedStage
<1>5. order' = [order EXCEPT ![r] = o]
  BY <1>3, <1>a DEF IInv
<1> QED
  BY <1>4, <1>5, StageMoves

LEMMA FinishStaged ==
    ASSUME IInv, Staged, NEW r \in Requests, req[r].pc \in InFlight,
           NEW pc \in Ended \ {"failed"}, NEW action \in Actions \ {"retry_sanitized"},
           NEW status, NEW c, Finish(r, pc, action, status, c)
    PROVE  Staged'
<1>a. PICK o : o = order[r]
  OBVIOUS
<1>b. PICK w : w = WithRow(r, action)
  OBVIOUS
<1>c. PICK q : q = AtEnd(r, pc)
  OBVIOUS
<1>1. q.pc = pc /\ q.at = req[r].at
  <2>1. req[r] \in Request
    BY DEF IInv
  <2> QED
    BY <1>c, <2>1 DEF Request, AtEnd
<1>2. o \in Orders /\ q.at \in 1 .. Len(o)
  BY <1>1, <1>a, Waiting
<1>3. Decided(w, o, q.at)
  BY <1>1, <1>a, <1>b, AttemptDecides
<1>4. Stage(q, o, w)
  BY <1>1, <1>2, <1>3 DEF Stage, InFlight, Ended
<1>5. /\ req' = [req EXCEPT ![r] = q] /\ rows' = [rows EXCEPT ![r] = w]
      /\ order' = [order EXCEPT ![r] = o]
  BY <1>a, <1>b, <1>c DEF Finish, AtEnd, IInv
<1> QED
  BY <1>4, <1>5, StageMoves

LEMMA TurnStaged ==
    ASSUME IInv, Staged, NEW r \in Requests, req[r].pc \in InFlight,
           NEW pc \in InFlight \cup {"left"},
           req' = [req EXCEPT ![r].pc = pc], UNCHANGED <<order, rows>>
    PROVE  Staged'
<1>a. PICK o : o = order[r]
  OBVIOUS
<1>b. PICK w : w = rows[r]
  OBVIOUS
<1>c. PICK q : q = AtEnd(r, pc)
  OBVIOUS
<1>1. q.pc = pc /\ q.at = req[r].at /\ q.clean = req[r].clean
  <2>1. req[r] \in Request
    BY DEF IInv
  <2> QED
    BY <1>c, <2>1 DEF Request, AtEnd
<1>2. q.at \in 1 .. Len(o)
  BY <1>1, <1>a, Waiting
<1>3. Stage(req[r], o, w)
  BY <1>a, <1>b DEF Staged
<1>4. Stage(q, o, w)
  BY <1>1, <1>2, <1>3 DEF Stage, InFlight, Ended
<1>5. /\ req' = [req EXCEPT ![r] = q] /\ rows' = [rows EXCEPT ![r] = w]
      /\ order' = [order EXCEPT ![r] = o]
  BY <1>a, <1>b, <1>c DEF AtEnd, IInv
<1> QED
  BY <1>4, <1>5, StageMoves

\* The first try is recorded, and the endpoint asked again once.
LEMMA RetryStaged ==
    ASSUME IInv, Staged, NEW r \in Requests, RetrySanitized(r)
    PROVE  Staged'
<1>a. PICK o : o = order[r]
  OBVIOUS
<1>b. PICK v : v = rows[r]
  OBVIOUS
<1>c. PICK w : w = WithRow(r, "retry_sanitized")
  OBVIOUS
<1>d. PICK x : x = [no |-> Len(rows[r]) + 1, endpoint |-> At(r), action |-> "retry_sanitized"]
  OBVIOUS
<1>e. PICK q : q = [req[r] EXCEPT !.clean = TRUE, !.attempt_no = BeginAttempt(@)]
  OBVIOUS
<1>f. PICK b : b = req[r].at - 1
  OBVIOUS
<1>1. req[r].pc \in InFlight /\ ~req[r].clean
  BY DEF RetrySanitized, Sanitizes, InFlight
<1>2. /\ o \in Seq(Endpoints) /\ req[r].at \in 1 .. Len(o)
      /\ At(r) \in Endpoints /\ v \in Seq(AttemptRow)
  BY <1>1, <1>a, <1>b, Waiting
<1>3. b \in Nat /\ req[r].at = b + 1
  BY <1>2, <1>f
<1>4. Len(v) + 1 \in Nat
  BY <1>2
<1>5. x \in AttemptRow /\ x.endpoint = o[b + 1] /\ ~Decides(x)
  BY <1>2, <1>3, <1>4, <1>a, <1>b, <1>d DEF AttemptRow, Actions, Decides, At
<1>6. Stage(req[r], o, v)
  BY <1>a, <1>b DEF Staged
<1>7. Decided(v, o, b)
  BY <1>1, <1>6, <1>f DEF Stage
<1>8. w = Append(v, x)
  BY <1>1, <1>b, <1>c, <1>d, Waiting DEF WithRow
<1>9. Midway(w, o, b)
  BY <1>2, <1>5, <1>7, <1>8 DEF Midway
<1>10. q.pc = req[r].pc /\ q.at - 1 = b /\ q.clean
  BY <1>e, <1>f DEF IInv, Request
<1>11. Stage(q, o, w)
  BY <1>1, <1>9, <1>10 DEF Stage, InFlight, Ended
<1>12. /\ req' = [req EXCEPT ![r] = q] /\ rows' = [rows EXCEPT ![r] = w]
       /\ order' = [order EXCEPT ![r] = o]
  BY <1>a, <1>c, <1>e DEF RetrySanitized, IInv
<1> QED
  BY <1>11, <1>12, StageMoves

LEMMA ArriveStaged ==
    ASSUME IInv, Staged, NEW r \in Requests, Arrive(r) PROVE Staged'
<1>a. PICK w : w = rows[r]
  OBVIOUS
<1>b. PICK i, b : i = 0 /\ b = req[r].attempt_no
  OBVIOUS
<1>1. PICK o \in Orders : /\ order' = [order EXCEPT ![r] = o]
                          /\ Proceed(r, o, i, b, w, logs[r], cool)
  BY <1>a, <1>b DEF Arrive
<1>2. w = <<>>
  <2>1. Stage(req[r], order[r], w) /\ req[r].pc = "new"
    BY <1>a DEF Staged, Arrive
  <2> QED
    BY <2>1 DEF Stage
<1>3. w \in Seq(AttemptRow) /\ Decided(w, o, i)
  BY <1>2, <1>b DEF Decided, InTurn
<1>4. i \in 0 .. Len(o)
  BY <1>b, OrdersDistinct
<1>5. PICK q, v : /\ Stage(q, o, v)
                  /\ req' = [req EXCEPT ![r] = q] /\ rows' = [rows EXCEPT ![r] = v]
  <2>a. PICK l : l = logs[r]
    OBVIOUS
  <2>b. PICK c : c = cool
    OBVIOUS
  <2>1. Proceed(r, o, i, b, w, l, c) /\ b \in Nat
    BY <1>1, <1>b, <2>a, <2>b DEF IInv, Request
  <2> QED
    BY <1>3, <1>4, <2>1, ProceedStage
<1> QED
  BY <1>1, <1>5, StageMoves

LEMMA HandleStaged ==
    ASSUME IInv, Staged, NEW r \in Requests, Handle(r) PROVE Staged'
<1>1. req[r].pc \in InFlight
  BY DEF Handle, TokenReady, RetrySanitized, FallBack, ReturnError, Succeed,
         StartStream, LoseEndpoint, Raise, EndStream, BreakStream, InFlight
<1>2. {"fallback", "fallback_exception", "returned_error", "success", "stream_error"}
        \subseteq Actions \ {"retry_sanitized"}
  BY DEF Actions
<1>3. {"answered", "errored", "broken"} \subseteq Ended \ {"failed"}
  BY DEF Ended
<1>4. CASE TokenReady(r)
  BY <1>1, <1>4, TurnStaged DEF TokenReady, InFlight
<1>5. CASE StartStream(r)
  BY <1>1, <1>5, TurnStaged DEF StartStream, InFlight
<1>6. CASE RetrySanitized(r)
  BY <1>6, RetryStaged
<1>7. CASE FallBack(r)
  <2>1. PICK l, c : GoOn(r, "fallback", l, c)
    BY <1>7 DEF FallBack
  <2> QED
    BY <1>1, <1>2, <2>1, GoOnStaged
<1>8. CASE LoseEndpoint(r) \/ Raise(r)
  <2>1. PICK l, c : GoOn(r, "fallback_exception", l, c)
    BY <1>8 DEF LoseEndpoint, Raise
  <2> QED
    BY <1>1, <1>2, <2>1, GoOnStaged
<1>9. CASE ReturnError(r)
  BY <1>1, <1>2, <1>3, <1>9, FinishStaged DEF ReturnError
<1>10. CASE Succeed(r) \/ EndStream(r)
  <2>1. PICK c : Finish(r, "answered", "success", 200, c)
    BY <1>10 DEF Succeed, EndStream
  <2> QED
    BY <1>1, <1>2, <1>3, <2>1, FinishStaged
<1>11. CASE BreakStream(r)
  <2>1. PICK c : Finish(r, "broken", "stream_error", 502, c)
    BY <1>11 DEF BreakStream
  <2> QED
    BY <1>1, <1>2, <1>3, <2>1, FinishStaged
<1> QED
  BY <1>4, <1>5, <1>6, <1>7, <1>8, <1>9, <1>10, <1>11 DEF Handle

LEMMA LeaveStaged ==
    ASSUME IInv, Staged, NEW r \in Requests, LeaveStream(r) PROVE Staged'
<1>1. req[r].pc \in InFlight
  BY DEF LeaveStream, InFlight
<1>2. CASE \E c : Finish(r, "left", "success", 200, c)
  <2>1. PICK c : Finish(r, "left", "success", 200, c)
    BY <1>2
  <2>2. "left" \in Ended \ {"failed"} /\ "success" \in Actions \ {"retry_sanitized"}
    BY DEF Ended, Actions
  <2> QED
    BY <1>1, <2>1, <2>2, FinishStaged
<1>3. CASE req' = [req EXCEPT ![r].pc = "left"] /\ UNCHANGED <<order, rows>>
  BY <1>1, <1>3, TurnStaged
<1> QED
  BY <1>2, <1>3 DEF LeaveStream

LEMMA RestartStaged == ASSUME IInv, Staged, Restart PROVE Staged'
<1>1. order' = order /\ rows' = rows
  BY DEF Restart
<1>2. ASSUME NEW r \in Requests PROVE Stage(req'[r], order[r], rows[r])
  <2>a. PICK o : o = order[r]
    OBVIOUS
  <2>b. PICK w : w = rows[r]
    OBVIOUS
  <2>c. PICK q : q = req'[r]
    OBVIOUS
  <2>1. Stage(req[r], o, w) /\ req[r] \in Request
    BY <2>a, <2>b DEF Staged, IInv
  <2>2. CASE req[r].pc \notin InFlight
    <3>1. q = req[r]
      BY <2>2, <2>c DEF Restart
    <3> QED
      BY <2>1, <2>a, <2>b, <2>c, <3>1
  <2>3. CASE req[r].pc \in InFlight
    <3>1. q.pc = "killed" /\ q.at = req[r].at
      BY <2>1, <2>3, <2>c DEF Restart, Request
    <3>2. q.at \in 1 .. Len(o)
      BY <2>3, <2>a, <3>1, Waiting
    <3>3. Stage(q, o, w)
      BY <2>1, <2>3, <3>1, <3>2 DEF Stage, InFlight, Ended
    <3> QED
      BY <2>a, <2>b, <2>c, <3>3
  <2> QED
    BY <2>2, <2>3
<1>3. \A r \in Requests : Stage(req'[r], order'[r], rows'[r])
  BY <1>1, <1>2
<1> QED
  BY <1>3 DEF Staged, Stage, Decided, Midway, InTurn, Decides

LEMMA StagesHold == Spec => []Staged
<1>1. Init => Staged
  <2> SUFFICES ASSUME Init, NEW r \in Requests PROVE Stage(req[r], order[r], rows[r])
    BY DEF Staged
  <2>1. req[r].pc = "new" /\ req[r].at = 0 /\ rows[r] = <<>>
    BY DEF Init
  <2> QED
    BY <2>1 DEF Stage, InFlight, Ended
<1>2. IInv /\ Staged /\ [Next]_vars => Staged'
  <2> SUFFICES ASSUME IInv, Staged, [Next]_vars PROVE Staged'
    OBVIOUS
  <2>1. CASE Tick \/ UNCHANGED vars
    <3>1. UNCHANGED <<req, order, rows>>
      BY <2>1 DEF Tick, vars
    <3>2. \A r \in Requests : Stage(req'[r], order'[r], rows'[r])
      BY <3>1 DEF Staged
    <3> QED
      BY <3>2 DEF Staged, Stage, Decided, Midway, InTurn, Decides
  <2> QED
    BY <2>1, ArriveStaged, HandleStaged, LeaveStaged, RestartStaged DEF Next
<1> QED
  BY <1>1, <1>2, InvHolds, PTL DEF Spec

\* The endpoint at p has the position p.
LEMMA PositionIs ==
    ASSUME IInv, NEW r \in Requests, NEW p \in 1 .. Len(order[r])
    PROVE  Position(r, order[r][p]) = p
<1>1. Distinct(order[r])
  <2>1. order[r] \in Orders \/ order[r] = <<>>
    BY DEF IInv
  <2> QED
    BY <2>1, OrdersDistinct DEF Distinct
<1>2. \A i \in 1 .. Len(order[r]) : order[r][i] = order[r][p] <=> i = p
  BY <1>1 DEF Distinct
<1> QED
  BY <1>2 DEF Position

\* The rows w are in the order o, and decide about its first b endpoints.
Chained(w, o, b) ==
    /\ InTurn(w, o)
    /\ \A i \in 1 .. Len(w) : \E p \in 1 .. Len(o) : w[i].endpoint = o[p]
    /\ \A m \in 1 .. b : \E i \in 1 .. Len(w) : w[i].endpoint = o[m] /\ Decides(w[i])

LEMMA DecidedIsChained ==
    ASSUME NEW o \in Seq(Endpoints), NEW w, NEW b \in Nat, b <= Len(o), Decided(w, o, b),
           NEW n \in Int, n <= b
    PROVE  Chained(w, o, n)
<1>1. ASSUME NEW i \in 1 .. Len(w) PROVE \E p \in 1 .. Len(o) : w[i].endpoint = o[p]
  <2>1. PICK p \in 1 .. b : w[i].endpoint = o[p]
    BY DEF Decided
  <2>2. p \in 1 .. Len(o)
    OBVIOUS
  <2> QED
    BY <2>1, <2>2
<1>2. ASSUME NEW m \in 1 .. n
      PROVE  \E i \in 1 .. Len(w) : w[i].endpoint = o[m] /\ Decides(w[i])
  <2>1. m \in 1 .. b
    OBVIOUS
  <2> QED
    BY <2>1 DEF Decided
<1> QED
  BY <1>1, <1>2 DEF Chained, Decided

LEMMA MidwayIsChained ==
    ASSUME NEW o \in Seq(Endpoints), Distinct(o), NEW b \in Nat, b + 1 <= Len(o),
           NEW w, Midway(w, o, b)
    PROVE  Chained(w, o, b)
<1>1. PICK v \in Seq(AttemptRow), x \in AttemptRow :
          w = Append(v, x) /\ Decided(v, o, b) /\ x.endpoint = o[b + 1]
  BY DEF Midway
<1>a. PICK l \in Nat : l = Len(v)
  OBVIOUS
<1>2. Len(w) = l + 1 /\ w[l + 1] = x /\ \A i \in 1 .. l : w[i] = v[i]
  BY <1>1, <1>a
<1>3. InTurn(w, o)
  BY <1>1, RowBehind
<1>4. Chained(v, o, b)
  BY <1>1, DecidedIsChained
<1>5. ASSUME NEW i \in 1 .. Len(w) PROVE \E p \in 1 .. Len(o) : w[i].endpoint = o[p]
  <2>1. CASE i \in 1 .. l
    BY <1>2, <1>4, <1>a, <2>1 DEF Chained
  <2>2. CASE i = l + 1
    BY <1>1, <1>2, <2>2
  <2> QED
    BY <1>2, <2>1, <2>2
<1>6. ASSUME NEW m \in 1 .. b
      PROVE  \E i \in 1 .. Len(w) : w[i].endpoint = o[m] /\ Decides(w[i])
  <2>1. PICK i \in 1 .. l : v[i].endpoint = o[m] /\ Decides(v[i])
    BY <1>4, <1>a DEF Chained
  <2>2. w[i] = v[i] /\ i \in 1 .. Len(w)
    BY <1>2, <2>1
  <2> QED
    BY <2>1, <2>2
<1> QED
  BY <1>3, <1>5, <1>6 DEF Chained

LEMMA StageIsChained ==
    ASSUME NEW q \in Request, NEW o \in Seq(Endpoints), Distinct(o), NEW w,
           q.pc \in InFlight => q.at \in 1 .. Len(o), Stage(q, o, w)
    PROVE  Chained(w, o, q.at - 1)
<1>a. PICK b : b = q.at - 1
  OBVIOUS
<1>1. q.pc \in {"new"} \cup InFlight \cup Ended /\ b \in Int /\ q.at = b + 1
  BY <1>a DEF Request
<1>2. CASE q.pc = "new"
  BY <1>2, <1>a DEF Stage, Chained, InTurn
<1>3. CASE q.pc = "failed"
  <2>1. b = Len(o) /\ Decided(w, o, b) /\ b \in Nat
    BY <1>3, <1>a DEF Stage
  <2>2. Chained(w, o, b)
    <3>1. b \in Int /\ b <= b /\ b <= Len(o)
      BY <2>1
    <3> QED
      BY <2>1, <3>1, DecidedIsChained
  <2> QED
    BY <2>2, <1>a
<1>4. CASE q.pc \in InFlight \cup (Ended \ {"failed"})
  <2>1. q.at \in 1 .. Len(o)
    BY <1>4 DEF Stage
  <2>2. b \in Nat /\ b + 1 <= Len(o) /\ q.at \in Nat /\ q.at <= Len(o) /\ b <= q.at
    BY <1>1, <2>1
  <2>3. Decided(w, o, b) \/ Midway(w, o, b) \/ Decided(w, o, q.at)
    BY <1>4, <1>a DEF Stage
  <2>4. Chained(w, o, b)
    BY <1>1, <2>2, <2>3, DecidedIsChained, MidwayIsChained
  <2> QED
    BY <2>4, <1>a
<1> QED
  BY <1>1, <1>2, <1>3, <1>4

\* The endpoints of a request are decided about in the resolver's order, each
\* once but for a sanitized retry, and none is passed without a row.
THEOREM ChainsFollowTheOrder == Spec => []EndpointsInOrder
<1>1. IInv /\ Staged => EndpointsInOrder
  <2> SUFFICES ASSUME IInv, Staged, NEW r \in Requests
               PROVE  /\ \A i, k \in 1 .. Len(rows[r]) :
                           LET x == rows[r][i]
                               y == rows[r][k]
                           IN i < k => \/ Position(r, x.endpoint) < Position(r, y.endpoint)
                                       \/ /\ x.endpoint = y.endpoint /\ k = i + 1
                                          /\ x.action = "retry_sanitized"
                                          /\ y.action # "retry_sanitized"
                      /\ \A m \in 1 .. (req[r].at - 1) :
                           \E i \in 1 .. Len(rows[r]) :
                               /\ rows[r][i].endpoint = order[r][m]
                               /\ rows[r][i].action # "retry_sanitized"
    BY DEF EndpointsInOrder
  <2>a. PICK o : o = order[r]
    OBVIOUS
  <2>b. PICK w : w = rows[r]
    OBVIOUS
  <2>1. /\ Stage(req[r], o, w) /\ req[r] \in Request
        /\ o \in Orders \cup {<<>>}
        /\ req[r].pc \in InFlight => req[r].at \in 1 .. Len(o)
    BY <2>a, <2>b DEF Staged, IInv, Fine
  <2>2. o \in Seq(Endpoints) /\ Distinct(o)
    <3>1. CASE o \in Orders
      BY <3>1, OrdersDistinct
    <3>2. CASE o = <<>>
      BY <3>2 DEF Distinct
    <3> QED
      BY <2>1, <3>1, <3>2
  <2>3. Chained(w, o, req[r].at - 1)
    BY <2>1, <2>2, StageIsChained
  <2>4. \A p \in 1 .. Len(o) : Position(r, o[p]) = p
    BY <2>a, PositionIs
  <2>5. ASSUME NEW i \in 1 .. Len(w), NEW k \in 1 .. Len(w), i < k
        PROVE  \/ Position(r, w[i].endpoint) < Position(r, w[k].endpoint)
               \/ /\ w[i].endpoint = w[k].endpoint /\ k = i + 1
                  /\ w[i].action = "retry_sanitized"
                  /\ w[k].action # "retry_sanitized"
    <3>1. PICK p \in 1 .. Len(o) : w[i].endpoint = o[p]
      BY <2>3 DEF Chained
    <3>2. PICK s \in 1 .. Len(o) : w[k].endpoint = o[s]
      BY <2>3 DEF Chained
    <3>3. p < s \/ (p = s /\ k = i + 1 /\ ~Decides(w[i]) /\ Decides(w[k]))
      BY <2>3, <2>5, <3>1, <3>2 DEF Chained, InTurn
    <3>4. Position(r, w[i].endpoint) = p /\ Position(r, w[k].endpoint) = s
      BY <2>4, <3>1, <3>2
    <3> QED
      BY <3>1, <3>2, <3>3, <3>4 DEF Decides
  <2>6. \A m \in 1 .. (req[r].at - 1) :
           \E i \in 1 .. Len(w) : w[i].endpoint = o[m] /\ w[i].action # "retry_sanitized"
    BY <2>3 DEF Chained, Decides
  <2> QED
    BY <2>5, <2>6, <2>a, <2>b
<1> QED
  BY <1>1, InvHolds, StagesHold, PTL
=============================================================================
