-------------------------- MODULE OAuthTokens_proofs --------------------------
(***************************************************************************)
(* Proofs about OAuthTokens, for any requests, pages, logins and renewals.  *)
(*                                                                         *)
(* Why no used refresh token comes back: one that is on its way into the    *)
(* record is the newest of its login and nobody else has seen it, and what  *)
(* any other step writes is the record of the file, unless that step counts *)
(* as one that saved an older record.                                       *)
(***************************************************************************)
EXTENDS OAuthTokens, TLAPS, FiniteSetTheorems

\* Who has a copy of a refresh token.
Held(t) ==
    \/ t = provider.refresh \/ t = file.refresh
    \/ watcher # None /\ t = watcher.refresh
    \/ page # None /\ t = page.refresh
    \/ \E r \in Requests : (At(r, "copied") \/ At(r, "renewing")) /\ t = requests[r].token

\* It is of a login there has been, and no newer than its last answer.
Issued(t) == t.grant <= grants /\ t.serial <= answers[t.grant]

Tracked ==
    /\ \A g \in Grants : good[g] <= answers[g]
    /\ \A t \in Tokens : Held(t) => Issued(t)
    /\ \A r \in Requests : Losing(r) => Issued(requests[r].token)

\* A token on its way into the record is good, and nobody else has it.
OnTheWay ==
    \A r \in Requests : Losing(r) =>
        /\ Good(requests[r].token) /\ ~Held(requests[r].token)
        /\ \A q \in Requests : q # r /\ Losing(q) => requests[q].token # requests[r].token

\* Nothing of a login has been seen.
Unseen(g) ==
    /\ answers[g] = 0
    /\ \A t \in Tokens : Held(t) => t.grant # g
    /\ \A r \in Requests : Losing(r) => requests[r].token.grant # g

\* The tokens of logins to come, and of those that a page has yet to store, are
\* with nobody else.
Logins ==
    /\ \A g \in Grants : g > grants => answers[g] = 0
    /\ \A p \in Pollers : pollers[p].at = "exchanged" =>
           /\ pollers[p].grant <= grants
           /\ Unseen(pollers[p].grant)
           /\ \A q \in Pollers : q # p /\ pollers[q].at = "exchanged" =>
                  pollers[q].grant # pollers[p].grant

\* The watchdog has brought the file into memory, or is about to.
Settling ==
    \/ events
    \/ watcher = None /\ provider = file
    \/ watcher = file

FileGood == Good(file.refresh) \/ Succeeded(file.refresh) \/ restored

IInv == TypeOK /\ Tracked /\ OnTheWay /\ Logins /\ Settling /\ FileGood

-----------------------------------------------------------------------------
(* Values *)

LEMMA GrantsKnown == Grants \subseteq Nat /\ 1 \in Grants /\ GrantCap \in Nat
BY TokensAssumption DEF Grants

LEMMA TokenTyped ==
    ASSUME NEW g \in Grants, NEW n \in Nat
    PROVE  /\ Token(g, n) \in Tokens
           /\ Token(g, n).grant = g /\ Token(g, n).serial = n
BY DEF Token, Tokens

LEMMA TokenIsItsParts ==
    ASSUME NEW t \in Tokens, NEW u \in Tokens, t.grant = u.grant, t.serial = u.serial
    PROVE  t = u
BY DEF Tokens

LEMMA NoneIsNoRecord ==
    /\ None \notin Tokens /\ None \notin RecordType /\ None \notin RequestType
    /\ \A pc, t, e : Request(pc, t, e) # None
BY DEF None, Tokens, RecordType, RequestType, Request

LEMMA RecordTyped ==
    ASSUME NEW t \in Tokens, NEW e \in Tokens \cup {None}, NEW b \in BOOLEAN
    PROVE  /\ Record(t, e, b) \in RecordType
           /\ Record(t, e, b).refresh = t /\ Record(t, e, b).expires = e
BY DEF Record, RecordType

LEMMA RequestTyped ==
    ASSUME TypeOK, NEW r \in Requests
    PROVE  /\ At(r, "copied") \/ At(r, "renewing") =>
                  /\ requests[r].token \in Tokens
                  /\ requests[r].expires \in Tokens \cup {None}
           /\ At(r, "renewed") =>
                  /\ requests[r].token \in Tokens \cup {None}
                  /\ requests[r].expires \in Tokens
           /\ Losing(r) => requests[r].token \in Tokens
           /\ requests[r] \in RequestType \cup {None}
BY DEF TypeOK, At, Losing, RequestType

LEMMA GoesTyped ==
    ASSUME TypeOK, NEW r \in Requests, NEW x \in RequestType \cup {None}, Goes(r, x)
    PROVE  /\ requests' \in [Requests -> RequestType \cup {None}]
           /\ requests'[r] = x
           /\ \A q \in Requests : q # r => requests'[q] = requests[q]
BY DEF TypeOK, Goes

LEMMA SendingTyped ==
    ASSUME NEW r \in Requests
    PROVE  /\ Sending(r) \in RequestType \cup {None}
           /\ Sending(r) # None => Sending(r).at = "sending"
BY DEF Sending, Request, RequestType

LEMMA EnsureTyped ==
    ASSUME NEW r \in Requests, NEW t \in Tokens, NEW e
    PROVE  /\ Ensure(r, t, e) \in RequestType \cup {None}
           /\ Ensure(r, t, e) # None =>
                  \/ Ensure(r, t, e).at = "sending"
                  \/ Ensure(r, t, e).at = "renewing" /\ Ensure(r, t, e).token = t
<1>1. CASE e \in due
  <2>1. Ensure(r, t, e) = Request("renewing", t, None)
    BY <1>1 DEF Ensure
  <2>2. /\ Request("renewing", t, None) \in RequestType
        /\ Request("renewing", t, None).at = "renewing"
        /\ Request("renewing", t, None).token = t
    BY DEF Request, RequestType
  <2> QED
    BY <2>1, <2>2
<1>2. CASE e \notin due
  BY <1>2, SendingTyped DEF Ensure
<1> QED
  BY <1>1, <1>2

LEMMA PollerTyped ==
    ASSUME TypeOK, NEW p \in Pollers, NEW pc, NEW g, [at |-> pc, grant |-> g] \in PollerType,
           Poller(p, pc, g)
    PROVE  /\ pollers' \in [Pollers -> PollerType]
           /\ pollers'[p].at = pc /\ pollers'[p].grant = g
           /\ \A q \in Pollers : q # p => pollers'[q] = pollers[q]
BY DEF TypeOK, Poller

LEMMA IdleTyped ==
    \A pc \in {"idle", "polled"} : [at |-> pc, grant |-> 0] \in PollerType
BY DEF PollerType

LEMMA SaveTyped ==
    ASSUME TypeOK, NEW base, NEW record \in RecordType, Save(base, record)
    PROVE  /\ provider' = record /\ file' = record
           /\ provider' \in RecordType /\ file' \in RecordType
           /\ events' = TRUE /\ events' \in BOOLEAN /\ restored' \in BOOLEAN
           /\ restored => restored'
           /\ base # file /\ record.refresh = base.refresh => restored'
BY DEF TypeOK, Save, Replace

LEMMA MarkTyped ==
    ASSUME TypeOK
    PROVE  /\ [provider EXCEPT !.reauth = TRUE] \in RecordType
           /\ [provider EXCEPT !.reauth = TRUE].refresh = provider.refresh
BY DEF TypeOK, RecordType

-----------------------------------------------------------------------------
(* Types *)

LEMMA BeginTyped == ASSUME TypeOK, NEW r \in Requests, Begin(r) PROVE TypeOK'
<1>1. PICK x : /\ Goes(r, x)
               /\ x \in {Request("copied", provider.refresh, provider.expires),
                         Ensure(r, provider.refresh, provider.expires)}
  BY DEF Begin
<1>2. provider.refresh \in Tokens /\ provider.expires \in Tokens \cup {None}
  BY DEF TypeOK, RecordType
<1>3. x \in RequestType \cup {None}
  BY <1>1, <1>2, EnsureTyped DEF Request, RequestType
<1> QED
  BY <1>1, <1>3, GoesTyped DEF Begin, TypeOK, files, logins, tokens, histories

LEMMA EnsureTokenTyped == ASSUME TypeOK, NEW r \in Requests, EnsureToken(r) PROVE TypeOK'
<1>1. Ensure(r, requests[r].token, requests[r].expires) \in RequestType \cup {None}
  BY RequestTyped, EnsureTyped DEF EnsureToken
<1> QED
  BY <1>1, GoesTyped DEF EnsureToken, TypeOK, files, logins, tokens, histories

\* What an exchange brings, in either form.
LEMMA ExchangeBrings ==
    ASSUME TypeOK, NEW r \in Requests, Exchange(r)
    PROVE  \E g \in Grants, n \in Nat, x \in RequestType :
             /\ At(r, "renewing") /\ Good(requests[r].token)
             /\ requests[r].token \in Tokens /\ requests[r].token.grant = g
             /\ n = answers[g] + 1
             /\ answers' = [answers EXCEPT ![g] = n]
             /\ Goes(r, x) /\ x.at = "renewed" /\ x.token \in {Token(g, n), None}
             /\ good' = IF x.token = None THEN good ELSE [good EXCEPT ![g] = n]
             /\ UNCHANGED <<codex, provider, files, logins, grants, due, lost, restored>>
<1>1. /\ At(r, "renewing") /\ Good(requests[r].token)
      /\ requests[r].token \in Tokens
  BY RequestTyped DEF Exchange
<1>2. PICK g \in Grants : g = requests[r].token.grant
  BY <1>1 DEF Tokens
<1>3. PICK n \in Nat : n = answers[g] + 1
  BY <1>2 DEF TypeOK
<1>4. PICK t \in Tokens : t = Token(g, n)
  BY TokenTyped
<1>5. /\ answers' = [answers EXCEPT ![g] = n]
      /\ \/ Goes(r, Request("renewed", t, t)) /\ good' = [good EXCEPT ![g] = n]
         \/ Goes(r, Request("renewed", None, t)) /\ good' = good
      /\ UNCHANGED <<codex, provider, files, logins, grants, due, lost, restored>>
  BY <1>2, <1>3, <1>4 DEF Exchange
<1>6. /\ Request("renewed", t, t) \in RequestType
      /\ Request("renewed", t, t).at = "renewed" /\ Request("renewed", t, t).token = t
      /\ Request("renewed", None, t) \in RequestType
      /\ Request("renewed", None, t).at = "renewed" /\ Request("renewed", None, t).token = None
  BY DEF Request, RequestType
<1>7. t # None
  BY NoneIsNoRecord
<1>8. CASE Goes(r, Request("renewed", t, t)) /\ good' = [good EXCEPT ![g] = n]
  BY <1>1, <1>2, <1>3, <1>4, <1>5, <1>6, <1>7, <1>8
<1>9. CASE Goes(r, Request("renewed", None, t)) /\ good' = good
  BY <1>1, <1>2, <1>3, <1>4, <1>5, <1>6, <1>9
<1> QED
  BY <1>5, <1>8, <1>9

LEMMA ExchangeTyped == ASSUME TypeOK, NEW r \in Requests, Exchange(r) PROVE TypeOK'
<1>1. PICK g \in Grants, n \in Nat, x \in RequestType :
          /\ answers' = [answers EXCEPT ![g] = n]
          /\ Goes(r, x)
          /\ good' = IF x.token = None THEN good ELSE [good EXCEPT ![g] = n]
          /\ UNCHANGED <<codex, provider, files, logins, grants, due, lost, restored>>
  BY ExchangeBrings
<1>2. requests' \in [Requests -> RequestType \cup {None}]
  BY <1>1, GoesTyped
<1>3. answers' \in [Grants -> Nat] /\ good' \in [Grants -> Nat]
  BY <1>1 DEF TypeOK
<1> QED
  BY <1>1, <1>2, <1>3 DEF TypeOK, files, logins

\* What a request stores: its own refresh token or the one there is, and a date.
LEMMA StoreTokensBrings ==
    ASSUME TypeOK, NEW r \in Requests, StoreTokens(r)
    PROVE  \E record \in RecordType :
             /\ At(r, "renewed")
             /\ Save(provider, record)
             /\ record.refresh = IF requests[r].token = None THEN provider.refresh
                                 ELSE requests[r].token
             /\ Goes(r, Sending(r))
             /\ UNCHANGED <<codex, watcher, page, pollers, tokens, due, lost>>
<1>1. /\ At(r, "renewed")
      /\ Goes(r, Sending(r))
      /\ UNCHANGED <<codex, watcher, page, pollers, tokens, due, lost>>
  BY DEF StoreTokens
<1>2. PICK e \in Tokens \cup {None} : Save(provider, Renewed(r, e))
  BY <1>1, RequestTyped DEF StoreTokens, TypeOK, RecordType
<1>3. PICK t \in Tokens : t = IF requests[r].token = None THEN provider.refresh
                               ELSE requests[r].token
  BY <1>1, RequestTyped DEF TypeOK, RecordType
<1>4. Renewed(r, e) = Record(t, e, FALSE)
  BY <1>3 DEF Renewed
<1>5. Record(t, e, FALSE) \in RecordType /\ Record(t, e, FALSE).refresh = t
  BY RecordTyped
<1> QED
  BY <1>1, <1>2, <1>3, <1>4, <1>5

LEMMA StoreTokensTyped == ASSUME TypeOK, NEW r \in Requests, StoreTokens(r) PROVE TypeOK'
<1>1. PICK record \in RecordType :
          /\ Save(provider, record) /\ Goes(r, Sending(r))
          /\ UNCHANGED <<codex, watcher, page, pollers, tokens, due, lost>>
  BY StoreTokensBrings
<1>2. requests' \in [Requests -> RequestType \cup {None}]
  BY <1>1, GoesTyped, SendingTyped
<1> QED
  BY <1>1, <1>2, SaveTyped DEF TypeOK, tokens

LEMMA FailTyped ==
    ASSUME TypeOK, NEW r \in Requests, Fail(r)
    PROVE  \E x \in RequestType \cup {None} : Goes(r, x) /\ (x # None => x.at = "sending")
BY SendingTyped DEF Fail

LEMMA MarkingTyped ==
    ASSUME TypeOK, NEW r \in Requests, RenewalRefused(r) \/ Unauthorized(r)
    PROVE  TypeOK'
<1>1. /\ Mark
      /\ UNCHANGED <<codex, watcher, page, pollers, tokens, due, lost>>
      /\ Fail(r) \/ Goes(r, None)
  BY DEF RenewalRefused, Unauthorized
<1>2. requests' \in [Requests -> RequestType \cup {None}]
  BY <1>1, FailTyped, GoesTyped
<1>3. /\ provider' \in RecordType /\ file' \in RecordType
      /\ events' \in BOOLEAN /\ restored' \in BOOLEAN
  BY <1>1, MarkTyped, SaveTyped DEF Mark
<1> QED
  BY <1>1, <1>2, <1>3 DEF TypeOK, tokens

LEMMA NoAnswerTyped == ASSUME TypeOK, NEW r \in Requests, NoAnswer(r) PROVE TypeOK'
<1>1. requests' \in [Requests -> RequestType \cup {None}]
  BY FailTyped, GoesTyped DEF NoAnswer
<1>2. lost' \subseteq Grants
  BY RequestTyped DEF NoAnswer, TypeOK, Tokens
<1> QED
  BY <1>1, <1>2 DEF NoAnswer, TypeOK, files, logins, tokens

LEMMA AnsweredTyped == ASSUME TypeOK, NEW r \in Requests, Answered(r) PROVE TypeOK'
BY GoesTyped DEF Answered, TypeOK, files, logins, tokens, histories

LEMMA PollTyped ==
    ASSUME TypeOK, NEW p \in Pollers, Poll(p) \/ ExchangeCode(p) \/ PollEnds(p)
    PROVE  TypeOK'
<1>1. CASE Poll(p) \/ PollEnds(p)
  <2>1. pollers' \in [Pollers -> PollerType]
    BY <1>1, IdleTyped, PollerTyped DEF Poll, PollEnds
  <2> QED
    BY <1>1, <2>1 DEF Poll, PollEnds, TypeOK, files, logins, tokens, histories
<1>2. CASE ExchangeCode(p)
  <2>1. grants + 1 \in Grants
    BY <1>2, GrantsKnown DEF ExchangeCode, TypeOK, Grants
  <2>2. [at |-> "exchanged", grant |-> grants + 1] \in PollerType
    BY <2>1 DEF PollerType
  <2>3. pollers' \in [Pollers -> PollerType]
    BY <1>2, <2>2, PollerTyped DEF ExchangeCode
  <2> QED
    BY <1>2, <2>1, <2>3 DEF ExchangeCode, TypeOK, files, histories
<1> QED
  BY <1>1, <1>2

\* What a page stores: the tokens of its login, or the old refresh token.
LEMMA FinishDeviceBrings ==
    ASSUME TypeOK, NEW p \in Pollers, FinishDevice(p)
    PROVE  \E record \in RecordType :
             /\ pollers[p].at = "exchanged" /\ pollers[p].grant \in Grants
             /\ Save(provider, record)
             /\ record.refresh \in {provider.refresh, Token(pollers[p].grant, 0)}
             /\ Poller(p, "idle", 0)
             /\ UNCHANGED <<codex, watcher, page, requests, tokens, due, lost>>
<1>1. /\ pollers[p].at = "exchanged" /\ pollers[p].grant \in Grants
      /\ Poller(p, "idle", 0)
      /\ UNCHANGED <<codex, watcher, page, requests, tokens, due, lost>>
  BY DEF FinishDevice, TypeOK, PollerType
<1>2. PICK t \in Tokens : /\ t \in {provider.refresh, Token(pollers[p].grant, 0)}
                          /\ Save(provider, LoggedIn(t))
  BY <1>1, TokenTyped DEF FinishDevice, TypeOK, RecordType
<1>3. LoggedIn(t) \in RecordType /\ LoggedIn(t).refresh = t
  BY RecordTyped DEF LoggedIn
<1> QED
  BY <1>1, <1>2, <1>3

LEMMA FinishDeviceTyped == ASSUME TypeOK, NEW p \in Pollers, FinishDevice(p) PROVE TypeOK'
<1>1. PICK record \in RecordType :
          /\ Save(provider, record) /\ Poller(p, "idle", 0)
          /\ UNCHANGED <<codex, watcher, page, requests, tokens, due, lost>>
  BY FinishDeviceBrings
<1>2. pollers' \in [Pollers -> PollerType]
  BY <1>1, IdleTyped, PollerTyped
<1> QED
  BY <1>1, <1>2, SaveTyped DEF TypeOK, tokens

\* What a redirect stores, if anything.
LEMMA FinishCallbackBrings ==
    ASSUME TypeOK, FinishCallback
    PROVE  /\ grants + 1 \in Grants /\ grants' = grants + 1
           /\ provider' \in RecordType
           /\ provider'.refresh \in {provider.refresh, Token(grants + 1, 0)}
           /\ file' = provider' /\ events' = TRUE
           /\ restored' = (restored \/ provider # file)
           /\ UNCHANGED <<codex, watcher, page, requests, pollers, answers, good, due, lost>>
<1>1. grants + 1 \in Grants /\ grants' = grants + 1
  BY GrantsKnown DEF FinishCallback, TypeOK, Grants
<1>2. Token(grants + 1, 0) \in Tokens
  BY <1>1, TokenTyped
<1>3. PICK t \in {provider.refresh, Token(grants + 1, 0)},
           e \in {provider.expires, Token(grants + 1, 0)} :
          provider' = IF callback = "holding_old" THEN provider
                      ELSE Record(t, e, provider.reauth)
  BY DEF FinishCallback
<1>4. /\ provider \in RecordType /\ provider.refresh \in Tokens
      /\ provider.expires \in Tokens \cup {None} /\ provider.reauth \in BOOLEAN
  BY DEF TypeOK, RecordType
<1>5. /\ Record(t, e, provider.reauth) \in RecordType
      /\ Record(t, e, provider.reauth).refresh = t
  BY <1>2, <1>3, <1>4, RecordTyped
<1>6. provider' \in RecordType /\ provider'.refresh \in {provider.refresh, Token(grants + 1, 0)}
  BY <1>3, <1>4, <1>5
<1> QED
  BY <1>1, <1>6 DEF FinishCallback

LEMMA FinishCallbackTyped == TypeOK /\ FinishCallback => TypeOK'
BY FinishCallbackBrings DEF TypeOK

LEMMA FileTyped ==
    ASSUME TypeOK, OtherSave \/ RenderPage \/ SavePage \/ Load \/ Assign
    PROVE  TypeOK'
<1>1. CASE OtherSave
  BY <1>1, SaveTyped DEF OtherSave, TypeOK, tokens
<1>2. CASE RenderPage
  BY <1>2 DEF RenderPage, TypeOK, logins, tokens
<1>3. CASE SavePage
  BY <1>3, SaveTyped DEF SavePage, TypeOK, tokens
<1>4. CASE Load
  BY <1>4 DEF Load, TypeOK, logins, tokens, histories
<1>5. CASE Assign
  BY <1>5 DEF Assign, Replace, TypeOK, tokens, histories
<1> QED
  BY <1>1, <1>2, <1>3, <1>4, <1>5

LEMMA RestartTyped == TypeOK /\ Restart => TypeOK'
<1> SUFFICES ASSUME TypeOK, Restart PROVE TypeOK'
  OBVIOUS
<1>1. lost' \subseteq Grants
  BY RequestTyped DEF Restart, TypeOK, Tokens
<1>2. pollers' \in [Pollers -> PollerType]
  BY IdleTyped DEF Restart
<1> QED
  BY <1>1, <1>2 DEF Restart, TypeOK, tokens

LEMMA ComeDueTyped == TypeOK /\ ComeDue => TypeOK'
<1> SUFFICES ASSUME TypeOK, ComeDue PROVE TypeOK'
  OBVIOUS
<1>1. provider.expires \in Tokens \cup {None}
  BY DEF TypeOK, RecordType
<1>2. due' \subseteq Tokens
  BY <1>1, RequestTyped DEF ComeDue, TypeOK
<1> QED
  BY <1>2 DEF ComeDue, TypeOK, files, logins, tokens

LEMMA QuietTyped ==
    ASSUME TypeOK,
           \/ StartDevice \/ ForgetDevice \/ Redirect \/ ReceiveCode \/ CallbackFails
           \/ UNCHANGED vars
    PROVE  TypeOK'
BY DEF StartDevice, ForgetDevice, Redirect, ReceiveCode, CallbackFails, vars, TypeOK,
       files, logins, tokens, histories

LEMMA InitTyped == Init => TypeOK
<1> SUFFICES ASSUME Init PROVE TypeOK
  OBVIOUS
<1>1. Token(1, 0) \in Tokens
  BY GrantsKnown, TokenTyped
<1>2. provider \in RecordType
  BY <1>1, RecordTyped DEF Init
<1>3. pollers \in [Pollers -> PollerType]
  BY IdleTyped DEF Init
<1> QED
  BY <1>2, <1>3, GrantsKnown DEF Init, TypeOK

LEMMA StepTyped == TypeOK /\ [Next]_vars => TypeOK'
<1> SUFFICES ASSUME TypeOK, [Next]_vars PROVE TypeOK'
  OBVIOUS
<1>1. ASSUME NEW r \in Requests, Begin(r) \/ GoOn(r) \/ NoAnswer(r) \/ Unauthorized(r)
      PROVE  TypeOK'
  BY <1>1, BeginTyped, EnsureTokenTyped, ExchangeTyped, StoreTokensTyped, MarkingTyped,
     NoAnswerTyped, AnsweredTyped DEF GoOn
<1>2. ASSUME NEW p \in Pollers, Poll(p) \/ ExchangeCode(p) \/ PollEnds(p) \/ FinishDevice(p)
      PROVE  TypeOK'
  BY <1>2, PollTyped, FinishDeviceTyped
<1> QED
  BY <1>1, <1>2, QuietTyped, FinishCallbackTyped, FileTyped, RestartTyped, ComeDueTyped
     DEF Next

\* Whatever the requests, pages and logins do, the records, copies and dates keep
\* their types; in particular a record never loses its refresh token.
THEOREM TypesHold == Spec => []TypeOK
BY InitTyped, StepTyped, PTL DEF Spec

-----------------------------------------------------------------------------
(* Who may have which token *)

\* A token that is new to its holder but disturbs nothing that is known of others.
Fits(t) ==
    /\ Issued(t)
    /\ \A r \in Requests : Losing(r) => requests[r].token # t
    /\ \A p \in Pollers : pollers[p].at = "exchanged" => pollers[p].grant # t.grant

LEMMA HeldFits == ASSUME IInv, NEW t \in Tokens, Held(t) PROVE Fits(t)
<1>1. Issued(t)
  BY DEF IInv, Tracked
<1>2. \A r \in Requests : Losing(r) => requests[r].token # t
  BY DEF IInv, OnTheWay
<1>3. \A p \in Pollers : pollers[p].at = "exchanged" => pollers[p].grant # t.grant
  BY DEF IInv, Logins, Unseen
<1> QED
  BY <1>1, <1>2, <1>3 DEF Fits

\* Copies are passed on, at most one of them of a token that nobody had before.
LEMMA PassedOn ==
    ASSUME IInv, TypeOK', NEW u \in Tokens,
           answers' = answers, good' = good, grants <= grants',
           u.grant <= grants', u.serial <= answers[u.grant],
           \A t \in Tokens : Held(t)' => Held(t) \/ t = u,
           \A r \in Requests : Losing(r)' =>
               /\ Losing(r) /\ requests'[r].token = requests[r].token
               /\ requests[r].token # u,
           \A p \in Pollers : pollers'[p].at = "exchanged" =>
               pollers'[p] = pollers[p] /\ pollers[p].grant # u.grant
    PROVE  Tracked' /\ OnTheWay' /\ Logins'
<1>0. TypeOK /\ grants \in Nat /\ grants' \in Nat
  BY GrantsKnown DEF IInv, TypeOK
<1>1. \A t \in Tokens : Issued(t) => Issued(t)'
  <2> SUFFICES ASSUME NEW t \in Tokens, Issued(t) PROVE Issued(t)'
    OBVIOUS
  <2>1. t.grant \in Nat /\ t.grant <= grants /\ t.serial <= answers[t.grant]
    BY GrantsKnown DEF Tokens, Issued
  <2>2. t.grant <= grants'
    BY <1>0, <2>1
  <2> QED
    BY <2>1, <2>2 DEF Issued
<1>2. Issued(u)'
  BY DEF Issued
<1>3. Tracked'
  <2>1. \A t \in Tokens : Held(t)' => Issued(t)'
    BY <1>1, <1>2 DEF IInv, Tracked
  <2>2. \A r \in Requests : Losing(r)' => Issued(requests[r].token)'
    BY <1>0, <1>1, RequestTyped DEF IInv, Tracked, Issued
  <2>3. \A r \in Requests : Losing(r)' => Issued(requests[r].token)' /\ requests'[r].token = requests[r].token
    BY <2>2
  <2>4. \A g \in Grants : good'[g] <= answers'[g]
    BY DEF IInv, Tracked
  <2> QED
    BY <2>1, <2>3, <2>4 DEF Tracked, Issued
<1>4. OnTheWay'
  <2> SUFFICES ASSUME NEW r \in Requests, Losing(r)'
               PROVE  /\ Good(requests[r].token)' /\ ~Held(requests[r].token)'
                      /\ \A q \in Requests : q # r /\ Losing(q)' =>
                             requests'[q].token # requests'[r].token
    BY DEF OnTheWay
  <2>1. PICK t \in Tokens : t = requests[r].token /\ t = requests'[r].token /\ Losing(r)
    BY <1>0, RequestTyped
  <2>2. Good(t)' /\ t # u /\ ~Held(t)
    BY <2>1 DEF IInv, OnTheWay, Good
  <2>3. ~Held(t)'
    BY <2>2
  <2>4. \A q \in Requests : q # r /\ Losing(q)' => requests'[q].token # t
    BY <2>1 DEF IInv, OnTheWay
  <2> QED
    BY <2>1, <2>2, <2>3, <2>4 DEF Good
<1>5. Logins'
  <2>1. \A g \in Grants : g > grants' => answers'[g] = 0
    <3> SUFFICES ASSUME NEW g \in Grants, g > grants' PROVE answers'[g] = 0
      OBVIOUS
    <3>1. g > grants
      BY <1>0, GrantsKnown
    <3> QED
      BY <3>1 DEF IInv, Logins
  <2>2. ASSUME NEW p \in Pollers, pollers'[p].at = "exchanged"
        PROVE  /\ pollers'[p].grant <= grants'
               /\ Unseen(pollers[p].grant)'
               /\ \A q \in Pollers : q # p /\ pollers'[q].at = "exchanged" =>
                      pollers'[q].grant # pollers'[p].grant
    <3>1. PICK g \in Grants : g = pollers[p].grant
      BY <1>0, <2>2 DEF TypeOK, PollerType
    <3>2. pollers'[p] = pollers[p] /\ g # u.grant /\ g <= grants /\ Unseen(g)
      BY <2>2, <3>1 DEF IInv, Logins
    <3>3. g <= grants'
      BY <1>0, <3>2, GrantsKnown
    <3>4. Unseen(g)'
      BY <3>2 DEF Unseen
    <3>5. \A q \in Pollers : q # p /\ pollers'[q].at = "exchanged" => pollers'[q].grant # g
      BY <2>2, <3>1, <3>2 DEF IInv, Logins
    <3> QED
      BY <3>1, <3>2, <3>3, <3>4, <3>5
  <2> QED
    BY <2>1, <2>2 DEF Logins
<1> QED
  BY <1>3, <1>4, <1>5

\* No copy is passed on that nobody had.
LEMMA NothingNew ==
    ASSUME IInv, TypeOK', UNCHANGED tokens,
           \A t \in Tokens : Held(t)' => Held(t),
           \A r \in Requests : Losing(r)' =>
               Losing(r) /\ requests'[r].token = requests[r].token,
           \A p \in Pollers : pollers'[p].at = "exchanged" => pollers'[p] = pollers[p]
    PROVE  Tracked' /\ OnTheWay' /\ Logins'
<1>1. PICK u \in Tokens : u = provider.refresh
  BY DEF IInv, TypeOK, RecordType
<1>2. Held(u)
  BY <1>1 DEF Held
<1>3. Fits(u)
  BY <1>2, HeldFits
<1>4. answers' = answers /\ good' = good /\ grants' = grants /\ grants <= grants'
  BY GrantsKnown DEF tokens, IInv, TypeOK
<1> QED
  BY <1>3, <1>4, PassedOn DEF Fits, Issued

\* The file keeps its refresh token or is given a good one.
LEMMA FileStays ==
    ASSUME FileGood, good' = good, lost \subseteq lost', restored => restored',
           \/ Good(file.refresh)' \/ restored'
           \/ /\ file'.refresh = file.refresh
              /\ \A r \in Requests : Losing(r) =>
                     \/ requests[r].token.grant \in lost'
                     \/ Losing(r)' /\ requests'[r].token = requests[r].token
    PROVE  FileGood'
<1>1. CASE Good(file.refresh)' \/ restored'
  BY <1>1 DEF FileGood
<1>2. CASE /\ file'.refresh = file.refresh
           /\ \A r \in Requests : Losing(r) =>
                  \/ requests[r].token.grant \in lost'
                  \/ Losing(r)' /\ requests'[r].token = requests[r].token
  <2>1. CASE Good(file.refresh) \/ restored \/ file.refresh.grant \in lost
    BY <1>2, <2>1 DEF FileGood, Good, Succeeded
  <2>2. CASE \E r \in Requests : /\ Losing(r) /\ Good(requests[r].token)
                                 /\ requests[r].token.grant = file.refresh.grant
    <3>1. PICK r \in Requests : /\ Losing(r) /\ Good(requests[r].token)
                                /\ requests[r].token.grant = file.refresh.grant
      BY <2>2
    <3>2. CASE requests[r].token.grant \in lost'
      BY <1>2, <3>1, <3>2 DEF FileGood, Succeeded
    <3>3. CASE Losing(r)' /\ requests'[r].token = requests[r].token
      BY <1>2, <3>1, <3>3 DEF FileGood, Succeeded, Good
    <3> QED
      BY <1>2, <3>1, <3>2, <3>3
  <2> QED
    BY <2>1, <2>2 DEF FileGood, Succeeded
<1> QED
  BY <1>1, <1>2

\* A save of what the memory held, or of a page, is a save of the file's record or
\* counts as one of an older one.
LEMMA SavedOrOlder ==
    ASSUME TypeOK, NEW base, NEW record \in RecordType, Save(base, record),
           record.refresh = base.refresh
    PROVE  file'.refresh = file.refresh \/ restored'
BY SaveTyped

-----------------------------------------------------------------------------
(* Kinds of steps *)

\* A request moves, with a copy of something that is held or with none.
LEMMA RequestStep ==
    ASSUME IInv, TypeOK', NEW r \in Requests, NEW x \in RequestType \cup {None}, Goes(r, x),
           x # None => \/ x.at = "sending"
                       \/ x.at \in {"copied", "renewing"} /\ Held(x.token),
           UNCHANGED <<provider, files, pollers, tokens, restored>>,
           lost \subseteq lost',
           Losing(r) => requests[r].token.grant \in lost'
    PROVE  IInv'
<1>0. TypeOK
  BY DEF IInv
<1>1. /\ requests'[r] = x
      /\ \A q \in Requests : q # r => requests'[q] = requests[q]
  BY <1>0, GoesTyped
<1>2. \A q \in Requests : Losing(q)' => q # r /\ Losing(q) /\ requests'[q].token = requests[q].token
  BY <1>1 DEF Losing, At
<1>3. \A t \in Tokens : Held(t)' => Held(t)
  BY <1>1 DEF Held, At, files
<1>4. Tracked' /\ OnTheWay' /\ Logins'
  BY <1>2, <1>3, NothingNew
<1>5. Settling'
  BY DEF IInv, Settling, files
<1>6. \A q \in Requests : Losing(q) => \/ requests[q].token.grant \in lost'
                                       \/ Losing(q)' /\ requests'[q].token = requests[q].token
  BY <1>1 DEF Losing, At
<1>7. FileGood'
  BY <1>6, FileStays DEF IInv, files, tokens
<1> QED
  BY <1>4, <1>5, <1>7 DEF IInv

\* Something held is saved; no request holds anything new, none loses its token.
LEMMA SaveStep ==
    ASSUME IInv, TypeOK', NEW base, NEW record \in RecordType, Save(base, record),
           record.refresh = base.refresh, Held(record.refresh),
           UNCHANGED <<watcher, tokens, lost>>, page' \in {page, None},
           \A q \in Requests : (At(q, "copied") \/ At(q, "renewing"))' =>
               (At(q, "copied") \/ At(q, "renewing")) /\ requests'[q] = requests[q],
           \A q \in Requests : Losing(q)' => Losing(q) /\ requests'[q] = requests[q],
           \A q \in Requests : Losing(q) => Losing(q)' /\ requests'[q] = requests[q],
           \A p \in Pollers : pollers'[p].at = "exchanged" => pollers'[p] = pollers[p]
    PROVE  IInv'
<1>0. TypeOK
  BY DEF IInv
<1>1. /\ provider' = record /\ file' = record /\ events' = TRUE
      /\ restored => restored'
      /\ file'.refresh = file.refresh \/ restored'
  BY <1>0, SaveTyped, SavedOrOlder
<1>2. \A t \in Tokens : Held(t)' => Held(t)
  BY <1>1 DEF Held
<1>3. Tracked' /\ OnTheWay' /\ Logins'
  BY <1>2, NothingNew
<1>4. Settling'
  BY <1>1 DEF Settling
<1>5. FileGood'
  BY <1>1, FileStays DEF IInv, tokens
<1> QED
  BY <1>3, <1>4, <1>5 DEF IInv

\* A request that goes on to ask the provider, or that ends, holds nothing.
LEMMA LetGo ==
    ASSUME TypeOK, NEW r \in Requests, NEW x \in RequestType \cup {None}, Goes(r, x),
           x # None => x.at = "sending"
    PROVE  /\ \A q \in Requests : (At(q, "copied") \/ At(q, "renewing"))' =>
                  (At(q, "copied") \/ At(q, "renewing")) /\ requests'[q] = requests[q]
           /\ \A q \in Requests : Losing(q)' => q # r /\ Losing(q) /\ requests'[q] = requests[q]
           /\ \A q \in Requests : q # r /\ Losing(q) => Losing(q)' /\ requests'[q] = requests[q]
<1>1. /\ requests'[r] = x
      /\ \A q \in Requests : q # r => requests'[q] = requests[q]
  BY GoesTyped
<1> QED
  BY <1>1 DEF Losing, At

LEMMA RecordsHeld ==
    /\ Held(provider.refresh) /\ Held(file.refresh)
    /\ page # None => Held(page.refresh)
    /\ \A r \in Requests : At(r, "copied") \/ At(r, "renewing") => Held(requests[r].token)
BY DEF Held

-----------------------------------------------------------------------------
(* The steps *)

LEMMA BeginKeeps == ASSUME IInv, TypeOK', NEW r \in Requests, Begin(r) PROVE IInv'
<1>0. TypeOK
  BY DEF IInv
<1>1. PICK t \in Tokens, e \in Tokens \cup {None} : t = provider.refresh /\ e = provider.expires
  BY <1>0 DEF TypeOK, RecordType
<1>2. PICK x : Goes(r, x) /\ x \in {Request("copied", t, e), Ensure(r, t, e)}
  BY <1>1 DEF Begin
<1>3. /\ x \in RequestType \cup {None}
      /\ x # None => \/ x.at = "sending"
                     \/ x.at \in {"copied", "renewing"} /\ x.token = t
  BY <1>2, EnsureTyped DEF Request, RequestType
<1>4. Held(t) /\ ~Losing(r)
  BY <1>1, RecordsHeld DEF Begin, Losing, At
<1> QED
  BY <1>2, <1>3, <1>4, RequestStep DEF Begin, logins, histories

LEMMA EnsureTokenKeeps == ASSUME IInv, TypeOK', NEW r \in Requests, EnsureToken(r) PROVE IInv'
<1>0. TypeOK
  BY DEF IInv
<1>1. PICK t \in Tokens, e \in {requests[r].expires} : t = requests[r].token
  BY <1>0, RequestTyped DEF EnsureToken
<1>2. PICK x : x = Ensure(r, t, e)
  OBVIOUS
<1>3. /\ x \in RequestType \cup {None}
      /\ x # None => \/ x.at = "sending"
                     \/ x.at = "renewing" /\ x.token = t
  BY <1>2, EnsureTyped
<1>4. Goes(r, x)
  BY <1>1, <1>2 DEF EnsureToken
<1>5. Held(t) /\ ~Losing(r)
  BY <1>1, RecordsHeld DEF EnsureToken, Losing, At
<1> QED
  BY <1>3, <1>4, <1>5, RequestStep DEF EnsureToken, logins, histories

LEMMA EndsKeep ==
    ASSUME IInv, TypeOK', NEW r \in Requests, NoAnswer(r) \/ Answered(r)
    PROVE  IInv'
<1>0. TypeOK
  BY DEF IInv
<1>1. PICK x \in RequestType \cup {None} : Goes(r, x) /\ (x # None => x.at = "sending")
  BY <1>0, FailTyped DEF NoAnswer, Answered
<1>2. /\ UNCHANGED <<provider, files, pollers, tokens, restored>>
      /\ lost \subseteq lost'
      /\ Losing(r) => requests[r].token.grant \in lost'
  BY DEF NoAnswer, Answered, Losing, At, logins, histories
<1> QED
  BY <1>1, <1>2, RequestStep

LEMMA MarkingKeeps ==
    ASSUME IInv, TypeOK', NEW r \in Requests, RenewalRefused(r) \/ Unauthorized(r)
    PROVE  IInv'
<1>0. TypeOK
  BY DEF IInv
<1>1. PICK x \in RequestType \cup {None} : Goes(r, x) /\ (x # None => x.at = "sending")
  BY <1>0, FailTyped DEF RenewalRefused, Unauthorized
<1>2. ~Losing(r)
  BY DEF RenewalRefused, Unauthorized, Losing, At
<1>3. PICK record \in RecordType : Save(provider, record) /\ record.refresh = provider.refresh
  BY <1>0, MarkTyped DEF RenewalRefused, Unauthorized, Mark
<1>4. Held(record.refresh)
  BY <1>3, RecordsHeld
<1>5. UNCHANGED <<watcher, page, pollers, tokens, lost>>
  BY DEF RenewalRefused, Unauthorized
<1> QED
  BY <1>0, <1>1, <1>2, <1>3, <1>4, <1>5, LetGo, SaveStep

LEMMA OtherSavesKeep == ASSUME IInv, TypeOK', OtherSave \/ SavePage PROVE IInv'
<1>0. TypeOK
  BY DEF IInv
<1>1. PICK record \in RecordType : Save(record, record) /\ Held(record.refresh)
  BY <1>0, RecordsHeld DEF OtherSave, SavePage, TypeOK
<1>2. UNCHANGED <<watcher, requests, pollers, tokens, lost>> /\ page' \in {page, None}
  BY DEF OtherSave, SavePage
<1>3. /\ \A q \in Requests : (At(q, "copied") \/ At(q, "renewing"))' =>
             (At(q, "copied") \/ At(q, "renewing")) /\ requests'[q] = requests[q]
      /\ \A q \in Requests : Losing(q)' <=> Losing(q)
  BY <1>2 DEF Losing, At
<1> QED
  BY <1>1, <1>2, <1>3, SaveStep

\* The token that a request stores was with nobody else.
LEMMA StoreTokensKeeps == ASSUME IInv, TypeOK', NEW r \in Requests, StoreTokens(r) PROVE IInv'
<1>0. TypeOK
  BY DEF IInv
<1>1. PICK record \in RecordType :
          /\ At(r, "renewed")
          /\ Save(provider, record)
          /\ record.refresh = IF requests[r].token = None THEN provider.refresh
                              ELSE requests[r].token
          /\ Goes(r, Sending(r))
          /\ UNCHANGED <<codex, watcher, page, pollers, tokens, due, lost>>
  BY <1>0, StoreTokensBrings
<1>2. PICK x \in RequestType \cup {None} : Goes(r, x) /\ (x # None => x.at = "sending")
  BY <1>1, SendingTyped
<1>3. /\ \A q \in Requests : (At(q, "copied") \/ At(q, "renewing"))' =>
             (At(q, "copied") \/ At(q, "renewing")) /\ requests'[q] = requests[q]
      /\ \A q \in Requests : Losing(q)' => q # r /\ Losing(q) /\ requests'[q] = requests[q]
      /\ \A q \in Requests : q # r /\ Losing(q) => Losing(q)' /\ requests'[q] = requests[q]
  BY <1>0, <1>2, LetGo
<1>4. CASE requests[r].token = None
  <2>1. ~Losing(r) /\ record.refresh = provider.refresh
    BY <1>1, <1>4 DEF Losing
  <2>2. Held(record.refresh)
    BY <2>1, RecordsHeld
  <2> QED
    BY <1>1, <1>3, <2>1, <2>2, SaveStep
<1>5. CASE requests[r].token # None
  <2>1. PICK u \in Tokens : Losing(r) /\ u = requests[r].token
    BY <1>0, <1>1, <1>5, RequestTyped DEF Losing
  <2>2. /\ provider' = record /\ file' = record /\ record.refresh = u /\ events' = TRUE
        /\ restored => restored'
    BY <1>0, <1>1, <1>5, <2>1, SaveTyped
  <2>3. \A t \in Tokens : Held(t)' => Held(t) \/ t = u
    BY <1>1, <1>3, <2>2 DEF Held
  <2>4. Good(u) /\ \A q \in Requests : q # r /\ Losing(q) => requests[q].token # u
    BY <2>1 DEF IInv, OnTheWay
  <2>5. u.grant <= grants /\ u.serial <= answers[u.grant]
    BY <2>1 DEF IInv, Tracked, Issued
  <2>6. \A p \in Pollers : pollers[p].at = "exchanged" => pollers[p].grant # u.grant
    BY <2>1 DEF IInv, Logins, Unseen
  <2>7. grants' = grants /\ grants <= grants' /\ answers' = answers /\ good' = good
    BY <1>0, <1>1, GrantsKnown DEF tokens, TypeOK
  <2>8. Tracked' /\ OnTheWay' /\ Logins'
    BY <1>1, <1>3, <2>3, <2>4, <2>5, <2>6, <2>7, PassedOn
  <2>9. Settling' /\ FileGood'
    BY <2>2, <2>4, <2>7 DEF Settling, FileGood, Good
  <2> QED
    BY <2>8, <2>9 DEF IInv
<1> QED
  BY <1>4, <1>5

\* Nothing of the login that a page stores was seen before.
LEMMA FinishDeviceKeeps == ASSUME IInv, TypeOK', NEW p \in Pollers, FinishDevice(p) PROVE IInv'
<1>0. TypeOK
  BY DEF IInv
<1>1. PICK record \in RecordType :
          /\ pollers[p].at = "exchanged" /\ pollers[p].grant \in Grants
          /\ Save(provider, record)
          /\ record.refresh \in {provider.refresh, Token(pollers[p].grant, 0)}
          /\ Poller(p, "idle", 0)
          /\ UNCHANGED <<codex, watcher, page, requests, tokens, due, lost>>
  BY <1>0, FinishDeviceBrings
<1>2. \A q \in Pollers : pollers'[q].at = "exchanged" => q # p /\ pollers'[q] = pollers[q]
  BY <1>0, <1>1, IdleTyped, PollerTyped
<1>3. /\ \A q \in Requests : (At(q, "copied") \/ At(q, "renewing"))' =>
             (At(q, "copied") \/ At(q, "renewing")) /\ requests'[q] = requests[q]
      /\ \A q \in Requests : Losing(q)' <=> Losing(q)
  BY <1>1 DEF Losing, At
<1>4. CASE record.refresh = provider.refresh
  <2>1. Held(record.refresh)
    BY <1>4, RecordsHeld
  <2> QED
    BY <1>1, <1>2, <1>3, <1>4, <2>1, SaveStep
<1>5. CASE record.refresh = Token(pollers[p].grant, 0)
  <2>1. PICK g \in Grants : g = pollers[p].grant
    BY <1>1
  <2>2. PICK u \in Tokens : u = record.refresh /\ u.grant = g /\ u.serial = 0
    BY <1>5, <2>1, TokenTyped
  <2>3. g <= grants /\ Unseen(g) /\ \A q \in Pollers : q # p /\ pollers[q].at = "exchanged" =>
                                        pollers[q].grant # g
    BY <1>1, <2>1 DEF IInv, Logins
  <2>4. Good(u)
    BY <1>0, <2>2, <2>3 DEF IInv, TypeOK, Tracked, Unseen, Good
  <2>5. u.grant <= grants /\ u.serial <= answers[u.grant]
    BY <2>2, <2>3 DEF Unseen
  <2>6. \A r \in Requests : Losing(r) => requests[r].token # u
    BY <2>2, <2>3 DEF Unseen
  <2>7. provider' = record /\ file' = record /\ events' = TRUE
    BY <1>0, <1>1, SaveTyped
  <2>8. \A t \in Tokens : Held(t)' => Held(t) \/ t = u
    BY <1>1, <1>3, <2>2, <2>7 DEF Held
  <2>9. grants' = grants /\ grants <= grants' /\ answers' = answers /\ good' = good
    BY <1>0, <1>1, GrantsKnown DEF tokens, TypeOK
  <2>10. Tracked' /\ OnTheWay' /\ Logins'
    BY <1>1, <1>2, <1>3, <2>2, <2>3, <2>5, <2>6, <2>8, <2>9, PassedOn
  <2>11. Settling' /\ FileGood'
    BY <2>2, <2>4, <2>7, <2>9 DEF Settling, FileGood, Good
  <2> QED
    BY <2>10, <2>11 DEF IInv
<1> QED
  BY <1>1, <1>4, <1>5

LEMMA FinishCallbackKeeps == ASSUME IInv, TypeOK', FinishCallback PROVE IInv'
<1>0. TypeOK
  BY DEF IInv
<1>1. PICK u \in Tokens : u = Token(grants + 1, 0) /\ u.grant = grants + 1 /\ u.serial = 0
  BY <1>0, FinishCallbackBrings, TokenTyped
<1>2. /\ grants + 1 \in Grants /\ grants' = grants + 1
      /\ provider'.refresh \in {provider.refresh, u}
      /\ file' = provider' /\ events' = TRUE
      /\ restored' = (restored \/ provider # file)
      /\ UNCHANGED <<watcher, page, requests, pollers, answers, good, lost>>
  BY <1>0, <1>1, FinishCallbackBrings
<1>3. grants \in Nat /\ grants' \in Nat /\ grants <= grants' /\ grants + 1 > grants
  BY <1>0, <1>2, GrantsKnown DEF TypeOK
<1>4. answers[grants + 1] = 0
  BY <1>2, <1>3 DEF IInv, Logins
<1>5. \A t \in Tokens : Held(t)' => Held(t) \/ t = u
  BY <1>2 DEF Held, At
<1>6. \A r \in Requests : Losing(r)' => /\ Losing(r) /\ requests'[r].token = requests[r].token
                                        /\ requests[r].token # u
  <2> SUFFICES ASSUME NEW r \in Requests, Losing(r) PROVE requests[r].token # u
    BY <1>2 DEF Losing, At
  <2>1. requests[r].token.grant <= grants
    BY DEF IInv, Tracked, Issued
  <2> QED
    BY <1>1, <1>3, <2>1
<1>7. \A p \in Pollers : pollers'[p].at = "exchanged" =>
          pollers'[p] = pollers[p] /\ pollers[p].grant # u.grant
  <2> SUFFICES ASSUME NEW p \in Pollers, pollers[p].at = "exchanged"
               PROVE  pollers[p].grant # u.grant
    BY <1>2
  <2>1. pollers[p].grant <= grants
    BY DEF IInv, Logins
  <2> QED
    BY <1>1, <1>3, <2>1
<1>8. u.grant <= grants' /\ u.serial <= answers[u.grant]
  BY <1>1, <1>2, <1>3, <1>4
<1>9. Tracked' /\ OnTheWay' /\ Logins'
  BY <1>2, <1>3, <1>5, <1>6, <1>7, <1>8, PassedOn
<1>10. Settling'
  BY <1>2 DEF Settling
<1>11. FileGood'
  <2>1. CASE provider'.refresh = u
    <3>1. Good(u)
      BY <1>0, <1>1, <1>2, <1>4 DEF IInv, TypeOK, Tracked, Good
    <3> QED
      BY <1>2, <2>1, <3>1 DEF FileGood, Good
  <2>2. CASE provider'.refresh = provider.refresh
    <3>1. file'.refresh = file.refresh \/ restored'
      BY <1>2, <2>2
    <3>2. \A r \in Requests : Losing(r) => Losing(r)' /\ requests'[r].token = requests[r].token
      BY <1>2 DEF Losing, At
    <3> QED
      BY <1>2, <3>1, <3>2, FileStays DEF IInv
  <2> QED
    BY <1>2, <2>1, <2>2
<1> QED
  BY <1>9, <1>10, <1>11 DEF IInv

\* The refresh token that is exchanged was held and good, so that no other one of
\* its login can be on its way.
LEMMA ExchangeKeeps == ASSUME IInv, TypeOK', NEW r \in Requests, Exchange(r) PROVE IInv'
<1>0. TypeOK
  BY DEF IInv
<1>1. PICK g \in Grants, n \in Nat, x \in RequestType :
          /\ At(r, "renewing") /\ Good(requests[r].token)
          /\ requests[r].token \in Tokens /\ requests[r].token.grant = g
          /\ n = answers[g] + 1
          /\ answers' = [answers EXCEPT ![g] = n]
          /\ Goes(r, x) /\ x.at = "renewed" /\ x.token \in {Token(g, n), None}
          /\ good' = IF x.token = None THEN good ELSE [good EXCEPT ![g] = n]
          /\ UNCHANGED <<codex, provider, files, logins, grants, due, lost, restored>>
  BY <1>0, ExchangeBrings
<1>2. PICK o \in Tokens : /\ o = requests[r].token /\ o.grant = g /\ o.serial = good[g]
                          /\ Held(o) /\ Issued(o)
  BY <1>1, RecordsHeld DEF Good, IInv, Tracked
<1>3. PICK t \in Tokens : t = Token(g, n) /\ t.grant = g /\ t.serial = n
  BY TokenTyped
<1>4. /\ requests'[r] = x /\ x # None
      /\ \A q \in Requests : q # r => requests'[q] = requests[q]
  BY <1>0, <1>1, GoesTyped, NoneIsNoRecord
<1>5. /\ answers \in [Grants -> Nat] /\ good \in [Grants -> Nat] /\ g \in Nat
      /\ g <= grants /\ grants \in Nat
      /\ answers'[g] = n /\ answers[g] < n /\ answers[g] \in Nat
      /\ \A h \in Grants : h # g => answers'[h] = answers[h] /\ good'[h] = good[h]
      /\ \A h \in Grants : answers[h] <= answers'[h]
  <2>1. answers \in [Grants -> Nat] /\ good \in [Grants -> Nat] /\ grants \in Nat /\ g \in Nat
    BY <1>0, GrantsKnown DEF TypeOK
  <2>2. g <= grants
    BY <1>2 DEF Issued
  <2>3. \A h \in Grants : h # g => answers'[h] = answers[h] /\ good'[h] = good[h]
    BY <1>1, <2>1
  <2>4. answers'[g] = n /\ answers[g] < n /\ answers[g] \in Nat /\ answers[g] <= n
    BY <1>1, <2>1
  <2>5. \A h \in Grants : answers[h] <= answers[h]
    BY <2>1
  <2>6. \A h \in Grants : answers[h] <= answers'[h]
    BY <2>3, <2>4, <2>5
  <2> QED
    BY <2>1, <2>2, <2>3, <2>4, <2>6
<1>6. \A s \in Tokens : Held(s)' => Held(s)
  BY <1>1, <1>4 DEF Held, At, files
<1>7. \A q \in Requests : q # r => (Losing(q)' <=> Losing(q)) /\ requests'[q].token = requests[q].token
  BY <1>4 DEF Losing, At
<1>8. Losing(r)' => /\ requests'[r].token = t /\ good'[g] = n
  BY <1>0, <1>1, <1>3, <1>4 DEF Losing, TypeOK
<1>9. ~Losing(r)
  BY <1>1 DEF Losing, At
<1>10. \A q \in Requests : Losing(q) => /\ requests[q].token \in Tokens
                                        /\ requests[q].token.grant # g
  <2> SUFFICES ASSUME NEW q \in Requests, Losing(q), requests[q].token.grant = g PROVE FALSE
    BY <1>0, RequestTyped
  <2>1. PICK w \in Tokens : w = requests[q].token /\ Good(w) /\ ~Held(w)
    BY <1>0, RequestTyped DEF IInv, OnTheWay
  <2>2. w = o
    BY <1>2, <2>1, TokenIsItsParts DEF Good
  <2> QED
    BY <1>2, <2>1, <2>2
<1>11. \A s \in Tokens : Issued(s) => Issued(s)'
  <2> SUFFICES ASSUME NEW s \in Tokens, Issued(s) PROVE Issued(s)'
    OBVIOUS
  <2>1. s.grant \in Grants /\ s.serial \in Nat /\ s.grant <= grants /\ s.serial <= answers[s.grant]
    BY DEF Tokens, Issued
  <2>2. s.serial <= answers'[s.grant]
    <3>1. PICK a \in Nat, b \in Nat, c \in Nat :
              a = answers[s.grant] /\ b = answers'[s.grant] /\ c = s.serial
      BY <1>5, <2>1 DEF TypeOK
    <3>2. c <= a /\ a <= b
      BY <1>5, <2>1, <3>1
    <3> QED
      BY <3>1, <3>2
  <2> QED
    BY <1>1, <2>1, <2>2 DEF Issued
<1>12. ~Held(t)
  BY <1>3, <1>5 DEF IInv, Tracked, Issued
<1>13. Tracked'
  <2>1. \A h \in Grants : good'[h] <= answers'[h]
    <3> SUFFICES ASSUME NEW h \in Grants PROVE good'[h] <= answers'[h]
      OBVIOUS
    <3>1. good[h] <= answers[h]
      BY DEF IInv, Tracked
    <3>2. CASE h # g
      BY <1>5, <3>1, <3>2
    <3>3. CASE h = g
      <4>1. PICK a \in Nat, b \in Nat : a = good[g] /\ b = answers[g]
        BY <1>5
      <4>2. good'[g] \in {a, n}
        BY <1>1, <1>5, <4>1
      <4> QED
        BY <1>5, <3>1, <3>3, <4>1, <4>2
    <3> QED
      BY <3>2, <3>3
  <2>2. \A s \in Tokens : Held(s)' => Issued(s)'
    BY <1>6, <1>11 DEF IInv, Tracked
  <2>3. ASSUME NEW q \in Requests, Losing(q)' PROVE Issued(requests[q].token)'
    <3>1. CASE q = r
      BY <1>1, <1>3, <1>5, <1>8, <2>3, <3>1 DEF Issued
    <3>2. CASE q # r
      <4>1. PICK w \in Tokens : w = requests[q].token /\ w = requests'[q].token /\ Issued(w)
        BY <1>7, <1>10, <2>3, <3>2 DEF IInv, Tracked
      <4>2. Issued(w)'
        BY <1>11, <4>1
      <4> QED
        BY <4>1, <4>2 DEF Issued
    <3> QED
      BY <3>1, <3>2
  <2> QED
    BY <2>1, <2>2, <2>3 DEF Tracked
<1>14. OnTheWay'
  <2> SUFFICES ASSUME NEW q \in Requests, Losing(q)'
               PROVE  /\ Good(requests[q].token)' /\ ~Held(requests[q].token)'
                      /\ \A p \in Requests : p # q /\ Losing(p)' =>
                             requests'[p].token # requests'[q].token
    BY DEF OnTheWay
  <2>1. CASE q = r
    <3>1. requests'[q].token = t /\ Good(t)' /\ ~Held(t)'
      BY <1>3, <1>6, <1>8, <1>12, <2>1 DEF Good
    <3>2. \A p \in Requests : p # q /\ Losing(p)' => requests'[p].token # t
      BY <1>3, <1>7, <1>10, <2>1
    <3>3. Good(requests[q].token)' /\ ~Held(requests[q].token)'
      BY <3>1 DEF Good
    <3> QED
      BY <3>1, <3>2, <3>3
  <2>2. CASE q # r
    <3>1. PICK w \in Tokens : /\ w = requests[q].token /\ w = requests'[q].token /\ Losing(q)
                              /\ w.grant # g /\ w.grant \in Grants
      BY <1>7, <1>10, <2>2 DEF Tokens
    <3>2. Good(w) /\ ~Held(w)
      BY <3>1 DEF IInv, OnTheWay
    <3>3. Good(w)' /\ ~Held(w)'
      BY <1>5, <1>6, <3>1, <3>2 DEF Good
    <3>4. \A p \in Requests : p # q /\ Losing(p)' => requests'[p].token # w
      <4> SUFFICES ASSUME NEW p \in Requests, p # q, Losing(p)' PROVE requests'[p].token # w
        OBVIOUS
      <4>1. CASE p = r
        BY <1>3, <1>8, <3>1, <4>1
      <4>2. CASE p # r
        BY <1>7, <3>1, <4>2 DEF IInv, OnTheWay
      <4> QED
        BY <4>1, <4>2
    <3> QED
      BY <3>1, <3>3, <3>4 DEF Good
  <2> QED
    BY <2>1, <2>2
<1>15. Logins'
  <2>1. \A h \in Grants : h > grants' => answers'[h] = 0
    <3> SUFFICES ASSUME NEW h \in Grants, h > grants PROVE answers'[h] = 0
      BY <1>1
    <3>1. h # g
      BY <1>5, GrantsKnown
    <3> QED
      BY <1>5, <3>1 DEF IInv, Logins
  <2>2. UNCHANGED pollers
    BY <1>1 DEF logins
  <2>3. ASSUME NEW p \in Pollers, pollers[p].at = "exchanged" PROVE Unseen(pollers[p].grant)'
    <3>1. PICK h \in Grants : h = pollers[p].grant
      BY <1>0, <2>3 DEF TypeOK, PollerType
    <3>2. Unseen(h) /\ h # g
      BY <1>2, <2>3, <3>1 DEF IInv, Logins, Unseen
    <3>3. \A q \in Requests : Losing(q)' => requests'[q].token.grant # h
      BY <1>3, <1>7, <1>8, <3>2 DEF Unseen
    <3>4. Unseen(h)'
      BY <1>5, <1>6, <3>2, <3>3 DEF Unseen
    <3> QED
      BY <2>2, <3>1, <3>4
  <2> QED
    BY <1>1, <2>1, <2>2, <2>3 DEF IInv, Logins
<1>16. Settling'
  BY <1>1 DEF IInv, Settling, files
<1>17. FileGood'
  <2>0. PICK f \in Tokens : /\ f = file.refresh /\ f = file'.refresh /\ f.grant \in Grants
                            /\ lost' = lost /\ restored' = restored
    BY <1>0, <1>1 DEF TypeOK, RecordType, Tokens, files
  <2>1. CASE restored \/ f.grant \in lost
    BY <2>0, <2>1 DEF FileGood, Succeeded
  <2>2. CASE Good(f)
    <3>1. CASE f.grant # g
      BY <1>5, <2>0, <2>2, <3>1 DEF FileGood, Good
    <3>2. CASE f.grant = g /\ x.token = None
      BY <1>1, <2>0, <2>2, <3>2 DEF FileGood, Good
    <3>3. CASE f.grant = g /\ x.token # None
      <4>1. Losing(r)'
        BY <1>1, <1>4, <3>3 DEF Losing, At
      <4>2. Good(requests[r].token)' /\ requests'[r].token.grant = g
        BY <1>3, <1>8, <4>1 DEF Good
      <4> QED
        BY <2>0, <3>3, <4>1, <4>2 DEF FileGood, Succeeded
    <3> QED
      BY <3>1, <3>2, <3>3
  <2>3. CASE \E q \in Requests : Losing(q) /\ Good(requests[q].token)
                                 /\ requests[q].token.grant = f.grant
    <3>1. PICK q \in Requests : Losing(q) /\ Good(requests[q].token)
                                /\ requests[q].token.grant = f.grant
      BY <2>3
    <3>2. PICK w \in Tokens : /\ w = requests[q].token /\ w = requests'[q].token
                              /\ w.grant # g /\ w.grant \in Grants /\ Losing(q)'
      BY <1>7, <1>9, <1>10, <3>1 DEF Tokens
    <3>3. Good(w)'
      BY <1>5, <3>1, <3>2 DEF Good
    <3>4. Good(requests[q].token)' /\ requests'[q].token.grant = file'.refresh.grant
      BY <2>0, <3>1, <3>2, <3>3 DEF Good
    <3> QED
      BY <3>2, <3>4 DEF FileGood, Succeeded
  <2> QED
    BY <2>0, <2>1, <2>2, <2>3 DEF IInv, FileGood, Succeeded
<1> QED
  BY <1>13, <1>14, <1>15, <1>16, <1>17 DEF IInv

\* A new login is one that nothing has been seen of.
LEMMA ExchangeCodeKeeps == ASSUME IInv, TypeOK', NEW p \in Pollers, ExchangeCode(p) PROVE IInv'
<1>0. TypeOK
  BY DEF IInv
<1>1. PICK g \in Grants : /\ g = grants + 1 /\ grants' = g /\ grants \in Nat /\ g \in Nat
                          /\ Poller(p, "exchanged", g)
                          /\ UNCHANGED <<provider, files, requests, answers, good, histories>>
  BY <1>0, GrantsKnown DEF ExchangeCode, TypeOK, Grants
<1>2. [at |-> "exchanged", grant |-> g] \in PollerType
  BY DEF PollerType
<1>3. /\ pollers'[p].at = "exchanged" /\ pollers'[p].grant = g
      /\ \A q \in Pollers : q # p => pollers'[q] = pollers[q]
  BY <1>0, <1>1, <1>2, PollerTyped
<1>4. /\ \A t \in Tokens : Held(t)' <=> Held(t)
      /\ \A q \in Requests : Losing(q)' <=> Losing(q)
  BY <1>1 DEF Held, Losing, At, files
<1>5. \A t \in Tokens : Issued(t) => Issued(t)' /\ t.grant # g
  <2> SUFFICES ASSUME NEW t \in Tokens, Issued(t) PROVE Issued(t)' /\ t.grant # g
    OBVIOUS
  <2>1. t.grant \in Nat /\ t.grant <= grants
    BY GrantsKnown DEF Tokens, Issued
  <2>2. t.grant <= grants' /\ t.grant # g
    BY <1>1, <2>1
  <2> QED
    BY <1>1, <2>2 DEF Issued
<1>6. \A q \in Requests : Losing(q) => requests[q].token \in Tokens /\ Issued(requests[q].token)
  BY <1>0, RequestTyped DEF IInv, Tracked
<1>7. Tracked'
  <2>1. \A q \in Requests : Losing(q)' => Issued(requests[q].token)'
    BY <1>1, <1>4, <1>5, <1>6 DEF Issued
  <2>2. \A t \in Tokens : Held(t)' => Issued(t)'
    BY <1>4, <1>5 DEF IInv, Tracked
  <2>3. \A h \in Grants : good'[h] <= answers'[h]
    BY <1>1 DEF IInv, Tracked
  <2> QED
    BY <2>1, <2>2, <2>3 DEF Tracked
<1>8. OnTheWay'
  BY <1>1, <1>4, <1>6 DEF IInv, OnTheWay, Good
<1>9. Logins'
  <2>1. \A h \in Grants : h > grants' => answers'[h] = 0
    <3> SUFFICES ASSUME NEW h \in Grants, h > g PROVE answers[h] = 0
      BY <1>1
    <3>1. h > grants
      BY <1>1, GrantsKnown
    <3> QED
      BY <3>1 DEF IInv, Logins
  <2>2. Unseen(g)'
    <3>1. answers'[g] = 0
      BY <1>1 DEF IInv, Logins
    <3>2. \A t \in Tokens : Held(t)' => t.grant # g
      BY <1>4, <1>5 DEF IInv, Tracked
    <3>3. \A q \in Requests : Losing(q)' => requests'[q].token.grant # g
      BY <1>1, <1>4, <1>5, <1>6
    <3> QED
      BY <3>1, <3>2, <3>3 DEF Unseen
  <2>3. ASSUME NEW q \in Pollers, q # p, pollers[q].at = "exchanged"
        PROVE  pollers[q].grant <= g /\ pollers[q].grant # g /\ Unseen(pollers[q].grant)'
    <3>1. PICK h \in Grants : h = pollers[q].grant /\ h \in Nat
      BY <1>0, <2>3, GrantsKnown DEF TypeOK, PollerType
    <3>2. h <= grants /\ Unseen(h)
      BY <2>3, <3>1 DEF IInv, Logins
    <3>3. h <= g /\ h # g
      BY <1>1, <3>1, <3>2
    <3>4. Unseen(h)'
      BY <1>1, <1>4, <3>2 DEF Unseen
    <3>5. pollers[q].grant <= g /\ pollers[q].grant # g
      BY <3>1, <3>3
    <3> QED
      BY <1>3, <2>3, <3>1, <3>4, <3>5 DEF Unseen
  <2>4. ASSUME NEW q \in Pollers, pollers'[q].at = "exchanged"
        PROVE  /\ pollers'[q].grant <= grants'
               /\ Unseen(pollers[q].grant)'
               /\ \A s \in Pollers : s # q /\ pollers'[s].at = "exchanged" =>
                      pollers'[s].grant # pollers'[q].grant
    <3>1. CASE q = p
      <4>1. Unseen(pollers[q].grant)'
        BY <1>3, <2>2, <3>1 DEF Unseen
      <4> QED
        BY <1>1, <1>3, <2>3, <3>1, <4>1
    <3>2. CASE q # p
      <4>1. pollers'[q] = pollers[q] /\ pollers[q].at = "exchanged"
        BY <1>3, <2>4, <3>2
      <4>2. Unseen(pollers[q].grant)'
        BY <2>3, <3>2, <4>1 DEF Unseen
      <4>3. \A s \in Pollers : s # q /\ pollers'[s].at = "exchanged" =>
                pollers'[s].grant # pollers'[q].grant
        BY <1>3, <2>3, <3>2, <4>1 DEF IInv, Logins
      <4> QED
        BY <1>1, <2>3, <3>2, <4>1, <4>2, <4>3
    <3> QED
      BY <3>1, <3>2
  <2> QED
    BY <2>1, <2>4 DEF Logins
<1>10. Settling' /\ FileGood'
  <2>1. \A q \in Requests : Losing(q) => Losing(q)' /\ requests'[q].token = requests[q].token
    BY <1>1, <1>4
  <2>2. FileGood'
    BY <1>1, <2>1, FileStays DEF IInv, files, histories
  <2> QED
    BY <1>1, <2>2 DEF IInv, Settling, files
<1> QED
  BY <1>7, <1>8, <1>9, <1>10 DEF IInv

LEMMA FileKeeps ==
    ASSUME IInv, TypeOK', RenderPage \/ Load \/ Assign
    PROVE  IInv'
<1>0. TypeOK
  BY DEF IInv
<1>1. /\ UNCHANGED <<file, requests, pollers, tokens, lost, restored>>
      /\ provider' \in {provider, watcher} /\ watcher' \in {watcher, file, None}
      /\ page' \in {page, provider}
      /\ provider' = watcher => provider' = provider \/ watcher # None
  BY DEF RenderPage, Load, Assign, Replace, logins, histories
<1>2. /\ \A q \in Requests : Losing(q)' <=> Losing(q)
      /\ \A q \in Requests, pc \in {"copied", "renewing"} : At(q, pc)' <=> At(q, pc)
  BY <1>1 DEF Losing, At
<1>3. \A t \in Tokens : Held(t)' => Held(t)
  BY <1>1, <1>2 DEF Held
<1>4. Tracked' /\ OnTheWay' /\ Logins'
  BY <1>1, <1>2, <1>3, NothingNew
<1>5. Settling'
  <2>1. CASE RenderPage
    BY <2>1 DEF RenderPage, IInv, Settling
  <2>2. CASE Load
    BY <2>2 DEF Load, Settling
  <2>3. CASE Assign
    BY <2>3 DEF Assign, Replace, IInv, Settling
  <2> QED
    BY <2>1, <2>2, <2>3
<1>6. FileGood'
  BY <1>1, <1>2, FileStays DEF IInv, tokens
<1> QED
  BY <1>4, <1>5, <1>6 DEF IInv

LEMMA RestartKeeps == ASSUME IInv, TypeOK', Restart PROVE IInv'
<1>0. TypeOK
  BY DEF IInv
<1>1. /\ provider' = file /\ file' = file /\ watcher' = None /\ page' = page
      /\ UNCHANGED <<tokens, restored>>
      /\ lost' = lost \cup {requests[r].token.grant : r \in {q \in Requests : Losing(q)}}
      /\ \A r \in Requests : requests'[r] = None
      /\ \A p \in Pollers : pollers'[p].at = "idle"
  BY DEF Restart
<1>2. \A q \in Requests : ~Losing(q)' /\ \A pc \in {"copied", "renewing"} : ~At(q, pc)'
  BY <1>1 DEF Losing, At
<1>3. \A t \in Tokens : Held(t)' => Held(t)
  BY <1>1, <1>2 DEF Held
<1>4. Tracked' /\ OnTheWay' /\ Logins'
  BY <1>1, <1>2, <1>3, NothingNew
<1>5. Settling'
  BY <1>1 DEF Settling
<1>6. FileGood'
  BY <1>1, <1>2, FileStays DEF IInv, tokens
<1> QED
  BY <1>4, <1>5, <1>6 DEF IInv

LEMMA QuietKeeps ==
    ASSUME IInv, TypeOK',
           \/ StartDevice \/ ForgetDevice \/ Redirect \/ ReceiveCode \/ CallbackFails
           \/ ComeDue \/ UNCHANGED vars
           \/ \E p \in Pollers : Poll(p) \/ PollEnds(p)
    PROVE  IInv'
<1>0. TypeOK
  BY DEF IInv
<1>1. UNCHANGED <<provider, files, requests, tokens, lost, restored>>
  BY DEF StartDevice, ForgetDevice, Redirect, ReceiveCode, CallbackFails, ComeDue, Poll,
     PollEnds, vars, histories
<1>2. \A q \in Pollers : pollers'[q].at = "exchanged" => pollers'[q] = pollers[q]
  <2>1. CASE UNCHANGED pollers
    BY <2>1
  <2>2. CASE \E p \in Pollers : Poll(p) \/ PollEnds(p)
    BY <1>0, <2>2, IdleTyped, PollerTyped DEF Poll, PollEnds
  <2> QED
    BY <2>1, <2>2 DEF StartDevice, ForgetDevice, Redirect, ReceiveCode, CallbackFails,
       ComeDue, vars, logins
<1>3. /\ \A q \in Requests : Losing(q)' <=> Losing(q)
      /\ \A q \in Requests, pc \in {"copied", "renewing"} : At(q, pc)' <=> At(q, pc)
  BY <1>1 DEF Losing, At
<1>4. \A t \in Tokens : Held(t)' => Held(t)
  BY <1>1, <1>3 DEF Held, files
<1>5. Tracked' /\ OnTheWay' /\ Logins'
  BY <1>1, <1>2, <1>3, <1>4, NothingNew
<1>6. Settling'
  BY <1>1 DEF IInv, Settling, files
<1>7. FileGood'
  BY <1>1, <1>3, FileStays DEF IInv, files, tokens
<1> QED
  BY <1>5, <1>6, <1>7 DEF IInv

-----------------------------------------------------------------------------
(* The refresh token of the file *)

LEMMA InitKeeps == Init => IInv
<1> SUFFICES ASSUME Init PROVE IInv
  OBVIOUS
<1>0. TypeOK
  BY InitTyped
<1>1. PICK t \in Tokens : t = Token(1, 0) /\ t.grant = 1 /\ t.serial = 0
  BY GrantsKnown, TokenTyped
<1>2. provider.refresh = t /\ file = provider /\ watcher = None /\ page = None
  BY <1>1 DEF Init, Record
<1>3. \A r \in Requests : ~Losing(r) /\ \A pc \in {"copied", "renewing"} : ~At(r, pc)
  BY DEF Init, Losing, At
<1>4. \A s \in Tokens : Held(s) => s = t
  BY <1>2, <1>3 DEF Held
<1>5. /\ \A g \in Grants : answers[g] = 0 /\ good[g] = 0
      /\ grants = 1 /\ \A p \in Pollers : pollers[p].at = "idle"
  BY DEF Init
<1>6. Tracked
  BY <1>1, <1>3, <1>4, <1>5, GrantsKnown DEF Tracked, Issued
<1>7. OnTheWay /\ Logins
  BY <1>3, <1>5 DEF OnTheWay, Logins
<1>8. Settling
  BY <1>2 DEF Settling
<1>9. FileGood
  BY <1>1, <1>2, <1>5, GrantsKnown DEF FileGood, Good
<1> QED
  BY <1>0, <1>6, <1>7, <1>8, <1>9 DEF IInv

LEMMA StepKeeps == IInv /\ [Next]_vars => IInv'
<1> SUFFICES ASSUME IInv, [Next]_vars PROVE IInv'
  OBVIOUS
<1>0. TypeOK'
  BY StepTyped DEF IInv
<1>1. ASSUME NEW r \in Requests, Begin(r) \/ GoOn(r) \/ NoAnswer(r) \/ Unauthorized(r)
      PROVE  IInv'
  BY <1>0, <1>1, BeginKeeps, EnsureTokenKeeps, ExchangeKeeps, StoreTokensKeeps,
     MarkingKeeps, EndsKeep DEF GoOn
<1>2. ASSUME NEW p \in Pollers, Poll(p) \/ ExchangeCode(p) \/ PollEnds(p) \/ FinishDevice(p)
      PROVE  IInv'
  BY <1>0, <1>2, QuietKeeps, ExchangeCodeKeeps, FinishDeviceKeeps
<1> QED
  BY <1>0, <1>1, <1>2, QuietKeeps, FinishCallbackKeeps, OtherSavesKeep, FileKeeps,
     RestartKeeps DEF Next

\* The strengthening holds in every state.
THEOREM TokensAreTracked == Spec => []IInv
BY InitKeeps, StepKeeps, PTL DEF Spec

\* However many requests, pages and logins there are, the refresh token in
\* config.yml is good, or its successor is on its way or was lost on the way, unless
\* an older record was saved (restored: a rendered page, or a save while memory was
\* held back); and memory holds the file's record or a reload is still to come.
THEOREM RefreshTokensAreGood == Spec => []RefreshTokenGood
<1>1. IInv => RefreshTokenGood
  BY DEF IInv, Settling, FileGood, RefreshTokenGood
<1> QED
  BY <1>1, TokensAreTracked, PTL
=============================================================================
