----------------------- MODULE PaymentInvocationProofs -----------------------
(* What the steps of PaymentInvocation do to PaymentInv, for every number   *)
(* of invocations, payments and authorities and for either programme.       *)
EXTENDS PaymentInvocation, TLAPS

(* The coordinator's functions return obligations and results.              *)

LEMMA CreatedType ==
  ASSUME NEW rows \in SUBSET Payments, NEW verified \in SUBSET Payments
  PROVE  CreatedObligation(rows, verified) \in Obligation
<1>1. \A S \in SUBSET Payments : IsSingleton(S) => TheOnly(S) \in Payments
  BY DEF IsSingleton, TheOnly
<1>2. NoObligation \in Obligation
  BY DEF NoObligation, Obligation, States, Reasons
<1>. QED  BY <1>1, <1>2 DEF CreatedObligation, Obligation, States, Reasons

LEMMA CreatedFresh ==
  ASSUME NEW rows \in SUBSET Payments, NEW verified \in SUBSET rows
  PROVE  LET o == CreatedObligation(rows, verified)
         IN  /\ o.state \in {"READY", "UNCERTAIN", "SETTLED"}
             /\ o.state = "READY" => rows = {} /\ o.selected = None
             /\ o.owner = None
             /\ o.operation = "NONE"
             /\ o.selected # None => o.selected \in rows
             /\ o.state = "SETTLED" <=> verified # {}
<1>1. \A S \in SUBSET Payments : IsSingleton(S) => TheOnly(S) \in S
  BY DEF IsSingleton, TheOnly
<1>2. rows = {} => ~IsSingleton(rows) /\ verified = {} /\ ~IsSingleton(verified)
  BY DEF IsSingleton
<1>. QED  BY <1>1, <1>2 DEF CreatedObligation, NoObligation

LEMMA BackfilledType ==
  ASSUME NEW rows \in SUBSET Payments, NEW verified \in SUBSET Payments
  PROVE  BackfilledObligation(rows, verified) \in Obligation
<1>1. NoObligation \in Obligation
  BY DEF NoObligation, Obligation, States, Reasons
<1>. QED  BY <1>1, CreatedType DEF BackfilledObligation, Obligation, Reasons

LEMMA ClaimedType ==
  ASSUME NEW o \in Obligation, NEW op \in {"REQUEST", "VERIFY"},
         NEW p \in Payments \cup {None}, NEW w \in Workers
  PROVE  /\ Claimed(o, op, p, w) \in Obligation
         /\ o.generation + 1 \in Nat
<1>1. o.generation + 1 \in Nat
  BY DEF Obligation
<1>2. CASE op = "REQUEST"
  BY <1>1, <1>2 DEF Claimed, Obligation, States, Reasons
<1>3. CASE op = "VERIFY"
  BY <1>1, <1>3 DEF Claimed, Obligation, States, Reasons
<1>. QED  BY <1>1, <1>2, <1>3

LEMMA UncertainType ==
  ASSUME NEW o \in Obligation, NEW gen, NEW w,
         NEW reason \in {"REQUEST_UNRESOLVED", "VERIFY_UNRESOLVED"}
  PROVE  Uncertain(o, gen, w, reason) \in Obligation
BY DEF Uncertain, Obligation, States, Reasons

LEMMA PayableType ==
  ASSUME NEW o \in Obligation
  PROVE  Payable(o) \in Obligation
BY DEF Payable, Obligation, States, Reasons

LEMMA SavedType ==
  ASSUME NEW S \in SUBSET Result, NEW r \in Result
  PROVE  SavedResult(S, r) \in SUBSET Result /\ S \subseteq SavedResult(S, r)
BY DEF SavedResult

-----------------------------------------------------------------------------
(* What the helpers of an invocation do to its job.                         *)

LEMMA GoToJob ==
  ASSUME job \in [Workers -> Job], NEW w \in Workers, NEW step \in Steps,
         GoTo(w, step)
  PROVE  /\ job' \in [Workers -> Job]
         /\ job'[w].pc = step
         /\ job'[w].payment = job[w].payment
         /\ job'[w].authority = job[w].authority
         /\ \A v \in Workers \ {w} : job'[v] = job[v]
BY DEF GoTo, Job

LEMMA ReturnJob ==
  ASSUME job \in [Workers -> Job], NEW w \in Workers, Return(w)
  PROVE  /\ job' \in [Workers -> Job]
         /\ job'[w].pc = "idle"
         /\ \A v \in Workers \ {w} : job'[v] = job[v]
BY DEF Return, Job, Idle, Steps

(* What every transaction leaves behind that calls paymentObligation.       *)

LEMMA LoadedType ==
  ASSUME PaymentTypeOK
  PROVE  /\ LoadedObligation \in Obligation
         /\ LoadedPayments \in [Payments -> PaymentRow]
<1>1. Rows \in SUBSET Payments /\ Verified \in SUBSET Payments
  BY DEF Rows, Verified
<1>2. LoadedObligation \in Obligation
  BY <1>1, CreatedType, PayableType DEF LoadedObligation, PaymentTypeOK
<1>3. ASSUME Recovering
      PROVE  RecoveredAuthority(obligation, results) \in Authorities \cup {None}
  <2>1. SavedAuthorities(obligation, results) \subseteq Authorities \cup {None}
    BY DEF SavedAuthorities, PaymentTypeOK, Result
  <2>. QED  BY <1>3, <2>1 DEF Recovering, Recoverable, RecoveredAuthority
<1>4. LoadedPayments \in [Payments -> PaymentRow]
  BY <1>3 DEF LoadedPayments, Published, PaymentTypeOK, PaymentRow
<1>. QED  BY <1>2, <1>4

LEMMA LoadedRows ==
  ASSUME PaymentTypeOK
  PROVE  /\ \A p \in Payments :
              \/ LoadedPayments[p].status = payments[p].status
              \/ /\ payments[p].status = "INITIATED"
                 /\ LoadedPayments[p].status = "REDIRECT_READY"
         /\ \A p \in Payments : p # obligation.selected
                => LoadedPayments[p] = payments[p]
BY DEF LoadedPayments, Published, PaymentTypeOK, PaymentRow

LEMMA LoadedFresh ==
  ASSUME PaymentInv
  PROVE  /\ LoadedObligation.state # "ABSENT"
         /\ LoadedObligation.state = "READY"
              => Rows = {} /\ LoadedObligation.selected = None
                 /\ LoadedObligation.owner = None
         /\ LoadedObligation.selected # None => LoadedObligation.selected \in Rows
         /\ obligation.selected # None
              => LoadedObligation.selected = obligation.selected
         /\ obligation.state = "SETTLED" => LoadedObligation.state = "SETTLED"
         /\ LoadedObligation.state = "SETTLED" <=> Verified # {}
<1>1. CASE obligation.state = "ABSENT"
  <2>1. LoadedObligation = CreatedObligation(Rows, Verified)
    BY <1>1 DEF LoadedObligation
  <2>2. obligation.selected = None
    BY <1>1 DEF PaymentInv, FreshObligation
  <2>3. Rows \in SUBSET Payments /\ Verified \in SUBSET Rows
    BY DEF Rows, Verified
  <2>. QED  BY <1>1, <2>1, <2>2, <2>3, CreatedFresh
<1>2. CASE obligation.state # "ABSENT" /\ Recovering
  BY <1>2 DEF LoadedObligation, Payable, Recovering, Recoverable, PaymentInv,
              PaymentTypeOK, RowsAreReal, SettledIsVerified, Obligation
<1>3. CASE obligation.state # "ABSENT" /\ ~Recovering
  BY <1>3 DEF LoadedObligation, PaymentInv, RowsAreReal, FreshObligation,
              SettledIsVerified
<1>. QED  BY <1>1, <1>2, <1>3

LEMMA LoadedRealRows ==
  ASSUME PaymentInv, payments' = LoadedPayments
  PROVE  /\ payments' \in [Payments -> PaymentRow]
         /\ Rows' = Rows
         /\ Verified' = Verified
         /\ \A p \in Payments : payments'[p].authority # None => p \in Rows
<1>1. PaymentTypeOK
  BY DEF PaymentInv
<1>2. payments' \in [Payments -> PaymentRow] /\ Rows' = Rows /\ Verified' = Verified
  BY <1>1, LoadedType, LoadedRows DEF Rows, Verified
<1>3. ASSUME NEW p \in Payments, payments'[p].authority # None
      PROVE  p \in Rows
  <2>1. CASE p = obligation.selected
    BY <2>1, NoneIsFresh DEF PaymentInv, RowsAreReal
  <2>2. CASE p # obligation.selected
    BY <1>1, <1>3, <2>2, LoadedRows DEF PaymentInv, RowsAreReal
  <2>. QED  BY <2>1, <2>2
<1>. QED  BY <1>2, <1>3

-----------------------------------------------------------------------------
(* The invariant holds at the beginning.                                    *)

LEMMA InitInv ==
  ASSUME NEW history, history \subseteq {r \in PaymentRow : r.status # "ABSENT"},
         PaymentInit(history)
  PROVE  PaymentInv
<1>1. Rows \in SUBSET Payments /\ Verified \in SUBSET Rows
  BY DEF Rows, Verified
<1>2. payments \in [Payments -> PaymentRow]
  BY DEF PaymentInit, NoPayment, PaymentRow
<1>3. /\ NoObligation \in Obligation
      /\ NoObligation.selected = None
      /\ NoObligation.owner = None
      /\ NoObligation.state = "ABSENT"
  BY DEF NoObligation, Obligation, States, Reasons
<1>4. /\ obligation \in Obligation
      /\ obligation.selected # None => obligation.selected \in Rows
      /\ FreshObligation
      /\ SettledIsVerified
  <2>1. CASE obligation = NoObligation
    BY <1>3, <2>1 DEF FreshObligation, SettledIsVerified
  <2>2. CASE obligation = BackfilledObligation(Rows, Verified) /\ Rows # {}
    <3>1. obligation \in Obligation
      BY <1>1, <2>2, BackfilledType
    <3>2. LET o == CreatedObligation(Rows, Verified)
          IN /\ o \in Obligation
             /\ obligation.state = o.state
             /\ obligation.selected = o.selected
             /\ obligation.owner = o.owner
      BY <1>1, <2>2, CreatedType DEF BackfilledObligation, Obligation
    <3>. QED
      BY <1>1, <2>2, <3>1, <3>2, CreatedFresh DEF FreshObligation, SettledIsVerified
  <2>. QED  BY <2>1, <2>2 DEF PaymentInit, BackfilledObligation
<1>5. job \in [Workers -> Job] /\ \A w \in Workers : job[w].pc = "idle"
  BY DEF PaymentInit, Job, Idle, Steps
<1>6. PaymentTypeOK
  BY <1>2, <1>4, <1>5 DEF PaymentInit, PaymentTypeOK
<1>7. RowsAreReal
  BY <1>2, <1>4, <1>5 DEF PaymentInit, RowsAreReal, Rows, NoPayment, PaymentRow,
                          WithPayment
<1>8. OneRequester /\ OneRequest
  BY <1>5 DEF PaymentInit, OneRequester, OneRequest, At
<1>. QED  BY <1>4, <1>6, <1>7, <1>8 DEF PaymentInv

-----------------------------------------------------------------------------
(* A step that leaves the set of rows and the count of requests alone.      *)

\* No job starts to send a request, and none works on a row that is not one.
StaysOnRow ==
  \A w \in Workers :
    /\ job'[w].pc \in WithPayment => job'[w].payment \in Rows
    /\ job'[w].pc = "request" => job[w].pc = "request"
    /\ job'[w].pc \in {"saveAuthority", "finish"} => job'[w].authority # None

\* What no step of the program or of the gateway takes back.
Kept ==
  /\ obligation.selected # None => obligation'.selected = obligation.selected
  /\ obligation.state = "SETTLED" => obligation'.state = "SETTLED"
  /\ results \subseteq results'
  /\ Verified \subseteq Verified'

LEMMA GoToStays ==
  ASSUME PaymentInv, NEW w \in Workers, NEW step \in Steps \ {"request", "saveAuthority"},
         GoTo(w, step), step \in WithPayment => job[w].pc \in WithPayment,
         step = "finish" => job[w].pc = "saveAuthority"
  PROVE  job' \in [Workers -> Job] /\ StaysOnRow
BY GoToJob DEF StaysOnRow, PaymentInv, PaymentTypeOK, RowsAreReal

LEMMA ReturnStays ==
  ASSUME PaymentInv, NEW w \in Workers, Return(w)
  PROVE  job' \in [Workers -> Job] /\ StaysOnRow
BY ReturnJob DEF StaysOnRow, PaymentInv, PaymentTypeOK, RowsAreReal, WithPayment

LEMMA SameStays ==
  ASSUME PaymentInv, UNCHANGED job
  PROVE  job' \in [Workers -> Job] /\ StaysOnRow
BY DEF StaysOnRow, PaymentInv, PaymentTypeOK, RowsAreReal

\* An invocation that sets out to settle the payment p.
LEMMA SettleStays ==
  ASSUME PaymentInv, NEW w \in Workers, NEW p \in Rows, NEW a \in Authorities,
         NEW step \in {"settle", "complete"},
         job' = [job EXCEPT ![w] = [pc |-> step, payment |-> p, authority |-> a,
                                    generation |-> 0]]
  PROVE  job' \in [Workers -> Job] /\ StaysOnRow
<1>1. p \in Payments
  BY DEF Rows
<1>2. /\ job' \in [Workers -> Job]
      /\ job'[w].pc = step
      /\ job'[w].payment = p
      /\ \A v \in Workers \ {w} : job'[v] = job[v]
  BY <1>1 DEF PaymentInv, PaymentTypeOK, Job, Steps
<1>. QED  BY <1>2 DEF StaysOnRow, PaymentInv, RowsAreReal

LEMMA DeliverStays ==
  ASSUME PaymentInv, NEW c \in calls, NEW step \in WithPayment \ {"request"},
         NEW a \in Authorities, Waiting(c), Deliver(c, step, a)
  PROVE  job' \in [Workers -> Job] /\ StaysOnRow
<1>1. c.owner \in Workers /\ job \in [Workers -> Job]
  BY DEF PaymentInv, PaymentTypeOK, Call
<1>2. job[c.owner].pc \in WithPayment
  BY DEF Waiting, WithPayment, Steps
<1>3. /\ job' \in [Workers -> Job]
      /\ job'[c.owner].pc = step
      /\ job'[c.owner].payment = job[c.owner].payment
      /\ job'[c.owner].authority = a
      /\ \A v \in Workers \ {c.owner} : job'[v] = job[v]
  BY <1>1 DEF Deliver, Job, WithPayment
<1>. QED  BY <1>1, <1>2, <1>3, NoneIsFresh DEF StaysOnRow, PaymentInv, RowsAreReal

LEMMA Frame ==
  ASSUME PaymentInv, PaymentTypeOK', StaysOnRow, Rows' = Rows, requests' = requests,
         \A p \in Payments : payments'[p].authority # None => p \in Rows,
         obligation'.selected # None => obligation'.selected \in Rows,
         FreshObligation', SettledIsVerified'
  PROVE  PaymentInv'
<1>1. RowsAreReal'
  BY DEF RowsAreReal, StaysOnRow
<1>2. OneRequester'
  BY DEF OneRequester, StaysOnRow, PaymentInv, At
<1>3. OneRequest'
  BY DEF OneRequest, PaymentInv
<1>. QED  BY <1>1, <1>2, <1>3 DEF PaymentInv

\* ... and does not touch the payments or the obligation at all.
LEMMA Aside ==
  ASSUME PaymentInv, PaymentTypeOK', StaysOnRow, results \subseteq results',
         UNCHANGED <<payments, obligation, requests>>
  PROVE  PaymentInv' /\ Kept
<1>1. Rows' = Rows /\ Verified' = Verified
  BY DEF Rows, Verified
<1>2. FreshObligation' /\ SettledIsVerified'
  BY <1>1 DEF FreshObligation, SettledIsVerified, PaymentInv
<1>. QED  BY <1>1, <1>2, Frame DEF PaymentInv, RowsAreReal, Kept

\* ... or moves nothing but the job of an invocation.
LEMMA JobOnly ==
  ASSUME PaymentInv, UNCHANGED <<records, outside>>, job' \in [Workers -> Job],
         StaysOnRow
  PROVE  PaymentInv' /\ Kept
<1>1. PaymentTypeOK'
  BY DEF PaymentInv, PaymentTypeOK, records, outside
<1>. QED  BY <1>1, Aside DEF records, outside

-----------------------------------------------------------------------------
(* Paying                                                                   *)

LEMMA NewPaymentStep ==
  ASSUME PaymentInv, NEW w \in Workers, NewPayment(w)
  PROVE  PaymentInv' /\ Kept
<1>0. PaymentTypeOK /\ LoadedObligation \in Obligation
  BY LoadedType DEF PaymentInv
<1>1. PICK p \in Payments \ Rows :
        /\ payments' = [payments EXCEPT ![p].status = "INITIATED"]
        /\ obligation' = Claimed(LoadedObligation, "REQUEST", p, w)
        /\ job' = [job EXCEPT ![w] =
                     [pc |-> "request", payment |-> p, authority |-> None,
                      generation |-> LoadedObligation.generation + 1]]
  BY DEF NewPayment
<1>2. /\ Rows = {}
      /\ obligation.selected = None
      /\ obligation.state # "SETTLED"
      /\ UNCHANGED <<results, outside>>
  BY LoadedFresh DEF NewPayment
<1>3. \A v \in Workers : job[v].pc \notin WithPayment
  BY <1>2 DEF PaymentInv, RowsAreReal
<1>4. requests = 0 /\ requests' = 0
  BY <1>0, <1>2 DEF PaymentInv, OneRequest, PaymentTypeOK, outside
<1>5. /\ payments' \in [Payments -> PaymentRow]
      /\ Rows' = {p}
      /\ Verified' = {}
      /\ \A q \in Payments : payments'[q].authority = payments[q].authority
  BY <1>0, <1>1, <1>2 DEF PaymentTypeOK, PaymentRow, Rows, Verified
<1>6. obligation' \in Obligation /\ LoadedObligation.generation + 1 \in Nat
  BY <1>0, <1>1, ClaimedType
<1>7. /\ job' \in [Workers -> Job]
      /\ job'[w].pc = "request"
      /\ job'[w].payment = p
      /\ \A v \in Workers \ {w} : job'[v] = job[v]
  BY <1>0, <1>1, <1>6 DEF PaymentTypeOK, Job, Steps
<1>8. PaymentTypeOK'
  BY <1>0, <1>2, <1>5, <1>6, <1>7 DEF PaymentTypeOK, outside
<1>9. RowsAreReal'
  <2>1. \A q \in Payments : payments'[q].authority = None
    BY <1>2, <1>5 DEF PaymentInv, RowsAreReal
  <2>2. obligation'.selected = p
    BY <1>1 DEF Claimed
  <2>3. \A v \in Workers : job'[v].pc \notin {"saveAuthority", "finish"}
    BY <1>3, <1>7 DEF WithPayment, Steps
  <2>. QED  BY <1>3, <1>5, <1>7, <2>1, <2>2, <2>3 DEF RowsAreReal
<1>10. FreshObligation' /\ SettledIsVerified'
  BY <1>1, <1>5 DEF FreshObligation, SettledIsVerified, Claimed
<1>11. OneRequester'
  <2>1. \A v \in Workers \ {w} : job'[v].pc # "request"
    BY <1>3, <1>7 DEF WithPayment, Steps
  <2>. QED  BY <1>4, <1>5, <2>1 DEF OneRequester, At, IsSingleton
<1>12. OneRequest'
  BY <1>4, <1>5 DEF OneRequest
<1>13. Kept
  BY <1>2 DEF Kept, Verified, Rows
<1>. QED  BY <1>8, <1>9, <1>10, <1>11, <1>12, <1>13 DEF PaymentInv

LEMMA SendRequestStep ==
  ASSUME PaymentInv, NEW w \in Workers, SendRequest(w)
  PROVE  PaymentInv' /\ Kept
<1>1. /\ requests = 0
      /\ \E p \in Payments : Rows = {p}
      /\ job[w].payment \in Payments
      /\ PaymentTypeOK
  BY DEF SendRequest, PaymentInv, OneRequester, RowsAreReal, At, IsSingleton,
         Rows, WithPayment, Steps
<1>2. /\ job' \in [Workers -> Job]
      /\ job'[w].pc = "awaitAuthority"
      /\ job'[w].payment = job[w].payment
      /\ \A v \in Workers \ {w} : job'[v] = job[v]
  BY <1>1, GoToJob DEF SendRequest, Steps, PaymentTypeOK
<1>3. PaymentTypeOK'
  BY <1>1, <1>2 DEF PaymentTypeOK, SendRequest, records, Call, Job
<1>4. /\ UNCHANGED <<payments, obligation, results>>
      /\ Rows' = Rows
      /\ Verified' = Verified
  BY DEF SendRequest, records, Rows, Verified
<1>5. RowsAreReal' /\ FreshObligation' /\ SettledIsVerified'
  BY <1>2, <1>4 DEF SendRequest, RowsAreReal, FreshObligation, SettledIsVerified,
                    At, PaymentInv, WithPayment, Steps
<1>6. OneRequester'
  BY <1>2 DEF OneRequester, PaymentInv, At, SendRequest
<1>7. OneRequest'
  BY <1>1, <1>4 DEF OneRequest, SendRequest
<1>. QED  BY <1>3, <1>4, <1>5, <1>6, <1>7 DEF PaymentInv, Kept

LEMMA ServeExistingStep ==
  ASSUME PaymentInv, NEW w \in Workers, ServeExisting(w),
         LoadedObligation.state # "READY"
  PROVE  PaymentInv' /\ Kept
<1>. DEFINE p == LoadedObligation.selected
            a == IF p = None THEN None ELSE LoadedPayments[p].authority
<1>1. /\ PaymentTypeOK
      /\ LoadedObligation \in Obligation
      /\ LoadedPayments \in [Payments -> PaymentRow]
  BY LoadedType DEF PaymentInv
<1>2. /\ obligation' = LoadedObligation
      /\ payments' = LoadedPayments
      /\ LoadedObligation.state \notin {"ABSENT", "READY"}
      /\ UNCHANGED <<results, gateway, calls, requests>>
  BY LoadedFresh DEF ServeExisting
<1>3. /\ payments' \in [Payments -> PaymentRow]
      /\ Rows' = Rows
      /\ Verified' = Verified
      /\ \A q \in Payments : payments'[q].authority # None => q \in Rows
  BY <1>2, LoadedRealRows
<1>4. p # None => p \in Rows
  BY LoadedFresh
<1>5. /\ job' \in [Workers -> Job]
      /\ StaysOnRow
      /\ offered' \subseteq Authorities
  <2>1. CASE Return(w) /\ offered' = offered
    BY <1>1, <2>1, ReturnStays DEF PaymentTypeOK
  <2>2. CASE a # None /\ offered' = offered \cup {a} /\ Return(w)
    <3>1. a \in Authorities
      BY <1>1, <1>4, <2>2 DEF PaymentRow, Rows
    <3>. QED  BY <1>1, <2>2, <3>1, ReturnStays DEF PaymentTypeOK
  <2>3. CASE /\ a # None
             /\ job' = [job EXCEPT ![w] = [pc |-> "settle", payment |-> p,
                                           authority |-> a, generation |-> 0]]
             /\ offered' = offered
    <3>1. a \in Authorities /\ p \in Rows
      BY <1>1, <1>4, <2>3 DEF PaymentRow, Rows
    <3>2. offered' \subseteq Authorities
      BY <1>1, <2>3 DEF PaymentTypeOK
    <3>3. job' \in [Workers -> Job] /\ StaysOnRow
      <4>. HIDE DEF a, p
      <4>. QED  BY <2>3, <3>1, SettleStays
    <3>. QED  BY <3>2, <3>3
  <2>. QED  BY <2>1, <2>2, <2>3 DEF ServeExisting
<1>6. PaymentTypeOK'
  BY <1>1, <1>2, <1>3, <1>5 DEF PaymentTypeOK
<1>7. FreshObligation' /\ SettledIsVerified'
  BY <1>2, <1>3, LoadedFresh DEF FreshObligation, SettledIsVerified
<1>8. Kept
  BY <1>2, <1>3, LoadedFresh DEF Kept
<1>. QED  BY <1>2, <1>3, <1>4, <1>5, <1>6, <1>7, <1>8, Frame

\* The second commit of finishPaymentRequest, whatever the programme does next.
LEMMA PublishStep ==
  ASSUME PaymentInv, NEW w \in Workers, Publish(w),
         Return(w) \/ GoTo(w, "saveNoAuthority")
  PROVE  PaymentInv' /\ Kept
<1>. DEFINE p == job[w].payment
            a == job[w].authority
<1>1. PaymentTypeOK /\ p \in Rows /\ p \in Payments /\ a \in Authorities
  BY DEF Publish, PaymentInv, RowsAreReal, At, Rows, WithPayment, Steps,
         PaymentTypeOK, Job
<1>2. /\ job' \in [Workers -> Job]
      /\ StaysOnRow
      /\ UNCHANGED <<results, gateway, calls, requests>>
  BY ReturnStays, GoToStays DEF Publish, At, WithPayment, Steps
<1>3. CASE ~Publishes(w)
  <2>1. UNCHANGED <<payments, obligation, offered>>
    BY <1>3 DEF Publish
  <2>2. PaymentTypeOK'
    BY <1>1, <1>2, <2>1 DEF PaymentTypeOK
  <2>. QED  BY <1>2, <2>1, <2>2, Aside
<1>4. CASE Publishes(w)
  <2>1. /\ obligation' = Payable(obligation)
        /\ payments' = [payments EXCEPT ![p] = Published(@, a)]
        /\ offered' = offered \cup {a}
    BY <1>4 DEF Publish
  <2>2. obligation' \in Obligation /\ obligation'.state = "PAYABLE"
    BY <1>1, <2>1, PayableType DEF PaymentTypeOK, Payable, Obligation
  <2>3. /\ obligation'.selected = p
        /\ obligation.selected = p
        /\ obligation.state \notin {"ABSENT", "SETTLED"}
    BY <1>1, <1>4, <2>1, NoneIsFresh DEF Publishes, MayFinish, Payable, PaymentTypeOK,
       Obligation, PaymentInv, FreshObligation
  <2>4. Verified = {}
    BY <2>3 DEF PaymentInv, SettledIsVerified
  <2>5. /\ payments' \in [Payments -> PaymentRow]
        /\ Rows' = Rows
        /\ Verified' = {}
        /\ \A q \in Payments : payments'[q].authority # None => q \in Rows
    BY <1>1, <2>1, <2>4 DEF PaymentTypeOK, PaymentRow, Published, Rows, Verified,
       PaymentInv, RowsAreReal
  <2>6. PaymentTypeOK'
    BY <1>1, <1>2, <2>1, <2>2, <2>5 DEF PaymentTypeOK
  <2>7. FreshObligation' /\ SettledIsVerified'
    BY <2>2, <2>5 DEF FreshObligation, SettledIsVerified
  <2>8. Kept
    BY <1>2, <2>3, <2>4 DEF Kept
  <2>. QED  BY <1>1, <1>2, <2>3, <2>5, <2>6, <2>7, <2>8, Frame
<1>. QED  BY <1>3, <1>4

LEMMA UncertainStep ==
  ASSUME PaymentInv, NEW w \in Workers,
         RequestUncertain(w) \/ VerifyUncertain(w)
  PROVE  PaymentInv' /\ Kept
<1>1. PICK r \in {"REQUEST_UNRESOLVED", "VERIFY_UNRESOLVED"} :
        obligation' = Uncertain(obligation, job[w].generation, w, r)
  BY DEF RequestUncertain, VerifyUncertain
<1>2. Return(w) /\ UNCHANGED <<payments, results, outside>>
  BY DEF RequestUncertain, VerifyUncertain
<1>3. PaymentTypeOK /\ Rows' = Rows /\ Verified' = Verified
  BY <1>2 DEF PaymentInv, Rows, Verified
<1>4. obligation' \in Obligation /\ obligation'.selected = obligation.selected
  BY <1>1, <1>3, UncertainType DEF PaymentTypeOK, Uncertain, Obligation
<1>5. \/ obligation' = obligation
      \/ /\ obligation'.state = "UNCERTAIN"
         /\ obligation.state # "SETTLED"
         /\ obligation.owner = w
  BY <1>1, <1>3 DEF PaymentTypeOK, Uncertain, Obligation
<1>6. FreshObligation' /\ SettledIsVerified'
  BY <1>3, <1>5, NoneIsFresh DEF FreshObligation, SettledIsVerified, PaymentInv
<1>7. job' \in [Workers -> Job] /\ StaysOnRow
  BY <1>2, ReturnStays
<1>8. PaymentTypeOK'
  BY <1>2, <1>3, <1>4, <1>7 DEF PaymentTypeOK, outside
<1>9. Kept
  BY <1>2, <1>3, <1>4, <1>5 DEF Kept
<1>. QED
  BY <1>2, <1>3, <1>4, <1>6, <1>7, <1>8, <1>9, Frame
     DEF PaymentInv, RowsAreReal, outside

-----------------------------------------------------------------------------
(* Settling                                                                 *)

LEMMA BeginVerificationStep ==
  ASSUME PaymentInv, NEW w \in Workers, BeginVerification(w)
  PROVE  PaymentInv' /\ Kept
<1>. DEFINE p == job[w].payment
            a == job[w].authority
            o == LoadedObligation
<1>1. /\ PaymentTypeOK
      /\ o \in Obligation
      /\ job[w].pc \in WithPayment
      /\ p \in Payments
      /\ p \in Rows
      /\ a \in Authorities \cup {None}
  BY LoadedType DEF PaymentInv, RowsAreReal, BeginVerification, At, Rows,
                    WithPayment, Steps, PaymentTypeOK, Job
<1>2. /\ payments' \in [Payments -> PaymentRow]
      /\ Rows' = Rows
      /\ Verified' = Verified
      /\ \A q \in Payments : payments'[q].authority # None => q \in Rows
  BY LoadedRealRows DEF BeginVerification
<1>3. o.selected # None => o.selected \in Rows
  BY LoadedFresh
<1>4. /\ o.state # "ABSENT"
      /\ o.state # "READY"
  BY <1>1, LoadedFresh
<1>5. /\ UNCHANGED outside
      /\ \/ /\ results' = SavedResult(results,
                [generation |-> o.generation, owner |-> p,
                 operation |-> "CALLBACK", outcome |-> "COMPETING_CALLBACK",
                 authority |-> a])
            /\ obligation' = o
            /\ Return(w)
         \/ /\ results' = results
            /\ obligation' = o
            /\ Return(w) \/ GoTo(w, "complete") \/ GoTo(w, "record")
         \/ /\ results' = results
            /\ obligation' = Claimed(o, "VERIFY", p, w)
            /\ o.selected = p
            /\ o.state # "SETTLED"
            /\ job' = [job EXCEPT ![w].pc = "verify",
                                  ![w].generation = o.generation + 1]
  BY DEF BeginVerification
<1>6. results' \subseteq Result /\ results \subseteq results'
  <2>1. [generation |-> o.generation, owner |-> p, operation |-> "CALLBACK",
         outcome |-> "COMPETING_CALLBACK", authority |-> a] \in Result
    BY <1>1 DEF Result, Obligation
  <2>. QED  BY <1>1, <1>5, <2>1, SavedType DEF PaymentTypeOK
<1>7. /\ obligation' \in Obligation
      /\ obligation'.selected # None => obligation'.selected \in Rows
      /\ obligation'.state \notin {"ABSENT", "READY"}
      /\ obligation'.state = "SETTLED" <=> o.state = "SETTLED"
      /\ obligation'.selected = o.selected
  <2>1. CASE obligation' = o
    BY <1>1, <1>3, <1>4, <2>1
  <2>2. CASE /\ obligation' = Claimed(o, "VERIFY", p, w)
             /\ o.selected = p
             /\ o.state # "SETTLED"
    BY <1>1, <2>2, ClaimedType DEF Claimed
  <2>. QED  BY <1>5, <2>1, <2>2
<1>8. job' \in [Workers -> Job] /\ StaysOnRow
  <2>1. CASE Return(w)
    BY <2>1, ReturnStays
  <2>2. CASE GoTo(w, "complete")
    BY <1>1, <2>2, GoToStays DEF Steps
  <2>3. CASE GoTo(w, "record")
    BY <1>1, <2>3, GoToStays DEF Steps
  <2>4. CASE job' = [job EXCEPT ![w].pc = "verify",
                                ![w].generation = o.generation + 1]
    <3>1. o.generation + 1 \in Nat
      BY <1>1 DEF Obligation
    <3>2. /\ job' \in [Workers -> Job]
          /\ job'[w].pc = "verify"
          /\ job'[w].payment = p
          /\ \A v \in Workers \ {w} : job'[v] = job[v]
      BY <1>1, <2>4, <3>1 DEF PaymentTypeOK, Job, Steps
    <3>. QED
      BY <1>1, <3>2 DEF StaysOnRow, PaymentInv, RowsAreReal
  <2>. QED  BY <1>5, <2>1, <2>2, <2>3, <2>4
<1>9. PaymentTypeOK'
  BY <1>1, <1>2, <1>5, <1>6, <1>7, <1>8 DEF PaymentTypeOK, outside
<1>10. FreshObligation' /\ SettledIsVerified'
  BY <1>2, <1>7, LoadedFresh DEF FreshObligation, SettledIsVerified
<1>11. Kept
  BY <1>2, <1>6, <1>7, LoadedFresh DEF Kept
<1>. QED  BY <1>2, <1>5, <1>7, <1>8, <1>9, <1>10, <1>11, Frame DEF outside

\* The transaction that records the capture, in either programme.
LEMMA RecordStep ==
  ASSUME PaymentInv, NEW w \in Workers, At(w, "record"), GoTo(w, "complete"),
         UNCHANGED <<results, outside>>,
         \/ UNCHANGED <<payments, obligation>>
         \/ /\ payments' = [payments EXCEPT ![job[w].payment].status = "VERIFIED"]
            /\ obligation' = [obligation EXCEPT !.state = "SETTLED",
                                                !.reason = "NONE"]
  PROVE  PaymentInv' /\ Kept
<1>. DEFINE p == job[w].payment
<1>1. PaymentTypeOK /\ p \in Payments /\ p \in Rows
  BY DEF PaymentInv, RowsAreReal, At, Rows, WithPayment, Steps
<1>2. job' \in [Workers -> Job] /\ StaysOnRow
  BY <1>1, GoToStays DEF Steps, WithPayment
<1>3. CASE UNCHANGED <<payments, obligation>>
  BY <1>2, <1>3, JobOnly DEF records
<1>4. CASE /\ payments' = [payments EXCEPT ![p].status = "VERIFIED"]
           /\ obligation' = [obligation EXCEPT !.state = "SETTLED",
                                               !.reason = "NONE"]
  <2>1. /\ payments' \in [Payments -> PaymentRow]
        /\ Rows' = Rows
        /\ p \in Verified'
        /\ Verified \subseteq Verified'
        /\ \A q \in Payments : payments'[q].authority # None => q \in Rows
    BY <1>1, <1>4 DEF PaymentTypeOK, PaymentRow, Rows, Verified, PaymentInv, RowsAreReal
  <2>2. /\ obligation' \in Obligation
        /\ obligation'.state = "SETTLED"
        /\ obligation'.selected = obligation.selected
    BY <1>1, <1>4 DEF PaymentTypeOK, Obligation, States, Reasons
  <2>3. PaymentTypeOK'
    BY <1>1, <1>2, <2>1, <2>2 DEF PaymentTypeOK, outside
  <2>4. FreshObligation' /\ SettledIsVerified'
    BY <2>1, <2>2 DEF FreshObligation, SettledIsVerified
  <2>5. Kept
    BY <2>1, <2>2 DEF Kept
  <2>. QED
    BY <1>2, <2>1, <2>2, <2>3, <2>4, <2>5, Frame DEF outside, PaymentInv, RowsAreReal
<1>. QED  BY <1>3, <1>4

-----------------------------------------------------------------------------
(* The steps that look at neither the payments nor the obligation, or only  *)
(* read them.                                                               *)

LEMMA SavesStep ==
  ASSUME PaymentInv, NEW w \in Workers,
         SaveAuthority(w) \/ SaveNoAuthority(w) \/ SaveCaptured(w)
           \/ SaveNotCaptured(w)
  PROVE  PaymentInv' /\ Kept
<1>1. PaymentTypeOK /\ job[w] \in Job
  BY DEF PaymentInv, PaymentTypeOK
<1>2. results' \subseteq Result /\ results \subseteq results'
  <2>1. ASSUME NEW op \in {"REQUEST", "VERIFY"},
               NEW out \in {"AUTHORITY", "CAPTURED", "REJECTED", "UNKNOWN"},
               NEW a \in Authorities \cup {None}
        PROVE  LET r == [generation |-> job[w].generation, owner |-> w,
                         operation |-> op, outcome |-> out, authority |-> a]
               IN  /\ SavedResult(results, r) \subseteq Result
                   /\ results \subseteq SavedResult(results, r)
    <3>1. [generation |-> job[w].generation, owner |-> w, operation |-> op,
           outcome |-> out, authority |-> a] \in Result
      BY <1>1 DEF Job, Result
    <3>. QED  BY <1>1, <3>1, SavedType DEF PaymentTypeOK
  <2>2. job[w].authority \in Authorities \cup {None}
    BY <1>1 DEF Job
  <2>. QED
    BY <1>1, <2>1, <2>2 DEF SaveAuthority, SaveNoAuthority, SaveCaptured,
                            SaveNotCaptured, VerifyResult, PaymentTypeOK
<1>3. job' \in [Workers -> Job] /\ StaysOnRow
  <2>1. CASE SaveAuthority(w)
    BY <2>1, GoToStays DEF SaveAuthority, At, Steps, WithPayment
  <2>2. CASE SaveNoAuthority(w)
    BY <2>2, GoToStays DEF SaveNoAuthority, At, Steps, WithPayment
  <2>3. CASE SaveCaptured(w)
    BY <2>3, GoToStays DEF SaveCaptured, At, Steps, WithPayment
  <2>4. CASE SaveNotCaptured(w)
    BY <2>4, GoToStays DEF SaveNotCaptured, At, Steps, WithPayment
  <2>. QED  BY <2>1, <2>2, <2>3, <2>4
<1>4. UNCHANGED <<payments, obligation, outside>>
  BY DEF SaveAuthority, SaveNoAuthority, SaveCaptured, SaveNotCaptured
<1>5. PaymentTypeOK'
  BY <1>1, <1>2, <1>3, <1>4 DEF PaymentTypeOK, outside
<1>. QED  BY <1>2, <1>3, <1>4, <1>5, Aside DEF outside

LEMMA SendVerifyStep ==
  ASSUME PaymentInv, NEW w \in Workers, SendVerify(w)
  PROVE  PaymentInv' /\ Kept
<1>1. PaymentTypeOK /\ job[w] \in Job /\ job[w].payment \in Payments
  BY DEF PaymentInv, PaymentTypeOK, SendVerify, At, RowsAreReal, Rows, WithPayment,
         Steps
<1>2. job' \in [Workers -> Job] /\ StaysOnRow
  BY GoToStays DEF SendVerify, At, Steps, WithPayment
<1>3. calls' \subseteq Call
  BY <1>1 DEF SendVerify, Call, Job, PaymentTypeOK
<1>4. PaymentTypeOK'
  BY <1>1, <1>2, <1>3 DEF PaymentTypeOK, SendVerify, records
<1>. QED  BY <1>2, <1>4, Aside DEF SendVerify, records

LEMMA RemoteFailsStep ==
  ASSUME PaymentInv, NEW w \in Workers, RemoteFails(w)
  PROVE  PaymentInv' /\ Kept
<1>1. /\ job[w].pc \in WithPayment
      /\ \E step \in {"saveNoAuthority", "saveNoVerdict"} : GoTo(w, step)
  BY DEF RemoteFails, At, WithPayment, Steps
<1>2. job' \in [Workers -> Job] /\ StaysOnRow
  BY <1>1, GoToStays DEF Steps
<1>. QED  BY <1>2, JobOnly DEF RemoteFails

LEMMA RemoteStep ==
  ASSUME PaymentInv, NEW w \in Workers, Remote(w)
  PROVE  PaymentInv' /\ Kept
BY SendRequestStep, UncertainStep, SavesStep, SendVerifyStep, RemoteFailsStep DEF Remote

LEMMA AbortStep ==
  ASSUME PaymentInv, NEW w \in Workers, Abort(w)
  PROVE  PaymentInv' /\ Kept
BY ReturnStays, JobOnly DEF Abort

LEMMA StutterStep ==
  ASSUME PaymentInv, UNCHANGED payVars
  PROVE  PaymentInv' /\ Kept
BY SameStays, JobOnly DEF payVars

LEMMA GatewayStep ==
  ASSUME PaymentInv, Gateway
  PROVE  PaymentInv' /\ Kept
<1>1. PaymentTypeOK
  BY DEF PaymentInv
<1>2. UNCHANGED <<payments, obligation, results, requests>>
  BY DEF Gateway, GatewayGrants, GatewayCaptures, GatewayRejects, GatewayDrops,
         ApplicantPays, records
<1>3. job' \in [Workers -> Job] /\ StaysOnRow
  <2>1. CASE UNCHANGED job
    BY <2>1, SameStays
  <2>2. ASSUME NEW c \in calls, NEW a \in Authorities, Waiting(c),
               \E step \in {"saveAuthority", "saveCaptured", "saveRejected"} :
                 Deliver(c, step, a)
        PROVE  job' \in [Workers -> Job] /\ StaysOnRow
    BY <2>2, DeliverStays DEF WithPayment, Steps
  <2>3. \A c \in calls : c.authority \in Authorities \cup {None}
    BY <1>1 DEF PaymentTypeOK, Call
  <2>. QED
    BY <2>1, <2>2, <2>3 DEF Gateway, GatewayGrants, GatewayCaptures,
       GatewayRejects, GatewayDrops, ApplicantPays
<1>4. /\ calls' \subseteq Call
      /\ offered' \subseteq Authorities
      /\ gateway' \in [Authorities -> {"UNISSUED", "OPEN", "PAID", "CAPTURED"}]
  BY <1>1 DEF PaymentTypeOK, Gateway, GatewayGrants, GatewayCaptures, GatewayRejects,
     GatewayDrops, ApplicantPays
<1>5. PaymentTypeOK'
  BY <1>1, <1>2, <1>3, <1>4 DEF PaymentTypeOK
<1>. QED  BY <1>2, <1>3, <1>5, Aside

-----------------------------------------------------------------------------
(* What the gateway knows, and what the program believes of it.  The same   *)
(* steps once more, for EvidenceInv.                                        *)

LEMMA CreatedChosen ==
  ASSUME NEW rows \in SUBSET Payments, NEW verified \in SUBSET rows
  PROVE  LET o == CreatedObligation(rows, verified)
         IN  /\ o.generation = 0
             /\ o.owner = None
             /\ o.operation = "NONE"
             /\ o.state # "PAYABLE"
             /\ o.reason = "HISTORICAL_ATTEMPT" => IsSingleton(rows)
             /\ o.state = "SETTLED" /\ o.selected # None => o.selected \in verified
<1>1. \A S \in SUBSET Payments : IsSingleton(S) => TheOnly(S) \in S /\ S = {TheOnly(S)}
  BY DEF IsSingleton, TheOnly
<1>2. rows = {} => ~IsSingleton(rows) /\ verified = {} /\ ~IsSingleton(verified)
  BY DEF IsSingleton
<1>3. IsSingleton(rows) /\ verified # {} => verified = rows
  BY DEF IsSingleton
<1>. QED  BY <1>1, <1>2, <1>3 DEF CreatedObligation, NoObligation

\* What paymentObligation(tx) leaves of the claim, the selection and the rows.
LEMMA LoadedClaim ==
  ASSUME EvidenceInv
  PROVE  LET o == LoadedObligation
         IN  /\ o.generation = obligation.generation
             /\ o.owner = obligation.owner
             /\ o.operation = obligation.operation
             /\ o.operation # "NONE" => o.selected = obligation.selected
             /\ o.reason = "HISTORICAL_ATTEMPT" => IsSingleton(Rows)
             /\ o.state = "PAYABLE" => o.operation = "REQUEST" /\ Answered
             /\ o.operation = "VERIFY" => o = obligation
             /\ o.state = "SETTLED" /\ o.selected # None
                  => /\ o.selected \in Verified
                     /\ o.operation # "NONE" => obligation.state = "SETTLED"
<1>0. obligation \in Obligation
  BY DEF EvidenceInv, PaymentInv, PaymentTypeOK
<1>1. CASE obligation.state = "ABSENT"
  <2>1. LoadedObligation = CreatedObligation(Rows, Verified)
    BY <1>1 DEF LoadedObligation
  <2>2. Rows \in SUBSET Payments /\ Verified \in SUBSET Rows
    BY DEF Rows, Verified
  <2>3. obligation = NoObligation
    BY <1>1 DEF EvidenceInv, ClaimsFit
  <2>4. /\ obligation.generation = 0
        /\ obligation.owner = None
        /\ obligation.operation = "NONE"
    BY <2>3 DEF NoObligation
  <2>. QED  BY <2>1, <2>2, <2>4, CreatedChosen
<1>2. CASE obligation.state # "ABSENT" /\ Recovering
  <2>1. LoadedObligation = Payable(obligation)
    BY <1>2 DEF LoadedObligation
  <2>2. /\ obligation.operation = "REQUEST"
        /\ SavedAuthorities(obligation, results) # {}
    BY <1>2 DEF Recovering, Recoverable
  <2>3. Answered
    BY <2>2 DEF SavedAuthorities, Answered, Answers
  <2>. QED  BY <1>0, <2>1, <2>2, <2>3 DEF Payable, Obligation
<1>3. CASE obligation.state # "ABSENT" /\ ~Recovering
  <2>1. LoadedObligation = obligation
    BY <1>3 DEF LoadedObligation
  <2>2. obligation.state = "PAYABLE" => obligation.operation = "REQUEST"
    BY DEF EvidenceInv, OffersFit
  <2>3. obligation.reason = "HISTORICAL_ATTEMPT" => IsSingleton(Rows)
    BY DEF EvidenceInv, OneRow
  <2>4. obligation.state = "SETTLED" /\ obligation.selected # None
          => obligation.selected \in Verified
    BY DEF EvidenceInv, SettledIsBacked
  <2>. QED  BY <2>1, <2>2, <2>3, <2>4 DEF Answered
<1>. QED  BY <1>1, <1>2, <1>3

\* The authority of a row is never exchanged for another.
AuthoritiesKept ==
  \A p \in Payments :
    payments[p].authority # None => payments'[p].authority = payments[p].authority

\* A row gets an authority only for a request, and only one that was issued.
QuietPayments ==
  /\ AuthoritiesKept
  /\ \A p \in Payments : payments'[p].authority # payments[p].authority =>
       /\ obligation.operation = "REQUEST"
       /\ ~Unissued(payments'[p].authority)

\* There is one authority at most to publish for the request.
LEMMA SameAuthority ==
  ASSUME EvidenceInv, obligation.operation = "REQUEST",
         NEW p \in Payments, payments[p].authority # None,
         NEW a, a # None, a \in Authorities \cup {None}, ~Unissued(a)
  PROVE  payments[p].authority = a
<1>1. payments[p].authority \in Authorities /\ ~Unissued(payments[p].authority)
  BY DEF EvidenceInv, PaymentInv, PaymentTypeOK, PaymentRow, AuthoritiesFit
<1>. QED  BY <1>1 DEF EvidenceInv, AuthoritiesFit

LEMMA RecoveredFits ==
  ASSUME EvidenceInv, Recovering
  PROVE  LET a == RecoveredAuthority(obligation, results)
         IN  /\ a \in Authorities
             /\ ~Unissued(a)
             /\ obligation.operation = "REQUEST"
             /\ obligation.selected \in Payments
             /\ obligation.state # "SETTLED"
             /\ Verified = {}
<1>. DEFINE a == RecoveredAuthority(obligation, results)
<1>1. /\ obligation.operation = "REQUEST"
      /\ obligation.state # "SETTLED"
      /\ SavedAuthorities(obligation, results) # {}
  BY DEF Recovering, Recoverable
<1>2. a \in SavedAuthorities(obligation, results)
  BY <1>1 DEF RecoveredAuthority
<1>3. PICK r \in results : r.outcome = "AUTHORITY" /\ a = r.authority
  BY <1>2 DEF SavedAuthorities
<1>4. a \in Authorities /\ ~Unissued(a)
  BY <1>3 DEF EvidenceInv, EvidenceFits, PaymentInv, PaymentTypeOK, Result
<1>5. obligation.selected \in Payments
  BY <1>1 DEF EvidenceInv, OneRow, Rows
<1>6. obligation.state # "ABSENT"
  BY <1>1 DEF EvidenceInv, ClaimsFit, NoObligation
<1>7. Verified = {}
  BY <1>1, <1>6 DEF EvidenceInv, PaymentInv, SettledIsVerified
<1>. QED  BY <1>1, <1>4, <1>5, <1>7

LEMMA LoadedAuthorities ==
  ASSUME EvidenceInv, payments' = LoadedPayments
  PROVE  /\ QuietPayments
         /\ LoadedObligation.state = "PAYABLE" => payments'[obligation.selected].authority # None
         /\ \A p \in Verified : payments'[p] = payments[p]
<1>0. /\ payments \in [Payments -> PaymentRow]
      /\ \A p \in Payments : payments[p].authority # None
           => payments[p].authority \in Authorities /\ ~Unissued(payments[p].authority)
  BY DEF EvidenceInv, PaymentInv, PaymentTypeOK, PaymentRow, AuthoritiesFit
<1>1. CASE payments' = payments
  <2>1. LoadedObligation.state = "PAYABLE" => payments[obligation.selected].authority # None
    <3>1. CASE obligation.state = "ABSENT"
      <4>1. LoadedObligation = CreatedObligation(Rows, Verified)
        BY <3>1 DEF LoadedObligation
      <4>2. Rows \in SUBSET Payments /\ Verified \in SUBSET Rows
        BY DEF Rows, Verified
      <4>. QED  BY <4>1, <4>2, CreatedChosen
    <3>2. CASE Recovering
      <4>1. /\ RecoveredAuthority(obligation, results) # None
            /\ obligation.selected \in Payments
        BY <3>2, RecoveredFits, NoneIsFresh
      <4>2. CASE Programme = "facilities" /\ payments[obligation.selected].status # "INITIATED"
        BY <3>2, <4>1, <4>2 DEF Recovering
      <4>3. CASE ~(Programme = "facilities" /\ payments[obligation.selected].status # "INITIATED")
        <5>1. payments = [payments EXCEPT ![obligation.selected] =
                            Published(@, RecoveredAuthority(obligation, results))]
          BY <1>1, <3>2, <4>3 DEF LoadedPayments
        <5>2. payments[obligation.selected].authority = RecoveredAuthority(obligation, results)
          BY <1>0, <4>1, <5>1 DEF Published
        <5>. QED  BY <4>1, <5>2
      <4>. QED  BY <4>2, <4>3
    <3>3. CASE obligation.state # "ABSENT" /\ ~Recovering
      BY <3>3 DEF LoadedObligation, EvidenceInv, OffersFit
    <3>. QED  BY <3>1, <3>2, <3>3
  <2>. QED  BY <1>0, <1>1, <2>1 DEF QuietPayments, AuthoritiesKept
<1>2. CASE payments' # payments
  <2>. DEFINE a == RecoveredAuthority(obligation, results)
              p == obligation.selected
  <2>1. /\ Recovering
        /\ payments' = [payments EXCEPT ![p] = Published(@, a)]
    BY <1>2 DEF LoadedPayments
  <2>2. a \in Authorities /\ ~Unissued(a) /\ p \in Payments
        /\ obligation.operation = "REQUEST" /\ Verified = {} /\ a # None
    BY <2>1, RecoveredFits, NoneIsFresh
  <2>3. payments[p].authority # None => payments[p].authority = a
    BY <2>2, SameAuthority
  <2>4. \A q \in Payments : payments'[q].authority = IF q = p THEN a ELSE payments[q].authority
    BY <1>0, <2>1, <2>2 DEF Published
  <2>. QED  BY <1>0, <2>2, <2>3, <2>4 DEF QuietPayments, AuthoritiesKept
<1>. QED  BY <1>1, <1>2

-----------------------------------------------------------------------------
(* A step in which the claim stays what it was and no call is sent.         *)

\* What the promise of the payment is made of.
Captured == {p \in Rows : /\ payments[p].authority # None
                          /\ gateway[payments[p].authority] = "CAPTURED"}

\* A verification is never taken back, and the promise moves by its steps.
Progress ==
  /\ obligation.operation = "VERIFY" => obligation'.operation = "VERIFY"
  /\ \/ Rows' = Rows /\ Captured' = Captured /\ Verified' = Verified
     \/ /\ Rows = {}
        /\ \E p \in Payments : Rows' = {p}
        /\ Captured' = Captured
        /\ Verified' = Verified
     \/ /\ \E p \in Payments : Rows = {p} /\ Captured = {} /\ Captured' = {p}
        /\ Rows' = Rows
        /\ Verified' = Verified
     \/ /\ Verified = {}
        /\ \E p \in Captured : Verified' = {p}
        /\ Rows' = Rows
        /\ Captured' = Captured

SameClaim ==
  /\ obligation'.generation = obligation.generation
  /\ obligation'.owner = obligation.owner
  /\ obligation'.operation = obligation.operation
  /\ obligation' = obligation \/ obligation'.state \notin {"ABSENT", "READY"}
  /\ obligation'.reason = "HISTORICAL_ATTEMPT" => IsSingleton(Rows)

\* No job starts to ask, to check or to hold an answer.
QuietJob(v) ==
  /\ job'[v].pc \in Asking => job[v].pc \in Asking
  /\ job'[v].pc \in Checking => /\ job[v].pc \in Checking
                                /\ job'[v].authority = job[v].authority
  /\ job'[v].pc \in Asking \cup Checking => /\ job'[v].generation = job[v].generation
                                            /\ job'[v].payment = job[v].payment
  /\ job'[v].pc \in {"request", "verify", "saveCaptured", "saveRejected"}
       => job'[v].pc = job[v].pc
  /\ job'[v].pc \in {"saveAuthority", "finish"}
       => /\ job[v].pc \in {"saveAuthority", "finish"}
          /\ job'[v].authority = job[v].authority
  /\ job'[v].pc \in {"settle", "record"} =>
       /\ job'[v].authority # None
       /\ job'[v].authority = payments'[job'[v].payment].authority
  /\ job'[v].pc = "record" => /\ obligation.operation = "VERIFY"
                              /\ obligation.selected = job'[v].payment
                              /\ CaptureSaved(results', job'[v].authority)

QuietJobs == \A v \in Workers : QuietJob(v)

QuietResults ==
  \A r \in results' \ results :
    /\ r.outcome \in Answers => r.generation <= obligation.generation
    /\ r.outcome = "AUTHORITY" => r.authority # None /\ ~Unissued(r.authority)
    /\ r.outcome = "CAPTURED" =>
         /\ obligation.operation = "VERIFY"
         /\ r.authority # None
         /\ r.authority = payments[obligation.selected].authority
         /\ gateway[r.authority] = "CAPTURED"

Calm ==
  /\ Rows' = Rows
  /\ gateway' = gateway
  /\ SameClaim
  /\ QuietJobs
  /\ QuietResults
  /\ QuietPayments

\* ... and no call is made.
Quiet == Calm /\ calls' \subseteq calls /\ (Answered' => Answered)

LEMMA CalmClaims ==
  ASSUME EvidenceInv, Kept, Calm
  PROVE  /\ ClaimsFit'
         /\ OneRow'
         /\ obligation.operation # "NONE" =>
              /\ obligation.selected \in Rows
              /\ obligation'.selected = obligation.selected
<1>1. obligation.operation # "NONE" => obligation.selected \in Rows /\ Rows \subseteq Payments
  BY DEF EvidenceInv, OneRow, Rows
<1>2. obligation.operation # "NONE" => obligation'.selected = obligation.selected
  BY <1>1, NoneIsFresh DEF Kept
<1>3. OneRow'
  BY <1>2 DEF EvidenceInv, OneRow, Calm, SameClaim, IsSingleton
<1>4. ASSUME NEW w \in Workers, job'[w].pc \in Asking \cup Checking
      PROVE  /\ job[w].pc \in Asking \cup Checking
             /\ job'[w].pc \in Asking <=> job[w].pc \in Asking
             /\ job'[w].generation = job[w].generation
             /\ job'[w].payment = job[w].payment
  BY <1>4 DEF Calm, QuietJobs, QuietJob, Asking, Checking
<1>5. ASSUME NEW w \in Workers, job'[w].pc \in Asking \cup Checking
      PROVE  /\ job'[w].generation <= obligation'.generation
             /\ job'[w].generation = obligation'.generation =>
                  /\ obligation'.owner = w
                  /\ obligation'.selected = job'[w].payment
                  /\ obligation'.operation =
                       IF job'[w].pc \in Asking THEN "REQUEST" ELSE "VERIFY"
  BY <1>2, <1>4, <1>5 DEF EvidenceInv, ClaimsFit, Calm, SameClaim
<1>6. ClaimsFit'
  BY <1>5 DEF EvidenceInv, ClaimsFit, Calm, SameClaim
<1>. QED  BY <1>1, <1>2, <1>3, <1>6

LEMMA QuietCalls ==
  ASSUME EvidenceInv, Kept, Quiet
  PROVE  CallsFit'
<1>1. \A w \in Workers : Sending(w)' => Sending(w) /\ job'[w].generation = job[w].generation
  BY DEF Quiet, Calm, QuietJobs, QuietJob, Sending, Asking, Checking
<1>2. ASSUME NEW c \in calls'
      PROVE  /\ c.generation = obligation'.generation
             /\ c.owner = obligation'.owner
             /\ c.payment = obligation'.selected
             /\ c.authority = None => obligation'.operation = "REQUEST"
             /\ c.authority # None => /\ obligation'.operation = "VERIFY"
                                      /\ c.authority = payments'[c.payment].authority
  <2>1. c \in calls
    BY DEF Quiet
  <2>2. /\ c.generation = obligation.generation
        /\ c.owner = obligation.owner
        /\ c.payment = obligation.selected
        /\ c.authority = None => obligation.operation = "REQUEST"
        /\ c.authority # None => /\ obligation.operation = "VERIFY"
                                 /\ c.authority = payments[c.payment].authority
    BY <2>1 DEF EvidenceInv, CallsFit
  <2>3. obligation.selected \in Payments /\ obligation'.selected = obligation.selected
    BY <2>2, CalmClaims DEF Rows, Quiet
  <2>. QED  BY <2>2, <2>3 DEF Quiet, Calm, SameClaim, QuietPayments, AuthoritiesKept
<1>3. OneLiveCall'
  BY DEF EvidenceInv, CallsFit, OneLiveCall, Quiet
<1>4. ASSUME NEW w \in Workers, Sending(w)'
      PROVE  job'[w].generation = obligation'.generation /\ calls' = {}
  BY <1>1, <1>4 DEF EvidenceInv, CallsFit, Quiet, Calm, SameClaim
<1>5. calls' # {} \/ (\E w \in Workers : Sending(w)') => ~Answered'
  BY <1>1 DEF EvidenceInv, CallsFit, Quiet, Calm
<1>. QED  BY <1>2, <1>3, <1>4, <1>5 DEF CallsFit

LEMMA CalmAuthorities ==
  ASSUME EvidenceInv, Kept, Calm, Ungranted' => Ungranted,
         \A a \in offered' : Issued(a)'
  PROVE  AuthoritiesFit'
<1>0. /\ \A p \in Payments : payments[p].authority # None => ~Unissued(payments[p].authority)
      /\ \A w \in Workers :
           job[w].pc \in {"saveAuthority", "finish"} => ~Unissued(job[w].authority)
      /\ Ungranted => \A a \in Authorities : Unissued(a)
      /\ obligation.operation = "REQUEST" =>
           \A a, b \in Authorities : Unissued(a) \/ Unissued(b) \/ a = b
      /\ gateway' = gateway
      /\ obligation'.operation = obligation.operation
  BY DEF EvidenceInv, AuthoritiesFit, Calm, SameClaim
<1>1. ASSUME NEW p \in Payments, payments'[p].authority # None
      PROVE  ~Unissued(payments[p].authority)'
  <2>1. ~Unissued(payments'[p].authority)
    BY <1>0, <1>1 DEF Calm, QuietPayments
  <2>. QED  BY <1>0, <2>1 DEF Unissued
<1>2. ASSUME NEW w \in Workers, job'[w].pc \in {"saveAuthority", "finish"}
      PROVE  ~Unissued(job[w].authority)'
  <2>1. ~Unissued(job'[w].authority)
    BY <1>0, <1>2 DEF Calm, QuietJobs, QuietJob
  <2>. QED  BY <1>0, <2>1 DEF Unissued
<1>3. ASSUME NEW a \in Authorities, gateway'[a] \in {"PAID", "CAPTURED"}
      PROVE  Issued(a)'
  <2>1. PICK p \in Payments : payments[p].authority = a
    BY <1>3 DEF EvidenceInv, AuthoritiesFit, Calm, Issued
  <2>2. payments'[p].authority = a
    BY <2>1, NoneIsFresh DEF Calm, QuietPayments, AuthoritiesKept
  <2>. QED  BY <2>2 DEF Issued
<1>4. \A a : Unissued(a)' <=> Unissued(a)
  BY <1>0 DEF Unissued
<1>. QED
  BY <1>0, <1>1, <1>2, <1>3, <1>4 DEF AuthoritiesFit

LEMMA CalmEvidence ==
  ASSUME EvidenceInv, Kept, Calm
  PROVE  EvidenceFits'
<1>. SUFFICES ASSUME NEW r \in results'
              PROVE  /\ r.outcome \in Answers => r.generation <= obligation'.generation
                     /\ r.outcome = "AUTHORITY" => r.authority # None /\ ~Unissued(r.authority)'
                     /\ r.outcome = "CAPTURED" =>
                          /\ obligation'.operation = "VERIFY"
                          /\ r.authority # None
                          /\ r.authority = payments'[obligation'.selected].authority
                          /\ gateway'[r.authority] = "CAPTURED"
  BY DEF EvidenceFits
<1>1. /\ r.outcome \in Answers => r.generation <= obligation.generation
      /\ r.outcome = "AUTHORITY" => r.authority # None /\ ~Unissued(r.authority)
      /\ r.outcome = "CAPTURED" =>
           /\ obligation.operation = "VERIFY"
           /\ r.authority # None
           /\ r.authority = payments[obligation.selected].authority
           /\ gateway[r.authority] = "CAPTURED"
  BY DEF EvidenceInv, EvidenceFits, Calm, QuietResults
<1>2. obligation.operation = "VERIFY" =>
        obligation.selected \in Payments /\ obligation'.selected = obligation.selected
  BY CalmClaims DEF Rows
<1>. QED
  BY <1>1, <1>2 DEF Calm, SameClaim, QuietPayments, AuthoritiesKept, Unissued

LEMMA CalmSettlements ==
  ASSUME EvidenceInv, Kept, Calm
  PROVE  SettlementsFit'
<1>. SUFFICES ASSUME NEW w \in Workers
              PROVE  /\ job'[w].pc \in Checking \cup {"settle", "record"} =>
                          /\ job'[w].authority # None
                          /\ job'[w].authority = payments'[job'[w].payment].authority
                     /\ job'[w].pc \in Checking \cup {"record"} =>
                          /\ obligation'.operation = "VERIFY"
                          /\ obligation'.selected = job'[w].payment
                     /\ job'[w].pc = "saveCaptured" => gateway'[job'[w].authority] = "CAPTURED"
                     /\ job'[w].pc = "record" => CaptureSaved(results', job'[w].authority)
  BY DEF SettlementsFit, CaptureSaved
<1>1. obligation.operation = "VERIFY" =>
        obligation.selected \in Payments /\ obligation'.selected = obligation.selected
  BY CalmClaims DEF Rows
<1>2. CASE job'[w].pc \in Checking
  <2>1. /\ job[w].pc \in Checking
        /\ job'[w].authority = job[w].authority
        /\ job'[w].payment = job[w].payment
        /\ job'[w].pc = "saveCaptured" => job[w].pc = "saveCaptured"
    BY <1>2 DEF Calm, QuietJobs, QuietJob, Checking
  <2>. QED
    BY <1>1, <1>2, <2>1 DEF EvidenceInv, SettlementsFit, Calm, SameClaim,
       QuietPayments, AuthoritiesKept, Checking
<1>3. CASE job'[w].pc \in {"settle", "record"}
  BY <1>1, <1>3 DEF Calm, QuietJobs, QuietJob, SameClaim, Checking
<1>. QED  BY <1>2, <1>3 DEF Checking

\* Nothing is captured that nobody was offered.
LEMMA CapturedKept ==
  ASSUME EvidenceInv, PaymentInv', Rows' = Rows, gateway' = gateway, QuietPayments
  PROVE  Captured' = Captured
<1>1. ASSUME NEW p \in Rows, payments'[p].authority # payments[p].authority,
             gateway[payments'[p].authority] = "CAPTURED"
      PROVE  FALSE
  <2>1. p \in Payments /\ payments[p].authority = None /\ obligation.operation = "REQUEST"
    BY <1>1 DEF Rows, QuietPayments, AuthoritiesKept
  <2>2. payments'[p].authority \in Authorities
    BY <1>1, <2>1 DEF PaymentInv, PaymentTypeOK, PaymentRow
  <2>3. PICK q \in Payments : payments[q].authority = payments'[p].authority
    BY <1>1, <2>2 DEF EvidenceInv, AuthoritiesFit, Issued
  <2>4. q \in Rows
    BY <2>2, <2>3, NoneIsFresh DEF EvidenceInv, PaymentInv, RowsAreReal
  <2>5. p = q
    BY <2>1, <2>4 DEF EvidenceInv, OneRow
  <2>. QED  BY <1>1, <2>3, <2>5
<1>2. \A p \in Rows : payments[p].authority # None
          => payments'[p].authority = payments[p].authority
  BY DEF Rows, QuietPayments, AuthoritiesKept
<1>. QED  BY <1>1, <1>2 DEF Captured

LEMMA CalmCaptures ==
  ASSUME EvidenceInv, Kept, Calm, Verified' \subseteq Verified \cup Captured
  PROVE  CaptureIsGenuine'
<1>1. \A p \in Verified \cup Captured :
        payments'[p].authority # None /\ gateway'[payments'[p].authority] = "CAPTURED"
  BY DEF EvidenceInv, CaptureIsGenuine, Calm, QuietPayments, AuthoritiesKept, Verified,
         Captured, Rows
<1>2. \A a \in Authorities : CaptureSaved(results, a)' => gateway'[a] = "CAPTURED"
  BY CalmEvidence DEF CaptureSaved, EvidenceFits
<1>. QED  BY <1>1, <1>2 DEF CaptureIsGenuine

\* What is left to show of a quiet step ...
LEMMA QuietFrame ==
  ASSUME EvidenceInv, Kept, Quiet, PaymentInv', OffersFit', SettledIsBacked',
         \/ Verified' = Verified
         \/ Verified = {} /\ \E p \in Captured : Verified' = {p},
         \A a \in offered' : Issued(a)'
  PROVE  EvidenceInv' /\ Progress
<1>1. CaptureIsGenuine' /\ Captured' = Captured
  BY CalmCaptures, CapturedKept DEF Quiet, Calm
<1>2. Ungranted' => Ungranted
  BY DEF Ungranted, Quiet, Calm, QuietJobs, QuietJob
<1>3. EvidenceInv'
  BY <1>1, <1>2, CalmClaims, QuietCalls, CalmAuthorities, CalmEvidence, CalmSettlements
     DEF EvidenceInv, Quiet
<1>. QED  BY <1>1, <1>3 DEF Progress, Quiet, Calm, SameClaim

\* ... and that leaves the payments, the obligation and the offers alone.
LEMMA QuietAside ==
  ASSUME EvidenceInv, Kept, PaymentInv',
         UNCHANGED <<payments, obligation, offered, gateway>>, calls' \subseteq calls,
         QuietJobs, QuietResults, Answered' => Answered
  PROVE  EvidenceInv' /\ Progress
<1>1. Rows' = Rows /\ Verified' = Verified
  BY DEF Rows, Verified
<1>2. Quiet
  BY <1>1 DEF Quiet, Calm, SameClaim, QuietPayments, AuthoritiesKept, EvidenceInv, OneRow
<1>3. OffersFit'
  BY DEF EvidenceInv, OffersFit
<1>4. SettledIsBacked'
  BY <1>1 DEF EvidenceInv, SettledIsBacked, SettledIsVerified, CaptureSaved, Kept
<1>5. \A a \in offered' : Issued(a)'
  BY DEF EvidenceInv, AuthoritiesFit, Issued, PaymentInv, PaymentTypeOK
<1>. QED  BY <1>1, <1>2, <1>3, <1>4, <1>5, QuietFrame

(* How the jobs and the answers of such a step are found quiet.             *)

LEMMA SameJobQuiet ==
  ASSUME EvidenceInv, AuthoritiesKept, results \subseteq results',
         NEW v \in Workers, job'[v] = job[v]
  PROVE  QuietJob(v)
<1>1. job[v].pc \in {"settle", "record"} => job[v].payment \in Payments
  BY DEF EvidenceInv, PaymentInv, RowsAreReal, Rows, WithPayment, Steps
<1>2. job[v].pc \in {"settle", "record"} =>
        /\ job[v].authority # None
        /\ job[v].authority = payments[job[v].payment].authority
  BY DEF EvidenceInv, SettlementsFit
<1>3. job[v].pc = "record" =>
        /\ obligation.operation = "VERIFY"
        /\ obligation.selected = job[v].payment
        /\ CaptureSaved(results, job[v].authority)
  BY DEF EvidenceInv, SettlementsFit
<1>. QED  BY <1>1, <1>2, <1>3 DEF QuietJob, AuthoritiesKept, CaptureSaved

LEMMA GoToQuiet ==
  ASSUME EvidenceInv, AuthoritiesKept, results \subseteq results', NEW w \in Workers,
         NEW step \in Steps \ {"request", "verify", "saveAuthority", "saveCaptured",
                               "saveRejected", "settle", "record"},
         GoTo(w, step), step \in Asking => job[w].pc \in Asking,
         step \in Checking => job[w].pc \in Checking,
         step = "finish" => job[w].pc = "saveAuthority"
  PROVE  QuietJobs
<1>1. job \in [Workers -> Job]
  BY DEF EvidenceInv, PaymentInv, PaymentTypeOK
<1>2. /\ job'[w].pc = step
      /\ job'[w].payment = job[w].payment
      /\ job'[w].authority = job[w].authority
      /\ job'[w].generation = job[w].generation
      /\ \A v \in Workers \ {w} : job'[v] = job[v]
  BY <1>1 DEF GoTo, Job
<1>3. QuietJob(w)
  BY <1>2 DEF QuietJob
<1>. QED  BY <1>2, <1>3, SameJobQuiet DEF QuietJobs

LEMMA ReturnQuiet ==
  ASSUME EvidenceInv, AuthoritiesKept, results \subseteq results', NEW w \in Workers,
         Return(w)
  PROVE  QuietJobs
<1>1. job'[w].pc = "idle" /\ \A v \in Workers \ {w} : job'[v] = job[v]
  BY ReturnJob DEF EvidenceInv, PaymentInv, PaymentTypeOK
<1>2. QuietJob(w)
  BY <1>1 DEF QuietJob, Asking, Checking
<1>. QED  BY <1>1, <1>2, SameJobQuiet DEF QuietJobs

\* An invocation that begins to settle, or to complete, the payment p.
LEMMA SettleQuiet ==
  ASSUME EvidenceInv, AuthoritiesKept, results \subseteq results', NEW w \in Workers,
         NEW p \in Payments, NEW a, a # None, payments'[p].authority = a,
         NEW step \in {"settle", "complete"},
         job' = [job EXCEPT ![w] = [pc |-> step, payment |-> p, authority |-> a,
                                    generation |-> 0]]
  PROVE  QuietJobs
<1>1. /\ job'[w].pc = step
      /\ job'[w].payment = p
      /\ job'[w].authority = a
      /\ \A v \in Workers \ {w} : job'[v] = job[v]
  BY DEF EvidenceInv, PaymentInv, PaymentTypeOK
<1>2. QuietJob(w)
  BY <1>1 DEF QuietJob, Asking, Checking
<1>. QED  BY <1>1, <1>2, SameJobQuiet DEF QuietJobs

LEMMA AnsweredBefore ==
  ASSUME EvidenceInv, obligation'.generation = obligation.generation, QuietJobs,
         obligation'.state = "PAYABLE" => Answered,
         \A r \in results' \ results :
           r.outcome \in Answers /\ r.generation = obligation.generation => Answered
  PROVE  Answered' => Answered
<1>1. ASSUME NEW w \in Workers,
             job'[w].pc \in {"saveAuthority", "finish", "saveCaptured", "saveRejected"}
      PROVE  /\ job[w].pc \in {"saveAuthority", "finish", "saveCaptured", "saveRejected"}
             /\ job'[w].generation = job[w].generation
  BY <1>1 DEF QuietJobs, QuietJob, Asking, Checking
<1>. QED  BY <1>1 DEF Answered

-----------------------------------------------------------------------------
(* The steps                                                                *)

\* A step that moves nothing but the job of an invocation.
LEMMA JobEvidence ==
  ASSUME EvidenceInv, UNCHANGED <<records, outside>>, job' \in [Workers -> Job],
         StaysOnRow, QuietJobs
  PROVE  EvidenceInv' /\ Progress
<1>1. PaymentInv' /\ Kept
  BY JobOnly DEF EvidenceInv
<1>2. /\ UNCHANGED <<payments, obligation, results, offered, gateway>>
      /\ calls' = calls
  BY DEF records, outside
<1>3. QuietResults
  BY <1>2 DEF QuietResults
<1>4. Answered' => Answered
  BY <1>2, AnsweredBefore DEF Answered
<1>. QED  BY <1>1, <1>2, <1>3, <1>4, QuietAside

LEMMA GoToEvidence ==
  ASSUME EvidenceInv, UNCHANGED <<records, outside>>, NEW w \in Workers,
         NEW step \in Steps \ {"request", "verify", "saveAuthority", "saveCaptured",
                               "saveRejected", "settle", "record"},
         GoTo(w, step), step \in WithPayment => job[w].pc \in WithPayment,
         step \in Asking => job[w].pc \in Asking,
         step \in Checking => job[w].pc \in Checking,
         step = "finish" => job[w].pc = "saveAuthority"
  PROVE  EvidenceInv' /\ Progress
<1>1. AuthoritiesKept /\ results \subseteq results'
  BY DEF AuthoritiesKept, records
<1>2. QuietJobs
  BY <1>1, GoToQuiet
<1>3. job' \in [Workers -> Job] /\ StaysOnRow
  BY GoToStays DEF EvidenceInv
<1>. QED  BY <1>2, <1>3, JobEvidence

LEMMA ReturnEvidence ==
  ASSUME EvidenceInv, UNCHANGED <<records, outside>>, NEW w \in Workers, Return(w)
  PROVE  EvidenceInv' /\ Progress
<1>1. AuthoritiesKept /\ results \subseteq results'
  BY DEF AuthoritiesKept, records
<1>2. QuietJobs
  BY <1>1, ReturnQuiet
<1>3. job' \in [Workers -> Job] /\ StaysOnRow
  BY ReturnStays DEF EvidenceInv
<1>. QED  BY <1>2, <1>3, JobEvidence

LEMMA StutterEvidence ==
  ASSUME EvidenceInv, UNCHANGED payVars
  PROVE  EvidenceInv' /\ Progress
<1>1. AuthoritiesKept /\ results \subseteq results'
  BY DEF AuthoritiesKept, payVars, records
<1>2. QuietJobs
  BY <1>1, SameJobQuiet DEF QuietJobs, payVars
<1>3. job' \in [Workers -> Job] /\ StaysOnRow
  BY SameStays DEF EvidenceInv, payVars
<1>. QED  BY <1>2, <1>3, JobEvidence DEF payVars

\* A callback is for a row with an authority.
LEMMA SettleEvidence ==
  ASSUME EvidenceInv, UNCHANGED <<records, outside>>, NEW w \in Workers,
         NEW p \in Payments, payments[p].authority # None,
         NEW step \in {"settle", "complete"},
         job' = [job EXCEPT ![w] = [pc |-> step, payment |-> p,
                                    authority |-> payments[p].authority,
                                    generation |-> 0]]
  PROVE  EvidenceInv' /\ Progress
<1>1. AuthoritiesKept /\ results \subseteq results' /\ payments' = payments
  BY DEF AuthoritiesKept, records
<1>2. QuietJobs
  BY <1>1, SettleQuiet
<1>3. p \in Rows /\ payments[p].authority \in Authorities
  BY DEF EvidenceInv, PaymentInv, RowsAreReal, PaymentTypeOK, PaymentRow
<1>4. job' \in [Workers -> Job] /\ StaysOnRow
  BY <1>3, SettleStays DEF EvidenceInv
<1>. QED  BY <1>2, <1>4, JobEvidence

\* The evidence that an invocation keeps is of its own claim.
LEMMA SavedKnown ==
  ASSUME NEW S, NEW r
  PROVE  /\ S \subseteq SavedResult(S, r)
         /\ SavedResult(S, r) \subseteq S \cup {r}
         /\ \E q \in SavedResult(S, r) : q.outcome = r.outcome
                                         /\ (q = r \/ q \in S)
BY DEF SavedResult

LEMMA SavesEvidence ==
  ASSUME EvidenceInv, NEW w \in Workers,
         SaveAuthority(w) \/ SaveNoAuthority(w) \/ SaveCaptured(w)
           \/ SaveNotCaptured(w)
  PROVE  EvidenceInv' /\ Progress
<1>1. PaymentInv' /\ Kept
  BY SavesStep DEF EvidenceInv
<1>2. UNCHANGED <<payments, obligation, offered, gateway>> /\ calls' = calls
  BY DEF SaveAuthority, SaveNoAuthority, SaveCaptured, SaveNotCaptured, outside
<1>3. AuthoritiesKept /\ results \subseteq results'
  BY <1>1, <1>2 DEF AuthoritiesKept, Kept
<1>4. \A r \in results' \ results : r.generation = job[w].generation
  BY SavedKnown DEF SaveAuthority, SaveNoAuthority, SaveCaptured, SaveNotCaptured, VerifyResult
<1>5. job[w].generation <= obligation.generation
  BY DEF EvidenceInv, ClaimsFit, Asking, Checking, SaveAuthority, SaveNoAuthority,
         SaveCaptured, SaveNotCaptured, At
<1>6. /\ job[w].pc \in {"saveAuthority", "finish", "saveCaptured", "saveRejected"}
           /\ job[w].generation = obligation.generation => Answered
  BY DEF Answered
<1>7. CASE SaveAuthority(w)
  <2>1. /\ GoTo(w, "finish")
        /\ job[w].pc = "saveAuthority"
        /\ \A r \in results' \ results : r.outcome = "AUTHORITY" /\ r.authority = job[w].authority
    BY <1>7, SavedKnown DEF SaveAuthority, At
  <2>2. job[w].authority # None /\ ~Unissued(job[w].authority)
    BY <2>1 DEF EvidenceInv, PaymentInv, RowsAreReal, AuthoritiesFit
  <2>3. QuietResults
    BY <1>4, <1>5, <2>1, <2>2 DEF QuietResults
  <2>4. QuietJobs
    BY <1>3, <2>1, GoToQuiet DEF Steps, Asking, Checking
  <2>5. Answered' => Answered
    BY <1>2, <1>4, <1>6, <2>1, <2>4, AnsweredBefore DEF Answered
  <2>. QED  BY <1>1, <1>2, <2>3, <2>4, <2>5, QuietAside
<1>8. CASE SaveNoAuthority(w) \/ SaveNotCaptured(w)
  <2>1. /\ \/ GoTo(w, "requestUncertain") /\ job[w].pc = "saveNoAuthority"
           \/ /\ GoTo(w, "verifyUncertain")
              /\ job[w].pc \in {"saveRejected", "saveNoVerdict"}
        /\ \A r \in results' \ results : r.outcome = "UNKNOWN" \/
             (r.outcome = "REJECTED" /\ job[w].pc = "saveRejected")
    BY <1>8, SavedKnown DEF SaveNoAuthority, SaveNotCaptured, VerifyResult, At
  <2>2. QuietResults
    BY <1>4, <1>5, <2>1 DEF QuietResults, Answers
  <2>3. QuietJobs
    BY <1>3, <2>1, GoToQuiet DEF Steps, Asking, Checking
  <2>4. Answered' => Answered
    BY <1>2, <1>4, <1>6, <2>1, <2>3, AnsweredBefore DEF Answered, Answers
  <2>. QED  BY <1>1, <1>2, <2>2, <2>3, <2>4, QuietAside
<1>9. CASE SaveCaptured(w)
  <2>1. /\ GoTo(w, "record")
        /\ job[w].pc = "saveCaptured"
        /\ results' = SavedResult(results, VerifyResult(w, "CAPTURED"))
        /\ VerifyResult(w, "CAPTURED").outcome = "CAPTURED"
        /\ VerifyResult(w, "CAPTURED").authority = job[w].authority
        /\ \A r \in results' \ results : r = VerifyResult(w, "CAPTURED")
    BY <1>9, SavedKnown DEF SaveCaptured, At, VerifyResult
  <2>2. /\ obligation.operation = "VERIFY"
        /\ obligation.selected = job[w].payment
        /\ job[w].authority # None
        /\ job[w].authority = payments[job[w].payment].authority
        /\ gateway[job[w].authority] = "CAPTURED"
    BY <2>1 DEF EvidenceInv, SettlementsFit, Checking
  <2>3. QuietResults
    BY <1>4, <1>5, <2>1, <2>2 DEF QuietResults
  <2>4. CaptureSaved(results', job[w].authority)
    <3>1. PICK q \in results' : /\ q.outcome = "CAPTURED"
                                /\ q = VerifyResult(w, "CAPTURED") \/ q \in results
      BY <2>1, SavedKnown
    <3>2. q.authority = job[w].authority
      BY <2>1, <2>2, <3>1 DEF EvidenceInv, EvidenceFits
    <3>. QED  BY <3>1, <3>2 DEF CaptureSaved
  <2>5. QuietJobs
    <3>1. /\ job'[w].pc = "record"
          /\ job'[w].payment = job[w].payment
          /\ job'[w].authority = job[w].authority
          /\ \A v \in Workers \ {w} : job'[v] = job[v]
      BY <2>1, GoToJob DEF EvidenceInv, PaymentInv, PaymentTypeOK, Steps
    <3>2. QuietJob(w)
      BY <1>2, <2>2, <2>4, <3>1 DEF QuietJob, Asking, Checking
    <3>. QED  BY <1>3, <3>1, <3>2, SameJobQuiet DEF QuietJobs
  <2>6. Answered' => Answered
    BY <1>2, <1>4, <1>6, <2>1, <2>5, AnsweredBefore DEF Answered
  <2>. QED  BY <1>1, <1>2, <2>3, <2>5, <2>6, QuietAside
<1>. QED  BY <1>7, <1>8, <1>9

LEMMA SendsEvidence ==
  ASSUME EvidenceInv, NEW w \in Workers, SendRequest(w) \/ SendVerify(w)
  PROVE  EvidenceInv' /\ Progress
<1>1. PaymentInv' /\ Kept
  BY SendRequestStep, SendVerifyStep DEF EvidenceInv
<1>2. /\ UNCHANGED <<payments, obligation, results, offered, gateway>>
      /\ Rows' = Rows
      /\ Verified' = Verified
  BY DEF SendRequest, SendVerify, records, Rows, Verified
<1>3. AuthoritiesKept /\ results \subseteq results'
  BY <1>2 DEF AuthoritiesKept
<1>. DEFINE c == [owner |-> w, generation |-> job[w].generation, payment |-> job[w].payment,
                  authority |-> IF job[w].pc = "request" THEN None ELSE job[w].authority]
<1>4. /\ calls' = calls \cup {c}
      /\ c.owner = w
      /\ c.generation = job[w].generation
      /\ c.payment = job[w].payment
      /\ c.authority = IF job[w].pc = "request" THEN None ELSE job[w].authority
  BY DEF SendRequest, SendVerify, At
<1>. HIDE DEF c
<1>5. /\ job[w].pc \in {"request", "verify"}
      /\ job[w].pc = "request" => GoTo(w, "awaitAuthority")
      /\ job[w].pc = "verify" => GoTo(w, "awaitVerdict")
  BY DEF SendRequest, SendVerify, At
<1>6. QuietJobs
  BY <1>3, <1>5, GoToQuiet DEF Steps, Asking, Checking
<1>7. Calm
  BY <1>2, <1>6 DEF Calm, SameClaim, QuietResults, QuietPayments, AuthoritiesKept,
     EvidenceInv, OneRow
<1>8. /\ calls = {}
      /\ ~Answered
      /\ job[w].generation = obligation.generation
  BY <1>5 DEF EvidenceInv, CallsFit, Sending
<1>9. /\ obligation.owner = w
      /\ obligation.selected = job[w].payment
      /\ job[w].pc = "request" => obligation.operation = "REQUEST"
      /\ job[w].pc = "verify" => /\ obligation.operation = "VERIFY"
                                 /\ job[w].authority # None
                                 /\ job[w].authority = payments[job[w].payment].authority
  BY <1>5, <1>8 DEF EvidenceInv, ClaimsFit, SettlementsFit, Asking, Checking
<1>10. \A v \in Workers : ~Sending(v)'
  <2>1. \A v \in Workers \ {w} : job[v].generation = obligation.generation
          /\ job[v].pc \in Asking \cup Checking => FALSE
    BY <1>9 DEF EvidenceInv, ClaimsFit
  <2>2. \A v \in Workers \ {w} : ~Sending(v)
    BY <2>1 DEF EvidenceInv, CallsFit, Sending, Asking, Checking
  <2>3. /\ ~Sending(w)'
        /\ \A v \in Workers \ {w} : job'[v] = job[v]
    BY <1>5, GoToJob DEF EvidenceInv, PaymentInv, PaymentTypeOK, Steps, Sending
  <2>. QED  BY <2>2, <2>3 DEF Sending
<1>11. ~Answered'
  BY <1>2, <1>6, <1>8, AnsweredBefore DEF Answered
<1>12. CallsFit'
  BY <1>2, <1>4, <1>8, <1>9, <1>10, <1>11, <1>5 DEF CallsFit, OneLiveCall
<1>13. AuthoritiesFit'
  <2>1. Ungranted' => Ungranted
    BY <1>2, <1>4, <1>5, <1>6, <1>9 DEF Ungranted, QuietJobs, QuietJob
  <2>2. \A a \in offered' : Issued(a)'
    BY <1>2 DEF EvidenceInv, AuthoritiesFit, Issued, PaymentInv, PaymentTypeOK
  <2>. QED  BY <1>1, <1>7, <2>1, <2>2, CalmAuthorities
<1>14. OffersFit' /\ SettledIsBacked'
  BY <1>2 DEF EvidenceInv, OffersFit, SettledIsBacked, SettledIsVerified, CaptureSaved
<1>15. CaptureIsGenuine' /\ Captured' = Captured
  BY <1>1, <1>2, <1>7, CalmCaptures, CapturedKept DEF Calm
<1>16. EvidenceInv'
  BY <1>1, <1>7, <1>12, <1>13, <1>14, <1>15, CalmClaims, CalmEvidence, CalmSettlements
     DEF EvidenceInv
<1>. QED  BY <1>2, <1>15, <1>16 DEF Progress

LEMMA UncertainEvidence ==
  ASSUME EvidenceInv, NEW w \in Workers, RequestUncertain(w) \/ VerifyUncertain(w)
  PROVE  EvidenceInv' /\ Progress
<1>1. PaymentInv' /\ Kept /\ obligation \in Obligation
  BY UncertainStep DEF EvidenceInv, PaymentInv, PaymentTypeOK
<1>2. PICK r \in {"REQUEST_UNRESOLVED", "VERIFY_UNRESOLVED"} :
        obligation' = Uncertain(obligation, job[w].generation, w, r)
  BY DEF RequestUncertain, VerifyUncertain
<1>3. /\ obligation'.generation = obligation.generation
      /\ obligation'.owner = obligation.owner
      /\ obligation'.operation = obligation.operation
      /\ obligation'.selected = obligation.selected
      /\ \/ obligation' = obligation
         \/ obligation'.state = "UNCERTAIN" /\ obligation'.reason = r
  BY <1>1, <1>2 DEF Uncertain, Obligation
<1>4. /\ Return(w)
      /\ UNCHANGED <<payments, results, gateway, calls, offered>>
      /\ Rows' = Rows
      /\ Verified' = Verified
  BY DEF RequestUncertain, VerifyUncertain, outside, Rows, Verified
<1>5. AuthoritiesKept /\ results \subseteq results'
  BY <1>4 DEF AuthoritiesKept
<1>6. QuietJobs
  BY <1>4, <1>5, ReturnQuiet
<1>7. Answered' => Answered
  BY <1>3, <1>4, <1>6, AnsweredBefore DEF Answered
<1>8. Quiet
  BY <1>3, <1>4, <1>5, <1>6, <1>7 DEF Quiet, Calm, SameClaim, QuietResults, QuietPayments,
     EvidenceInv, OneRow
<1>9. OffersFit'
  BY <1>3, <1>4 DEF EvidenceInv, OffersFit
<1>10. SettledIsBacked'
  BY <1>1, <1>3, <1>4 DEF EvidenceInv, SettledIsBacked, PaymentInv, CaptureSaved
<1>11. \A a \in offered' : Issued(a)'
  BY <1>4 DEF EvidenceInv, AuthoritiesFit, Issued, PaymentInv, PaymentTypeOK
<1>. QED  BY <1>1, <1>4, <1>8, <1>9, <1>10, <1>11, QuietFrame

LEMMA PublishEvidence ==
  ASSUME EvidenceInv, NEW w \in Workers, Publish(w),
         Return(w) \/ GoTo(w, "saveNoAuthority")
  PROVE  EvidenceInv' /\ Progress
<1>. DEFINE p == job[w].payment
            a == job[w].authority
<1>1. PaymentInv' /\ Kept /\ PaymentTypeOK
  BY PublishStep DEF EvidenceInv, PaymentInv
<1>2. job[w].pc = "finish" /\ UNCHANGED <<results, gateway, calls, requests>>
  BY DEF Publish, At
<1>3. CASE ~Publishes(w)
  <2>1. UNCHANGED <<records, outside>>
    BY <1>2, <1>3 DEF Publish, records, outside
  <2>. QED  BY <1>2, <2>1, ReturnEvidence, GoToEvidence DEF Steps, WithPayment, Asking, Checking
<1>4. CASE Publishes(w)
  <2>1. /\ obligation' = Payable(obligation)
        /\ payments' = [payments EXCEPT ![p] = Published(@, a)]
        /\ offered' = offered \cup {a}
    BY <1>4 DEF Publish
  <2>2. /\ obligation.generation = job[w].generation
        /\ obligation.selected = p
        /\ obligation.state # "SETTLED"
    BY <1>4 DEF Publishes, MayFinish
  <2>3. /\ obligation.operation = "REQUEST"
        /\ Answered
        /\ a # None
        /\ ~Unissued(a)
        /\ p \in Rows
        /\ p \in Payments
        /\ a \in Authorities
    BY <1>1, <1>2, <2>2 DEF EvidenceInv, ClaimsFit, Asking, Answered, PaymentInv,
       RowsAreReal, AuthoritiesFit, WithPayment, Steps, Rows, PaymentTypeOK, Job
  <2>4. payments[p].authority # None => payments[p].authority = a
    BY <2>3, SameAuthority
  <2>5. /\ \A q \in Payments \ {p} : payments'[q] = payments[q]
        /\ payments'[p].authority = a
        /\ payments'[p].status \in {payments[p].status, "REDIRECT_READY"}
    BY <1>1, <2>1, <2>3 DEF PaymentTypeOK, Published
  <2>6. Verified = {}
    BY <2>2, <2>3 DEF EvidenceInv, PaymentInv, SettledIsVerified, ClaimsFit, NoObligation
  <2>7. Rows' = Rows /\ Verified' = Verified
    BY <2>3, <2>5, <2>6 DEF Rows, Verified
  <2>8. QuietPayments
    BY <2>3, <2>4, <2>5 DEF QuietPayments, AuthoritiesKept
  <2>9. QuietJobs
    BY <1>2, <2>8, ReturnQuiet, GoToQuiet DEF QuietPayments, Steps, Asking, Checking
  <2>10. /\ obligation'.generation = obligation.generation
         /\ obligation'.owner = obligation.owner
         /\ obligation'.operation = obligation.operation
         /\ obligation'.selected = obligation.selected
         /\ obligation'.state = "PAYABLE"
         /\ obligation'.reason = "NONE"
    BY <1>1, <2>1 DEF Payable, PaymentTypeOK, Obligation
  <2>11. Answered' => Answered
    BY <2>3
  <2>12. Quiet
    BY <1>2, <2>7, <2>8, <2>9, <2>10, <2>11 DEF Quiet, Calm, SameClaim, QuietResults
  <2>13. OffersFit'
    <3>1. offered \subseteq {payments[p].authority} /\ None \notin offered
      BY <1>1, <2>2, <2>3, NoneIsFresh DEF EvidenceInv, OffersFit, PaymentTypeOK
    <3>. QED  BY <2>1, <2>2, <2>3, <2>4, <2>5, <2>10, <3>1 DEF OffersFit
  <2>14. SettledIsBacked'
    BY <1>1, <2>10 DEF SettledIsBacked, PaymentInv
  <2>15. \A b \in offered' : Issued(b)'
    <3>1. \A b \in offered : b = a
      BY <1>1, <2>2, <2>3, <2>4, NoneIsFresh DEF EvidenceInv, OffersFit, PaymentTypeOK
    <3>. QED  BY <2>1, <2>3, <2>5, <3>1 DEF Issued
  <2>. QED  BY <1>1, <2>7, <2>12, <2>13, <2>14, <2>15, QuietFrame
<1>. QED  BY <1>3, <1>4

\* The transaction that records the capture, in either programme.
LEMMA RecordEvidence ==
  ASSUME EvidenceInv, NEW w \in Workers, At(w, "record"), GoTo(w, "complete"),
         UNCHANGED <<results, outside>>,
         \/ UNCHANGED <<payments, obligation>>
         \/ /\ payments' = [payments EXCEPT ![job[w].payment].status = "VERIFIED"]
            /\ obligation' = [obligation EXCEPT !.state = "SETTLED",
                                                !.reason = "NONE"]
  PROVE  EvidenceInv' /\ Progress
<1>. DEFINE p == job[w].payment
<1>1. PaymentInv' /\ Kept /\ PaymentTypeOK
  BY RecordStep DEF EvidenceInv, PaymentInv
<1>2. CASE UNCHANGED <<payments, obligation>>
  BY <1>2, GoToEvidence DEF records, Steps, WithPayment, Asking, Checking
<1>3. CASE /\ payments' = [payments EXCEPT ![p].status = "VERIFIED"]
           /\ obligation' = [obligation EXCEPT !.state = "SETTLED", !.reason = "NONE"]
  <2>1. /\ obligation.operation = "VERIFY"
        /\ obligation.selected = p
        /\ CaptureSaved(results, job[w].authority)
        /\ job[w].authority # None
        /\ job[w].authority = payments[p].authority
        /\ p \in Rows
        /\ p \in Payments
    BY DEF At, EvidenceInv, SettlementsFit, PaymentInv, RowsAreReal, WithPayment, Steps, Rows
  <2>2. Rows = {p}
    BY <2>1 DEF EvidenceInv, OneRow
  <2>3. /\ \A q \in Payments : payments'[q].authority = payments[q].authority
        /\ \A q \in Payments \ {p} : payments'[q] = payments[q]
        /\ payments'[p].status = "VERIFIED"
    BY <1>1, <1>3, <2>1 DEF PaymentTypeOK, PaymentRow
  <2>4. Rows' = Rows /\ Verified' = {p}
    BY <2>1, <2>2, <2>3 DEF Rows, Verified
  <2>5. p \in Captured
    BY <2>1 DEF Captured, EvidenceInv, EvidenceFits, CaptureSaved
  <2>6. Verified' = Verified \/ Verified = {}
    BY <2>2, <2>4 DEF Rows, Verified
  <2>7. /\ obligation'.generation = obligation.generation
        /\ obligation'.owner = obligation.owner
        /\ obligation'.operation = obligation.operation
        /\ obligation'.selected = obligation.selected
        /\ obligation'.state = "SETTLED"
        /\ obligation'.reason = "NONE"
    BY <1>1, <1>3 DEF PaymentTypeOK, Obligation
  <2>8. UNCHANGED <<results, gateway, calls, offered>>
    BY DEF outside
  <2>9. QuietPayments /\ AuthoritiesKept
    BY <2>3 DEF QuietPayments, AuthoritiesKept
  <2>10. QuietJobs
    BY <2>8, <2>9, GoToQuiet DEF Steps, Asking, Checking
  <2>11. Answered' => Answered
    BY <2>7, <2>8, <2>10, AnsweredBefore
  <2>12. Quiet
    BY <2>4, <2>7, <2>8, <2>9, <2>10, <2>11 DEF Quiet, Calm, SameClaim, QuietResults
  <2>13. OffersFit'
    BY <2>1, <2>7 DEF OffersFit
  <2>14. SettledIsBacked'
    BY <1>1, <2>1, <2>3, <2>4, <2>7, <2>8 DEF SettledIsBacked, PaymentInv, CaptureSaved
  <2>15. \A b \in offered' : Issued(b)'
    BY <1>1, <2>3, <2>8 DEF EvidenceInv, AuthoritiesFit, Issued, PaymentTypeOK
  <2>. QED  BY <1>1, <2>4, <2>5, <2>6, <2>12, <2>13, <2>14, <2>15, QuietFrame
<1>. QED  BY <1>2, <1>3

(* The transactions that call paymentObligation(tx).                        *)

\* An obligation that was only loaded is still the same claim.
LEMMA LoadedQuiet ==
  ASSUME EvidenceInv, PaymentInv', obligation' = LoadedObligation,
         payments' = LoadedPayments, LoadedObligation.state # "READY",
         results \subseteq results'
  PROVE  /\ SameClaim
         /\ QuietPayments
         /\ Rows' = Rows
         /\ Verified' = Verified
         /\ SettledIsBacked'
         /\ obligation'.state = "PAYABLE" =>
              /\ Answered
              /\ obligation'.operation = "REQUEST"
              /\ payments'[obligation'.selected].authority # None
         /\ obligation'.operation = "REQUEST" =>
              \A a \in offered : a = payments'[obligation'.selected].authority
         /\ \A a \in offered : Issued(a)'
<1>1. /\ SameClaim
      /\ obligation'.operation # "NONE" => obligation'.selected = obligation.selected
      /\ obligation'.operation = obligation.operation
  BY LoadedClaim, LoadedFresh DEF SameClaim, EvidenceInv
<1>2. /\ QuietPayments
      /\ Rows' = Rows
      /\ Verified' = Verified
      /\ \A p \in Verified : payments'[p] = payments[p]
  BY LoadedAuthorities, LoadedRealRows DEF EvidenceInv
<1>3. SettledIsBacked'
  <2>1. SettledIsVerified'
    BY DEF PaymentInv
  <2>2. ASSUME obligation'.state = "SETTLED", obligation'.selected # None
        PROVE  /\ obligation'.selected \in Verified'
               /\ obligation'.operation # "NONE" =>
                    CaptureSaved(results', payments'[obligation'.selected].authority)
    <3>1. /\ obligation'.selected \in Verified
          /\ obligation'.operation # "NONE" => obligation.state = "SETTLED"
      BY <2>2, LoadedClaim
    <3>2. ASSUME obligation'.operation # "NONE"
          PROVE  CaptureSaved(results, payments[obligation.selected].authority)
      BY <1>1, <2>2, <3>1, <3>2 DEF EvidenceInv, SettledIsBacked
    <3>. QED  BY <1>1, <1>2, <3>1, <3>2 DEF CaptureSaved
  <2>. QED  BY <2>1, <2>2 DEF SettledIsBacked, CaptureSaved
<1>4. obligation'.state = "PAYABLE" =>
        /\ Answered
        /\ obligation'.operation = "REQUEST"
        /\ payments'[obligation'.selected].authority # None
  BY <1>1, LoadedClaim, LoadedAuthorities
<1>5. ASSUME obligation'.operation = "REQUEST", NEW a \in offered
      PROVE  a = payments'[obligation'.selected].authority
  <2>1. a = payments[obligation.selected].authority /\ a # None
    BY <1>1, <1>5, NoneIsFresh DEF EvidenceInv, OffersFit, PaymentInv, PaymentTypeOK
  <2>2. obligation.selected \in Payments
    BY <1>1, <1>5 DEF EvidenceInv, OneRow, Rows
  <2>. QED  BY <1>1, <1>2, <1>5, <2>1, <2>2 DEF QuietPayments, AuthoritiesKept
<1>6. ASSUME NEW a \in offered
      PROVE  Issued(a)'
  <2>1. PICK p \in Payments : payments[p].authority = a
    BY DEF EvidenceInv, AuthoritiesFit, Issued, PaymentInv, PaymentTypeOK
  <2>2. a # None
    BY NoneIsFresh DEF EvidenceInv, PaymentInv, PaymentTypeOK
  <2>. QED  BY <1>2, <2>1, <2>2 DEF QuietPayments, AuthoritiesKept, Issued
<1>. QED  BY <1>1, <1>2, <1>3, <1>4, <1>5, <1>6

LEMMA ServeExistingEvidence ==
  ASSUME EvidenceInv, NEW w \in Workers, ServeExisting(w),
         LoadedObligation.state # "READY"
  PROVE  EvidenceInv' /\ Progress
<1>. DEFINE p == LoadedObligation.selected
            a == IF p = None THEN None ELSE LoadedPayments[p].authority
<1>1. PaymentInv' /\ Kept
  BY ServeExistingStep DEF EvidenceInv
<1>2. /\ obligation' = LoadedObligation
      /\ payments' = LoadedPayments
      /\ UNCHANGED <<results, gateway, calls>>
  BY DEF ServeExisting
<1>3. /\ SameClaim
      /\ QuietPayments
      /\ AuthoritiesKept
      /\ Rows' = Rows
      /\ Verified' = Verified
      /\ SettledIsBacked'
      /\ obligation'.state = "PAYABLE" =>
           /\ Answered
           /\ obligation'.operation = "REQUEST"
           /\ payments'[obligation'.selected].authority # None
      /\ obligation'.operation = "REQUEST" =>
           \A b \in offered : b = payments'[obligation'.selected].authority
      /\ \A b \in offered : Issued(b)'
  BY <1>1, <1>2, LoadedQuiet DEF QuietPayments
<1>4. a # None => p \in Payments /\ payments'[p].authority = a
  BY <1>2, LoadedFresh DEF EvidenceInv, Rows
<1>5. /\ \/ offered' = offered
         \/ a # None /\ offered' = offered \cup {a}
      /\ \/ Return(w)
         \/ /\ a # None
            /\ job' = [job EXCEPT ![w] = [pc |-> "settle", payment |-> p,
                                          authority |-> a, generation |-> 0]]
  BY DEF ServeExisting
<1>6. QuietJobs
  <2>1. CASE Return(w)
    BY <1>2, <1>3, <2>1, ReturnQuiet
  <2>2. CASE a # None /\ job' = [job EXCEPT ![w] = [pc |-> "settle", payment |-> p,
                                          authority |-> a, generation |-> 0]]
    <3>1. results \subseteq results' /\ p \in Payments /\ payments'[p].authority = a
      BY <1>2, <1>4, <2>2
    <3>. HIDE DEF a, p
    <3>. QED  BY <1>3, <2>2, <3>1, SettleQuiet
  <2>. QED  BY <1>5, <2>1, <2>2
<1>7. Answered' => Answered
  BY <1>2, <1>3, <1>6, AnsweredBefore DEF SameClaim
<1>8. Quiet
  BY <1>2, <1>3, <1>6, <1>7 DEF Quiet, Calm, QuietResults
<1>9. OffersFit'
  BY <1>2, <1>3, <1>4, <1>5 DEF OffersFit
<1>10. \A b \in offered' : Issued(b)'
  BY <1>3, <1>4, <1>5 DEF Issued
<1>. QED  BY <1>1, <1>3, <1>8, <1>9, <1>10, QuietFrame

\* The branches of beginPaymentVerification that do not claim anything.
LEMMA NoClaimEvidence ==
  ASSUME EvidenceInv, NEW w \in Workers, BeginVerification(w),
         obligation' = LoadedObligation
  PROVE  EvidenceInv' /\ Progress
<1>. DEFINE p == job[w].payment
            a == job[w].authority
            o == LoadedObligation
<1>1. PaymentInv' /\ Kept
  BY BeginVerificationStep DEF EvidenceInv
<1>2. /\ payments' = LoadedPayments
      /\ UNCHANGED <<gateway, calls, offered>>
      /\ job[w].pc = "settle"
  BY DEF BeginVerification, outside, At
<1>3. /\ p \in Rows
      /\ a # None
      /\ a = payments[p].authority
      /\ p \in Payments
  BY <1>2 DEF EvidenceInv, PaymentInv, RowsAreReal, SettlementsFit, WithPayment, Steps, Rows
<1>4. o.state # "READY"
  BY <1>3, LoadedFresh DEF EvidenceInv
<1>5. /\ o.operation \in {"NONE", "REQUEST", "VERIFY"}
      /\ o.generation \in Nat
      /\ job \in [Workers -> Job]
  BY LoadedType DEF EvidenceInv, PaymentInv, PaymentTypeOK, Obligation
<1>6. /\ \A r \in results' \ results : r.outcome = "COMPETING_CALLBACK"
      /\ results \subseteq results'
      /\ \/ Return(w) \/ GoTo(w, "complete")
         \/ /\ GoTo(w, "record")
            /\ o.selected = p
            /\ CaptureSaved(results, a)
            /\ results' = results
  <2>1. CASE o.selected # p
    BY <2>1, SavedKnown DEF BeginVerification
  <2>2. CASE o.selected = p
    <3>1. obligation' # Claimed(o, "VERIFY", p, w)
      BY <1>5 DEF Claimed
    <3>. QED  BY <2>2, <3>1 DEF BeginVerification
  <2>. QED  BY <2>1, <2>2
<1>7. /\ SameClaim
      /\ QuietPayments
      /\ AuthoritiesKept
      /\ Rows' = Rows
      /\ Verified' = Verified
      /\ SettledIsBacked'
      /\ obligation'.state = "PAYABLE" =>
           /\ Answered
           /\ obligation'.operation = "REQUEST"
           /\ payments'[obligation'.selected].authority # None
      /\ obligation'.operation = "REQUEST" =>
           \A b \in offered : b = payments'[obligation'.selected].authority
      /\ \A b \in offered : Issued(b)'
  BY <1>1, <1>2, <1>4, <1>6, LoadedQuiet DEF QuietPayments
<1>8. QuietJobs
  <2>1. CASE Return(w)
    BY <1>6, <1>7, <2>1, ReturnQuiet
  <2>2. CASE GoTo(w, "complete")
    BY <1>6, <1>7, <2>2, GoToQuiet DEF Steps, Asking, Checking
  <2>3. CASE GoTo(w, "record") /\ o.selected = p /\ CaptureSaved(results, a) /\ results' = results
    <3>1. obligation.operation = "VERIFY"
      BY <2>3 DEF CaptureSaved, EvidenceInv, EvidenceFits
    <3>2. obligation.selected = p
      BY <2>3, <3>1, LoadedClaim
    <3>3. /\ job'[w].pc = "record"
          /\ job'[w].payment = p
          /\ job'[w].authority = a
          /\ \A v \in Workers \ {w} : job'[v] = job[v]
      BY <1>5, <2>3, GoToJob DEF Steps
    <3>4. payments'[p].authority = a
      BY <1>3, <1>7 DEF AuthoritiesKept
    <3>5. QuietJob(w)
      BY <1>3, <2>3, <3>1, <3>2, <3>3, <3>4 DEF QuietJob, Asking, Checking
    <3>. QED  BY <1>6, <1>7, <3>3, <3>5, SameJobQuiet DEF QuietJobs
  <2>. QED  BY <1>6, <2>1, <2>2, <2>3
<1>9. Answered' => Answered
  BY <1>6, <1>7, <1>8, AnsweredBefore DEF SameClaim, Answers
<1>10. Quiet
  BY <1>2, <1>6, <1>7, <1>8, <1>9 DEF Quiet, Calm, QuietResults, Answers
<1>11. OffersFit'
  BY <1>2, <1>7 DEF OffersFit
<1>12. \A b \in offered' : Issued(b)'
  BY <1>2, <1>7 DEF Issued
<1>. QED  BY <1>1, <1>7, <1>10, <1>11, <1>12, QuietFrame

\* A verification is claimed only when nothing can be alive at the gateway any
\* more, and only of the one row.
LEMMA ClaimedAlone ==
  ASSUME EvidenceInv, NEW p \in Rows, NEW a, LoadedObligation.selected = p,
         CanCheck(LoadedObligation, results, a)
  PROVE  calls = {} /\ (\A w \in Workers : ~Sending(w)) /\ Rows = {p}
<1>. DEFINE o == LoadedObligation
<1>1. CASE o.state = "PAYABLE"
  <2>1. Answered /\ o.operation = "REQUEST" /\ o.selected = obligation.selected
        /\ obligation.operation = "REQUEST"
    BY <1>1, LoadedClaim
  <2>. QED  BY <2>1 DEF EvidenceInv, CallsFit, OneRow
<1>2. CASE o.operation = "NONE" /\ o.reason = "HISTORICAL_ATTEMPT"
  <2>1. obligation.operation = "NONE" /\ IsSingleton(Rows)
    BY <1>2, LoadedClaim
  <2>2. calls = {}
    BY <2>1 DEF EvidenceInv, CallsFit
  <2>3. \A w \in Workers : ~Sending(w)
    BY <2>1 DEF EvidenceInv, CallsFit, ClaimsFit, Sending, Asking, Checking
  <2>. QED  BY <2>1, <2>2, <2>3 DEF IsSingleton
<1>3. CASE o.operation = "VERIFY" /\ PriorRejected(o, results, a)
  <2>1. o = obligation
    BY <1>3, LoadedClaim
  <2>2. Answered
    BY <1>3, <2>1 DEF PriorRejected, Answered, Answers
  <2>. QED  BY <1>3, <2>1, <2>2 DEF EvidenceInv, CallsFit, OneRow
<1>. QED  BY <1>1, <1>2, <1>3 DEF CanCheck

LEMMA ClaimEvidence ==
  ASSUME EvidenceInv, NEW w \in Workers, BeginVerification(w),
         obligation' # LoadedObligation
  PROVE  EvidenceInv' /\ Progress
<1>. DEFINE p == job[w].payment
            a == job[w].authority
            o == LoadedObligation
<1>1. PaymentInv' /\ Kept /\ PaymentTypeOK
  BY BeginVerificationStep DEF EvidenceInv, PaymentInv
<1>2. /\ payments' = LoadedPayments
      /\ UNCHANGED <<results, gateway, calls, offered>>
      /\ job[w].pc = "settle"
      /\ o.selected = p
      /\ ~CaptureSaved(results, a)
      /\ CanCheck(o, results, a)
      /\ obligation' = Claimed(o, "VERIFY", p, w)
      /\ job' = [job EXCEPT ![w].pc = "verify", ![w].generation = o.generation + 1]
  BY DEF BeginVerification, outside, At
<1>3. /\ p \in Rows
      /\ p \in Payments
      /\ a # None
      /\ a = payments[p].authority
  BY <1>2 DEF EvidenceInv, PaymentInv, RowsAreReal, SettlementsFit, WithPayment, Steps, Rows
<1>4. calls = {} /\ (\A v \in Workers : ~Sending(v)) /\ Rows = {p}
  BY <1>2, <1>3, ClaimedAlone
<1>5. /\ o.generation = obligation.generation
      /\ o.operation = obligation.operation
      /\ obligation.operation = "VERIFY" => obligation.selected = p
      /\ o.generation \in Nat
  BY <1>1, <1>2, LoadedClaim DEF PaymentTypeOK, Obligation
<1>6. /\ obligation'.state = "VERIFYING"
      /\ obligation'.operation = "VERIFY"
      /\ obligation'.owner = w
      /\ obligation'.generation = obligation.generation + 1
      /\ obligation'.reason = "NONE"
      /\ obligation'.selected = p
  BY <1>2, <1>5 DEF Claimed
<1>7. /\ job'[w].pc = "verify"
      /\ job'[w].generation = obligation.generation + 1
      /\ job'[w].payment = p
      /\ job'[w].authority = a
      /\ \A v \in Workers \ {w} : job'[v] = job[v]
  BY <1>1, <1>2, <1>5 DEF PaymentTypeOK, Job
<1>8. /\ QuietPayments
      /\ Rows' = Rows
      /\ Verified' = Verified
      /\ \A q \in Verified : payments'[q] = payments[q]
      /\ \A q \in Payments : payments[q].authority # None
           => payments'[q].authority = payments[q].authority
  BY <1>2, LoadedAuthorities, LoadedRealRows DEF EvidenceInv, QuietPayments, AuthoritiesKept
<1>9. \A v \in Workers \ {w} : job'[v].pc \in Asking \cup Checking =>
        job'[v].generation \in Nat /\ job'[v].generation < obligation'.generation
  <2>1. ASSUME NEW v \in Workers \ {w}, job[v].pc \in Asking \cup Checking
        PROVE  job[v].generation \in Nat /\ job[v].generation <= obligation.generation
    BY <1>1, <2>1 DEF EvidenceInv, ClaimsFit, PaymentTypeOK, Job
  <2>. QED  BY <1>5, <1>6, <1>7, <2>1
<1>10. ClaimsFit'
  BY <1>5, <1>6, <1>7, <1>9 DEF ClaimsFit, Asking, Checking
<1>11. OneRow'
  BY <1>4, <1>6, <1>8 DEF OneRow
<1>12. ASSUME NEW r \in results, r.outcome \in Answers
       PROVE  r.generation \in Nat /\ r.generation < obligation'.generation
  BY <1>1, <1>5, <1>6, <1>12 DEF EvidenceInv, EvidenceFits, PaymentTypeOK, Result
<1>13. ~Answered'
  <2>1. obligation'.generation \in Nat /\ \A g \in Nat : g < obligation'.generation => g # obligation'.generation
    BY <1>5, <1>6
  <2>2. ASSUME NEW r \in results, r.outcome \in Answers, r.generation = obligation'.generation
        PROVE  FALSE
    BY <1>12, <2>1, <2>2
  <2>3. ASSUME NEW v \in Workers,
               job'[v].pc \in {"saveAuthority", "finish", "saveCaptured", "saveRejected"},
               job'[v].generation = obligation'.generation
        PROVE  FALSE
    <3>1. v # w /\ job'[v].pc \in Asking \cup Checking
      BY <1>7, <2>3 DEF Asking, Checking
    <3>. QED  BY <1>9, <2>1, <2>3, <3>1
  <2>4. results' = results /\ obligation'.state # "PAYABLE"
    BY <1>2, <1>6
  <2>. QED  BY <2>2, <2>3, <2>4 DEF Answered
<1>14. CallsFit'
  BY <1>2, <1>4, <1>6, <1>7, <1>13 DEF CallsFit, OneLiveCall, Sending
<1>15. AuthoritiesFit'
  <2>1. ASSUME NEW q \in Payments, payments'[q].authority # None
        PROVE  ~Unissued(payments[q].authority)'
    <3>1. ~Unissued(payments'[q].authority)
      BY <1>8, <2>1 DEF QuietPayments, EvidenceInv, AuthoritiesFit
    <3>. QED  BY <1>2, <3>1 DEF Unissued
  <2>2. ASSUME NEW v \in Workers, job'[v].pc \in {"saveAuthority", "finish"}
        PROVE  ~Unissued(job[v].authority)'
    <3>1. job'[v] = job[v]
      BY <1>7, <2>2
    <3>. QED  BY <1>2, <2>2, <3>1 DEF EvidenceInv, AuthoritiesFit, Unissued
  <2>3. ASSUME NEW b \in Authorities, b \in offered' \/ gateway'[b] \in {"PAID", "CAPTURED"}
        PROVE  Issued(b)'
    BY <1>2, <1>8, <2>3, NoneIsFresh DEF EvidenceInv, AuthoritiesFit, Issued
  <2>4. ~Ungranted'
    BY <1>2, <1>4, <1>7, <1>8 DEF Ungranted, Sending
  <2>. QED  BY <1>6, <2>1, <2>2, <2>3, <2>4 DEF AuthoritiesFit
<1>16. ASSUME NEW r \in results, r.outcome = "CAPTURED"
       PROVE  FALSE
  BY <1>2, <1>3, <1>5, <1>16 DEF EvidenceInv, EvidenceFits, CaptureSaved
<1>17. EvidenceFits'
  <2>1. ASSUME NEW r \in results, r.outcome \in Answers
        PROVE  r.generation <= obligation'.generation
    <3>1. r.generation \in Nat /\ obligation'.generation \in Nat
             /\ r.generation < obligation'.generation
      BY <1>5, <1>6, <1>12, <2>1
    <3>. QED  BY <3>1
  <2>2. \A r \in results : r.outcome = "AUTHORITY" => r.authority # None /\ ~Unissued(r.authority)
    BY DEF EvidenceInv, EvidenceFits
  <2>3. results' = results /\ gateway' = gateway
    BY <1>2
  <2>. QED  BY <1>16, <2>1, <2>2, <2>3 DEF EvidenceFits, Unissued
<1>18. SettlementsFit'
  <2>1. ASSUME NEW v \in Workers, job'[v].pc \in Checking \cup {"settle", "record"}
        PROVE  /\ job'[v].authority # None
               /\ job'[v].authority = payments'[job'[v].payment].authority
               /\ job'[v].pc # "settle" => obligation'.selected = job'[v].payment
               /\ job'[v].pc = "saveCaptured" => gateway'[job'[v].authority] = "CAPTURED"
               /\ job'[v].pc = "record" => CaptureSaved(results', job'[v].authority)
    <3>1. CASE v = w
      BY <1>3, <1>6, <1>7, <1>8, <3>1
    <3>2. CASE v # w
      <4>1. job'[v] = job[v] /\ job[v].pc \in Checking \cup {"settle", "record"}
        BY <1>7, <2>1, <3>2
      <4>2. job[v].payment \in Payments
        BY <4>1 DEF EvidenceInv, PaymentInv, RowsAreReal, Rows, WithPayment, Steps, Checking
      <4>3. /\ job[v].authority # None
            /\ job[v].authority = payments[job[v].payment].authority
            /\ job[v].pc # "settle" => /\ obligation.operation = "VERIFY"
                                       /\ obligation.selected = job[v].payment
            /\ job[v].pc = "saveCaptured" => gateway[job[v].authority] = "CAPTURED"
            /\ job[v].pc = "record" => CaptureSaved(results, job[v].authority)
        BY <4>1 DEF EvidenceInv, SettlementsFit
      <4>. QED  BY <1>2, <1>5, <1>6, <1>8, <4>1, <4>2, <4>3
    <3>. QED  BY <3>1, <3>2
  <2>. QED  BY <1>6, <2>1 DEF SettlementsFit, Checking, CaptureSaved
<1>19. OffersFit'
  BY <1>6 DEF OffersFit
<1>20. CaptureIsGenuine'
  BY <1>2, <1>8, <1>16 DEF EvidenceInv, CaptureIsGenuine, CaptureSaved
<1>21. SettledIsBacked'
  BY <1>1, <1>6 DEF SettledIsBacked, PaymentInv
<1>22. Captured' = Captured
  BY <1>1, <1>2, <1>8, CapturedKept
<1>23. EvidenceInv'
  BY <1>1, <1>10, <1>11, <1>14, <1>15, <1>17, <1>18, <1>19, <1>20, <1>21 DEF EvidenceInv
<1>. QED  BY <1>6, <1>8, <1>22, <1>23 DEF Progress

LEMMA BeginVerificationEvidence ==
  ASSUME EvidenceInv, NEW w \in Workers, BeginVerification(w)
  PROVE  EvidenceInv' /\ Progress
BY NoClaimEvidence, ClaimEvidence

\* A first request meets an application of which the gateway knows nothing.
LEMMA NothingKnown ==
  ASSUME EvidenceInv, Rows = {}
  PROVE  /\ obligation.operation = "NONE"
         /\ calls = {}
         /\ offered = {}
         /\ \A v \in Workers : job[v].pc \notin WithPayment
         /\ \A a \in Authorities : Unissued(a)
         /\ \A p \in Payments : payments[p].authority = None
         /\ \A r \in results : r.outcome \notin {"AUTHORITY", "CAPTURED"}
<1>1. obligation.operation = "NONE"
  BY DEF EvidenceInv, OneRow
<1>2. calls = {}
  BY <1>1 DEF EvidenceInv, CallsFit
<1>3. \A p \in Payments : payments[p].authority = None
  BY DEF EvidenceInv, PaymentInv, RowsAreReal
<1>4. offered = {}
  BY <1>3, NoneIsFresh DEF EvidenceInv, PaymentInv, PaymentTypeOK, AuthoritiesFit, Issued
<1>5. \A v \in Workers : job[v].pc \notin WithPayment
  BY DEF EvidenceInv, PaymentInv, RowsAreReal
<1>6. \A a \in Authorities : Unissued(a)
  BY DEF EvidenceInv, AuthoritiesFit, Ungranted
<1>7. \A r \in results : r.outcome \notin {"AUTHORITY", "CAPTURED"}
  BY <1>1, <1>6 DEF EvidenceInv, EvidenceFits, PaymentInv, PaymentTypeOK, Result
<1>. QED  BY <1>1, <1>2, <1>3, <1>4, <1>5, <1>6, <1>7

LEMMA NewPaymentEvidence ==
  ASSUME EvidenceInv, NEW w \in Workers, NewPayment(w)
  PROVE  EvidenceInv' /\ Progress
<1>. DEFINE g == obligation.generation + 1
<1>1. PaymentInv' /\ PaymentTypeOK
  BY NewPaymentStep DEF EvidenceInv, PaymentInv
<1>2. PICK p \in Payments \ Rows :
        /\ payments' = [payments EXCEPT ![p].status = "INITIATED"]
        /\ obligation' = Claimed(LoadedObligation, "REQUEST", p, w)
        /\ job' = [job EXCEPT ![w] =
                     [pc |-> "request", payment |-> p, authority |-> None,
                      generation |-> LoadedObligation.generation + 1]]
  BY DEF NewPayment
<1>3. Rows = {}
  BY LoadedFresh DEF NewPayment, EvidenceInv
<1>4. /\ obligation.operation = "NONE"
      /\ calls = {}
      /\ offered = {}
      /\ \A v \in Workers : job[v].pc \notin WithPayment
      /\ \A a \in Authorities : Unissued(a)
      /\ \A q \in Payments : payments[q].authority = None
      /\ \A r \in results : r.outcome \notin {"AUTHORITY", "CAPTURED"}
  BY <1>3, NothingKnown
<1>5. LoadedObligation.generation = obligation.generation /\ obligation.generation \in Nat
  BY <1>1, LoadedClaim DEF PaymentTypeOK, Obligation
<1>6. /\ obligation'.state = "REQUESTING"
      /\ obligation'.operation = "REQUEST"
      /\ obligation'.owner = w
      /\ obligation'.generation = g
      /\ obligation'.reason = "NONE"
      /\ obligation'.selected = p
  BY <1>2, <1>5 DEF Claimed
<1>7. /\ job'[w].pc = "request"
      /\ job'[w].generation = g
      /\ job'[w].payment = p
      /\ \A v \in Workers \ {w} : job'[v] = job[v]
  BY <1>1, <1>2, <1>5 DEF PaymentTypeOK
<1>8. /\ UNCHANGED <<results, gateway, calls, offered>>
  BY DEF NewPayment, outside
<1>9. /\ \A q \in Payments : payments'[q].authority = None
      /\ Rows' = {p}
      /\ Verified' = {}
      /\ Verified = {}
  BY <1>1, <1>2, <1>3, <1>4 DEF PaymentTypeOK, PaymentRow, Rows, Verified
<1>10. \A v \in Workers : job'[v].pc \in WithPayment => v = w
  BY <1>4, <1>7
<1>11. g \in Nat /\ \A n \in Nat : n <= obligation.generation => n <= g /\ n # g
  BY <1>5
<1>. HIDE DEF g
<1>12. \A r \in results : r.outcome \in Answers
         => r.outcome = "REJECTED" /\ r.generation <= g /\ r.generation # g
  BY <1>1, <1>4, <1>11 DEF EvidenceInv, EvidenceFits, Answers, PaymentTypeOK, Result
<1>13. ClaimsFit'
  BY <1>6, <1>7, <1>10, <1>11 DEF ClaimsFit, Asking, Checking, WithPayment, Steps
<1>14. OneRow'
  BY <1>6, <1>9 DEF OneRow
<1>15. ~Answered'
  BY <1>6, <1>7, <1>8, <1>10, <1>12 DEF Answered, WithPayment, Steps
<1>16. CallsFit'
  BY <1>4, <1>6, <1>7, <1>8, <1>10, <1>15
     DEF CallsFit, OneLiveCall, Sending, WithPayment, Steps
<1>17. AuthoritiesFit'
  BY <1>4, <1>7, <1>8, <1>9, <1>10 DEF AuthoritiesFit, Unissued, WithPayment, Steps
<1>18. EvidenceFits'
  BY <1>4, <1>6, <1>8, <1>12 DEF EvidenceFits
<1>19. SettlementsFit'
  BY <1>7, <1>10 DEF SettlementsFit, Checking, WithPayment, Steps
<1>20. OffersFit'
  BY <1>4, <1>6, <1>8 DEF OffersFit
<1>21. CaptureIsGenuine'
  BY <1>4, <1>8, <1>9 DEF CaptureIsGenuine, CaptureSaved
<1>22. SettledIsBacked'
  BY <1>1, <1>6 DEF SettledIsBacked, PaymentInv
<1>23. Captured' = {} /\ Captured = {}
  BY <1>3, <1>9 DEF Captured, Rows
<1>24. EvidenceInv'
  BY <1>1, <1>13, <1>14, <1>16, <1>17, <1>18, <1>19, <1>20, <1>21, <1>22 DEF EvidenceInv
<1>. QED  BY <1>3, <1>4, <1>9, <1>23, <1>24 DEF Progress

-----------------------------------------------------------------------------
(* The gateway and the applicant                                            *)

\* Only the invocation of the present claim can still be waiting for its call.
LEMMA WaitsForClaim ==
  ASSUME EvidenceInv, NEW c \in calls
  PROVE  /\ \A v \in Workers : ~Sending(v)
         /\ calls \ {c} = {}
         /\ obligation.operation = IF c.authority = None THEN "REQUEST" ELSE "VERIFY"
         /\ Rows = {obligation.selected}
         /\ obligation.selected \in Payments
         /\ c.authority # None => c.authority = payments[obligation.selected].authority
         /\ c.owner \in Workers
         /\ Waiting(c) => /\ job[c.owner].generation = obligation.generation
                          /\ job[c.owner].payment = obligation.selected
                          /\ obligation.owner = c.owner
                          /\ job[c.owner].pc = IF c.authority = None THEN "awaitAuthority"
                                               ELSE "awaitVerdict"
<1>1. /\ c.generation = obligation.generation
      /\ c.owner = obligation.owner
      /\ c.payment = obligation.selected
      /\ c.authority = None => obligation.operation = "REQUEST"
      /\ c.authority # None => /\ obligation.operation = "VERIFY"
                               /\ c.authority = payments[c.payment].authority
      /\ \A v \in Workers : ~Sending(v)
      /\ calls \ {c} = {}
  BY DEF EvidenceInv, CallsFit, OneLiveCall
<1>2. c.owner \in Workers
  BY DEF EvidenceInv, PaymentInv, PaymentTypeOK, Call
<1>3. Rows = {obligation.selected} /\ obligation.selected \in Payments
  BY <1>1 DEF EvidenceInv, OneRow, Rows
<1>4. Waiting(c) => /\ job[c.owner].generation = obligation.generation
                    /\ job[c.owner].payment = obligation.selected
                    /\ job[c.owner].pc = IF c.authority = None THEN "awaitAuthority"
                                         ELSE "awaitVerdict"
  BY <1>1, <1>2 DEF Waiting, EvidenceInv, ClaimsFit, Asking, Checking
<1>. QED  BY <1>1, <1>2, <1>3, <1>4

LEMMA AnswerEvidence ==
  ASSUME EvidenceInv, PaymentInv', NEW c \in calls, calls' = calls \ {c},
         UNCHANGED <<records, offered>>, NEW a \in Authorities,
         NEW step \in {"saveAuthority", "saveCaptured", "saveRejected"},
         step = "saveAuthority" <=> c.authority = None,
         c.authority # None => a = c.authority,
         UNCHANGED job \/ (Waiting(c) /\ Deliver(c, step, a)),
         step = "saveAuthority" => gateway[a] = "UNISSUED" /\ gateway'[a] = "OPEN",
         step = "saveCaptured" => gateway[a] \in {"PAID", "CAPTURED"} /\ gateway'[a] = "CAPTURED",
         step = "saveRejected" => gateway[a] = "OPEN" /\ gateway'[a] = "OPEN",
         \A b \in Authorities \ {a} : gateway'[b] = gateway[b]
  PROVE  EvidenceInv' /\ Progress
<1>. DEFINE w == c.owner
            p == obligation.selected
<1>0. UNCHANGED <<payments, obligation, results, offered>> /\ Rows' = Rows /\ Verified' = Verified
  BY DEF records, Rows, Verified
<1>1. /\ \A v \in Workers : ~Sending(v)
      /\ calls' = {}
      /\ obligation.operation = IF c.authority = None THEN "REQUEST" ELSE "VERIFY"
      /\ Rows = {p}
      /\ p \in Payments
      /\ c.authority # None => a = payments[p].authority
      /\ w \in Workers
      /\ Waiting(c) => /\ job[w].generation = obligation.generation
                       /\ job[w].payment = p
                       /\ obligation.owner = w
  BY WaitsForClaim
<1>2. ASSUME NEW v \in Workers
      PROVE  \/ job'[v] = job[v]
             \/ /\ v = w
                /\ job'[v].pc = step
                /\ job'[v].authority = a
                /\ job'[v].generation = obligation.generation
                /\ job'[v].payment = p
                /\ obligation.owner = w
  BY <1>1 DEF Deliver, EvidenceInv, PaymentInv, PaymentTypeOK, Job
<1>3. /\ \A b \in Authorities : Unissued(b)' => Unissued(b)
      /\ \A b \in Authorities : gateway[b] = "CAPTURED" => gateway'[b] = "CAPTURED"
      /\ ~Unissued(a)'
  BY DEF Unissued
<1>4. ClaimsFit'
  <2>1. obligation.generation \in Nat
    BY DEF EvidenceInv, PaymentInv, PaymentTypeOK, Obligation
  <2>. QED  BY <1>0, <1>1, <1>2, <2>1 DEF EvidenceInv, ClaimsFit, Asking, Checking
<1>5. OneRow'
  BY <1>0 DEF EvidenceInv, OneRow
<1>6. \A v \in Workers : ~Sending(v)'
  BY <1>1, <1>2 DEF Sending
<1>7. CallsFit'
  BY <1>1, <1>6 DEF CallsFit, OneLiveCall
<1>8. AuthoritiesFit'
  <2>1. ASSUME NEW q \in Payments, payments'[q].authority # None
        PROVE  ~Unissued(payments[q].authority)'
    <3>1. ~Unissued(payments[q].authority) /\ payments[q].authority \in Authorities
      BY <1>0, <2>1 DEF EvidenceInv, AuthoritiesFit, PaymentInv, PaymentTypeOK, PaymentRow
    <3>. QED  BY <1>0, <1>3, <3>1 DEF Unissued
  <2>2. ASSUME NEW v \in Workers, job'[v].pc \in {"saveAuthority", "finish"}
        PROVE  ~Unissued(job[v].authority)'
    <3>1. CASE job'[v] = job[v]
      <4>1. ~Unissued(job[v].authority) /\ job[v].authority \in Authorities
        BY <2>2, <3>1 DEF EvidenceInv, AuthoritiesFit, PaymentInv, RowsAreReal, PaymentTypeOK, Job
      <4>. QED  BY <1>3, <3>1, <4>1 DEF Unissued
    <3>2. CASE job'[v].authority = a
      BY <1>3, <3>2 DEF Unissued
    <3>. QED  BY <1>2, <3>1, <3>2
  <2>3. ASSUME NEW b \in Authorities, b \in offered' \/ gateway'[b] \in {"PAID", "CAPTURED"}
        PROVE  Issued(b)'
    <3>1. b \in offered \/ gateway[b] \in {"PAID", "CAPTURED"}
      BY <1>0, <2>3
    <3>. QED  BY <1>0, <3>1 DEF EvidenceInv, AuthoritiesFit, Issued
  <2>4. ~Ungranted'
    BY <1>0, <1>1, <1>6 DEF Ungranted, Sending
  <2>5. ASSUME obligation'.operation = "REQUEST", NEW x \in Authorities, NEW y \in Authorities
        PROVE  Unissued(x)' \/ Unissued(y)' \/ x = y
    <3>1. Ungranted
      BY <1>0, <1>1, <2>5 DEF Ungranted
    <3>2. \A b \in Authorities : Unissued(b)
      BY <3>1 DEF EvidenceInv, AuthoritiesFit
    <3>. QED  BY <3>2 DEF Unissued
  <2>. QED  BY <2>1, <2>2, <2>3, <2>4, <2>5 DEF AuthoritiesFit
<1>9. EvidenceFits'
  <2>1. ASSUME NEW r \in results
        PROVE  /\ r.outcome = "AUTHORITY" => r.authority # None /\ ~Unissued(r.authority)'
               /\ r.outcome = "CAPTURED" => gateway'[r.authority] = "CAPTURED"
    <3>1. r.authority \in Authorities \cup {None}
      BY DEF EvidenceInv, PaymentInv, PaymentTypeOK, Result
    <3>2. /\ r.outcome = "AUTHORITY" => r.authority # None /\ ~Unissued(r.authority)
          /\ r.outcome = "CAPTURED" => r.authority # None /\ gateway[r.authority] = "CAPTURED"
      BY DEF EvidenceInv, EvidenceFits
    <3>. QED  BY <1>3, <3>1, <3>2 DEF Unissued
  <2>2. EvidenceFits
    BY DEF EvidenceInv
  <2>. QED  BY <1>0, <2>1, <2>2 DEF EvidenceFits, Unissued
<1>10. SettlementsFit'
  <2>1. SettlementsFit
    BY DEF EvidenceInv
  <2>2. ASSUME NEW v \in Workers
        PROVE  /\ job'[v].pc \in Checking \cup {"settle", "record"} =>
                    /\ job'[v].authority # None
                    /\ job'[v].authority = payments'[job'[v].payment].authority
               /\ job'[v].pc \in Checking \cup {"record"} =>
                    /\ obligation'.operation = "VERIFY"
                    /\ obligation'.selected = job'[v].payment
               /\ job'[v].pc = "saveCaptured" => gateway'[job'[v].authority] = "CAPTURED"
               /\ job'[v].pc = "record" => CaptureSaved(results', job'[v].authority)
    <3>1. CASE job'[v] = job[v]
      <4>1. job[v].pc = "saveCaptured" => job[v].authority \in Authorities
        BY <2>1 DEF SettlementsFit, Checking, EvidenceInv, PaymentInv, PaymentTypeOK, Job
      <4>. QED  BY <1>0, <1>3, <2>1, <3>1, <4>1 DEF SettlementsFit, Checking
    <3>2. CASE /\ job'[v].pc = step
               /\ job'[v].authority = a
               /\ job'[v].payment = p
      BY <1>0, <1>1, <3>2, NoneIsFresh DEF Checking
    <3>. QED  BY <1>2, <3>1, <3>2
  <2>. QED  BY <2>2 DEF SettlementsFit, CaptureSaved
<1>11. OffersFit' /\ SettledIsBacked'
  BY <1>0 DEF EvidenceInv, OffersFit, SettledIsBacked, SettledIsVerified, CaptureSaved
<1>12. CaptureIsGenuine'
  <2>1. \A q \in Verified : payments[q].authority \in Authorities
    BY NoneIsFresh DEF EvidenceInv, CaptureIsGenuine, Verified, PaymentInv, PaymentTypeOK, PaymentRow
  <2>. QED  BY <1>0, <1>3, <2>1 DEF EvidenceInv, CaptureIsGenuine, CaptureSaved
<1>13. EvidenceInv'
  BY <1>4, <1>5, <1>7, <1>8, <1>9, <1>10, <1>11, <1>12 DEF EvidenceInv
<1>14. \/ Captured' = Captured
       \/ Captured = {} /\ Captured' = {p}
  <2>1. payments[p].authority \in Authorities \cup {None}
    BY <1>1 DEF EvidenceInv, PaymentInv, PaymentTypeOK, PaymentRow
  <2>2. Captured \subseteq {p} /\ Captured' \subseteq {p}
    BY <1>0, <1>1 DEF Captured
  <2>3. p \in Captured => p \in Captured'
    BY <1>0, <1>1, <1>3, <2>1 DEF Captured
  <2>. QED  BY <2>2, <2>3
<1>. QED  BY <1>0, <1>1, <1>13, <1>14 DEF Progress

LEMMA PaysEvidence ==
  ASSUME EvidenceInv, PaymentInv', ApplicantPays
  PROVE  EvidenceInv' /\ Progress
<1>1. PICK a \in offered : /\ gateway[a] = "OPEN"
                           /\ gateway' = [gateway EXCEPT ![a] = "PAID"]
  BY DEF ApplicantPays
<1>2. /\ UNCHANGED <<payments, obligation, results, job, calls, offered>>
      /\ Rows' = Rows
      /\ Verified' = Verified
  BY DEF ApplicantPays, records, Rows, Verified
<1>3. a \in Authorities /\ gateway \in [Authorities -> {"UNISSUED", "OPEN", "PAID", "CAPTURED"}]
  BY DEF EvidenceInv, PaymentInv, PaymentTypeOK
<1>4. /\ \A b \in Authorities : Unissued(b)' <=> Unissued(b)
      /\ \A b \in Authorities : gateway'[b] = "CAPTURED" <=> gateway[b] = "CAPTURED"
      /\ \A b \in Authorities : gateway'[b] \in {"PAID", "CAPTURED"}
           => b \in offered \/ gateway[b] \in {"PAID", "CAPTURED"}
  BY <1>1, <1>3 DEF Unissued
<1>5. ClaimsFit' /\ OneRow' /\ OffersFit' /\ SettledIsBacked'
  BY <1>2 DEF EvidenceInv, ClaimsFit, OneRow, OffersFit, SettledIsBacked,
     SettledIsVerified, CaptureSaved
<1>6. CallsFit'
  BY <1>2 DEF EvidenceInv, CallsFit, OneLiveCall, Sending, Answered
<1>7. AuthoritiesFit'
  <2>1. ASSUME NEW q \in Payments, payments[q].authority # None
        PROVE  ~Unissued(payments[q].authority)'
    <3>1. ~Unissued(payments[q].authority) /\ payments[q].authority \in Authorities
      BY <2>1 DEF EvidenceInv, AuthoritiesFit, PaymentInv, PaymentTypeOK, PaymentRow
    <3>. QED  BY <1>2, <1>4, <3>1 DEF Unissued
  <2>2. ASSUME NEW v \in Workers, job[v].pc \in {"saveAuthority", "finish"}
        PROVE  ~Unissued(job[v].authority)'
    <3>1. ~Unissued(job[v].authority) /\ job[v].authority \in Authorities
      BY <2>2 DEF EvidenceInv, AuthoritiesFit, PaymentInv, RowsAreReal, PaymentTypeOK, Job
    <3>. QED  BY <1>2, <1>4, <3>1 DEF Unissued
  <2>3. Ungranted' <=> Ungranted
    BY <1>2 DEF Ungranted
  <2>4. \A b \in Authorities : b \in offered' \/ gateway'[b] \in {"PAID", "CAPTURED"} => Issued(b)'
    BY <1>2, <1>4 DEF EvidenceInv, AuthoritiesFit, Issued
  <2>5. AuthoritiesFit
    BY DEF EvidenceInv
  <2>. QED  BY <1>2, <1>4, <2>1, <2>2, <2>3, <2>4, <2>5 DEF AuthoritiesFit
<1>8. EvidenceFits'
  <2>1. EvidenceFits /\ \A r \in results : r.authority \in Authorities \cup {None}
    BY DEF EvidenceInv, PaymentInv, PaymentTypeOK, Result
  <2>2. ASSUME NEW r \in results
        PROVE  /\ r.outcome = "AUTHORITY" => ~Unissued(r.authority)'
               /\ r.outcome = "CAPTURED" => gateway'[r.authority] = "CAPTURED"
    BY <1>4, <2>1 DEF EvidenceFits, Unissued
  <2>. QED  BY <1>2, <2>1, <2>2 DEF EvidenceFits, Unissued
<1>9. SettlementsFit'
  <2>1. SettlementsFit /\ \A v \in Workers : job[v].authority \in Authorities \cup {None}
    BY DEF EvidenceInv, PaymentInv, PaymentTypeOK, Job
  <2>2. \A v \in Workers : job[v].pc = "saveCaptured" => gateway'[job[v].authority] = "CAPTURED"
    BY <1>4, <2>1 DEF SettlementsFit, Checking
  <2>. QED  BY <1>2, <2>1, <2>2 DEF SettlementsFit, CaptureSaved
<1>10. \A q \in Payments : payments[q].authority \in Authorities \cup {None}
  BY DEF EvidenceInv, PaymentInv, PaymentTypeOK, PaymentRow
<1>11. CaptureIsGenuine'
  BY <1>2, <1>4, <1>10 DEF EvidenceInv, CaptureIsGenuine, CaptureSaved, Verified
<1>12. Captured' = Captured
  BY <1>2, <1>4, <1>10 DEF Captured, Rows
<1>13. EvidenceInv'
  BY <1>5, <1>6, <1>7, <1>8, <1>9, <1>11 DEF EvidenceInv
<1>. QED  BY <1>2, <1>12, <1>13 DEF Progress

LEMMA GatewayEvidence ==
  ASSUME EvidenceInv, Gateway
  PROVE  EvidenceInv' /\ Progress
<1>0. PaymentInv' /\ Kept
  BY GatewayStep DEF EvidenceInv
<1>1. gateway \in [Authorities -> {"UNISSUED", "OPEN", "PAID", "CAPTURED"}]
      /\ \A c \in calls : c.authority \in Authorities \cup {None}
  BY DEF EvidenceInv, PaymentInv, PaymentTypeOK, Call
<1>2. CASE GatewayGrants
  <2>1. PICK c \in calls, a \in Authorities :
          /\ c.authority = None
          /\ gateway[a] = "UNISSUED"
          /\ gateway' = [gateway EXCEPT ![a] = "OPEN"]
          /\ calls' = calls \ {c}
          /\ UNCHANGED job \/ (Waiting(c) /\ Deliver(c, "saveAuthority", a))
          /\ UNCHANGED <<records, offered>>
    BY <1>2 DEF GatewayGrants
  <2>2. gateway'[a] = "OPEN" /\ \A b \in Authorities \ {a} : gateway'[b] = gateway[b]
    BY <1>1, <2>1
  <2>. QED  BY <1>0, <2>1, <2>2, AnswerEvidence
<1>3. CASE GatewayCaptures
  <2>1. PICK c \in calls :
          /\ c.authority # None
          /\ gateway[c.authority] \in {"PAID", "CAPTURED"}
          /\ gateway' = [gateway EXCEPT ![c.authority] = "CAPTURED"]
          /\ calls' = calls \ {c}
          /\ UNCHANGED job \/ (Waiting(c) /\ Deliver(c, "saveCaptured", c.authority))
          /\ UNCHANGED <<records, offered>>
    BY <1>3 DEF GatewayCaptures
  <2>2. /\ c.authority \in Authorities
        /\ gateway'[c.authority] = "CAPTURED"
        /\ \A b \in Authorities \ {c.authority} : gateway'[b] = gateway[b]
    BY <1>1, <2>1
  <2>. QED  BY <1>0, <2>1, <2>2, AnswerEvidence
<1>4. CASE GatewayRejects
  <2>1. PICK c \in calls :
          /\ c.authority # None
          /\ gateway[c.authority] = "OPEN"
          /\ calls' = calls \ {c}
          /\ Waiting(c) /\ Deliver(c, "saveRejected", c.authority)
          /\ UNCHANGED <<records, gateway, offered>>
    BY <1>4 DEF GatewayRejects
  <2>2. /\ c.authority \in Authorities
        /\ gateway' = gateway
        /\ UNCHANGED <<records, offered>>
    BY <1>1, <2>1
  <2>. QED  BY <1>0, <2>1, <2>2, AnswerEvidence
<1>5. CASE GatewayDrops
  <2>1. /\ UNCHANGED <<payments, obligation, offered, gateway, results, job>>
        /\ calls' \subseteq calls
    BY <1>5 DEF GatewayDrops, records
  <2>2. QuietJobs
    BY <2>1, SameJobQuiet DEF AuthoritiesKept, QuietJobs
  <2>3. QuietResults /\ (Answered' => Answered)
    BY <2>1 DEF QuietResults, Answered
  <2>. QED  BY <1>0, <2>1, <2>2, <2>3, QuietAside
<1>6. CASE ApplicantPays
  BY <1>0, <1>6, PaysEvidence
<1>. QED  BY <1>2, <1>3, <1>4, <1>5, <1>6 DEF Gateway

-----------------------------------------------------------------------------
(* What the programmes need of it                                           *)

LEMMA RemoteEvidence ==
  ASSUME EvidenceInv, NEW w \in Workers, Remote(w)
  PROVE  EvidenceInv' /\ Progress
<1>1. CASE RemoteFails(w)
  BY <1>1, GoToEvidence DEF RemoteFails, At, Steps, WithPayment, Asking, Checking
<1>. QED  BY <1>1, SavesEvidence, SendsEvidence, UncertainEvidence DEF Remote

LEMMA AbortEvidence ==
  ASSUME EvidenceInv, NEW w \in Workers, Abort(w)
  PROVE  EvidenceInv' /\ Progress
BY ReturnEvidence DEF Abort

LEMMA InitEvidence ==
  ASSUME NEW history,
         history \subseteq {r \in PaymentRow : /\ r.status # "ABSENT"
                                               /\ r.status = "VERIFIED" => r.authority # None},
         PaymentInit(history)
  PROVE  EvidenceInv
<1>1. PaymentInv
  BY InitInv DEF PaymentInit
<1>2. /\ \A w \in Workers : job[w].pc = "idle"
      /\ results = {}
      /\ calls = {}
  BY DEF PaymentInit, Idle
<1>3. /\ obligation.generation = 0
      /\ obligation.operation = "NONE"
      /\ obligation.state # "PAYABLE"
      /\ obligation.state = "ABSENT" => obligation = NoObligation
      /\ obligation.reason = "HISTORICAL_ATTEMPT" => IsSingleton(Rows)
      /\ obligation.state = "SETTLED" /\ obligation.selected # None
           => obligation.selected \in Verified
  <2>1. CASE obligation = NoObligation
    BY <2>1 DEF NoObligation
  <2>. DEFINE o == CreatedObligation(Rows, Verified)
  <2>2. /\ o.generation = 0
        /\ o.operation = "NONE"
        /\ o.state \in {"READY", "UNCERTAIN", "SETTLED"}
        /\ o.reason = "HISTORICAL_ATTEMPT" => IsSingleton(Rows)
        /\ o.state = "SETTLED" /\ o.selected # None => o.selected \in Verified
    <3>1. Rows \in SUBSET Payments /\ Verified \in SUBSET Rows
      BY DEF Rows, Verified
    <3>2. /\ o.generation = 0
          /\ o.operation = "NONE"
          /\ o.reason = "HISTORICAL_ATTEMPT" => IsSingleton(Rows)
          /\ o.state = "SETTLED" /\ o.selected # None => o.selected \in Verified
      BY <3>1, CreatedChosen
    <3>3. o.state \in {"READY", "UNCERTAIN", "SETTLED"}
      BY <3>1, CreatedFresh
    <3>. QED  BY <3>2, <3>3
  <2>3. o \in Obligation
    BY CreatedType DEF Rows, Verified
  <2>. HIDE DEF o
  <2>4. CASE obligation = o
    BY <2>2, <2>4
  <2>5. CASE obligation = [o EXCEPT !.reason = "HISTORICAL_MULTIPLE_CAPTURES"]
    BY <2>2, <2>3, <2>5 DEF Obligation
  <2>6. obligation \in {NoObligation, o, [o EXCEPT !.reason = "HISTORICAL_MULTIPLE_CAPTURES"]}
    BY DEF PaymentInit, BackfilledObligation, o
  <2>. QED  BY <2>1, <2>4, <2>5, <2>6
<1>4. /\ \A p \in Payments : payments[p].authority # None => Issued(payments[p].authority)
      /\ \A p \in Verified : payments[p].authority # None
  <2>1. \A p \in Payments : payments[p] \in history \/ payments[p] = NoPayment
    BY DEF PaymentInit
  <2>2. \A p \in Verified : payments[p].authority # None
    BY <2>1 DEF Verified, NoPayment
  <2>. QED  BY <2>2 DEF Issued
<1>5. /\ gateway \in [Authorities -> {"UNISSUED", "OPEN", "PAID", "CAPTURED"}]
      /\ \A a \in Authorities : gateway[a] = "UNISSUED" <=> ~Issued(a)
      /\ \A p \in Verified : gateway[payments[p].authority] = "CAPTURED"
      /\ offered = {a \in Authorities : Issued(a)}
  BY DEF PaymentInit
<1>6. ClaimsFit
  BY <1>2, <1>3 DEF ClaimsFit, Asking, Checking, NoObligation
<1>7. OneRow
  BY <1>3 DEF OneRow
<1>8. CallsFit
  BY <1>2 DEF CallsFit, OneLiveCall, Sending
<1>9. AuthoritiesFit
  <2>1. \A p \in Payments : payments[p].authority \in Authorities \cup {None}
    BY <1>1 DEF PaymentInv, PaymentTypeOK, PaymentRow
  <2>2. ASSUME Rows = {}, NEW a \in Authorities
        PROVE  Unissued(a)
    <3>1. \A p \in Payments : payments[p].authority = None
      BY <1>1, <2>2 DEF PaymentInv, RowsAreReal
    <3>. QED  BY <1>5, <3>1, NoneIsFresh DEF Issued, Unissued
  <2>3. Ungranted => Rows = {}
    BY <1>2 DEF Ungranted
  <2>. QED  BY <1>2, <1>3, <1>4, <1>5, <2>1, <2>2, <2>3 DEF AuthoritiesFit, Unissued
<1>10. EvidenceFits /\ SettlementsFit
  BY <1>2 DEF EvidenceFits, SettlementsFit, Checking
<1>11. OffersFit
  BY <1>3 DEF OffersFit
<1>12. CaptureIsGenuine
  BY <1>2, <1>4, <1>5 DEF CaptureIsGenuine, CaptureSaved
<1>13. SettledIsBacked
  BY <1>1, <1>3 DEF SettledIsBacked, PaymentInv
<1>. QED
  BY <1>1, <1>6, <1>7, <1>8, <1>9, <1>10, <1>11, <1>12, <1>13 DEF EvidenceInv

\* The evidence shows that every remote call, capture and page is what the
\* program takes it for.
LEMMA EvidenceShows ==
  ASSUME EvidenceInv
  PROVE  CallsAreTrue
<1>1. OneLiveCall /\ CaptureIsGenuine
  BY DEF EvidenceInv, CallsFit
<1>2. OfferIsSelected
  <2>1. SUFFICES ASSUME obligation.state = "PAYABLE"
                 PROVE  /\ obligation.selected # None
                        /\ payments[obligation.selected].authority \in Authorities
                        /\ offered \subseteq {payments[obligation.selected].authority}
    BY DEF OfferIsSelected
  <2>2. /\ obligation.operation = "REQUEST"
        /\ payments[obligation.selected].authority # None
        /\ offered \subseteq {payments[obligation.selected].authority}
    BY <2>1 DEF EvidenceInv, OffersFit
  <2>3. obligation.selected \in Payments
    BY <2>2 DEF EvidenceInv, OneRow, Rows
  <2>. QED  BY <2>2, <2>3, NoneIsFresh DEF EvidenceInv, PaymentInv, PaymentTypeOK, PaymentRow
<1>. QED  BY <1>1, <1>2 DEF CallsAreTrue

\* No late answer makes an obligation payable again.
LEMMA NeverPayable ==
  ASSUME EvidenceInv', Progress
  PROVE  obligation.operation = "VERIFY" =>
           obligation'.operation = "VERIFY" /\ obligation'.state # "PAYABLE"
BY DEF EvidenceInv, OffersFit, Progress

=============================================================================
