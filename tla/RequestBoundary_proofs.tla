----------------------- MODULE RequestBoundary_proofs -----------------------
(***************************************************************************)
(* Proofs about RequestBoundary, for every value of its constants: who a   *)
(* use case acts for, in which chain of causes, and when it may run.       *)
(***************************************************************************)
EXTENDS RequestBoundary, TLAPS

-----------------------------------------------------------------------------
(* The inductive invariant.                                                *)

RequestPcs == {"body", "refused", "use_case"}
TaskPcs    == {"task", "save", "alert"}
Types      == DOMAIN Target \cup {"shipment_requested", "link_dispatched", "shipment_linked", "ready"}

MessageType ==
  [type: Types, id: Ids, fulfilment: Ids, shipment: Ids \cup {None}, tenant: Tenants,
   correlation: Names, causation: Names \cup {None}, principal: Principals \cup {None}]

CallType ==
  [route: Routes, type: DOMAIN Target \cup {None}, user: Users \cup {None},
   tenant: Tenants \cup {None}, eventId: Ids \cup {None}, correlation: Names \cup {None},
   principal: Principals \cup {None}, body: Ids \cup {None}, fulfilment: Ids \cup {None},
   shipment: Ids \cup {None}, bodyTenant: Tenants \cup {None}]

(* q delivers the message n.                                               *)
DeliveryOf(q, n) ==
  /\ q.type = n.type /\ q.route = Target[n.type]
  /\ q.user = None /\ q.tenant = None
  /\ q.correlation = n.correlation
  /\ n.type \notin Jobs => q.eventId = n.id
  /\ q.body = n.id /\ q.fulfilment = n.fulfilment /\ q.bodyTenant = n.tenant

(* A call is a user's, or delivers a committed message.                    *)
CallOK(q) ==
  /\ q \in CallType
  /\ \/ /\ q.type = None /\ q.route \notin Webhooks
        /\ q.correlation = None /\ q.eventId = None /\ q.principal = None
        /\ q.route = "fulfilments" => q.bodyTenant = None
        /\ q.route # "fulfilments" => q.fulfilment \in Ids
     \/ \E n \in messages : n.type \in DOMAIN Target /\ DeliveryOf(q, n)

(* What onRequest has bound for a call.                                    *)
BoundFor(s, q) ==
  /\ q.user = None => s = None
  /\ q.user # None => /\ s \in AScope /\ s.correlation \in Ids /\ s.causation = None
                      /\ s.principal = q.user /\ s.tenant = q.tenant

(* What a use case serving a call as request r finds bound.                *)
Serves(s, q, r) ==
  /\ s \in AScope
  /\ s.principal = Header(q.user, Header(q.principal, Fallback[q.route]))
  /\ q.user = None => /\ q.route # "fulfilments"
                      /\ s.correlation = Header(q.correlation, r)
                      /\ s.causation = Header(q.eventId, r)
                      /\ s.tenant = q.bodyTenant
  /\ q.user # None => /\ s.correlation \in Ids /\ s.causation = None
                      /\ s.tenant = Header(q.tenant, q.bodyTenant)

(* What the authentication hook decided, at the times it decided it.       *)
Verified(x) ==
  /\ x.call.route \notin Webhooks => x.times = None
  /\ x.call.route \in Webhooks =>
       \E skew \in Skews, delay \in Delays :
         /\ x.times = <<skew, delay>>
         /\ x.pc = "use_case" <=> Verdict(x.call, skew, delay) = "ok"

(* A request and the scope of its context.                                 *)
RequestOK(x, s) ==
  /\ CallOK(x.call)
  /\ x.requestId \in {RequestId(n) : n \in 1..MaxStarts}
  /\ x.pc \in {"body", "refused"} => BoundFor(s, x.call)
  /\ x.pc = "use_case" => Serves(s, x.call, x.requestId)
  /\ x.pc \in {"refused", "use_case"} => Verified(x)

(* A task and the scope of its context.                                    *)
TaskOK(x, s) ==
  /\ s \in AScope /\ s.correlation \in Ids /\ s.principal = Scheduler /\ s.tenant = None
  /\ x.pc \in {"save", "alert"} => \E i \in Ids : x.notice = Notice(s, i)
  /\ x.pc = "alert" => \E n \in notices : n.correlation = s.correlation

ContextOK(x, s) ==
  /\ x = At(x.pc, x.call, x.requestId, x.times, x.notice)
  /\ \/ x.pc = "idle" /\ s = None
     \/ x.pc \in RequestPcs /\ RequestOK(x, s)
     \/ x.pc \in TaskPcs /\ TaskOK(x, s)

(* Chains of requests and chains of tasks are apart.                       *)
OfTask(k) ==
  \/ \E n \in notices \cup alerts : n.correlation = k
  \/ \E c \in Contexts : ctx[c].pc \in TaskPcs /\ store[c].correlation = k

OfRequest(k) ==
  \/ \E m \in messages : m.correlation = k
  \/ \E c \in Contexts : /\ ctx[c].pc \in RequestPcs /\ store[c] # None
                         /\ store[c].correlation = k

UsedOK ==
  /\ used \in [ids: Nat, starts: 0..MaxStarts, faults: Nat]
  /\ used = [ids |-> used.ids, starts |-> used.starts, faults |-> used.faults]

NoticesOK ==
  \A n \in notices \cup alerts :
    n.id \in Ids /\ n.correlation \in Ids /\ n.principal = Scheduler /\ n.tenant = None

IInv ==
  /\ UsedOK
  /\ ctx = [c \in Contexts |-> ctx[c]] /\ store = [c \in Contexts |-> store[c]]
  /\ \A c \in Contexts : ContextOK(ctx[c], store[c])
  /\ messages \subseteq MessageType
  /\ NoticesOK
  /\ \A k : ~(OfTask(k) /\ OfRequest(k))
  /\ TracedToRequest
  /\ CauseIsDelivered
  /\ AlertHasNotice

-----------------------------------------------------------------------------
(* Identifiers, and None.                                                  *)

(* Identifiers and names are numbers, scopes are not None.                 *)
LEMMA NamesAreNumbers ==
  ASSUME UsedOK
  PROVE  /\ Ids \subseteq Nat /\ Ids \subseteq Names /\ Names \subseteq Int
         /\ None \notin Names /\ None \notin AScope
         /\ \A n \in 1..MaxStarts : RequestId(n) \in Names \ Ids
<1>1. used.ids \in Nat /\ MaxStarts \in Nat
  BY BoundaryAssumption DEF UsedOK
<1>2. Ids \subseteq Nat /\ Ids \subseteq Names /\ Names \subseteq Int
  BY <1>1 DEF Ids, Names, RequestId
<1>3. None \notin Names
  BY <1>2, SignatureAssumption
<1>4. None \notin AScope
  <2> SUFFICES ASSUME None \in AScope  PROVE FALSE
    OBVIOUS
  <2>1. None \in [correlation: Int, causation: Int \cup {None}, principal: Principals,
                  tenant: Tenants \cup {None}]
    BY <1>2 DEF AScope
  <2> QED BY <2>1, BoundaryAssumption
<1>5. \A n \in 1..MaxStarts : RequestId(n) \in Names \ Ids
  BY <1>1 DEF Ids, Names, RequestId
<1> QED BY <1>2, <1>3, <1>4, <1>5

(* Identifiers are never taken back.                                       *)
LEMMA NamesGrow ==
  ASSUME UsedOK, UsedOK', used.ids <= used'.ids
  PROVE  Ids \subseteq Ids' /\ Names \subseteq Names'
<1>1. used.ids \in Nat /\ used'.ids \in Nat
  BY DEF UsedOK
<1> QED BY <1>1 DEF Ids, Names

(* What is said of a context stays true while messages, notices and names  *)
(* grow.                                                                   *)
LEMMA ContextGrows ==
  ASSUME NEW x, NEW s, ContextOK(x, s), Ids \subseteq Ids', Names \subseteq Names',
         messages \subseteq messages', notices \subseteq notices'
  PROVE  ContextOK(x, s)'
<1>1. \A q : CallOK(q) => CallOK(q)'
  <2> SUFFICES ASSUME NEW q, CallOK(q)  PROVE CallOK(q)'
    OBVIOUS
  <2>1. q \in CallType'
    BY DEF CallOK, CallType
  <2> QED BY <2>1 DEF CallOK, DeliveryOf
<1>2. s \in AScope => s \in AScope'
  BY DEF AScope
<1>3. RequestOK(x, s) => RequestOK(x, s)'
  BY <1>1, <1>2 DEF RequestOK, BoundFor, Serves, Verified, Verdict
<1>4. TaskOK(x, s) => TaskOK(x, s)'
  BY <1>2 DEF TaskOK
<1> QED BY <1>3, <1>4 DEF ContextOK

(* A step that gives one context another state and scope.                  *)
LEMMA ContextStep ==
  ASSUME IInv, UsedOK', used.ids <= used'.ids,
         messages \subseteq messages', notices \subseteq notices',
         NEW c \in Contexts, NEW x, NEW s, ContextOK(x, s)',
         ctx' = [ctx EXCEPT ![c] = x], store' = [store EXCEPT ![c] = s]
  PROVE  /\ (ctx = [d \in Contexts |-> ctx[d]])' /\ (store = [d \in Contexts |-> store[d]])'
         /\ (\A d \in Contexts : ContextOK(ctx[d], store[d]))'
<1>1. Ids \subseteq Ids' /\ Names \subseteq Names'
  BY NamesGrow DEF IInv
<1>2. /\ ctx = [d \in Contexts |-> ctx[d]] /\ store = [d \in Contexts |-> store[d]]
      /\ \A d \in Contexts : ContextOK(ctx[d], store[d])
  BY DEF IInv
<1>3. /\ ctx' = [d \in Contexts |-> IF d = c THEN x ELSE ctx[d]]
      /\ store' = [d \in Contexts |-> IF d = c THEN s ELSE store[d]]
  BY <1>2
<1>4. ASSUME NEW d \in Contexts  PROVE ContextOK(ctx[d], store[d])'
  <2>1. CASE d = c
    BY <1>3, <2>1
  <2>2. CASE d # c
    <3>1. ctx'[d] = ctx[d] /\ store'[d] = store[d]
      BY <1>3, <2>2
    <3>2. ContextOK(ctx[d], store[d])
      BY <1>2
    <3> QED BY <1>1, <3>1, <3>2, ContextGrows
  <2> QED BY <2>1, <2>2
<1> QED BY <1>3, <1>4
(* Chains are named by names already drawn, tasks' chains by identifiers.  *)
LEMMA ChainsNamed ==
  ASSUME IInv, NEW k
  PROVE  /\ OfTask(k) => k \in Ids
         /\ OfRequest(k) => k \in Names
<1>1. \A c \in Contexts : ContextOK(ctx[c], store[c])
  BY DEF IInv
<1>2. UsedOK
  BY DEF IInv
<1>3. \A c \in Contexts : ctx[c].pc \in TaskPcs => store[c].correlation \in Ids
  BY <1>1 DEF ContextOK, TaskOK, TaskPcs, RequestPcs
<1>4. \A c \in Contexts : ctx[c].pc \in RequestPcs /\ store[c] # None =>
        store[c].correlation \in Names
  <2> SUFFICES ASSUME NEW c \in Contexts, ctx[c].pc \in RequestPcs, store[c] # None
               PROVE  store[c].correlation \in Names
    OBVIOUS
  <2>1. RequestOK(ctx[c], store[c])
    BY <1>1 DEF ContextOK, TaskPcs, RequestPcs
  <2>2. store[c] \in AScope
    BY <2>1 DEF RequestOK, BoundFor, Serves, RequestPcs
  <2> QED BY <2>2 DEF AScope
<1>5. OfTask(k) => k \in Ids
  BY <1>3 DEF OfTask, IInv, NoticesOK
<1>6. OfRequest(k) => k \in Names
  BY <1>4 DEF OfRequest, IInv, MessageType
<1> QED BY <1>5, <1>6

(* A step in which messages, notices and alerts join a chain in use, and a *)
(* context keeps its chain, leaves it, or opens one with a new identifier. *)
LEMMA AnyStep ==
  ASSUME IInv, UsedOK', used.ids <= used'.ids,
         messages \subseteq messages', notices \subseteq notices',
         \A m \in messages' : m \notin messages => m \in MessageType' /\ OfRequest(m.correlation),
         \A n \in notices' \cup alerts' : n \notin notices \cup alerts =>
           /\ n.id \in Ids' /\ n.correlation \in Ids'
           /\ n.principal = Scheduler /\ n.tenant = None /\ OfTask(n.correlation),
         TracedToRequest', CauseIsDelivered', AlertHasNotice',
         NEW c \in Contexts, NEW x, NEW s, ContextOK(x, s)',
         ctx' = [ctx EXCEPT ![c] = x], store' = [store EXCEPT ![c] = s],
         x.pc \in TaskPcs => OfTask(s.correlation) \/ s.correlation \in Ids' \ Ids,
         x.pc \in RequestPcs /\ s # None =>
           \/ OfRequest(s.correlation)
           \/ s.correlation \in Names' \ Ids /\ ~OfTask(s.correlation)
  PROVE  IInv'
<1>1. /\ UsedOK /\ messages \subseteq MessageType /\ NoticesOK
      /\ \A k : ~(OfTask(k) /\ OfRequest(k))
  BY DEF IInv
<1>2. Ids \subseteq Ids' /\ Names \subseteq Names'
  BY <1>1, NamesGrow
<1>3. /\ (ctx = [d \in Contexts |-> ctx[d]])' /\ (store = [d \in Contexts |-> store[d]])'
      /\ (\A d \in Contexts : ContextOK(ctx[d], store[d]))'
  BY ContextStep
<1>4. (messages \subseteq MessageType)'
  BY <1>1, <1>2 DEF MessageType
<1>5. NoticesOK'
  BY <1>1, <1>2 DEF NoticesOK
<1>6. /\ \A d \in Contexts : ctx'[d] = IF d = c THEN x ELSE ctx[d]
      /\ \A d \in Contexts : store'[d] = IF d = c THEN s ELSE store[d]
  BY DEF IInv
<1>7. ASSUME NEW k, OfTask(k)', OfRequest(k)'  PROVE FALSE
  <2>1. OfTask(k) \/ (x.pc \in TaskPcs /\ s.correlation = k)
    <3>1. CASE \E n \in notices' \cup alerts' : n.correlation = k
      BY <3>1 DEF OfTask
    <3>2. CASE \E d \in Contexts : ctx'[d].pc \in TaskPcs /\ store'[d].correlation = k
      BY <1>6, <3>2 DEF OfTask
    <3> QED BY <1>7, <3>1, <3>2 DEF OfTask
  <2>2. OfRequest(k) \/ (x.pc \in RequestPcs /\ s # None /\ s.correlation = k)
    <3>1. CASE \E m \in messages' : m.correlation = k
      BY <3>1 DEF OfRequest
    <3>2. CASE \E d \in Contexts : /\ ctx'[d].pc \in RequestPcs /\ store'[d] # None
                                   /\ store'[d].correlation = k
      BY <1>6, <3>2 DEF OfRequest
    <3> QED BY <1>7, <3>1, <3>2 DEF OfRequest
  <2>3. /\ OfTask(k) => k \in Ids
        /\ OfRequest(k) => k \in Names
    BY ChainsNamed
  <2>4. x.pc \in TaskPcs => x.pc \notin RequestPcs
    BY DEF TaskPcs, RequestPcs
  <2>5. \A i \in Ids' \ Ids : i \notin Names
    <3>1. used.ids \in Nat /\ used'.ids \in Nat /\ MaxStarts \in Nat
      BY <1>1, BoundaryAssumption DEF UsedOK
    <3> QED BY <3>1 DEF Ids, Names, RequestId
  <2> QED BY <1>1, <2>1, <2>2, <2>3, <2>4, <2>5
<1> QED BY <1>3, <1>4, <1>5, <1>7 DEF IInv

(* The same, without new messages, notices and alerts.                     *)
LEMMA QuietStep ==
  ASSUME IInv, UsedOK', used.ids <= used'.ids,
         UNCHANGED <<messages, notices, alerts>>,
         NEW c \in Contexts, NEW x, NEW s, ContextOK(x, s)',
         ctx' = [ctx EXCEPT ![c] = x], store' = [store EXCEPT ![c] = s],
         x.pc \in TaskPcs => OfTask(s.correlation) \/ s.correlation \in Ids' \ Ids,
         x.pc \in RequestPcs /\ s # None =>
           \/ OfRequest(s.correlation)
           \/ s.correlation \in Names' \ Ids /\ ~OfTask(s.correlation)
  PROVE  IInv'
<1>1. TracedToRequest' /\ CauseIsDelivered' /\ AlertHasNotice'
  BY DEF IInv, TracedToRequest, CauseIsDelivered, AlertHasNotice
<1> QED BY <1>1, AnyStep

-----------------------------------------------------------------------------
(* The steps of a request.                                                 *)

(* A free context is in order, and keeps its chain out of it.              *)
LEMMA IdleOK == ContextOK(Idle, None)' /\ Idle.pc = "idle"
BY DEF ContextOK, Idle, At

(* What users may ask for is a call.                                       *)
LEMMA UserCallOK ==
  ASSUME IInv, NEW q \in UserCalls
  PROVE  CallOK(q) /\ q.type = None
<1>1. messages \subseteq MessageType /\ None \notin Ids
  BY NamesAreNumbers, SignatureAssumption DEF IInv
<1>2. ASSUME NEW route \in Routes \ Webhooks, NEW f \in Ids \cup {None},
             NEW s \in Ids \cup {None}, NEW b \in Tenants \cup {None},
             route = "fulfilments" => b = None, route # "fulfilments" => f \in Ids,
             q \in ByUser(route, f, s, b)
      PROVE  CallOK(q) /\ q.type = None
  <2>1. PICK u \in Users \cup {None}, t \in Tenants \cup {None} :
          q = [route |-> route, type |-> None, user |-> u, tenant |-> t,
               eventId |-> None, correlation |-> None, principal |-> None, body |-> None,
               fulfilment |-> f, shipment |-> s, bodyTenant |-> b]
    BY <1>2 DEF ByUser
  <2>2. q \in CallType
    BY <2>1 DEF CallType
  <2> QED BY <1>2, <2>1, <2>2 DEF CallOK
<1>3. CASE q \in ByUser("fulfilments", None, None, None)
  BY <1>2, <1>3 DEF Routes, Webhooks
<1>4. ASSUME NEW m \in messages, q \in ByUser("ready", m.fulfilment, m.shipment, None)
      PROVE  CallOK(q) /\ q.type = None
  <2>1. m.fulfilment \in Ids /\ m.shipment \in Ids \cup {None}
    BY <1>1 DEF MessageType
  <2> QED BY <1>2, <1>4, <2>1 DEF Routes, Webhooks
<1>5. ASSUME NEW m \in messages, q \in ByUser("shipments", m.fulfilment, None, m.tenant)
      PROVE  CallOK(q) /\ q.type = None
  <2>1. m.fulfilment \in Ids /\ m.tenant \in Tenants
    BY <1>1 DEF MessageType
  <2> QED BY <1>2, <1>5, <2>1 DEF Routes, Webhooks
<1>6. \/ q \in ByUser("fulfilments", None, None, None)
      \/ \E m \in messages : q \in ByUser("ready", m.fulfilment, m.shipment, None)
      \/ \E m \in messages : q \in ByUser("shipments", m.fulfilment, None, m.tenant)
  BY DEF UserCalls
<1> QED BY <1>3, <1>4, <1>5, <1>6

(* What FlowCatalyst delivers is a call.                                   *)
LEMMA DeliveryOK ==
  ASSUME IInv, NEW q \in Deliveries
  PROVE  CallOK(q)
<1>1. messages \subseteq MessageType
  BY DEF IInv
<1>2. PICK m \in messages : /\ m.type \in DOMAIN Target
        /\ \E e \in IF m.type \in Jobs THEN {m.id, None} ELSE {m.id}, p \in {None, m.principal} :
             q = [route |-> Target[m.type], type |-> m.type, user |-> None, tenant |-> None,
                  eventId |-> e, correlation |-> m.correlation, principal |-> p,
                  body |-> m.id, fulfilment |-> m.fulfilment, shipment |-> m.shipment,
                  bodyTenant |-> m.tenant]
  BY DEF Deliveries
<1>3. PICK e \in {m.id, None}, p \in {None, m.principal} :
        /\ m.type \notin Jobs => e = m.id
        /\ q = [route |-> Target[m.type], type |-> m.type, user |-> None, tenant |-> None,
                eventId |-> e, correlation |-> m.correlation, principal |-> p,
                body |-> m.id, fulfilment |-> m.fulfilment, shipment |-> m.shipment,
                bodyTenant |-> m.tenant]
  BY <1>2
<1>4. DeliveryOf(q, m)
  BY <1>3 DEF DeliveryOf
<1>5. q \in CallType
  <2>1. Target[m.type] \in Routes
    BY <1>2 DEF Target, Routes, Webhooks
  <2>2. m \in MessageType
    BY <1>1
  <2> QED BY <1>2, <1>3, <2>1, <2>2 DEF CallType, MessageType
<1> QED BY <1>2, <1>4, <1>5 DEF CallOK
(* onRequest binds the user's own scope, with a correlation of its own.    *)
LEMMA ArriveInv ==
  ASSUME IInv, NEW c \in Contexts, Arrive(c)
  PROVE  IInv'
<1> USE DEF IInv
<1>1. PICK i, r : i = used.ids + 1 /\ r = RequestId(used.starts + 1)
  OBVIOUS
<1>2. PICK q \in UserCalls \cup Deliveries :
        /\ ctx' = [ctx EXCEPT ![c] = At("body", q, r, None, None)]
        /\ store' = [store EXCEPT ![c] = OnRequest(q.user, q.tenant, i)]
  BY <1>1 DEF Arrive, Run
<1> DEFINE x == At("body", q, r, None, None)
           s == OnRequest(q.user, q.tenant, i)
<1>3. used' = Spend(1, 1, 0) /\ used.starts < MaxStarts /\ UNCHANGED <<messages, notices, alerts>>
  BY DEF Arrive
<1>4. /\ UsedOK' /\ used.ids <= used'.ids
      /\ i \in Ids' \ Ids /\ r \in {RequestId(n) : n \in 1..MaxStarts}
  BY <1>1, <1>3, BoundaryAssumption DEF UsedOK, Ids, Spend
<1>5. CallOK(q)
  BY <1>2, UserCallOK, DeliveryOK
<1>6. /\ q.user \in Users \cup {None} /\ q.tenant \in Tenants \cup {None}
  BY <1>5 DEF CallOK, CallType
<1>7. BoundFor(s, q)'
  <2>1. CASE q.user = None
    BY <2>1 DEF BoundFor, OnRequest
  <2>2. CASE q.user # None
    <3>1. s = [correlation |-> i, causation |-> None, principal |-> q.user, tenant |-> q.tenant]
      BY <2>2 DEF OnRequest, FromRequest
    <3>2. i \in Ids' /\ i \in Names'
      BY <1>4 DEF Names
    <3>3. q.user \in Principals
      BY <1>6, <2>2 DEF Principals
    <3>4. s \in AScope'
      BY <1>6, <3>1, <3>2, <3>3 DEF AScope
    <3> QED BY <2>2, <3>1, <3>2, <3>4 DEF BoundFor
  <2> QED BY <2>1, <2>2
<1>8. CallOK(q)'
  <2>1. Ids \subseteq Ids' /\ Names \subseteq Names'
    BY <1>4, NamesGrow
  <2>2. q \in CallType'
    BY <1>5, <2>1 DEF CallOK, CallType
  <2> QED BY <1>3, <1>5, <2>1, <2>2 DEF CallOK, DeliveryOf
<1>9. x.pc = "body" /\ x.call = q /\ x.requestId = r /\ x = At(x.pc, x.call, x.requestId, x.times, x.notice)
  BY DEF At
<1>10. s # None => s.correlation = i
  BY DEF OnRequest, FromRequest
<1> HIDE DEF x, s
<1>11. ContextOK(x, s)'
  BY <1>4, <1>7, <1>8, <1>9 DEF ContextOK, RequestOK, RequestPcs
<1>12. i \in Names' /\ ~OfTask(i)
  BY <1>4, ChainsNamed DEF Names
<1> HIDE DEF IInv
<1>13. ctx' = [ctx EXCEPT ![c] = x] /\ store' = [store EXCEPT ![c] = s]
  BY <1>2 DEF x, s
<1> QED BY <1>3, <1>4, <1>9, <1>10, <1>11, <1>12, <1>13, QuietStep DEF TaskPcs
(* resolveScope keeps a bound scope, and otherwise chains to the delivery. *)
LEMMA ResolveScopeServes ==
  ASSUME UsedOK, NEW q, CallOK(q), NEW r \in {RequestId(n) : n \in 1..MaxStarts},
         NEW z, BoundFor(z, q), q.route # "fulfilments"
  PROVE  Serves(ResolveScope(z, q, r, Fallback[q.route]), q, r)
<1> DEFINE s == ResolveScope(z, q, r, Fallback[q.route])
<1>1. /\ None \notin AScope /\ None \notin Tenants /\ Ids \subseteq Names /\ r \in Names
  BY NamesAreNumbers, BoundaryAssumption
<1>2. q \in CallType
  BY DEF CallOK
<1>3. Fallback[q.route] \in Principals
  BY <1>2 DEF CallType, Routes, Webhooks, Fallback, Principals, Services
<1>4. CASE q.user = None
  <2> DEFINE base == [correlation |-> Header(q.correlation, r), causation |-> Header(q.eventId, r),
                      principal |-> Header(q.principal, Fallback[q.route]), tenant |-> None]
  <2>1. s = IF q.bodyTenant # None THEN [base EXCEPT !.tenant = q.bodyTenant] ELSE base
    BY <1>4 DEF BoundFor, ResolveScope, FromParentEvent
  <2>2. s = [correlation |-> Header(q.correlation, r), causation |-> Header(q.eventId, r),
             principal |-> Header(q.principal, Fallback[q.route]), tenant |-> q.bodyTenant]
    BY <2>1
  <2>3. /\ Header(q.correlation, r) \in Names /\ Header(q.eventId, r) \in Names
        /\ Header(q.principal, Fallback[q.route]) \in Principals
        /\ q.bodyTenant \in Tenants \cup {None}
    BY <1>1, <1>2, <1>3 DEF CallType, Header
  <2> HIDE DEF s
  <2>4. s \in AScope
    BY <2>2, <2>3 DEF AScope
  <2>5. Header(q.user, Header(q.principal, Fallback[q.route])) = Header(q.principal, Fallback[q.route])
    BY <1>4 DEF Header
  <2> QED BY <1>4, <2>2, <2>4, <2>5 DEF Serves, s
<1>5. CASE q.user # None
  <2>1. /\ z \in AScope /\ z # None /\ z.correlation \in Ids /\ z.causation = None
        /\ z.principal = q.user /\ z.tenant = q.tenant
    BY <1>1, <1>5 DEF BoundFor
  <2>2. s = IF q.bodyTenant # None /\ z.tenant = None THEN [z EXCEPT !.tenant = q.bodyTenant] ELSE z
    BY <2>1 DEF ResolveScope
  <2>3. /\ s \in AScope /\ s.correlation = z.correlation /\ s.causation = None
        /\ s.principal = q.user
        /\ s.tenant = Header(q.tenant, q.bodyTenant)
    <3>1. CASE q.bodyTenant # None /\ z.tenant = None
      <4>1. s = [z EXCEPT !.tenant = q.bodyTenant]
        BY <2>2, <3>1
      <4>2. q.bodyTenant \in Tenants
        BY <1>2, <3>1 DEF CallType
      <4> HIDE DEF s
      <4> QED BY <2>1, <3>1, <4>1, <4>2 DEF AScope, Header
    <3>2. CASE ~(q.bodyTenant # None /\ z.tenant = None)
      <4>1. s = z
        BY <2>2, <3>2
      <4> HIDE DEF s
      <4> QED BY <2>1, <3>2, <4>1 DEF Header
    <3> QED BY <3>1, <3>2
  <2>4. Header(q.user, Header(q.principal, Fallback[q.route])) = q.user
    BY <1>5 DEF Header
  <2> HIDE DEF s
  <2> QED BY <1>5, <2>1, <2>3, <2>4 DEF Serves, s
<1> QED BY <1>4, <1>5

(* The request's own identity and chain reach the use case, and webhooks   *)
(* only if they were verified.                                             *)
LEMMA HandleInv ==
  ASSUME IInv, NEW c \in Contexts, Handle(c)
  PROVE  IInv'
<1>1. PICK y, z : y = ctx[c] /\ z = store[c]
  OBVIOUS
<1> DEFINE runs(k, d) == /\ Verdict(y.call, k, d) = "ok"
                         /\ y.call.route = "fulfilments" => z # None
           next(k, d) == At(IF runs(k, d) THEN "use_case" ELSE "refused", y.call, y.requestId,
                            IF y.call.route \in Webhooks THEN <<k, d>> ELSE None, None)
           scope(k, d) == IF runs(k, d) /\ y.call.route # "fulfilments"
                          THEN ResolveScope(z, y.call, y.requestId, Fallback[y.call.route]) ELSE z
<1>2. PICK skew \in Skews, delay \in Delays :
        /\ ctx' = [ctx EXCEPT ![c] = next(skew, delay)]
        /\ store' = IF runs(skew, delay) /\ y.call.route # "fulfilments"
                    THEN [store EXCEPT ![c] = ResolveScope(z, y.call, y.requestId, Fallback[y.call.route])]
                    ELSE store
  BY <1>1 DEF Handle, Run
<1> DEFINE x == next(skew, delay)
           s == scope(skew, delay)
<1>3. /\ y.pc = "body" /\ RequestOK(y, z)
      /\ UNCHANGED <<messages, notices, alerts, used>> /\ UsedOK
      /\ store = [d \in Contexts |-> store[d]]
  BY <1>1 DEF Handle, IInv, ContextOK, TaskPcs
<1>4. /\ CallOK(y.call) /\ y.requestId \in {RequestId(n) : n \in 1..MaxStarts}
      /\ BoundFor(z, y.call)
  BY <1>3 DEF RequestOK
<1>5. ctx' = [ctx EXCEPT ![c] = x] /\ store' = [store EXCEPT ![c] = s]
  BY <1>1, <1>2, <1>3
<1>6. /\ x.call = y.call /\ x.requestId = y.requestId
      /\ x.pc \in {"refused", "use_case"} /\ (x.pc = "use_case" <=> runs(skew, delay))
      /\ x.times = IF y.call.route \in Webhooks THEN <<skew, delay>> ELSE None
      /\ x = At(x.pc, x.call, x.requestId, x.times, x.notice)
  BY DEF At
<1>7. Verified(x)
  <2>1. CASE y.call.route \notin Webhooks
    <3>1. x.call.route \notin Webhooks /\ x.times = None
      BY <1>6, <2>1
    <3> HIDE DEF x
    <3> QED BY <3>1 DEF Verified
  <2>2. CASE y.call.route \in Webhooks
    <3>1. y.call.route # "fulfilments"
      BY <2>2 DEF Webhooks
    <3>2. runs(skew, delay) <=> Verdict(y.call, skew, delay) = "ok"
      BY <3>1
    <3>3. x.times = <<skew, delay>> /\ (x.pc = "use_case" <=> Verdict(x.call, skew, delay) = "ok")
      BY <1>6, <2>2, <3>2
    <3>4. x.call.route \in Webhooks
      BY <1>6, <2>2
    <3> HIDE DEF x
    <3> QED BY <3>3, <3>4 DEF Verified
  <2> QED BY <2>1, <2>2
<1>8. UsedOK' /\ used.ids <= used'.ids
  BY <1>3 DEF UsedOK
<1>9. CASE runs(skew, delay)
  <2>1. x.pc = "use_case"
    BY <1>6, <1>9
  <2>2. Serves(s, y.call, y.requestId)
    <3>1. CASE y.call.route # "fulfilments"
      BY <1>3, <1>4, <1>9, <3>1, ResolveScopeServes
    <3>2. CASE y.call.route = "fulfilments"
      <4>1. s = z /\ z # None
        BY <1>9, <3>2
      <4>2. y.call.user # None /\ y.call.bodyTenant = None /\ y.call \in CallType
        BY <1>4, <3>2, <4>1 DEF CallOK, BoundFor, DeliveryOf, Target
      <4> HIDE DEF s
      <4> QED BY <1>4, <4>1, <4>2 DEF Serves, BoundFor, Header
    <3> QED BY <3>1, <3>2
  <2> HIDE DEF x, s, runs
  <2>3. ContextOK(x, s)
    BY <1>4, <1>6, <1>7, <2>1, <2>2 DEF ContextOK, RequestOK, RequestPcs
  <2>4. ContextOK(x, s)'
    BY <1>3, <2>3, ContextGrows DEF Ids, Names
  <2>5. s.correlation \in Names' /\ (OfRequest(s.correlation) \/ (s.correlation \notin Ids /\ ~OfTask(s.correlation)))
    <3>1. s.correlation \in Names'
      BY <1>3, <2>2 DEF Serves, AScope, Names, Ids
    <3>2. CASE y.call.user = None /\ y.call.correlation = None
      <4>1. s.correlation = y.requestId
        BY <2>2, <3>2 DEF Serves, Header
      <4>2. y.requestId \notin Ids
        BY <1>3, <1>4, NamesAreNumbers
      <4> QED BY <3>1, <4>1, <4>2, ChainsNamed
    <3>3. CASE y.call.user = None /\ y.call.correlation # None
      <4>1. s.correlation = y.call.correlation
        BY <2>2, <3>3 DEF Serves, Header
      <4>2. \E n \in messages : n.correlation = y.call.correlation
        BY <1>4, <3>3 DEF CallOK, DeliveryOf
      <4> QED BY <3>1, <4>1, <4>2 DEF OfRequest
    <3>4. CASE y.call.user # None
      <4>1. z # None /\ s.correlation = z.correlation
        <5>1. z # None
          BY <1>3, <1>4, <3>4, NamesAreNumbers DEF BoundFor
        <5>2. s = z \/ s = [z EXCEPT !.tenant = y.call.bodyTenant]
          BY <5>1 DEF s, ResolveScope
        <5>3. z \in AScope
          BY <1>4, <3>4 DEF BoundFor
        <5> QED BY <5>1, <5>2, <5>3 DEF AScope
      <4> QED BY <1>1, <1>3, <3>1, <4>1 DEF OfRequest, RequestPcs
    <3> QED BY <3>2, <3>3, <3>4, <3>1
  <2> QED BY <1>3, <1>5, <1>8, <2>1, <2>4, <2>5, QuietStep DEF TaskPcs
<1>10. CASE ~runs(skew, delay)
  <2>1. x.pc = "refused" /\ s = z
    BY <1>6, <1>10
  <2> HIDE DEF x, s, runs
  <2>2. ContextOK(x, s)
    BY <1>4, <1>6, <1>7, <2>1 DEF ContextOK, RequestOK, RequestPcs
  <2>3. ContextOK(x, s)'
    BY <1>3, <2>2, ContextGrows DEF Ids, Names
  <2>4. s # None => OfRequest(s.correlation)
    BY <1>1, <1>3, <2>1 DEF OfRequest, RequestPcs
  <2> QED BY <1>3, <1>5, <1>8, <2>1, <2>3, <2>4, QuietStep DEF TaskPcs
<1> QED BY <1>9, <1>10
(* What a use case emits is in its scope's chain and for its tenant.       *)
LEMMA Emissions ==
  ASSUME IInv, UsedOK', used' = Spend(2, 0, 0), NEW q, CallOK(q),
         NEW r \in {RequestId(n) : n \in 1..MaxStarts}, NEW s, Serves(s, q, r),
         Guard(q, s) = "ok", NEW i, i = used.ids + 1, NEW m \in MessagesOf(q, s, i)
  PROVE  /\ m \in MessageType'
         /\ m.correlation = s.correlation
         /\ m.tenant = s.tenant /\ s.tenant # None /\ q.bodyTenant \in {None, s.tenant}
         /\ m.type \in Jobs \cup DOMAIN Caused => q.route = "process"
         /\ m.type \in DOMAIN Caused => m.type \notin Jobs /\ q.type = Caused[m.type]
         /\ m.type \notin Jobs => m.causation = s.causation /\ m.principal = s.principal
         /\ q.route # "fulfilments" => m.fulfilment = q.fulfilment
<1>1. /\ i \in Ids' /\ i + 1 \in Ids' /\ Ids \subseteq Ids' /\ Names \subseteq Names'
  BY DEF UsedOK, Spend, Ids, Names, IInv
<1>2. q \in CallType /\ s \in AScope
  BY DEF CallOK, Serves
<1>3. /\ s.tenant # None /\ q.bodyTenant \in {None, s.tenant}
  BY DEF Guard
<1>4. /\ Header(q.bodyTenant, s.tenant) = s.tenant /\ s.tenant \in Tenants
      /\ s.correlation \in Names' /\ s.causation \in Names' \cup {None}
      /\ s.principal \in Principals
  BY <1>1, <1>2, <1>3 DEF Header, AScope
<1>5. q.route # "fulfilments" => q.fulfilment \in Ids
  <2> SUFFICES ASSUME q.route # "fulfilments", NEW n \in messages, DeliveryOf(q, n)
               PROVE  q.fulfilment \in Ids
    BY DEF CallOK
  <2>1. n \in MessageType
    BY DEF IInv
  <2> QED BY <2>1 DEF DeliveryOf, MessageType
<1>6. q.route = "process" => q.type \in {"created", "shipment_created"}
  BY DEF CallOK, DeliveryOf, Target, Webhooks
<1> DEFINE T == {"created", "create_shipment", "shipment_requested", "shipment_created",
                 "link_shipment", "link_dispatched", "shipment_linked", "ready"}
<1>7. ASSUME NEW type \in T, NEW j \in Ids', NEW f \in Ids', NEW sh \in Ids' \cup {None},
             NEW t, t = s.tenant, m = Emitted(type, j, f, sh, t, s)
      PROVE  /\ m \in MessageType' /\ m.type = type
             /\ m.correlation = s.correlation /\ m.tenant = s.tenant /\ m.fulfilment = f
             /\ m.type \notin Jobs => m.causation = s.causation /\ m.principal = s.principal
  <2>1. type \in Types
    BY DEF Types, Target
  <2> HIDE DEF T
  <2> QED BY <1>4, <1>7, <2>1 DEF Emitted, MessageType
<1>8. CASE q.route = "fulfilments"
  <2>1. m = Emitted("created", i, i, None, s.tenant, s)
    BY <1>8 DEF MessagesOf
  <2> QED BY <1>1, <1>3, <1>7, <1>8, <2>1 DEF Jobs, Caused
<1>9. CASE q.route # "fulfilments"
  <2> DEFINE About(type, j, sh) == Emitted(type, j, q.fulfilment, sh, Header(q.bodyTenant, s.tenant), s)
  <2>1. q.fulfilment \in Ids' /\ q.shipment \in Ids' \cup {None}
    BY <1>1, <1>2, <1>5, <1>9 DEF CallType
  <2>2. \/ /\ q.route = "process" /\ q.type = "created"
           /\ m \in {About("create_shipment", i, None), About("shipment_requested", i + 1, None)}
        \/ q.route = "shipments" /\ m = About("shipment_created", i, i)
        \/ /\ q.route = "process" /\ q.type = "shipment_created"
           /\ m \in {About("link_shipment", i, q.shipment), About("link_dispatched", i + 1, q.shipment)}
        \/ q.route = "link" /\ m = About("shipment_linked", i, q.shipment)
        \/ q.route = "ready" /\ m = About("ready", i, q.shipment)
    BY <1>2, <1>6, <1>9 DEF MessagesOf, CallType, Routes, Webhooks
  <2> HIDE DEF T
  <2>3. ASSUME NEW type, NEW j \in Ids', NEW sh \in Ids' \cup {None}, type \in T, m = About(type, j, sh)
        PROVE  /\ m \in MessageType' /\ m.type = type
               /\ m.correlation = s.correlation /\ m.tenant = s.tenant /\ m.fulfilment = q.fulfilment
               /\ m.type \notin Jobs => m.causation = s.causation /\ m.principal = s.principal
    BY <1>4, <1>7, <2>1, <2>3
  <2> DEFINE Good == /\ m \in MessageType' /\ m.correlation = s.correlation
                     /\ m.tenant = s.tenant /\ m.fulfilment = q.fulfilment
                     /\ m.type \notin Jobs => m.causation = s.causation /\ m.principal = s.principal
  <2>4. ASSUME NEW type, NEW j \in Ids', NEW sh \in Ids' \cup {None}, type \in T, m = About(type, j, sh)
        PROVE  Good /\ m.type = type
    BY <2>3, <2>4
  <2>5. /\ "create_shipment" \in T /\ "shipment_requested" \in T /\ "shipment_created" \in T
        /\ "link_shipment" \in T /\ "link_dispatched" \in T /\ "shipment_linked" \in T
        /\ "ready" \in T
    BY DEF T
  <2> HIDE DEF About, Good
  <2>6. CASE q.route = "process" /\ q.type = "created"
    <3>1. Good /\ m.type \in {"create_shipment", "shipment_requested"}
      BY <1>1, <2>2, <2>4, <2>5, <2>6
    <3> QED BY <1>3, <1>9, <2>6, <3>1 DEF Good, Jobs, Caused
  <2>7. CASE q.route = "process" /\ q.type = "shipment_created"
    <3>1. Good /\ m.type \in {"link_shipment", "link_dispatched"}
      BY <1>1, <2>1, <2>2, <2>4, <2>5, <2>7
    <3> QED BY <1>3, <1>9, <2>7, <3>1 DEF Good, Jobs, Caused
  <2>8. CASE q.route # "process"
    <3>1. Good /\ m.type \in {"shipment_created", "shipment_linked", "ready"}
      BY <1>1, <2>1, <2>2, <2>4, <2>5, <2>8
    <3> QED BY <1>3, <1>9, <2>8, <3>1 DEF Good, Jobs, Caused
  <2> QED BY <1>6, <2>6, <2>7, <2>8
<1> QED BY <1>8, <1>9
(* What is emitted joins the chain of its request, and names its cause.    *)
LEMMA UseCaseInv ==
  ASSUME IInv, NEW c \in Contexts, UseCase(c)
  PROVE  IInv'
<1>1. PICK y, s, i : y = ctx[c] /\ s = store[c] /\ i = used.ids + 1
  OBVIOUS
<1>2. /\ y.pc = "use_case" /\ used' = Spend(2, 0, 0) /\ UNCHANGED <<notices, alerts>>
      /\ messages' = IF Guard(y.call, s) = "ok" THEN messages \cup MessagesOf(y.call, s, i)
                     ELSE messages
      /\ ctx' = [ctx EXCEPT ![c] = Idle] /\ store' = [store EXCEPT ![c] = None]
  BY <1>1 DEF UseCase, Ends, Run
<1>3. PICK q, r : q = y.call /\ r = y.requestId
  OBVIOUS
<1>4. /\ CallOK(q) /\ Serves(s, q, r) /\ r \in {RequestId(n) : n \in 1..MaxStarts}
  BY <1>1, <1>2, <1>3 DEF IInv, ContextOK, RequestOK, TaskPcs
<1>5. /\ UsedOK /\ UsedOK' /\ used.ids <= used'.ids
  BY <1>2 DEF IInv, UsedOK, Spend
<1>6. messages \subseteq messages' /\ messages \subseteq MessageType
  BY <1>2 DEF IInv
<1>7. OfRequest(s.correlation)
  <2>1. s # None
    BY <1>4, <1>5, NamesAreNumbers DEF Serves
  <2> QED BY <1>1, <1>2, <2>1 DEF OfRequest, RequestPcs
<1>8. ASSUME NEW m \in messages', m \notin messages
      PROVE  /\ m \in MessageType'
             /\ m.correlation = s.correlation
             /\ m.tenant = s.tenant /\ s.tenant # None /\ q.bodyTenant \in {None, s.tenant}
             /\ m.type \in Jobs \cup DOMAIN Caused => q.route = "process"
             /\ m.type \in DOMAIN Caused => m.type \notin Jobs /\ q.type = Caused[m.type]
             /\ m.type \notin Jobs => m.causation = s.causation /\ m.principal = s.principal
             /\ q.route # "fulfilments" => m.fulfilment = q.fulfilment
  <2>1. Guard(q, s) = "ok" /\ m \in MessagesOf(q, s, i)
    BY <1>2, <1>3, <1>8
  <2> QED BY <1>1, <1>2, <1>4, <1>5, <2>1, Emissions
<1>9. TracedToRequest'
  <2> DEFINE Traced(m, all) ==
        \/ m.correlation < 0
        \/ \E n \in all : /\ n.type \notin Jobs /\ n.causation = None
                          /\ n.correlation = m.correlation /\ n.fulfilment = m.fulfilment
  <2>1. \A m \in messages : m.causation # None \/ m.type \in Jobs => Traced(m, messages)
    BY DEF IInv, TracedToRequest
  <2>2. ASSUME NEW m \in messages', m \notin messages, m.causation # None \/ m.type \in Jobs
        PROVE  Traced(m, messages)
    <3>1. q.user = None /\ q.route # "fulfilments"
      <4>1. q.route = "process" => q.user = None
        BY <1>4 DEF CallOK, DeliveryOf, Webhooks
      <4>2. q.user # None => s.causation = None
        BY <1>4 DEF Serves
      <4>3. q.user = None
        BY <1>8, <2>2, <4>1, <4>2
      <4> QED BY <1>4, <4>3 DEF Serves
    <3>2. s.correlation = Header(q.correlation, r)
      BY <1>4, <3>1 DEF Serves
    <3>3. /\ m.correlation = s.correlation /\ m.fulfilment = q.fulfilment
      BY <1>8, <2>2, <3>1
    <3>4. CASE q.correlation = None
      <4>1. r < 0
        BY <1>4, BoundaryAssumption DEF RequestId
      <4> QED BY <3>2, <3>3, <3>4, <4>1 DEF Header
    <3>5. ASSUME NEW n \in messages, DeliveryOf(q, n)  PROVE Traced(m, messages)
      <4>1. n.correlation \in Names /\ None \notin Names
        BY <1>5, <1>6, NamesAreNumbers DEF MessageType
      <4>2. m.correlation = n.correlation /\ m.fulfilment = n.fulfilment
        BY <3>2, <3>3, <3>5, <4>1 DEF DeliveryOf, Header
      <4>3. CASE n.causation # None \/ n.type \in Jobs
        BY <2>1, <4>2, <4>3
      <4>4. CASE n.causation = None /\ n.type \notin Jobs
        BY <4>2, <4>4
      <4> QED BY <4>3, <4>4
    <3> HIDE DEF Traced
    <3> QED BY <1>4, <3>4, <3>5 DEF CallOK
  <2> QED BY <1>6, <2>1, <2>2 DEF TracedToRequest
<1>10. CauseIsDelivered'
  <2>1. ASSUME NEW m \in messages', m \notin messages, m.type \in DOMAIN Caused
        PROVE  \E n \in messages :
                 /\ n.type = Caused[m.type] /\ n.id = m.causation
                 /\ n.fulfilment = m.fulfilment /\ n.tenant = m.tenant
                 /\ n.correlation = m.correlation
    <3>1. /\ q.route = "process" /\ q.type = Caused[m.type] /\ m.type \notin Jobs
          /\ m.causation = s.causation /\ m.correlation = s.correlation
          /\ m.tenant = s.tenant /\ q.bodyTenant \in {None, s.tenant}
          /\ m.fulfilment = q.fulfilment
      BY <1>8, <2>1
    <3>2. PICK n \in messages : DeliveryOf(q, n)
      BY <1>4, <3>1 DEF CallOK, Webhooks
    <3>3. n.type \notin Jobs
      BY <2>1, <3>1, <3>2 DEF DeliveryOf, Caused, Jobs
    <3>4. /\ n.id # None /\ n.correlation # None /\ n.tenant # None
      BY <1>5, <1>6, NamesAreNumbers, BoundaryAssumption DEF MessageType
    <3>5. q.user = None /\ q.eventId = n.id /\ q.correlation = n.correlation
          /\ q.bodyTenant = n.tenant /\ q.fulfilment = n.fulfilment /\ q.type = n.type
      BY <3>2, <3>3 DEF DeliveryOf
    <3>6. s.causation = n.id /\ s.correlation = n.correlation
      BY <1>4, <3>4, <3>5 DEF Serves, Header
    <3> QED BY <3>1, <3>4, <3>5, <3>6
  <2> QED BY <1>6, <2>1 DEF CauseIsDelivered, IInv
<1>11. AlertHasNotice'
  BY <1>2 DEF IInv, AlertHasNotice
<1>12. ContextOK(Idle, None)' /\ Idle.pc \notin TaskPcs /\ Idle.pc \notin RequestPcs
  BY IdleOK DEF TaskPcs, RequestPcs
<1>13. \A m \in messages' : m \notin messages => m \in MessageType' /\ OfRequest(m.correlation)
  BY <1>7, <1>8
<1> QED BY <1>2, <1>5, <1>6, <1>9, <1>10, <1>11, <1>12, <1>13, AnyStep

(* A refused request ends.                                                 *)
LEMMA RefuseInv ==
  ASSUME IInv, NEW c \in Contexts, Refuse(c)
  PROVE  IInv'
<1>1. /\ ctx' = [ctx EXCEPT ![c] = Idle] /\ store' = [store EXCEPT ![c] = None]
      /\ UNCHANGED <<messages, notices, alerts, used>>
  BY DEF Refuse, Ends, Run
<1>2. UsedOK' /\ used.ids <= used'.ids
  BY <1>1 DEF IInv, UsedOK
<1>3. ContextOK(Idle, None)' /\ Idle.pc \notin TaskPcs /\ Idle.pc \notin RequestPcs
  BY IdleOK DEF TaskPcs, RequestPcs
<1> QED BY <1>1, <1>2, <1>3, QuietStep

-----------------------------------------------------------------------------
(* The steps of a task.                                                    *)

(* A task opens a chain of its own.                                        *)
LEMMA RunJobInv ==
  ASSUME IInv, NEW c \in Contexts, RunJob(c)
  PROVE  IInv'
<1>1. PICK i, x, s : /\ i = used.ids + 1 /\ x = At("task", None, None, None, None)
                     /\ s = JobScope(Scheduler, i)
  OBVIOUS
<1>2. /\ ctx' = [ctx EXCEPT ![c] = x] /\ store' = [store EXCEPT ![c] = s]
      /\ UNCHANGED <<messages, notices, alerts>>
      /\ used' = Spend(1, 2, 0) /\ used.starts + 2 <= MaxStarts
  BY <1>1 DEF RunJob, Run
<1>3. UsedOK' /\ used.ids <= used'.ids /\ i \in Ids' \ Ids /\ i \in Names'
  BY <1>1, <1>2, BoundaryAssumption DEF IInv, UsedOK, Spend, Ids, Names
<1>4. s \in AScope' /\ s.correlation = i /\ s.principal = Scheduler /\ s.tenant = None
  BY <1>1, <1>3 DEF JobScope, AScope, Principals
<1>5. x.pc = "task" /\ x = At(x.pc, x.call, x.requestId, x.times, x.notice)
  BY <1>1 DEF At
<1>6. ContextOK(x, s)'
  BY <1>3, <1>4, <1>5 DEF ContextOK, TaskOK, TaskPcs
<1> QED BY <1>2, <1>3, <1>4, <1>5, <1>6, QuietStep DEF RequestPcs

(* A notice is of its task's chain.                                        *)
LEMMA CaptureInv ==
  ASSUME IInv, NEW c \in Contexts, Capture(c)
  PROVE  IInv'
<1>1. PICK i, x, s : /\ i = used.ids + 1 /\ s = store[c]
                     /\ x = At("save", None, None, None, Notice(s, i))
  OBVIOUS
<1>2. /\ ctx' = [ctx EXCEPT ![c] = x] /\ store' = [store EXCEPT ![c] = s]
      /\ UNCHANGED <<messages, notices, alerts>>
      /\ used' = Spend(1, 0, 0) /\ ctx[c].pc = "task"
  BY <1>1 DEF Capture, IInv
<1>3. UsedOK' /\ used.ids <= used'.ids /\ i \in Ids'
  BY <1>1, <1>2 DEF IInv, UsedOK, Spend, Ids
<1>4. TaskOK(ctx[c], s)
  BY <1>1, <1>2 DEF IInv, ContextOK, RequestPcs
<1>5. x.pc = "save" /\ x = At(x.pc, x.call, x.requestId, x.times, x.notice) /\ x.notice = Notice(s, i)
  BY <1>1 DEF At
<1>6. ContextOK(x, s)'
  <2>1. Ids \subseteq Ids' /\ Names \subseteq Names'
    BY <1>3, NamesGrow DEF IInv
  <2> QED BY <1>3, <1>4, <1>5, <2>1 DEF ContextOK, TaskOK, TaskPcs, AScope
<1>7. OfTask(s.correlation)
  BY <1>1, <1>2 DEF OfTask, TaskPcs
<1> QED BY <1>2, <1>3, <1>5, <1>6, <1>7, QuietStep DEF RequestPcs

(* A stored notice is of its task's chain, and an alert may follow.        *)
LEMMA SaveNoticeInv ==
  ASSUME IInv, NEW c \in Contexts, SaveNotice(c)
  PROVE  IInv'
<1>1. PICK y, i, x, s : /\ y = ctx[c] /\ i = used.ids + 1 /\ s = store[c]
                        /\ x = [y EXCEPT !.pc = "alert"]
  OBVIOUS
<1>2. y.pc = "save" /\ TaskOK(y, s) /\ y = At(y.pc, y.call, y.requestId, y.times, y.notice)
  BY <1>1 DEF SaveNotice, IInv, ContextOK, RequestPcs
<1>3. PICK j \in Ids : y.notice = Notice(s, j)
  BY <1>2 DEF TaskOK
<1>4. PICK n : n = Notice(s, i)
  OBVIOUS
<1>5. /\ ctx' = [ctx EXCEPT ![c] = x] /\ store' = [store EXCEPT ![c] = s]
      /\ notices' = notices \cup {n} /\ UNCHANGED <<messages, alerts>>
      /\ used' = Spend(1, 0, 0)
  <2>1. [y.notice EXCEPT !.id = i] = n
    BY <1>3, <1>4 DEF Notice
  <2>2. store' = [store EXCEPT ![c] = s]
    BY <1>1 DEF SaveNotice, IInv
  <2> QED BY <1>1, <2>1, <2>2 DEF SaveNotice
<1>6. UsedOK' /\ used.ids <= used'.ids /\ i \in Ids'
  BY <1>1, <1>5 DEF IInv, UsedOK, Spend, Ids
<1>7. Ids \subseteq Ids' /\ Names \subseteq Names'
  BY <1>6, NamesGrow DEF IInv
<1>8. x = At("alert", y.call, y.requestId, y.times, y.notice)
  BY <1>1, <1>2 DEF At
<1>9. /\ n.correlation = s.correlation /\ n.principal = Scheduler /\ n.tenant = None /\ n.id = i
      /\ s.correlation \in Ids
  BY <1>2, <1>4 DEF Notice, TaskOK
<1>10. ContextOK(x, s)'
  BY <1>2, <1>3, <1>5, <1>7, <1>8, <1>9 DEF ContextOK, TaskOK, TaskPcs, AScope, At
<1>11. OfTask(s.correlation)
  BY <1>1, <1>2 DEF OfTask, TaskPcs
<1>12. TracedToRequest' /\ CauseIsDelivered' /\ AlertHasNotice'
  BY <1>5 DEF IInv, TracedToRequest, CauseIsDelivered, AlertHasNotice
<1>13. x.pc = "alert" /\ notices \subseteq notices' /\ messages' = messages
  BY <1>5, <1>8 DEF At
<1>14. \A k \in notices' \cup alerts' : k \notin notices \cup alerts => k = n
  BY <1>5
<1> QED BY <1>5, <1>6, <1>7, <1>9, <1>10, <1>11, <1>12, <1>13, <1>14, AnyStep DEF RequestPcs

(* An alert is raised for the notice that was stored.                      *)
LEMMA EmitAlertInv ==
  ASSUME IInv, NEW c \in Contexts, EmitAlert(c)
  PROVE  IInv'
<1>1. PICK y, s, n : y = ctx[c] /\ s = store[c] /\ n = y.notice
  OBVIOUS
<1>2. y.pc = "alert" /\ TaskOK(y, s)
  BY <1>1 DEF EmitAlert, IInv, ContextOK, RequestPcs
<1>3. PICK j \in Ids : n = Notice(s, j)
  BY <1>1, <1>2 DEF TaskOK
<1>4. /\ ctx' = [ctx EXCEPT ![c] = Idle] /\ store' = [store EXCEPT ![c] = None]
      /\ alerts' = alerts \cup {n} /\ UNCHANGED <<messages, notices, used>>
  BY <1>1 DEF EmitAlert, Ends, Run
<1>5. UsedOK' /\ used.ids <= used'.ids /\ Ids' = Ids
  BY <1>4 DEF IInv, UsedOK, Ids
<1>6. /\ n.correlation = s.correlation /\ n.principal = Scheduler /\ n.tenant = None /\ n.id \in Ids
      /\ s.correlation \in Ids
  BY <1>2, <1>3 DEF Notice, TaskOK
<1>7. OfTask(s.correlation)
  BY <1>1, <1>2 DEF OfTask, TaskPcs
<1>8. ContextOK(Idle, None)' /\ Idle.pc \notin TaskPcs /\ Idle.pc \notin RequestPcs
  BY IdleOK DEF TaskPcs, RequestPcs
<1>9. \E k \in notices : k.correlation = n.correlation
  BY <1>2, <1>6 DEF TaskOK
<1>10. TracedToRequest' /\ CauseIsDelivered' /\ AlertHasNotice'
  BY <1>4, <1>9 DEF IInv, TracedToRequest, CauseIsDelivered, AlertHasNotice
<1>11. \A k \in notices' \cup alerts' : k \notin notices \cup alerts => k = n
  BY <1>4
<1> QED BY <1>4, <1>5, <1>6, <1>7, <1>8, <1>10, <1>11, AnyStep

(* A capture that fails is repeated in its own chain, or given up.         *)
LEMMA CaptureFailsInv ==
  ASSUME IInv, NEW c \in Contexts, CaptureFails(c)
  PROVE  IInv'
<1>1. PICK y, s, x : y = ctx[c] /\ s = store[c] /\ x = [y EXCEPT !.pc = "task"]
  OBVIOUS
<1>2. /\ y.pc \in {"save", "alert"} /\ TaskOK(y, s)
      /\ y = At(y.pc, y.call, y.requestId, y.times, y.notice)
  BY <1>1 DEF CaptureFails, IInv, ContextOK, RequestPcs
<1>3. UNCHANGED <<messages, notices, alerts>> /\ used' = Spend(0, 0, 1)
  BY DEF CaptureFails
<1>4. UsedOK' /\ used.ids <= used'.ids /\ Ids' = Ids /\ Names' = Names
  BY <1>3 DEF IInv, UsedOK, Spend, Ids, Names
<1>5. OfTask(s.correlation)
  BY <1>1, <1>2 DEF OfTask, TaskPcs
<1>6. CASE ctx' = [ctx EXCEPT ![c] = x] /\ UNCHANGED store
  <2>1. store' = [store EXCEPT ![c] = s]
    BY <1>1, <1>6 DEF IInv
  <2>2. x = At("task", y.call, y.requestId, y.times, y.notice)
    BY <1>1, <1>2 DEF At
  <2>3. ContextOK(x, s)' /\ x.pc = "task"
    BY <1>2, <1>4, <2>2 DEF ContextOK, TaskOK, TaskPcs, At, AScope
  <2> QED BY <1>3, <1>4, <1>5, <1>6, <2>1, <2>3, QuietStep DEF RequestPcs
<1>7. CASE ctx' = [ctx EXCEPT ![c] = Idle] /\ store' = [store EXCEPT ![c] = None]
  <2>1. ContextOK(Idle, None)' /\ Idle.pc \notin TaskPcs /\ Idle.pc \notin RequestPcs
    BY IdleOK DEF TaskPcs, RequestPcs
  <2> QED BY <1>3, <1>4, <1>7, <2>1, QuietStep
<1> QED BY <1>1, <1>6, <1>7 DEF CaptureFails, Ends, Run
-----------------------------------------------------------------------------
(* The invariant holds in every behaviour.                                 *)
LEMMA NextInv ==
  ASSUME IInv, [Next]_vars
  PROVE  IInv'
<1>1. ASSUME NEW c \in Contexts,
             Arrive(c) \/ Handle(c) \/ UseCase(c) \/ Refuse(c) \/ RunJob(c)
               \/ Capture(c) \/ SaveNotice(c) \/ EmitAlert(c) \/ CaptureFails(c)
      PROVE  IInv'
  BY <1>1, ArriveInv, HandleInv, UseCaseInv, RefuseInv, RunJobInv, CaptureInv,
     SaveNoticeInv, EmitAlertInv, CaptureFailsInv
<1>2. CASE UNCHANGED vars
  <2>1. UNCHANGED <<store, ctx, messages, notices, alerts, used>>
    BY <1>2 DEF vars
  <2>2. Ids' = Ids /\ Names' = Names
    BY <2>1 DEF Ids, Names
  <2>6. (\A c \in Contexts : ContextOK(ctx[c], store[c]))'
    <3>1. ASSUME NEW c \in Contexts  PROVE ContextOK(ctx[c], store[c])'
      <4>1. ctx'[c] = ctx[c] /\ store'[c] = store[c] /\ ContextOK(ctx[c], store[c])
        BY <2>1 DEF IInv
      <4> QED BY <2>1, <2>2, <4>1, ContextGrows
    <3> QED BY <2>1, <3>1
  <2>3. (\A k : ~(OfTask(k) /\ OfRequest(k)))'
    BY <2>1 DEF IInv, OfTask, OfRequest
  <2>4. UsedOK' /\ NoticesOK' /\ (messages \subseteq MessageType)'
    BY <2>1, <2>2 DEF IInv, UsedOK, NoticesOK, MessageType
  <2>5. TracedToRequest' /\ CauseIsDelivered' /\ AlertHasNotice'
    BY <2>1 DEF IInv, TracedToRequest, CauseIsDelivered, AlertHasNotice
  <2>7. /\ (ctx = [c \in Contexts |-> ctx[c]])' /\ (store = [c \in Contexts |-> store[c]])'
    BY <2>1 DEF IInv
  <2> QED BY <2>3, <2>4, <2>5, <2>6, <2>7 DEF IInv
<1> QED BY <1>1, <1>2 DEF Next

LEMMA BoundarySafe == Spec => []IInv
<1>1. ASSUME Init  PROVE IInv
  <2>1. UsedOK
    BY <1>1, BoundaryAssumption DEF Init, UsedOK
  <2>2. \A c \in Contexts : ContextOK(ctx[c], store[c]) /\ ctx[c].pc = "idle"
    BY <1>1 DEF Init, ContextOK, Idle, At
  <2>3. \A k : ~OfTask(k)
    BY <1>1, <2>2 DEF Init, OfTask, TaskPcs
  <2>4. ctx = [c \in Contexts |-> ctx[c]] /\ store = [c \in Contexts |-> store[c]]
    BY <1>1 DEF Init
  <2>5. messages \subseteq MessageType /\ NoticesOK
        /\ TracedToRequest /\ CauseIsDelivered /\ AlertHasNotice
    BY <1>1 DEF Init, NoticesOK, TracedToRequest, CauseIsDelivered, AlertHasNotice
  <2> QED BY <2>1, <2>2, <2>3, <2>4, <2>5 DEF IInv
<1>2. IInv /\ [Next]_vars => IInv'
  BY NextInv
<1> QED BY <1>1, <1>2, PTL DEF Spec

-----------------------------------------------------------------------------
(* Type correctness; a request under way always has the scope it needs.    *)
THEOREM TypeCorrect == Spec => []TypeOK
<1>1. ASSUME IInv  PROVE TypeOK
  <2>1. /\ UsedOK /\ messages \subseteq MessageType /\ NoticesOK
        /\ \A c \in Contexts : ContextOK(ctx[c], store[c])
    BY <1>1 DEF IInv
  <2>2. None \notin AScope
    BY <2>1, NamesAreNumbers
  <2>3. ASSUME NEW c \in Contexts
        PROVE  /\ store[c] \in AScope \cup {None}
               /\ ctx[c].pc \in {"idle", "body", "refused", "use_case", "task", "save", "alert"}
               /\ ctx[c].pc \in {"use_case", "task", "save", "alert"} => store[c] # None
               /\ ctx[c].pc = "idle" => store[c] = None
    BY <2>1, <2>2 DEF ContextOK, RequestOK, TaskOK, BoundFor, Serves, RequestPcs, TaskPcs
  <2> QED BY <2>1, <2>3 DEF TypeOK, MessageType, NoticesOK
<1> QED BY <1>1, BoundarySafe, PTL

(* The hook's verdict on a delivery, when the clocks agree to the grace.   *)
LEMMA VerdictOnTime ==
  ASSUME IInv, NEW c \in Contexts, ctx[c].pc \in {"use_case", "refused"}, ClocksAgree(c)
  PROVE  /\ ctx[c].pc = "use_case" => ctx[c].times[2] <= ToleranceSeconds + FutureGraceSeconds
         /\ ctx[c].pc = "refused"  => ctx[c].times[2] > ToleranceSeconds - FutureGraceSeconds
<1>1. PICK y, q : y = ctx[c] /\ q = y.call
  OBVIOUS
<1>2. RequestOK(y, store[c]) /\ UsedOK /\ messages \subseteq MessageType
  BY <1>1 DEF IInv, ContextOK, RequestPcs, TaskPcs
<1>3. /\ Verified(y) /\ CallOK(q) /\ y.times # None
      /\ Secret # None /\ y.times[1] \in -FutureGraceSeconds..FutureGraceSeconds
  BY <1>1, <1>2 DEF RequestOK, ClocksAgree
<1>4. q.route \in Webhooks
  BY <1>1, <1>3 DEF Verified
<1>5. PICK skew \in Skews, delay \in Delays :
        /\ y.times = <<skew, delay>>
        /\ y.pc = "use_case" <=> Verdict(q, skew, delay) = "ok"
  BY <1>1, <1>3, <1>4 DEF Verified
<1>6. /\ skew \in Int /\ delay \in Nat /\ y.times[1] = skew /\ y.times[2] = delay
      /\ skew <= FutureGraceSeconds /\ -FutureGraceSeconds <= skew
      /\ ToleranceSeconds \in Nat /\ FutureGraceSeconds \in Nat
  BY <1>3, <1>5, BoundaryAssumption, SignatureAssumption
<1>7. q.body \in Nat /\ q.body # None
  <2>1. PICK n \in messages : DeliveryOf(q, n)
    BY <1>3, <1>4 DEF CallOK
  <2>2. n.id \in Ids
    BY <1>2 DEF MessageType
  <2> QED BY <1>2, <2>1, <2>2, NamesAreNumbers DEF DeliveryOf
<1>8. Hmac(skew, q.body, Secret) # None
  <2>1. Hmac(skew, q.body, Secret) \in [timestamp: Int, body: Nat, secret: {Secret}]
    BY <1>6, <1>7 DEF Hmac
  <2> QED BY <2>1, BoundaryAssumption
<1>9. skew # None /\ skew # NaN
  BY <1>6, SignatureAssumption
<1>10. Verdict(q, skew, delay) = IF skew < delay - ToleranceSeconds THEN "TIMESTAMP_EXPIRED"
                                 ELSE IF skew > delay + FutureGraceSeconds THEN "TIMESTAMP_FUTURE"
                                 ELSE "ok"
  BY <1>3, <1>4, <1>7, <1>8, <1>9 DEF Verdict, AuthHook, Verify
<1>11. Verdict(q, skew, delay) = "ok" => delay <= ToleranceSeconds + FutureGraceSeconds
  <2> SUFFICES ASSUME ~(skew < delay - ToleranceSeconds)
               PROVE  delay <= ToleranceSeconds + FutureGraceSeconds
    BY <1>10
  <2> QED BY <1>6
<1>12. Verdict(q, skew, delay) # "ok" => delay > ToleranceSeconds - FutureGraceSeconds
  <2>1. ~(skew > delay + FutureGraceSeconds)
    BY <1>6
  <2>2. skew < delay - ToleranceSeconds => delay > ToleranceSeconds - FutureGraceSeconds
    BY <1>6
  <2> QED BY <1>10, <2>1, <2>2
<1> QED BY <1>1, <1>5, <1>6, <1>11, <1>12

(* A copy of a delivery is honoured for a bounded time only, whatever      *)
(* tolerance and grace are configured.                                     *)
THEOREM ReplaysExpire == Spec => []ReplayBounded
<1>1. IInv => ReplayBounded
  BY VerdictOnTime DEF ReplayBounded
<1> QED BY <1>1, BoundarySafe, PTL

(* A delivery that arrives in time is never refused.                       *)
THEOREM TimelyNeverRefused == Spec => []TimelyAccepted
<1>1. IInv => TimelyAccepted
  BY VerdictOnTime DEF TimelyAccepted
<1> QED BY <1>1, BoundarySafe, PTL

(* Whatever a delivery causes is in the chain of a user's request.         *)
THEOREM ChainsReachRequests == Spec => []TracedToRequest
<1>1. IInv => TracedToRequest
  BY DEF IInv
<1> QED BY <1>1, BoundarySafe, PTL

(* The decisions of the process name the event they answer.                *)
THEOREM DecisionsNameCause == Spec => []CauseIsDelivered
<1>1. IInv => CauseIsDelivered
  BY DEF IInv
<1> QED BY <1>1, BoundarySafe, PTL

(* Notices stay in the chains of the tasks that captured them.             *)
THEOREM NoticesKeepApart == Spec => []NoticesAttributed
<1>1. ASSUME IInv  PROVE NoticesAttributed
  <2>1. ASSUME NEW n \in notices \cup alerts, NEW m \in messages
        PROVE  m.correlation # n.correlation
    <3>1. OfTask(n.correlation) /\ OfRequest(m.correlation)
      BY DEF OfTask, OfRequest
    <3> QED BY <1>1, <3>1 DEF IInv
  <2> QED BY <1>1, <2>1 DEF IInv, NoticesOK, NoticesAttributed
<1> QED BY <1>1, BoundarySafe, PTL

(* No alert without its notice, however captures fail.                     *)
THEOREM AlertsAreStored == Spec => []AlertHasNotice
<1>1. IInv => AlertHasNotice
  BY DEF IInv
<1> QED BY <1>1, BoundarySafe, PTL

(* A use case acts for the request it serves and for no other.             *)
THEOREM IdentityKept == Spec => OwnIdentity
<1> DEFINE Own(c) ==
      ctx[c].pc = "use_case" /\ ctx'[c].pc = "idle" =>
        LET call == ctx[c].call
        IN  \A m \in messages' \ messages :
              /\ m.type \notin Jobs =>
                   m.principal = Header(call.user, Header(call.principal, Fallback[call.route]))
              /\ call.user = None => m.correlation = Header(call.correlation, ctx[c].requestId)
              /\ m.tenant = Header(call.bodyTenant, call.tenant)
<1>1. ASSUME IInv, [Next]_vars, NEW c \in Contexts, ctx[c].pc = "use_case", ctx'[c].pc = "idle"
      PROVE  UseCase(c)
  <2>1. ctx = [d \in Contexts |-> ctx[d]]
    BY <1>1 DEF IInv
  <2>2. ASSUME NEW d \in Contexts, NEW x, ctx' = [ctx EXCEPT ![d] = x], d # c
        PROVE  FALSE
    <3>1. ctx'[c] = ctx[c]
      BY <2>1, <2>2
    <3> QED BY <1>1, <3>1
  <2>3. ~UNCHANGED vars
    BY <1>1 DEF vars
  <2>4. PICK d \in Contexts :
          Arrive(d) \/ Handle(d) \/ UseCase(d) \/ Refuse(d) \/ RunJob(d)
            \/ Capture(d) \/ SaveNotice(d) \/ EmitAlert(d) \/ CaptureFails(d)
    BY <1>1, <2>3 DEF Next
  <2>5. \E x : ctx' = [ctx EXCEPT ![d] = x]
    BY <2>4 DEF Arrive, Handle, UseCase, Refuse, RunJob, Capture, SaveNotice, EmitAlert,
                CaptureFails, Ends
  <2>6. d = c
    BY <2>2, <2>5
  <2> QED BY <1>1, <2>4, <2>6 DEF Arrive, Handle, Refuse, RunJob, Capture, SaveNotice, EmitAlert,
                                  CaptureFails
<1>2. ASSUME IInv, [Next]_vars, NEW c \in Contexts  PROVE Own(c)
  <2> SUFFICES ASSUME ctx[c].pc = "use_case", ctx'[c].pc = "idle",
                      NEW m \in messages' \ messages
               PROVE  /\ m.type \notin Jobs =>
                           m.principal = Header(ctx[c].call.user,
                             Header(ctx[c].call.principal, Fallback[ctx[c].call.route]))
                      /\ ctx[c].call.user = None =>
                           m.correlation = Header(ctx[c].call.correlation, ctx[c].requestId)
                      /\ m.tenant = Header(ctx[c].call.bodyTenant, ctx[c].call.tenant)
    OBVIOUS
  <2>1. PICK q, r, s, i : q = ctx[c].call /\ r = ctx[c].requestId /\ s = store[c] /\ i = used.ids + 1
    OBVIOUS
  <2>2. UseCase(c)
    BY <1>1, <1>2
  <2>3. /\ CallOK(q) /\ Serves(s, q, r) /\ r \in {RequestId(n) : n \in 1..MaxStarts}
    BY <1>2, <2>1 DEF IInv, ContextOK, RequestOK, TaskPcs, RequestPcs
  <2>4. Guard(q, s) = "ok" /\ m \in MessagesOf(q, s, i) /\ used' = Spend(2, 0, 0)
    BY <2>1, <2>2 DEF UseCase
  <2>5. UsedOK'
    BY <1>2, NextInv DEF IInv
  <2>6. /\ m.correlation = s.correlation
        /\ m.tenant = s.tenant /\ s.tenant # None /\ q.bodyTenant \in {None, s.tenant}
        /\ m.type \notin Jobs => m.principal = s.principal
    BY <1>2, <2>1, <2>3, <2>4, <2>5, Emissions
  <2>7. m.tenant = Header(q.bodyTenant, q.tenant)
    BY <2>3, <2>6 DEF Serves, Header
  <2>8. /\ s.principal = Header(q.user, Header(q.principal, Fallback[q.route]))
        /\ q.user = None => s.correlation = Header(q.correlation, r)
    BY <2>3 DEF Serves
  <2> QED BY <2>1, <2>6, <2>7, <2>8
<1>3. IInv /\ [Next]_vars => [\A c \in Contexts : Own(c)]_vars
  BY <1>2
<1> QED BY <1>3, BoundarySafe, PTL DEF Spec, OwnIdentity
=============================================================================
