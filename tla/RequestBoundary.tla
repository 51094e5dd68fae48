--------------------------- MODULE RequestBoundary ---------------------------
(***************************************************************************)
(* What surrounds a use case: the hooks that open a Scope for a request,   *)
(* the verification of webhooks, resolveScope in the routes, the scopes of *)
(* scheduled jobs, and the notices they capture.                           *)
(*                                                                         *)
(* A Scope lives in the AsyncLocalStorage of one asynchronous context and  *)
(* says who acts, for which tenant, in which chain of causes.  A use case  *)
(* takes it from there some awaits after the route has put it there, so    *)
(* requests interleave between the two.  FlowCatalyst signs and delivers   *)
(* what was emitted, and the network may deliver it late or twice.         *)
(*                                                                         *)
(* LastMileProcess has the decisions and transactions of the use cases;    *)
(* here a use case is the guards on its scope and the messages it emits.   *)
(***************************************************************************)
EXTENDS WebhookSignature, FiniteSets

CONSTANTS Contexts,    \* asynchronous contexts
          Users, Tenants,
          Delays,      \* seconds from signing a delivery to its verification
          Skews,       \* FlowCatalyst's clock minus the server's, then
          Secret,      \* the signing secret, None if not configured
          MaxStarts,   \* units of work: a request is one, a task two
          MaxFaults    \* failing saves or alerts

Scheduler == "system:scheduler"
Services  == {"fulfil:process:last-mile-fulfilment", "fulfil:dispatch:shipment",
              "fulfil:dispatch:link-shipment", "fulfil:operator:mark-shipment-ready"}

Principals == Users \cup Services \cup {Scheduler}

(* The last two: None is no scope and no signature.                        *)
ASSUME BoundaryAssumption ==
  /\ Delays \subseteq Nat /\ Skews \subseteq Int
  /\ MaxStarts \in Nat /\ MaxFaults \in Nat
  /\ None \notin Principals \cup Tenants /\ Users \cap (Services \cup {Scheduler}) = {}
  /\ None \notin [correlation: Int, causation: Int \cup {None}, principal: Principals,
                  tenant: Tenants \cup {None}]
  /\ None \notin [timestamp: Int, body: Nat, secret: {Secret}]

VARIABLES store,     \* AsyncLocalStorage: the Scope of each context
          ctx,       \* what each context is executing
          messages,  \* committed outbox messages: events and dispatch jobs
          notices,   \* rows of notices, [id, principal, correlation, tenant]
          alerts,    \* notices handed to onEmitEvent
          used       \* counters: identifiers, work, faults

vars == <<store, ctx, messages, notices, alerts, used>>

-----------------------------------------------------------------------------
(* Scopes.  Identifiers are TSIDs, drawn from a counter; a Fastify request *)
(* id is another kind of name.                                             *)

FromRequest(user, tsid) ==
  [correlation |-> tsid, causation |-> None, principal |-> user, tenant |-> None]

(* Mutant of FromParentEvent: every event starts a chain of its own.        *)
FromParentEventNewChain(parent, principal) ==
  [correlation |-> parent.eventId, causation |-> parent.eventId,
   principal |-> principal, tenant |-> None]

FromParentEvent(parent, principal) ==
  [correlation |-> parent.correlation, causation |-> parent.eventId,
   principal |-> principal, tenant |-> None]

(* runJob, for a scheduled task.                                           *)
JobScope(identity, tsid) ==
  [correlation |-> tsid, causation |-> None, principal |-> identity, tenant |-> None]

(* Mutant of Run: contexts that have a scope share the latest.              *)
RunShared(scopes, c, scope) ==
  [d \in Contexts |-> IF d = c \/ (scopes[d] # None /\ scope # None) THEN scope ELSE scopes[d]]

(* ScopeStore.run.                                                         *)
Run(scopes, c, scope) == [scopes EXCEPT ![c] = scope]

RequestId(n) == -n
Header(value, otherwise) == IF value # None THEN value ELSE otherwise

(* Mutant of ResolveScope: the header is read for the wrong field.          *)
ResolveScopeCorrelationIsCause(existing, call, requestId, fallback) ==
  LET base == IF existing # None THEN existing
              ELSE FromParentEvent(
                     [correlation |-> Header(call.correlation, requestId),
                      eventId     |-> Header(call.correlation, requestId)],
                     Header(call.principal, fallback))
  IN  IF call.bodyTenant # None /\ base.tenant = None
      THEN [base EXCEPT !.tenant = call.bodyTenant] ELSE base

(* A scope bound by the framework's hook wins, its tenant too; otherwise   *)
(* the scope is chained to the delivered event.                            *)
ResolveScope(existing, call, requestId, fallback) ==
  LET base == IF existing # None THEN existing
              ELSE FromParentEvent(
                     [correlation |-> Header(call.correlation, requestId),
                      eventId     |-> Header(call.eventId, requestId)],
                     Header(call.principal, fallback))
  IN  IF call.bodyTenant # None /\ base.tenant = None
      THEN [base EXCEPT !.tenant = call.bodyTenant] ELSE base

-----------------------------------------------------------------------------
(* Routes.                                                                 *)

Webhooks == {"process", "link"}          \* routes with the authentication hook
Routes   == Webhooks \cup {"fulfilments", "shipments", "ready"}
Fallback == [process   |-> "fulfil:process:last-mile-fulfilment",
             shipments |-> "fulfil:dispatch:shipment",
             link      |-> "fulfil:dispatch:link-shipment",
             ready     |-> "fulfil:operator:mark-shipment-ready"]

(* Where FlowCatalyst delivers a message, if anywhere.                     *)
Target == [created         |-> "process",   create_shipment |-> "shipments",
           shipment_created |-> "process",  link_shipment   |-> "link"]
Jobs   == {"create_shipment", "link_shipment"}
Caused == [shipment_requested |-> "created", link_dispatched |-> "shipment_created"]

Emitted(type, id, fulfilment, shipment, tenant, scope) ==
  [type |-> type, id |-> id, fulfilment |-> fulfilment, shipment |-> shipment, tenant |-> tenant,
   correlation |-> scope.correlation,
   causation |-> IF type \in Jobs THEN None ELSE scope.causation,
   principal |-> IF type \in Jobs THEN None ELSE scope.principal]

(* What a use case emits for a geocoded fulfilment: an event, and before   *)
(* it the job it decides on.                                               *)
MessagesOf(call, scope, id) ==
  LET About(type, n, shipment) ==
        Emitted(type, n, call.fulfilment, shipment, Header(call.bodyTenant, scope.tenant), scope)
  IN  CASE call.route = "fulfilments" -> {Emitted("created", id, id, None, scope.tenant, scope)}
        [] call.route = "process" /\ call.type = "created" ->
             {About("create_shipment", id, None), About("shipment_requested", id + 1, None)}
        [] call.route = "shipments" -> {About("shipment_created", id, id)}
        [] call.route = "process" /\ call.type = "shipment_created" ->
             {About("link_shipment", id, call.shipment), About("link_dispatched", id + 1, call.shipment)}
        [] call.route = "link"  -> {About("shipment_linked", id, call.shipment)}
        [] call.route = "ready" -> {About("ready", id, call.shipment)}

Found(call, tenant) ==
  \/ call.route = "fulfilments" \/ call.type = "shipment_created"     \* nothing is looked up
  \/ \E m \in messages :
       /\ m.type = IF call.route \in {"link", "ready"} THEN "shipment_created" ELSE "created"
       /\ m.fulfilment = call.fulfilment /\ m.shipment = call.shipment /\ m.tenant = tenant

AlreadyDone(call) ==
  \E m \in messages : /\ <<call.route, m.type>> \in {<<"link", "shipment_linked">>, <<"ready", "ready">>}
                      /\ m.shipment = call.shipment

(* Mutant of Guard: a missing tenant matches any.                           *)
GuardNoTenant(call, scope) ==
  IF ~Found(call, scope.tenant) THEN "NOT_FOUND"
  ELSE IF AlreadyDone(call) THEN "DUPLICATE" ELSE "ok"

(* The guards of the use cases on their scope, and on what they read with  *)
(* its tenant.                                                             *)
Guard(call, scope) ==
  CASE scope.tenant = None -> "TENANT_REQUIRED"
    [] scope.tenant # None /\ call.bodyTenant \notin {None, scope.tenant} -> "TENANT_MISMATCH"
    [] OTHER -> IF ~Found(call, scope.tenant) THEN "NOT_FOUND"
                ELSE IF AlreadyDone(call) THEN "DUPLICATE" ELSE "ok"

-----------------------------------------------------------------------------
(* The world: clocks, users, FlowCatalyst.                                 *)

At(pc, call, requestId, times, notice) ==
  [pc |-> pc, call |-> call, requestId |-> requestId, times |-> times, notice |-> notice]

Idle == At("idle", None, None, None, None)

Spend(ids, starts, faults) ==
  [ids |-> used.ids + ids, starts |-> used.starts + starts, faults |-> used.faults + faults]

Init ==
  /\ messages = {} /\ notices = {} /\ alerts = {}
  /\ store = [c \in Contexts |-> None]
  /\ ctx = [c \in Contexts |-> Idle]
  /\ used = [ids |-> 0, starts |-> 0, faults |-> 0]

(* A user calls a route that is not a webhook, with or without the headers *)
(* that name the user and the tenant.                                      *)
ByUser(route, fulfilment, shipment, bodyTenant) ==
  {[route |-> route, type |-> None, user |-> u, tenant |-> t,
    eventId |-> None, correlation |-> None, principal |-> None, body |-> None,
    fulfilment |-> fulfilment, shipment |-> shipment, bodyTenant |-> bodyTenant] :
     u \in Users \cup {None}, t \in Tenants \cup {None}}

UserCalls ==
  UNION ({ByUser("fulfilments", None, None, None)}
         \cup {ByUser("ready", m.fulfilment, m.shipment, None) :
                 m \in {n \in messages : n.type = "shipment_created"}}
         \cup {ByUser("shipments", m.fulfilment, None, m.tenant) :
                 m \in {n \in messages : n.type = "create_shipment"}})

(* What FlowCatalyst delivers, as late and as often as it comes.  It names *)
(* the correlation, and may name a principal; what event it names with a   *)
(* job, if any, is its own choice.                                         *)
Deliveries ==
  UNION {{[route |-> Target[m.type], type |-> m.type, user |-> None, tenant |-> None,
            eventId |-> eventId, correlation |-> m.correlation, principal |-> principal,
            body |-> m.id, fulfilment |-> m.fulfilment, shipment |-> m.shipment,
            bodyTenant |-> m.tenant] :
            eventId \in IF m.type \in Jobs THEN {m.id, None} ELSE {m.id},
            principal \in {None, m.principal}} :
          m \in {n \in messages : n.type \in DOMAIN Target}}

-----------------------------------------------------------------------------
(* A request on the server.                                                *)

(* onRequest: the framework's hook binds a scope if the request names its  *)
(* user, the tenant hook adds the tenant to a bound scope.                 *)
OnRequest(user, tenant, tsid) ==
  IF user = None THEN None
  ELSE IF tenant = None THEN FromRequest(user, tsid)
  ELSE [FromRequest(user, tsid) EXCEPT !.tenant = tenant]

Arrive(c) ==
  /\ ctx[c].pc = "idle" /\ used.starts < MaxStarts
  /\ used' = Spend(1, 1, 0)
  /\ \E call \in UserCalls \cup Deliveries :
       /\ ctx' = [ctx EXCEPT ![c] = At("body", call, RequestId(used.starts + 1), None, None)]
       /\ store' = Run(store, c, OnRequest(call.user, call.tenant, used.ids + 1))
  /\ UNCHANGED <<messages, notices, alerts>>

(* The body has been read and parsed, whenever that is: the preHandler     *)
(* hook of the webhooks, then the route, which requires the bound scope or *)
(* resolves one and runs the use case under it.  Times count from the      *)
(* moment of signing: skew on FlowCatalyst's clock, delay on the server's. *)
Verdict(call, skew, delay) ==
  IF call.route \notin Webhooks THEN "ok"
  ELSE AuthHook(call.body, Hmac(skew, call.body, Secret), skew, Secret, delay)

Handle(c) ==
  /\ ctx[c].pc = "body"
  /\ \E skew \in Skews, delay \in Delays :
       LET call == ctx[c].call
           runs == /\ Verdict(call, skew, delay) = "ok"
                   /\ call.route = "fulfilments" => store[c] # None
       IN  /\ ctx' = [ctx EXCEPT ![c] =
                     At(IF runs THEN "use_case" ELSE "refused", call, ctx[c].requestId,
                        IF call.route \in Webhooks THEN <<skew, delay>> ELSE None, None)]
           /\ store' = IF runs /\ call.route # "fulfilments"
                       THEN Run(store, c, ResolveScope(store[c], call, ctx[c].requestId,
                                                       Fallback[call.route]))
                       ELSE store
  /\ UNCHANGED <<messages, notices, alerts, used>>

Ends(c) == /\ ctx' = [ctx EXCEPT ![c] = Idle]
           /\ store' = Run(store, c, None)

(* A connection is free and the transaction open: the use case requires    *)
(* the scope of its context, commits what it emits, and is answered.       *)
UseCase(c) ==
  /\ ctx[c].pc = "use_case"
  /\ LET call == ctx[c].call
     IN  messages' = IF Guard(call, store[c]) = "ok"
                     THEN messages \cup MessagesOf(call, store[c], used.ids + 1)
                     ELSE messages
  /\ used' = Spend(2, 0, 0)
  /\ Ends(c)
  /\ UNCHANGED <<notices, alerts>>

Refuse(c) ==
  /\ ctx[c].pc = "refused"
  /\ Ends(c)
  /\ UNCHANGED <<messages, notices, alerts, used>>

-----------------------------------------------------------------------------
(* Scheduled tasks and notices.                                            *)

(* Cron fires: runJob opens a scope and calls the task in it.              *)
RunJob(c) ==
  /\ ctx[c].pc = "idle" /\ used.starts + 2 <= MaxStarts
  /\ used' = Spend(1, 2, 0)
  /\ ctx' = [ctx EXCEPT ![c] = At("task", None, None, None, None)]
  /\ store' = Run(store, c, JobScope(Scheduler, used.ids + 1))
  /\ UNCHANGED <<messages, notices, alerts>>

(* noticeService.capture: the notice carries the scope of its context.     *)
Notice(scope, id) ==
  [id |-> id, correlation |-> scope.correlation, principal |-> scope.principal,
   tenant |-> scope.tenant]

Capture(c) ==
  /\ ctx[c].pc = "task"
  /\ ctx' = [ctx EXCEPT ![c] = At("save", None, None, None, Notice(store[c], used.ids + 1))]
  /\ used' = Spend(1, 0, 0)
  /\ UNCHANGED <<store, messages, notices, alerts>>

(* Mutant of SaveNotice: the save is not awaited, and is lost.              *)
SaveNoticeNotAwaited(c) ==
  /\ ctx[c].pc = "save"
  /\ ctx' = [ctx EXCEPT ![c].pc = "alert"]
  /\ used' = Spend(1, 0, 0)
  /\ UNCHANGED <<store, messages, notices, alerts>>

(* The repository stores the notice under an id of its own.                *)
SaveNotice(c) ==
  /\ ctx[c].pc = "save"
  /\ notices' = notices \cup {[ctx[c].notice EXCEPT !.id = used.ids + 1]}
  /\ ctx' = [ctx EXCEPT ![c].pc = "alert"]
  /\ used' = Spend(1, 0, 0)
  /\ UNCHANGED <<store, messages, alerts>>

EmitAlert(c) ==
  /\ ctx[c].pc = "alert"
  /\ alerts' = alerts \cup {ctx[c].notice}
  /\ Ends(c)
  /\ UNCHANGED <<messages, notices, used>>

(* save or onEmitEvent fails, and capture rejects: the task may capture    *)
(* the notice once more, or fail, which the scheduler logs.                *)
CaptureFails(c) ==
  /\ ctx[c].pc \in {"save", "alert"} /\ used.faults < MaxFaults
  /\ used' = Spend(0, 0, 1)
  /\ \/ ctx' = [ctx EXCEPT ![c].pc = "task"] /\ UNCHANGED store
     \/ Ends(c)
  /\ UNCHANGED <<messages, notices, alerts>>

-----------------------------------------------------------------------------
Next == \E c \in Contexts :
          \/ Arrive(c) \/ Handle(c) \/ UseCase(c) \/ Refuse(c)
          \/ RunJob(c) \/ Capture(c) \/ SaveNotice(c) \/ EmitAlert(c) \/ CaptureFails(c)

Spec == Init /\ [][Next]_vars

-----------------------------------------------------------------------------
(* Properties.                                                             *)

Ids      == 1..used.ids
Names    == Ids \cup {RequestId(n) : n \in 1..MaxStarts}
AScope   == [correlation: Names, causation: Names \cup {None},
             principal: Principals, tenant: Tenants \cup {None}]

TypeOK ==
  /\ \A c \in Contexts :
       /\ store[c] \in AScope \cup {None}
       /\ ctx[c].pc \in {"idle", "body", "refused", "use_case", "task", "save", "alert"}
       /\ ctx[c].pc \in {"use_case", "task", "save", "alert"} => store[c] # None
       /\ ctx[c].pc = "idle" => store[c] = None
  /\ \A m \in messages : m.id \in Ids /\ m.correlation \in Names /\ m.tenant \in Tenants
  /\ \A n \in notices \cup alerts : n.id \in Ids

(* A use case acts as the user and tenant, or in the chain, of the request *)
(* it serves, whatever other requests and tasks bind a scope meanwhile.    *)
OwnIdentity ==
  [][\A c \in Contexts : ctx[c].pc = "use_case" /\ ctx'[c].pc = "idle" =>
       LET call == ctx[c].call
       IN  \A m \in messages' \ messages :
             /\ m.type \notin Jobs =>
                  m.principal = Header(call.user, Header(call.principal, Fallback[call.route]))
             /\ call.user = None => m.correlation = Header(call.correlation, ctx[c].requestId)
             /\ m.tenant = Header(call.bodyTenant, call.tenant)]_vars

(* The correlation id is preserved across the boundaries: whatever is      *)
(* emitted on behalf of a delivery has the correlation of a user's request *)
(* about the same fulfilment, or of a call that belongs to no chain.       *)
TracedToRequest ==
  \A m \in messages : m.causation # None \/ m.type \in Jobs =>
    \/ m.correlation < 0
    \/ \E n \in messages : /\ n.type \notin Jobs /\ n.causation = None
                           /\ n.correlation = m.correlation /\ n.fulfilment = m.fulfilment

(* The decisions of the process name their cause: the very event whose     *)
(* delivery they answer, about the same fulfilment, in the same chain.     *)
CauseIsDelivered ==
  \A m \in messages : m.type \in DOMAIN Caused =>
    \E n \in messages :
      /\ n.type = Caused[m.type] /\ n.id = m.causation
      /\ n.fulfilment = m.fulfilment /\ n.tenant = m.tenant /\ n.correlation = m.correlation

ClocksAgree(c) ==
  /\ ctx[c].times # None /\ Secret # None
  /\ ctx[c].times[1] \in -FutureGraceSeconds..FutureGraceSeconds

(* A copy of a delivery is honoured for a bounded time only: if the clocks *)
(* agree to a minute, six minutes after it was signed.                     *)
ReplayBounded ==
  \A c \in Contexts : ctx[c].pc = "use_case" /\ ClocksAgree(c) =>
    ctx[c].times[2] <= ToleranceSeconds + FutureGraceSeconds

(* A delivery is never refused in vain: if the clocks agree to a minute,   *)
(* a refused one was four minutes on its way.                              *)
TimelyAccepted ==
  \A c \in Contexts : ctx[c].pc = "refused" /\ ClocksAgree(c) =>
    ctx[c].times[2] > ToleranceSeconds - FutureGraceSeconds

(* A notice is attributed to the task that captured it, in a chain of its  *)
(* own, never to a request being served at the same time.                  *)
NoticesAttributed ==
  \A n \in notices \cup alerts :
    /\ n.principal = Scheduler /\ n.tenant = None
    /\ \A m \in messages : m.correlation # n.correlation

(* An alert is never raised for a notice that was not stored, however      *)
(* captures fail and are repeated (a stored notice may have no alert, and  *)
(* a repeated one two rows).                                               *)
AlertHasNotice ==
  \A a \in alerts : \E n \in notices : n.correlation = a.correlation
=============================================================================
