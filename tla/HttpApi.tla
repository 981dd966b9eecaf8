------------------------------ MODULE HttpApi ------------------------------
(***************************************************************************)
(* The HTTP API: templates (src/api/template.rs over the TemplateStore),   *)
(* the send handlers and the batch (src/domain/notification/triggers/http).*)
(* A slot of Req runs one request after another. Every access of the       *)
(* template map is a step; a request waits for its client to send all of   *)
(* it (the Json extractor) and while it dispatches.                        *)
(*                                                                         *)
(* A template id is a string and a colon is allowed in it, so the id that  *)
(* the default tenant writes may be the scoped id of another tenant:       *)
(* Join[t, id] is "t:id", and an element of Id like any other.             *)
(*                                                                         *)
(* Requests api_key_auth or a size check rejects change nothing and are    *)
(* left out; what the dispatcher does is the subject of Delivery.          *)
(***************************************************************************)
EXTENDS Integers, FiniteSets

CONSTANTS
    Req,
    Tenant, DefaultTenant, NoTenant,
    Id, Join,     \* template ids; Join[<<t, id>>]: "t:id"
    ValidId,      \* the ids of alphanumerics, dashes, underscores and colons
    Ask,          \* the <<tenant, id>> that requests use
    Batching,     \* bound: the slots and the <<tenant, id>> of batches
    BatchAsk,
    Target,       \* target and event type of an item, as the deduplication sees them
    MaxBatchSize

TenantAsk == {a \in Ask : a[1] # DefaultTenant}

ASSUME ApiConstantsOK ==
    /\ DefaultTenant \in Tenant /\ NoTenant \notin Tenant
    /\ Ask \subseteq Tenant \X Id /\ BatchAsk \subseteq Ask /\ Batching \subseteq Req
    /\ Join \in [TenantAsk -> Id] /\ ValidId \subseteq Id
    /\ \A a, b \in TenantAsk : Join[a] = Join[b] => a = b  \* is_valid_tenant_id: no colon
    /\ IsFiniteSet(Req) /\ IsFiniteSet(Target) /\ MaxBatchSize \in Nat \ {0}

VARIABLES
    store,   \* store[id]: the tenant that wrote the template last, or NoTenant: none
    pc,      \* pc[r]: where request r stands
    ask,     \* ask[r]: the tenant and the template id of r
    from,    \* from[r]: who wrote the template of the notification r dispatches
    batch    \* batch[r]: the counters of a running batch

api == <<store, pc, ask, from, batch>>

NoAsk == <<NoTenant, NoTenant>>
NoBatch == [total |-> 0]
Batch == [total : 1..MaxBatchSize, next : 1..MaxBatchSize + 1,
          stop_on_error : BOOLEAN, deduplicate : BOOLEAN, seen : SUBSET Target,
          succeeded : 0..MaxBatchSize, failed : 0..MaxBatchSize,
          skipped : 0..MaxBatchSize, cut : BOOLEAN]

ApiLabel == {"idle", "body", "create", "update", "created", "sending", "item",
             "dispatching", "answer"}

ApiTypeOK ==
    /\ store \in [Id -> Tenant \cup {NoTenant}]
    /\ ask \in [Req -> (Tenant \X Id) \cup {NoAsk}]
    /\ from \in [Req -> Tenant \cup {NoTenant}]
    /\ batch \in [Req -> Batch \cup {NoBatch}]

ApiInit ==
    /\ store = [id \in Id |-> NoTenant]
    /\ pc = [r \in Req |-> "idle"]
    /\ ask = [r \in Req |-> NoAsk]
    /\ from = [r \in Req |-> NoTenant]
    /\ batch = [r \in Req |-> NoBatch]

Goto(r, l) == pc' = [pc EXCEPT ![r] = l]

Done(r) ==
    /\ Goto(r, "idle")
    /\ ask' = [ask EXCEPT ![r] = NoAsk]
    /\ from' = [from EXCEPT ![r] = NoTenant]
    /\ batch' = [batch EXCEPT ![r] = NoBatch]

\* Fault: the id is not scoped.
ScopedBare(a) == a[2]

\* tenant_template_id and tenant_scoped_key
Scoped(a) == IF a[1] = DefaultTenant THEN a[2] ELSE Join[a]

\* A request with a body arrives: its handler is called once all of it is there,
\* and no timeout ends the wait.
Receive(r) == pc[r] = "idle" /\ Goto(r, "body") /\ UNCHANGED <<store, ask, from, batch>>

\* The body is there; api_key_auth had put the tenant into the extensions.
Begin(r, a, l) ==
    /\ pc[r] = "body"
    /\ Goto(r, l)
    /\ ask' = [ask EXCEPT ![r] = a]

----------------------------------------------------------------------------
(* Templates                                                               *)

\* Template::validate, of the id as given and of the scoped one. A tenant id may have
\* a dot: no template of such a tenant is valid.
Valid(a) == a[2] \in ValidId /\ Scoped(a) \in ValidId

\* contains_key, get
Exists(a) == store[Scoped(a)] # NoTenant

\* TemplateStore::create: contains_key, insert, get. An existing id is a conflict.
CreateTemplate(r, a) ==
    /\ Valid(a) /\ ~ Exists(a)
    /\ Begin(r, a, "create")
    /\ UNCHANGED <<store, from, batch>>

\* TemplateStore::update: get, insert. An unknown id is not found.
UpdateTemplate(r, a) ==
    /\ Exists(a)
    /\ Begin(r, a, "update")
    /\ UNCHANGED <<store, from, batch>>

\* The insert asks nobody whether the map changed since the first access.
Insert(r) ==
    /\ pc[r] \in {"create", "update"}
    /\ store' = [store EXCEPT ![Scoped(ask[r])] = ask[r][1]]
    /\ IF pc[r] = "create"
       THEN Goto(r, "created") /\ UNCHANGED <<ask, from, batch>>
       ELSE Done(r)

\* The created template is read back. If somebody deleted it meanwhile, unwrap panics
\* and the connection breaks off; the request is over either way.
ReadBack(r) == pc[r] = "created" /\ Done(r) /\ UNCHANGED store

Remove(a) == Exists(a) /\ store' = [store EXCEPT ![Scoped(a)] = NoTenant]

\* A request without a body, answered at once.
DeleteTemplate(r, a) ==
    /\ pc[r] = "idle" /\ Remove(a)
    /\ UNCHANGED <<pc, ask, from, batch>>

----------------------------------------------------------------------------
(* Notifications                                                           *)

\* TemplateStore::render; the text it makes is left out.
Render(a, w) == w # NoTenant /\ store[Scoped(a)] = w

\* resolve_for_tenant: w is who wrote the content, NoTenant for direct content.
Resolves(a, w) == w = NoTenant \/ Render(a, w)

\* The five send handlers; content that is not resolved is a validation error.
Send(r, a, w) ==
    /\ Resolves(a, w)
    /\ Begin(r, a, "sending")
    /\ from' = [from EXCEPT ![r] = w]
    /\ UNCHANGED <<store, batch>>

Sent(r) == pc[r] = "sending" /\ Done(r) /\ UNCHANGED store

BatchSend(r, a, n, stop, dedup) ==
    /\ Begin(r, a, "item")
    /\ batch' = [batch EXCEPT ![r] =
         [total |-> n, next |-> 1, stop_on_error |-> stop, deduplicate |-> dedup,
          seen |-> {}, succeeded |-> 0, failed |-> 0, skipped |-> 0, cut |-> FALSE]]
    /\ UNCHANGED <<store, from>>

\* The loop goes on with item b.next, or ends.
Continue(r, b) ==
    /\ batch' = [batch EXCEPT ![r] = b]
    /\ Goto(r, IF b.next > b.total \/ b.cut THEN "answer" ELSE "item")
    /\ from' = [from EXCEPT ![r] = NoTenant]
    /\ UNCHANGED <<store, ask>>

\* Fault: the loop tries the same item again.
ContentErrorAgain(r) ==
    /\ pc[r] = "item"
    /\ LET b == batch[r]
       IN  Continue(r, [b EXCEPT !.failed = @ + 1, !.cut = b.stop_on_error])

\* Content that cannot be resolved: the loop goes on, or breaks as it is.
ContentError(r) ==
    /\ pc[r] = "item"
    /\ LET b == batch[r]
       IN  Continue(r, [b EXCEPT !.failed = @ + 1, !.cut = b.stop_on_error,
                                 !.next = IF b.stop_on_error THEN @ ELSE @ + 1])

\* deduplicate: the same target and event type again.
Duplicate(r, d) ==
    /\ pc[r] = "item"
    /\ LET b == batch[r]
       IN  /\ b.deduplicate /\ d \in b.seen
           /\ Continue(r, [b EXCEPT !.skipped = @ + 1, !.next = @ + 1])

DispatchItem(r, d, w) ==
    /\ pc[r] = "item" /\ Resolves(ask[r], w)
    /\ LET b == batch[r]
       IN  /\ ~ (b.deduplicate /\ d \in b.seen)
           /\ batch' = [batch EXCEPT ![r].seen = IF b.deduplicate THEN @ \cup {d} ELSE @]
    /\ Goto(r, "dispatching")
    /\ from' = [from EXCEPT ![r] = w]
    /\ UNCHANGED <<store, ask>>

ItemSucceeds(r) ==
    /\ pc[r] = "dispatching"
    /\ LET b == batch[r]
       IN  Continue(r, [b EXCEPT !.succeeded = @ + 1, !.next = @ + 1])

\* Fault: the rest of the items is forgotten.
ItemFailsRest(r) ==
    /\ pc[r] = "dispatching"
    /\ LET b == batch[r]
       IN  Continue(r, [b EXCEPT !.failed = @ + 1,
                                 !.next = IF b.stop_on_error THEN b.total + 1 ELSE @ + 1])

\* A failed dispatch with stop_on_error: the remaining items count as skipped.
ItemFails(r) ==
    /\ pc[r] = "dispatching"
    /\ LET b == batch[r]
       IN  Continue(r, [b EXCEPT !.failed = @ + 1,
                                 !.skipped = IF b.stop_on_error THEN @ + (b.total - b.next) ELSE @,
                                 !.next = IF b.stop_on_error THEN b.total + 1 ELSE @ + 1])

Answer(r) == pc[r] = "answer" /\ Done(r) /\ UNCHANGED store

\* The client closes its connection and the handler is dropped at its await, or the
\* body, or what it asks for, is rejected.
Cancel(r) == pc[r] \in {"body", "sending", "dispatching"} /\ Done(r) /\ UNCHANGED store

----------------------------------------------------------------------------
Arrive(r) == Receive(r) \/ \E a \in Ask : DeleteTemplate(r, a)

ReadBody(r) ==
    \E a \in Ask :
        \/ CreateTemplate(r, a) \/ UpdateTemplate(r, a)
        \/ \E w \in Tenant \cup {NoTenant} : Send(r, a, w)

ReadBatch(r) ==
    r \in Batching /\ \E a \in BatchAsk, n \in 1..MaxBatchSize, stop, dedup \in BOOLEAN :
        BatchSend(r, a, n, stop, dedup)

BatchStep(r) ==
    \/ ContentError(r) \/ ItemSucceeds(r) \/ ItemFails(r)
    \/ \E d \in Target : Duplicate(r, d) \/ \E w \in Tenant \cup {NoTenant} : DispatchItem(r, d, w)

RequestStep(r) == Insert(r) \/ ReadBack(r) \/ Sent(r) \/ BatchStep(r) \/ Answer(r)

----------------------------------------------------------------------------
\* The tenants whose prefix an id carries: one at most.
Owner(id) == {a[1] : a \in {b \in TenantAsk : Join[b] = id}}

\* What a tenant stores under its prefix, and what it sends from there, was written
\* by itself or by the default tenant (whose ids may contain a colon); what is stored
\* without a prefix was written by the default tenant (tenant_template_id,
\* resolve_for_tenant).
Isolated ==
    /\ \A id \in Id : store[id] \in {NoTenant, DefaultTenant} \cup Owner(id)
    /\ \A r \in Req : ask[r] \in TenantAsk =>
                         from[r] \in {NoTenant, DefaultTenant, ask[r][1]}

\* The summary of an answered batch accounts for every item once; only a content error
\* with stop_on_error ends the account at the failed item. Never more than one error
\* with stop_on_error, nothing skipped without a reason (batch_send, batch.rs:224-326).
Accounted ==
    \A r \in Req : pc[r] = "answer" =>
        LET b == batch[r]
        IN  /\ b.succeeded + b.failed + b.skipped = IF b.cut THEN b.next ELSE b.total
            /\ b.stop_on_error => b.failed <= 1
            /\ b.deduplicate => b.succeeded <= Cardinality(b.seen)
            /\ b.skipped > 0 => b.deduplicate \/ (b.stop_on_error /\ b.failed = 1)
=============================================================================
