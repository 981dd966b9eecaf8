---------------------------- MODULE Server_proofs ----------------------------
(***************************************************************************)
(* The server with its HTTP API, for any number of request slots, any      *)
(* tenants and template ids and batches of any size: types, the isolation  *)
(* of the tenants' templates and the account of a batch.                   *)
(***************************************************************************)
EXTENDS Server, FiniteSetTheorems, TLAPS

USE ApiConstantsOK

----------------------------------------------------------------------------
(* The invariant: every slot is in order for itself                        *)

\* A batch between two items, of which d are being dispatched: the counters add up to
\* the items that are done, and what was sent is among the targets seen.
Underway(b, d) ==
    /\ b \in Batch /\ b.next <= b.total /\ b.cut = FALSE
    /\ b.succeeded + b.failed + b.skipped = b.next - 1
    /\ b.stop_on_error => b.failed = 0
    /\ b.skipped > 0 => b.deduplicate
    /\ b.deduplicate => b.succeeded + d <= Cardinality(b.seen)

Summed(b) ==
    /\ b \in Batch
    /\ b.succeeded + b.failed + b.skipped = IF b.cut THEN b.next ELSE b.total
    /\ b.stop_on_error => b.failed <= 1
    /\ b.deduplicate => b.succeeded <= Cardinality(b.seen)
    /\ b.skipped > 0 => b.deduplicate \/ (b.stop_on_error /\ b.failed = 1)

\* A slot at p that works for a and dispatches what w wrote, with batch b.
SlotOK(p, a, w, b) ==
    /\ p \in ApiLabel \cup ConnLabel
    /\ a \in (Tenant \X Id) \cup {NoAsk}
    /\ w \in Tenant \cup {NoTenant}
    /\ b \in Batch \cup {NoBatch}
    /\ p \in ApiLabel \ {"idle", "body"} => a \in Ask
    /\ p \notin {"sending", "dispatching"} => w = NoTenant
    /\ a \in TenantAsk => w \in {NoTenant, DefaultTenant, a[1]}
    /\ p = "item" => Underway(b, 0)
    /\ p = "dispatching" => Underway(b, 1)
    /\ p = "answer" => Summed(b)

Slots ==
    /\ pc \in [Req -> ApiLabel \cup ConnLabel]
    /\ ask \in [Req -> (Tenant \X Id) \cup {NoAsk}]
    /\ from \in [Req -> Tenant \cup {NoTenant}]
    /\ batch \in [Req -> Batch \cup {NoBatch}]
    /\ \A r \in Req : SlotOK(pc[r], ask[r], from[r], batch[r])

StoreOK ==
    /\ store \in [Id -> Tenant \cup {NoTenant}]
    /\ \A id \in Id : store[id] \in {NoTenant, DefaultTenant} \cup Owner(id)

ApiInv == Slots /\ StoreOK

----------------------------------------------------------------------------
(* Constant facts                                                          *)

\* An idle slot holds no request.
LEMMA IdleSlot == SlotOK("idle", NoAsk, NoTenant, NoBatch)
BY DEF SlotOK, ApiLabel, ConnLabel, NoAsk, TenantAsk

\* What a request asks for: a tenant, and a template id that only that tenant or the
\* default one owns.
LEMMA AskTypes ==
    ASSUME NEW a \in Ask
    PROVE  /\ a \in Tenant \X Id /\ a[1] \in Tenant /\ a[2] \in Id /\ a # NoAsk
           /\ Scoped(a) \in Id
           /\ a \in TenantAsk <=> a[1] # DefaultTenant
           /\ a[1] \in {DefaultTenant} \cup Owner(Scoped(a))
           /\ a \in TenantAsk => Owner(Scoped(a)) = {a[1]}
<1>1. a \in Tenant \X Id /\ a[1] \in Tenant /\ a[2] \in Id /\ a # NoAsk
  BY DEF NoAsk
<1>2. a \in TenantAsk <=> a[1] # DefaultTenant
  BY DEF TenantAsk
<1>3. Scoped(a) \in Id
  BY <1>1, <1>2 DEF Scoped
<1>4. a \in TenantAsk => Owner(Scoped(a)) = {a[1]}
  BY <1>2 DEF Scoped, Owner
<1> QED BY <1>1, <1>2, <1>3, <1>4

\* What a slot resolves for a tenant is its own, the default tenant's or direct.
LEMMA ResolvedOwn ==
    ASSUME StoreOK, NEW a \in Ask, NEW w \in Tenant \cup {NoTenant}, Resolves(a, w)
    PROVE  a \in TenantAsk => w \in {NoTenant, DefaultTenant, a[1]}
<1>1. w = NoTenant \/ w = store[Scoped(a)]
  BY DEF Resolves, Render
<1>2. Scoped(a) \in Id /\ (a \in TenantAsk => Owner(Scoped(a)) = {a[1]})
  BY AskTypes
<1> QED BY <1>1, <1>2 DEF StoreOK

----------------------------------------------------------------------------
(* The counters of a batch                                                 *)

\* The fields of a batch can be read off its type.
LEMMA BatchFields ==
    ASSUME NEW b \in Batch
    PROVE  /\ b.total \in 1..MaxBatchSize /\ b.next \in 1..MaxBatchSize + 1
           /\ b.stop_on_error \in BOOLEAN /\ b.deduplicate \in BOOLEAN /\ b.cut \in BOOLEAN
           /\ b.succeeded \in 0..MaxBatchSize /\ b.failed \in 0..MaxBatchSize
           /\ b.skipped \in 0..MaxBatchSize /\ b.seen \in SUBSET Target
           /\ IsFiniteSet(b.seen) /\ Cardinality(b.seen) \in Nat
<1>1. /\ b.total \in 1..MaxBatchSize /\ b.next \in 1..MaxBatchSize + 1
      /\ b.stop_on_error \in BOOLEAN /\ b.deduplicate \in BOOLEAN /\ b.cut \in BOOLEAN
      /\ b.succeeded \in 0..MaxBatchSize /\ b.failed \in 0..MaxBatchSize
      /\ b.skipped \in 0..MaxBatchSize /\ b.seen \in SUBSET Target
  BY DEF Batch
<1> QED BY <1>1, FS_Subset, FS_CardinalityType

\* An item without content is counted as failed, and may be the last.
LEMMA ErrorCounts ==
    ASSUME NEW b, Underway(b, 0)
    PROVE  LET c == [b EXCEPT !.failed = @ + 1, !.cut = b.stop_on_error,
                              !.next = IF b.stop_on_error THEN @ ELSE @ + 1]
           IN  IF c.next > c.total \/ c.cut THEN Summed(c) ELSE Underway(c, 0)
<1> DEFINE c == [b EXCEPT !.failed = @ + 1, !.cut = b.stop_on_error,
                              !.next = IF b.stop_on_error THEN @ ELSE @ + 1]
<1>1. b \in Batch
  BY DEF Underway
<1>2. /\ (IF b.stop_on_error THEN b.next ELSE b.next + 1) \in 1..MaxBatchSize + 1
      /\ b.succeeded \in 0..MaxBatchSize /\ b.failed + 1 \in 0..MaxBatchSize
      /\ b.skipped \in 0..MaxBatchSize
  BY <1>1, BatchFields DEF Underway
<1>3. /\ c \in Batch /\ c.total = b.total
      /\ c.next = (IF b.stop_on_error THEN b.next ELSE b.next + 1)
      /\ c.stop_on_error = b.stop_on_error /\ c.deduplicate = b.deduplicate
      /\ c.seen = b.seen /\ c.succeeded = b.succeeded /\ c.failed = b.failed + 1
      /\ c.skipped = b.skipped /\ c.cut = b.stop_on_error
  BY <1>1, <1>2 DEF Batch
<1> HIDE DEF c
<1>4. IF c.next > c.total \/ c.cut THEN Summed(c) ELSE Underway(c, 0)
  <2>1. CASE b.stop_on_error = TRUE
    BY <1>1, <1>3, <2>1, BatchFields DEF Underway, Summed
  <2>2. CASE b.stop_on_error = FALSE
    BY <1>1, <1>3, <2>2, BatchFields DEF Underway, Summed
  <2> QED BY <1>1, <2>1, <2>2, BatchFields
<1> QED BY <1>4 DEF c

\* A duplicate is counted as skipped.
LEMMA DuplicateCounts ==
    ASSUME NEW b, Underway(b, 0), b.deduplicate
    PROVE  LET c == [b EXCEPT !.skipped = @ + 1, !.next = @ + 1]
           IN  IF c.next > c.total \/ c.cut THEN Summed(c) ELSE Underway(c, 0)
<1> DEFINE c == [b EXCEPT !.skipped = @ + 1, !.next = @ + 1]
<1>1. b \in Batch
  BY DEF Underway
<1>2. /\ b.next + 1 \in 1..MaxBatchSize + 1 /\ b.succeeded \in 0..MaxBatchSize
      /\ b.failed \in 0..MaxBatchSize /\ b.skipped + 1 \in 0..MaxBatchSize
  BY <1>1, BatchFields DEF Underway
<1>3. /\ c \in Batch /\ c.total = b.total /\ c.next = b.next + 1
      /\ c.stop_on_error = b.stop_on_error /\ c.deduplicate = b.deduplicate
      /\ c.seen = b.seen /\ c.succeeded = b.succeeded /\ c.failed = b.failed
      /\ c.skipped = b.skipped + 1 /\ c.cut = b.cut
  BY <1>1, <1>2 DEF Batch
<1> HIDE DEF c
<1>4. IF c.next > c.total \/ c.cut THEN Summed(c) ELSE Underway(c, 0)
  <2>1. CASE b.stop_on_error = TRUE
    BY <1>1, <1>3, <2>1, BatchFields DEF Underway, Summed
  <2>2. CASE b.stop_on_error = FALSE
    BY <1>1, <1>3, <2>2, BatchFields DEF Underway, Summed
  <2> QED BY <1>1, <2>1, <2>2, BatchFields
<1> QED BY <1>4 DEF c

\* A dispatch adds the target to the ones seen, before it is counted.
LEMMA DispatchCounts ==
    ASSUME NEW b, Underway(b, 0), NEW d \in Target, ~ (b.deduplicate /\ d \in b.seen)
    PROVE  Underway([b EXCEPT !.seen = IF b.deduplicate THEN @ \cup {d} ELSE @], 1)
<1> DEFINE c == [b EXCEPT !.seen = IF b.deduplicate THEN @ \cup {d} ELSE @]
<1>1. b \in Batch
  BY DEF Underway
<1>2. d \notin b.seen => Cardinality(b.seen \cup {d}) = Cardinality(b.seen) + 1
  BY <1>1, BatchFields, FS_AddElement
<1>3. /\ c \in Batch /\ c.total = b.total /\ c.next = b.next
      /\ c.stop_on_error = b.stop_on_error /\ c.deduplicate = b.deduplicate
      /\ c.succeeded = b.succeeded /\ c.failed = b.failed
      /\ c.skipped = b.skipped /\ c.cut = b.cut
      /\ c.seen = IF b.deduplicate THEN b.seen \cup {d} ELSE b.seen
  BY <1>1 DEF Batch
<1> HIDE DEF c
<1>4. Underway(c, 1)
  BY <1>1, <1>2, <1>3, BatchFields DEF Underway
<1> QED BY <1>4 DEF c

\* A dispatched item is counted as succeeded.
LEMMA SuccessCounts ==
    ASSUME NEW b, Underway(b, 1)
    PROVE  LET c == [b EXCEPT !.succeeded = @ + 1, !.next = @ + 1]
           IN  IF c.next > c.total \/ c.cut THEN Summed(c) ELSE Underway(c, 0)
<1> DEFINE c == [b EXCEPT !.succeeded = @ + 1, !.next = @ + 1]
<1>1. b \in Batch
  BY DEF Underway
<1>2. /\ b.next + 1 \in 1..MaxBatchSize + 1 /\ b.succeeded + 1 \in 0..MaxBatchSize
      /\ b.failed \in 0..MaxBatchSize /\ b.skipped \in 0..MaxBatchSize
  BY <1>1, BatchFields DEF Underway
<1>3. /\ c \in Batch /\ c.total = b.total /\ c.next = b.next + 1
      /\ c.stop_on_error = b.stop_on_error /\ c.deduplicate = b.deduplicate
      /\ c.seen = b.seen /\ c.succeeded = b.succeeded + 1 /\ c.failed = b.failed
      /\ c.skipped = b.skipped /\ c.cut = b.cut
  BY <1>1, <1>2 DEF Batch
<1> HIDE DEF c
<1>4. IF c.next > c.total \/ c.cut THEN Summed(c) ELSE Underway(c, 0)
  <2>1. CASE b.stop_on_error = TRUE
    BY <1>1, <1>3, <2>1, BatchFields DEF Underway, Summed
  <2>2. CASE b.stop_on_error = FALSE
    BY <1>1, <1>3, <2>2, BatchFields DEF Underway, Summed
  <2> QED BY <1>1, <2>1, <2>2, BatchFields
<1> QED BY <1>4 DEF c

\* A failed dispatch is counted, and with stop_on_error so is the rest.
LEMMA FailureCounts ==
    ASSUME NEW b, Underway(b, 1)
    PROVE  LET c == [b EXCEPT !.failed = @ + 1,
                              !.skipped = IF b.stop_on_error THEN @ + (b.total - b.next) ELSE @,
                              !.next = IF b.stop_on_error THEN b.total + 1 ELSE @ + 1]
           IN  IF c.next > c.total \/ c.cut THEN Summed(c) ELSE Underway(c, 0)
<1> DEFINE c == [b EXCEPT !.failed = @ + 1,
                              !.skipped = IF b.stop_on_error THEN @ + (b.total - b.next) ELSE @,
                              !.next = IF b.stop_on_error THEN b.total + 1 ELSE @ + 1]
<1>1. b \in Batch
  BY DEF Underway
<1>2. /\ (IF b.stop_on_error THEN b.total + 1 ELSE b.next + 1) \in 1..MaxBatchSize + 1
      /\ b.succeeded \in 0..MaxBatchSize /\ b.failed + 1 \in 0..MaxBatchSize
      /\ (IF b.stop_on_error THEN b.skipped + (b.total - b.next) ELSE b.skipped) \in 0..MaxBatchSize
  BY <1>1, BatchFields DEF Underway
<1>3. /\ c \in Batch /\ c.total = b.total
      /\ c.next = (IF b.stop_on_error THEN b.total + 1 ELSE b.next + 1)
      /\ c.stop_on_error = b.stop_on_error /\ c.deduplicate = b.deduplicate
      /\ c.seen = b.seen /\ c.succeeded = b.succeeded /\ c.failed = b.failed + 1
      /\ c.skipped = (IF b.stop_on_error THEN b.skipped + (b.total - b.next) ELSE b.skipped)
      /\ c.cut = b.cut
  BY <1>1, <1>2 DEF Batch
<1> HIDE DEF c
<1>4. IF c.next > c.total \/ c.cut THEN Summed(c) ELSE Underway(c, 0)
  <2>1. CASE b.stop_on_error = TRUE
    BY <1>1, <1>3, <2>1, BatchFields DEF Underway, Summed
  <2>2. CASE b.stop_on_error = FALSE
    BY <1>1, <1>3, <2>2, BatchFields DEF Underway, Summed
  <2> QED BY <1>1, <2>1, <2>2, BatchFields
<1> QED BY <1>4 DEF c

----------------------------------------------------------------------------
(* Every step of the API keeps the invariant                               *)

\* A step of one slot that leaves it in order leaves all slots in order.
LEMMA OneSlot ==
    ASSUME Slots, NEW r \in Req, NEW p, NEW a, NEW w, NEW b, SlotOK(p, a, w, b),
           pc' = [pc EXCEPT ![r] = p], ask' = [ask EXCEPT ![r] = a],
           from' = [from EXCEPT ![r] = w], batch' = [batch EXCEPT ![r] = b]
    PROVE  Slots'
<1>1. /\ pc'[r] = p /\ ask'[r] = a /\ from'[r] = w /\ batch'[r] = b
      /\ \A q \in Req \ {r} : /\ pc'[q] = pc[q] /\ ask'[q] = ask[q]
                              /\ from'[q] = from[q] /\ batch'[q] = batch[q]
  BY DEF Slots
<1>2. /\ p \in ApiLabel \cup ConnLabel /\ a \in (Tenant \X Id) \cup {NoAsk}
      /\ w \in Tenant \cup {NoTenant} /\ b \in Batch \cup {NoBatch}
  BY DEF SlotOK
<1>3. /\ pc' \in [Req -> ApiLabel \cup ConnLabel]
      /\ ask' \in [Req -> (Tenant \X Id) \cup {NoAsk}]
      /\ from' \in [Req -> Tenant \cup {NoTenant}]
      /\ batch' \in [Req -> Batch \cup {NoBatch}]
  BY <1>2 DEF Slots
<1>4. \A q \in Req : SlotOK(pc'[q], ask'[q], from'[q], batch'[q])
  BY <1>1 DEF Slots
<1> QED BY <1>3, <1>4 DEF Slots

\* A slot that moves on with its caller and its batch unchanged leaves all slots in order.
LEMMA MovedSlot ==
    ASSUME Slots, NEW r \in Req, NEW p, NEW a, SlotOK(p, a, from[r], batch[r]),
           pc' = [pc EXCEPT ![r] = p], ask' = [ask EXCEPT ![r] = a], UNCHANGED <<from, batch>>
    PROVE  Slots'
<1>1. /\ pc'[r] = p /\ ask'[r] = a /\ UNCHANGED <<from, batch>>
      /\ \A q \in Req \ {r} : pc'[q] = pc[q] /\ ask'[q] = ask[q]
  BY DEF Slots
<1>2. p \in ApiLabel \cup ConnLabel /\ a \in (Tenant \X Id) \cup {NoAsk}
  BY DEF SlotOK
<1>3. /\ pc' \in [Req -> ApiLabel \cup ConnLabel]
      /\ ask' \in [Req -> (Tenant \X Id) \cup {NoAsk}]
  BY <1>2 DEF Slots
<1>4. \A q \in Req : SlotOK(pc'[q], ask'[q], from[q], batch[q])
  BY <1>1 DEF Slots
<1> QED BY <1>3, <1>4 DEF Slots

\* A slot is in order; to write back what it holds changes nothing.
LEMMA SameSlot ==
    ASSUME Slots, NEW r \in Req
    PROVE  /\ ask = [ask EXCEPT ![r] = ask[r]] /\ from = [from EXCEPT ![r] = from[r]]
           /\ batch = [batch EXCEPT ![r] = batch[r]]
           /\ SlotOK(pc[r], ask[r], from[r], batch[r])
BY DEF Slots

\* A slot whose request is answered is idle again and in order.
LEMMA DoneSlot ==
    ASSUME Slots, NEW r \in Req, Done(r)
    PROVE  Slots'
BY IdleSlot, OneSlot DEF Done, Goto

\* The arrival of a request keeps the invariant.
LEMMA ArriveInv ==
    ASSUME ApiInv, NEW r \in Req, Arrive(r) \/ ReadBody(r) \/ ReadBatch(r)
    PROVE  ApiInv'
<1> USE DEF ApiInv
<1>0. ASSUME NEW a \in Ask, pc[r] = "body", NEW l \in {"create", "update"}
      PROVE  SlotOK(l, a, from[r], batch[r])
  BY <1>0, SameSlot, AskTypes DEF SlotOK, ApiLabel, ConnLabel
<1>1. ASSUME NEW a \in Ask, CreateTemplate(r, a) \/ UpdateTemplate(r, a) PROVE ApiInv'
  <2>1. /\ pc[r] = "body" /\ UNCHANGED <<store, from, batch>>
        /\ ask' = [ask EXCEPT ![r] = a]
        /\ \E l \in {"create", "update"} : pc' = [pc EXCEPT ![r] = l]
    BY <1>1 DEF CreateTemplate, UpdateTemplate, Begin, Goto
  <2>2. Slots'
    BY <1>0, <2>1, MovedSlot
  <2> QED BY <2>1, <2>2 DEF StoreOK
<1>2. ASSUME NEW a \in Ask, DeleteTemplate(r, a) PROVE ApiInv'
  <2>1. store' = [store EXCEPT ![Scoped(a)] = NoTenant] /\ UNCHANGED <<pc, ask, from, batch>>
    BY <1>2 DEF DeleteTemplate, Remove
  <2>2. Slots'
    BY <2>1 DEF Slots
  <2>3. Scoped(a) \in Id
    BY AskTypes
  <2>4. StoreOK'
    BY <2>1, <2>3 DEF StoreOK
  <2> QED BY <2>2, <2>4
<1>3. ASSUME NEW a \in Ask, NEW w \in Tenant \cup {NoTenant}, Send(r, a, w) PROVE ApiInv'
  <2>1. /\ pc[r] = "body" /\ Resolves(a, w) /\ UNCHANGED <<store, batch>>
        /\ pc' = [pc EXCEPT ![r] = "sending"] /\ ask' = [ask EXCEPT ![r] = a]
        /\ from' = [from EXCEPT ![r] = w]
    BY <1>3 DEF Send, Begin, Goto
  <2>2. SlotOK("sending", a, w, batch[r])
    BY <2>1, SameSlot, AskTypes, ResolvedOwn DEF SlotOK, ApiLabel, ConnLabel
  <2>3. Slots'
    BY <2>1, <2>2, SameSlot, OneSlot
  <2> QED BY <2>1, <2>3 DEF StoreOK
<1>4. ASSUME NEW a \in BatchAsk, NEW n \in 1..MaxBatchSize, NEW stop \in BOOLEAN,
             NEW dedup \in BOOLEAN, BatchSend(r, a, n, stop, dedup)
      PROVE  ApiInv'
  <2> DEFINE b == [total |-> n, next |-> 1, stop_on_error |-> stop, deduplicate |-> dedup,
                   seen |-> {}, succeeded |-> 0, failed |-> 0, skipped |-> 0, cut |-> FALSE]
  <2>1. /\ pc[r] = "body" /\ UNCHANGED <<store, from>>
        /\ pc' = [pc EXCEPT ![r] = "item"] /\ ask' = [ask EXCEPT ![r] = a]
        /\ batch' = [batch EXCEPT ![r] = b]
    BY <1>4 DEF BatchSend, Begin, Goto
  <2>2. b \in Batch
    BY DEF Batch
  <2>3. Underway(b, 0)
    BY <2>2, FS_EmptySet DEF Underway
  <2> HIDE DEF b
  <2>4. SlotOK("item", a, from[r], b)
    BY <2>1, <2>2, <2>3, SameSlot, AskTypes DEF SlotOK, ApiLabel, ConnLabel
  <2>5. Slots'
    BY <2>1, <2>4, SameSlot, OneSlot
  <2> QED BY <2>1, <2>5 DEF StoreOK
<1>5. ASSUME Receive(r) PROVE ApiInv'
  <2>1. /\ pc[r] = "idle" /\ pc' = [pc EXCEPT ![r] = "body"]
        /\ UNCHANGED <<store, ask, from, batch>>
    BY <1>5 DEF Receive, Goto
  <2>2. SlotOK("body", ask[r], from[r], batch[r])
    BY <2>1, SameSlot DEF SlotOK, ApiLabel, ConnLabel
  <2>3. ask' = [ask EXCEPT ![r] = ask[r]]
    BY <2>1, SameSlot
  <2>4. Slots'
    BY <2>1, <2>2, <2>3, MovedSlot
  <2> QED BY <2>1, <2>4 DEF StoreOK
<1> QED BY <1>1, <1>2, <1>3, <1>4, <1>5 DEF Arrive, ReadBody, ReadBatch

\* The steps of a batch keep the invariant.
LEMMA BatchInv ==
    ASSUME ApiInv, NEW r \in Req, BatchStep(r)
    PROVE  ApiInv'
<1> USE DEF ApiInv
<1>0. ASSUME pc[r] \in {"item", "dispatching"}, NEW c, Continue(r, c),
             IF c.next > c.total \/ c.cut THEN Summed(c) ELSE Underway(c, 0)
      PROVE  ApiInv'
  <2>1. PICK l \in {"answer", "item"} :
            /\ pc' = [pc EXCEPT ![r] = l]
            /\ (l = "answer" => Summed(c)) /\ (l = "item" => Underway(c, 0))
    BY <1>0 DEF Continue, Goto
  <2>2. /\ batch' = [batch EXCEPT ![r] = c] /\ from' = [from EXCEPT ![r] = NoTenant]
        /\ UNCHANGED <<store, ask>>
    BY <1>0 DEF Continue
  <2>3. c \in Batch
    BY <2>1 DEF Summed, Underway
  <2>4. SlotOK(l, ask[r], NoTenant, c)
    BY <1>0, <2>1, <2>3, SameSlot DEF SlotOK, ApiLabel, ConnLabel
  <2>5. Slots'
    BY <2>1, <2>2, <2>4, SameSlot, OneSlot
  <2> QED BY <2>2, <2>5 DEF StoreOK
<1>u. /\ pc[r] = "item" => Underway(batch[r], 0)
      /\ pc[r] = "dispatching" => Underway(batch[r], 1)
  BY SameSlot DEF SlotOK
<1>1. CASE ContentError(r)
  BY <1>0, <1>1, <1>u, ErrorCounts DEF ContentError
<1>2. ASSUME NEW d \in Target, Duplicate(r, d) PROVE ApiInv'
  BY <1>0, <1>2, <1>u, DuplicateCounts DEF Duplicate
<1>3. ASSUME NEW d \in Target, NEW w \in Tenant \cup {NoTenant}, DispatchItem(r, d, w)
      PROVE  ApiInv'
  <2> DEFINE b == batch[r]
             c == [b EXCEPT !.seen = IF b.deduplicate THEN @ \cup {d} ELSE @]
  <2>1. /\ pc[r] = "item" /\ Resolves(ask[r], w) /\ ~ (b.deduplicate /\ d \in b.seen)
        /\ pc' = [pc EXCEPT ![r] = "dispatching"] /\ from' = [from EXCEPT ![r] = w]
        /\ UNCHANGED <<store, ask>>
    BY <1>3 DEF DispatchItem, Goto
  <2>2. batch' = [batch EXCEPT ![r] = c]
    BY <1>3 DEF DispatchItem, Slots
  <2>3. Underway(c, 1)
    BY <1>u, <2>1, DispatchCounts
  <2>4. c \in Batch
    BY <2>3 DEF Underway
  <2> HIDE DEF c, b
  <2>5. SlotOK("dispatching", ask[r], w, c)
    BY <2>1, <2>3, <2>4, SameSlot, ResolvedOwn DEF SlotOK, ApiLabel, ConnLabel
  <2>6. Slots'
    BY <2>1, <2>2, <2>5, SameSlot, OneSlot
  <2> QED BY <2>1, <2>6 DEF StoreOK
<1>4. CASE ItemSucceeds(r)
  BY <1>0, <1>4, <1>u, SuccessCounts DEF ItemSucceeds
<1>5. CASE ItemFails(r)
  BY <1>0, <1>5, <1>u, FailureCounts DEF ItemFails
<1> QED BY <1>1, <1>2, <1>3, <1>4, <1>5 DEF BatchStep

\* The steps of a single request keep the invariant.
LEMMA RequestInv ==
    ASSUME ApiInv, NEW r \in Req, RequestStep(r) \/ Cancel(r)
    PROVE  ApiInv'
<1> USE DEF ApiInv
<1>1. CASE ReadBack(r) \/ Sent(r) \/ Answer(r) \/ Cancel(r)
  BY <1>1, DoneSlot DEF ReadBack, Sent, Answer, Cancel, StoreOK
<1>2. CASE Insert(r)
  <2>1. ask[r] \in Ask /\ pc[r] \in {"create", "update"}
    BY <1>2, SameSlot DEF Insert, SlotOK, ApiLabel
  <2>2. store' = [store EXCEPT ![Scoped(ask[r])] = ask[r][1]]
    BY <1>2 DEF Insert
  <2>3. StoreOK'
    BY <2>1, <2>2, AskTypes DEF StoreOK
  <2>4. CASE pc[r] = "create"
    <3>1. pc' = [pc EXCEPT ![r] = "created"] /\ UNCHANGED <<ask, from, batch>>
      BY <1>2, <2>4 DEF Insert, Goto
    <3>2. SlotOK("created", ask[r], from[r], batch[r])
      BY <2>1, <2>4, SameSlot DEF SlotOK, ApiLabel, ConnLabel
    <3>3. ask' = [ask EXCEPT ![r] = ask[r]]
      BY <3>1, SameSlot
    <3>4. Slots'
      BY <3>1, <3>2, <3>3, MovedSlot
    <3> QED BY <2>3, <3>4
  <2>5. CASE pc[r] = "update"
    BY <1>2, <2>3, <2>5, DoneSlot DEF Insert
  <2> QED BY <2>1, <2>4, <2>5
<1> QED BY <1>1, <1>2, BatchInv DEF RequestStep

----------------------------------------------------------------------------
(* The server around it                                                    *)

\* The steps of streams and sockets keep the invariant.
LEMMA ConnectionInv ==
    ASSUME ApiInv, NEW r \in Req,
           \/ OpenStream(r) \/ EndStream(r) \/ Unregister(r)
           \/ Upgrade(r) \/ HandleSocket(r) \/ UpgradeFails(r) \/ CloseSocket(r)
    PROVE  ApiInv'
<1>1. PICK l \in ConnLabel \cup {"idle"}, m \in ConnLabel \cup {"idle"} :
          /\ pc[r] = l /\ pc' = [pc EXCEPT ![r] = m]
          /\ UNCHANGED <<store, ask, from, batch>>
  BY DEF OpenStream, EndStream, Unregister, Upgrade, HandleSocket, UpgradeFails, CloseSocket,
         Step, Goto, ConnLabel
<1>2. SlotOK(m, ask[r], from[r], batch[r])
  BY <1>1, SameSlot DEF ApiInv, SlotOK, ApiLabel, ConnLabel
<1>3. ask' = [ask EXCEPT ![r] = ask[r]]
  BY <1>1, SameSlot DEF ApiInv
<1>4. Slots'
  BY <1>1, <1>2, <1>3, MovedSlot DEF ApiInv
<1> QED BY <1>1, <1>4 DEF ApiInv, StoreOK

\* The start of the server, and a restart that loses its memory, leave the invariant true.
LEMMA EmptyInv ==
    /\ ApiInit => ApiInv
    /\ Lost => ApiInv'
<1>1. ASSUME ApiInit PROVE ApiInv
  BY <1>1, IdleSlot DEF ApiInit, ApiInv, Slots, StoreOK, SlotOK
<1>2. ASSUME Lost PROVE ApiInv'
  BY <1>2, IdleSlot DEF Lost, ApiInv, Slots, StoreOK, SlotOK
<1> QED BY <1>1, <1>2

\* The steps of the tasks and of main leave the API alone or end the process.
LEMMA ApiStep == ApiInv /\ [Next]_vars => ApiInv'
<1> SUFFICES ASSUME ApiInv, [Next]_vars PROVE ApiInv'
  OBVIOUS
<1>1. CASE UNCHANGED api
  BY <1>1 DEF api, ApiInv, Slots, StoreOK
<1>2. CASE Lost
  BY <1>2, EmptyInv
<1>3. CASE \/ Subscribe \/ StreamEnds \/ Retry \/ HearSignal \/ HeartbeatStops
           \/ HeartbeatSticks \/ Signal \/ ShutdownStep \/ Underflow \/ Crash \/ Restart
  BY <1>1, <1>2, <1>3 DEF Subscribe, StreamEnds, Retry, HearSignal, HeartbeatStops,
     HeartbeatSticks, Signal, ShutdownStep, Underflow, Crash, Restart, Task, Beat, Phase,
     ServeEnds, NotifyClients, DrainQueues, WaitForConnections, Exit
<1>4. CASE UNCHANGED vars
  BY <1>1, <1>4 DEF vars
<1> QED BY <1>3, <1>4, ArriveInv, RequestInv, ConnectionInv DEF Next, Handle

\* The requests and the stored templates keep the invariant of the HTTP API.
LEMMA ApiInvariance == Spec => []ApiInv
<1>1. Init => ApiInv
  BY EmptyInv DEF Init
<1> QED BY <1>1, ApiStep, PTL DEF Spec

\* What a tenant stores and sends was written by itself or by the default tenant,
\* although all templates share one map and a request looks at it several times
\* (tenant_template_id, TemplateStore, resolve_for_tenant).
THEOREM TemplatesIsolated == Spec => []Isolated
<1>1. ApiInv => Isolated
  BY DEF ApiInv, Slots, SlotOK, StoreOK, Isolated
<1> QED BY <1>1, ApiInvariance, PTL

\* The summary of every answered batch, of any size and in any mix of errors,
\* duplicates and failed dispatches, accounts for each item once (batch_send).
THEOREM BatchesAccounted == Spec => []Accounted
<1>1. ApiInv => Accounted
  BY DEF ApiInv, Slots, SlotOK, Summed, Accounted
<1> QED BY <1>1, ApiInvariance, PTL

----------------------------------------------------------------------------
ServerTypes ==
    /\ phase \in {"serving", "closing", "notify", "drain", "wait", "join", "exited"}
    /\ routed \in {"connecting", "listening", "retry", "stopped"}
    /\ beat \in {"running", "stuck", "stopped"}
    /\ initial \in 0..Cardinality(Req)

\* Every step keeps the types of the server.
LEMMA ServerStep == ServerTypes /\ [Next]_vars => ServerTypes'
<1> SUFFICES ASSUME ServerTypes, [Next]_vars PROVE ServerTypes'
  OBVIOUS
<1>0. Cardinality(Req) \in Nat /\ Cardinality(Registered) \in 0..Cardinality(Req)
  <2>1. Registered \in SUBSET Req
    BY DEF Registered
  <2> QED BY <2>1, FS_Subset, FS_CardinalityType
<1>1. CASE UNCHANGED server
  BY <1>1 DEF server, ServerTypes
<1>2. CASE Lost
  BY <1>0, <1>2 DEF Lost, ServerTypes
<1>3. CASE Subscribe \/ StreamEnds \/ Retry \/ HearSignal \/ HeartbeatStops \/ HeartbeatSticks
  BY <1>3 DEF ServerTypes, Subscribe, StreamEnds, Retry, HearSignal, HeartbeatStops,
     HeartbeatSticks, Task, Beat
<1>4. CASE Signal \/ ServeEnds \/ NotifyClients \/ DrainQueues \/ WaitForConnections \/ Restart
  BY <1>0, <1>4 DEF ServerTypes, Signal, ServeEnds, NotifyClients, DrainQueues,
     WaitForConnections, Restart, Phase
<1>5. CASE Underflow \/ Exit \/ Crash
  BY <1>2, <1>5 DEF Underflow, Exit, Crash
<1>6. CASE \E r \in Req :
        \/ phase = "serving" /\ Arrive(r) /\ UNCHANGED server
        \/ Alive /\ (ReadBody(r) \/ ReadBatch(r)) /\ UNCHANGED server
        \/ Handle(r)
        \/ Alive /\ Cancel(r) /\ UNCHANGED server
        \/ OpenStream(r) \/ EndStream(r) \/ Unregister(r)
        \/ Upgrade(r) \/ HandleSocket(r) \/ UpgradeFails(r) \/ CloseSocket(r)
  BY <1>1, <1>6 DEF Handle, OpenStream, EndStream, Unregister, Upgrade, HandleSocket,
     UpgradeFails, CloseSocket, Step
<1>7. CASE UNCHANGED vars
  BY <1>1, <1>7 DEF vars
<1> QED BY <1>3, <1>4, <1>5, <1>6, <1>7 DEF Next, ShutdownStep

\* Every reachable state is well typed; no counter of a batch leaves its range.
THEOREM ServerTypeCorrect == Spec => []TypeOK
<1>1. Init => ServerTypes
  BY FS_CardinalityType DEF Init, ServerInit, ServerTypes
<1>2. ApiInv /\ ServerTypes => TypeOK
  BY DEF ApiInv, Slots, StoreOK, ServerTypes, TypeOK, ApiTypeOK
<1> QED BY <1>1, <1>2, ApiInvariance, ServerStep, PTL DEF Spec
=============================================================================
