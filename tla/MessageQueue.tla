---------------------------- MODULE MessageQueue ----------------------------
(***************************************************************************)
(* What the offline queues promise, as MessageQueueBackend documents it    *)
(* and UserMessageQueue, the sequential queue it grew out of, does it: per *)
(* user a bounded FIFO that drops its oldest message when it is full and   *)
(* is taken as a whole when the user connects. A message that left it does *)
(* not come back.                                                          *)
(***************************************************************************)
EXTENDS Naturals, Sequences, Functions

CONSTANTS Key, Message, Limit

VARIABLES
    items,    \* items[k]: the queue, oldest first
    left      \* left[k]: messages that were taken, pushed out or expired

QueueInit ==
    /\ items = [k \in Key |-> <<>>]
    /\ left = [k \in Key |-> {}]

Put(k, m) ==
    LET full == Len(items[k]) >= Limit
    IN  /\ m \notin Range(items[k]) \cup left[k]
        /\ items' = [items EXCEPT ![k] = Append(IF full THEN Tail(@) ELSE @, m)]
        /\ left' = IF full THEN [left EXCEPT ![k] = @ \cup {Head(items[k])}] ELSE left

Take(k) ==
    /\ items' = [items EXCEPT ![k] = <<>>]
    /\ left' = [left EXCEPT ![k] = @ \cup Range(items[k])]

QueueNext == \E k \in Key : Take(k) \/ \E m \in Message : Put(k, m)

QueueSpec == QueueInit /\ [][QueueNext]_<<items, left>>
=============================================================================
