---------------------------- MODULE OrderedDelivery ----------------------------
(***************************************************************************)
(* What a transaction log promises to its subscriber (src/log.rs): records *)
(* are totally ordered, and the subscriber is handed every one of them,    *)
(* once, in log order.  Record i is the record with tx_id i; record 0 is   *)
(* the bootstrap record, which the subscriber never sees because it starts *)
(* after the latest indexed transaction.                                   *)
(***************************************************************************)
EXTENDS Naturals, Sequences

VARIABLES
    tail,       \* records 1..tail are in the log
    delivered   \* what Subscriber::accept was called with, in order

vars == <<tail, delivered>>

\* The first k records of the log.
Prefix(k) == [i \in 1..k |-> i]

\* A subscription may start after records that an earlier process delivered.
Init ==
    /\ tail \in Nat
    /\ \E k \in 0..tail : delivered = Prefix(k)

Append1 ==
    /\ tail' = tail + 1
    /\ UNCHANGED delivered

Deliver ==
    /\ Len(delivered) < tail
    /\ delivered' = Append(delivered, Len(delivered) + 1)
    /\ UNCHANGED tail

Next == Append1 \/ Deliver

Spec == Init /\ [][Next]_vars
================================================================================
