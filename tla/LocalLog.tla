------------------------------- MODULE LocalLog --------------------------------
(***************************************************************************)
(* The in-process logs, src/memory_log.rs and src/file_log.rs, under a     *)
(* subscription.  append_tx takes the log's mutex, adds the record,        *)
(* releases the mutex and only then broadcasts the record, so concurrent   *)
(* callers may broadcast in another order than they appended.  A file log  *)
(* may also fail after the record reached the file (flush, sync_data):     *)
(* append_tx then returns an error and broadcasts nothing.                 *)
(***************************************************************************)
EXTENDS LogSubscription, FiniteSets

CONSTANTS
    Appenders,      \* concurrent callers of append_tx
    MaxFailures     \* bound: appends that fail after writing

ASSUME FailureAssumption == MaxFailures \in Nat

VARIABLES
    sending,        \* sending[p]: the record p appended and has still to
                    \*   broadcast, 0 when p is not in append_tx
    failed,         \* history: records whose append failed after writing
    overlap         \* history: a record was added while another one was in the
                    \*   log and not yet broadcast

localVars == <<sending, failed, overlap>>
vars == <<subVars, localVars>>

Init ==
    /\ \E t \in 0..MaxRecords : \E a \in 0..t : SubInit(t, a)
    /\ sending = [p \in Appenders |-> 0]
    /\ failed = {}
    /\ overlap = FALSE

\* Nobody is between adding a record and broadcasting it.
Quiet == \A p \in Appenders : sending[p] = 0

\* append_tx up to `drop(state)`.
AppendTx(p) ==
    /\ sending[p] = 0
    /\ tail < MaxRecords
    /\ tail' = tail + 1
    /\ sending' = [sending EXCEPT ![p] = tail + 1]
    /\ overlap' = (overlap \/ ~Quiet)
    /\ UNCHANGED <<chanVars, taskVars, cancelled, failed>>

\* tx_sender.send and return.
SendTx(p) ==
    /\ sending[p] # 0
    /\ Broadcast(sending[p])
    /\ sending' = [sending EXCEPT ![p] = 0]
    /\ UNCHANGED <<tail, taskVars, cancelled, failed, overlap>>

\* FileLog::append_tx fails in flush or sync_data, the record being in the file.
AppendFails(p) ==
    /\ sending[p] = 0
    /\ Cardinality(failed) < MaxFailures
    /\ tail < MaxRecords
    /\ tail' = tail + 1
    /\ failed' = failed \cup {tail + 1}
    /\ overlap' = (overlap \/ ~Quiet)
    /\ UNCHANGED <<chanVars, taskVars, cancelled, sending>>

Running ==
    \/ \E p \in Appenders : AppendTx(p) \/ SendTx(p) \/ AppendFails(p)
    \/ TaskStep(Nat) /\ UNCHANGED localVars

Next == Running \/ (ShutdownStep /\ UNCHANGED localVars)

Spec == Init /\ [][Next]_vars

\* A local log that is not closed.
RunningSpec == Init /\ [][Running]_vars

--------------------------------------------------------------------------------
TypeOK ==
    /\ tail \in Nat /\ failed \subseteq 1..tail /\ overlap \in BOOLEAN
    /\ sending \in [Appenders -> Nat]
    /\ chan \in Seq(Nat) /\ Len(chan) <= Capacity
    /\ missed \in Nat
    /\ phase \in Phases
    /\ backoff \in BOOLEAN /\ cancelled \in BOOLEAN
    /\ after \in Nat /\ remaining \in Nat /\ pos \in Nat /\ end \in Nat
    /\ delivered \in Seq(Nat)

\* The subscriber got every record of a prefix of the log, once and in order.
GapFree == \A i \in 1..Len(delivered) : delivered[i] = i

\* Broadcasts that overtake each other, failed appends, lags and shutdown never
\* make the subscriber accept a record twice or after a later one.
NeverRepeats ==
    \A i, j \in 1..Len(delivered) : i < j => delivered[i] < delivered[j]

\* As long as callers of append_tx come one after the other and none fails, every
\* step of a local log and its subscription is, until the node is closed, a step of
\* the log that OrderedDelivery promises, or none (append_tx, subscribe).
Ordered == INSTANCE OrderedDelivery
OrderedSpec ==
    /\ Ordered!Init
    /\ [][cancelled \/ overlap \/ failed # {} \/ Ordered!Next]_Ordered!vars

\* With callers one after the other, the subscriber passes over no record but
\* those whose append_tx failed (subscribe_txs, catch_up_transactions).
SkipsOnlyFailed ==
    overlap \/ cancelled \/
    \A i \in 1..Len(delivered) :
        1 .. delivered[i] \subseteq {delivered[j] : j \in 1..i} \cup failed
================================================================================
