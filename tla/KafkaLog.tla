------------------------------- MODULE KafkaLog --------------------------------
(***************************************************************************)
(* The Kafka log (src/kafka_log.rs) under a subscription.  Any node that   *)
(* shares the topic may append.  One consumer thread per node polls the    *)
(* partition in offset order and feeds the broadcast channel; it exits at  *)
(* a record it cannot turn into a Record, and reads that reach such a      *)
(* record fail.                                                            *)
(***************************************************************************)
EXTENDS LogSubscription

CONSTANT Unreadable     \* offsets message_to_record rejects

ASSUME UnreadableAssumption == Unreadable \subseteq Nat

VARIABLE polled         \* records 1..polled went through the consumer thread

vars == <<subVars, polled>>

Readable == Nat \ Unreadable

\* KafkaLog::new starts the consumer at the high watermark, before the
\* subscription is created: records up to `polled` were never broadcast to it.
Init ==
    \E t \in 0..MaxRecords : \E p \in 0..t : \E a \in 0..p :
        /\ SubInit(t, a)
        /\ polled = p
        /\ \A i \in Unreadable : i > a

\* KafkaLog::produce, by this node or another.  The record is in the partition
\* whether or not its acknowledgement arrives.
Produce ==
    /\ tail < MaxRecords
    /\ tail' = tail + 1
    /\ UNCHANGED <<chanVars, taskVars, cancelled, polled>>

\* Mutant: the end of the partition is taken for a record.
PollPastEnd ==
    /\ polled <= tail
    /\ polled + 1 \in Readable
    /\ polled' = polled + 1
    /\ Broadcast(polled + 1)
    /\ UNCHANGED <<tail, taskVars, cancelled>>

\* One turn of the loop in spawn_live_consumer.
Poll ==
    /\ polled < tail
    /\ polled + 1 \in Readable
    /\ polled' = polled + 1
    /\ Broadcast(polled + 1)
    /\ UNCHANGED <<tail, taskVars, cancelled>>

Task == TaskStep(Readable) /\ UNCHANGED polled

Running == Produce \/ Poll \/ Task

Next == Running \/ (ShutdownStep /\ UNCHANGED polled)

Spec == Init /\ [][Next]_vars

\* The consumer thread and the task keep running; a read is retried until it
\* succeeds, so records that are readable again and again are eventually read.
\* select! picks at random among ready branches, so cancellation wins in the end.
Fairness ==
    /\ WF_vars(Poll)
    /\ WF_vars(Task)
    /\ SF_vars(CatchUpRead(Readable) /\ UNCHANGED polled)
    /\ WF_vars(CatchUpCancelled /\ UNCHANGED polled)
    /\ SF_vars(LiveCancelled /\ UNCHANGED polled)

FairSpec == Spec /\ Fairness

--------------------------------------------------------------------------------
TypeOK ==
    /\ tail \in Nat /\ polled \in Nat
    /\ chan \in Seq(Nat) /\ Len(chan) <= Capacity
    /\ missed \in Nat
    /\ phase \in Phases
    /\ backoff \in BOOLEAN /\ cancelled \in BOOLEAN
    /\ after \in Nat /\ remaining \in Nat /\ pos \in Nat /\ end \in Nat
    /\ delivered \in Seq(Nat)

\* The subscriber got every record of a prefix of the log, once and in order.
GapFree == \A i \in 1..Len(delivered) : delivered[i] = i

\* Until the node is closed, neither the hand-off from catch-up to live, nor
\* lagging, nor failed reads, nor unreadable records make the task skip,
\* repeat or reorder a record (subscribe, catch_up_transactions).
GapFreeWhileRunning == ~cancelled => GapFree

\* A record is never accepted twice, nor after a later one, whatever happens,
\* shutdown included (the already_seen test in subscribe).
NeverRepeats ==
    \A i, j \in 1..Len(delivered) : i < j => delivered[i] < delivered[j]

\* Until the node is closed, every step of the log and its subscription is a step
\* of the log that OrderedDelivery promises, or none (produce, subscribe).
Ordered == INSTANCE OrderedDelivery
OrderedSpec ==
    /\ Ordered!Init
    /\ [][cancelled \/ Ordered!Next]_Ordered!vars

\* Records that no batch reads together with an unreadable one, nor after it.
Deliverable ==
    {i \in 1..MaxRecords :
        \A limit \in {CatchUpBatch, LagBatch} : 1 .. i + limit - 1 \subseteq Readable}

\* Every such record reaches the subscriber unless the node is closed first: no
\* order of polls, reads, failures and lags leaves the task waiting for a
\* broadcast that already happened (subscribe, catch_up_transactions).
EventuallyDelivered ==
    \A i \in Deliverable :
        tail >= i ~> (Len(delivered) >= i \/ cancelled)

\* A closed node's task ends.
EventuallyStops == cancelled ~> (phase = "stopped")
================================================================================
