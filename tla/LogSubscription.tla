---------------------------- MODULE LogSubscription ----------------------------
(***************************************************************************)
(* The subscription task of src/log.rs: `subscribe` creates a broadcast    *)
(* receiver and spawns a task that first reads the log from after_tx_id    *)
(* (`catch_up_transactions`) and then consumes the live broadcast, falling *)
(* back to the log whenever the receiver reports that it lagged.           *)
(*                                                                         *)
(* A record is its position in the log.  Memory and Kafka logs number      *)
(* records this way; the file log uses byte offsets, which order the same. *)
(* The modules that extend this one say who appends and who broadcasts.    *)
(***************************************************************************)
EXTENDS Naturals, Sequences

CONSTANTS
    Capacity,       \* broadcast::channel(1024)
    CatchUpBatch,   \* batch_limit of the initial catch-up (100)
    LagBatch,       \* batch_limit of a catch-up after lagging (u16::MAX)
    MaxRecords      \* bound: records ever appended to the log

ASSUME SizeAssumption ==
    /\ Capacity \in Nat \ {0}
    /\ CatchUpBatch \in Nat \ {0}
    /\ LagBatch \in Nat \ {0}
    /\ MaxRecords \in Nat

VARIABLES
    tail,       \* records 1..tail are in the log
    chan,       \* records the receiver has not received and can still get
    missed,     \* records overwritten in the channel since the last recv
    phase,      \* where the task is; see Phases
    backoff,    \* sleeping after a failed read
    after,      \* the task's last_tx_id
    remaining,  \* what is left of max_records in a catch-up after lagging
    pos,        \* records pos+1..end were read from the log and are
    end,        \*   still to be accepted
    cancelled,  \* the CancellationToken
    delivered   \* history: records accepted by the subscriber, in order

taskVars == <<phase, backoff, after, remaining, pos, end, delivered>>
chanVars == <<chan, missed>>
subVars  == <<tail, chan, missed, phase, backoff, after, remaining, pos, end,
              cancelled, delivered>>

CatchingUp == {"catchup", "lagged"}
Phases == CatchingUp \cup {"live", "stopped"}

Min2(a, b) == IF a <= b THEN a ELSE b

Prefix(k) == [i \in 1..k |-> i]

\* Fresh task: the receiver exists, nothing was broadcast to it yet, and the
\* records up to after_tx_id were accepted by an earlier process.
SubInit(t, a) ==
    /\ tail = t
    /\ chan = <<>>
    /\ missed = 0
    /\ phase = "catchup"
    /\ backoff = FALSE
    /\ after = a
    /\ remaining = 0
    /\ pos = a
    /\ end = a
    /\ cancelled = FALSE
    /\ delivered = Prefix(a)

--------------------------------------------------------------------------------
(* The tokio broadcast channel, as one receiver sees it: a full ring       *)
(* overwrites its oldest record, and recv then reports how many it lost.   *)

\* Mutant: off by one.
RingFullLate == Len(chan) > Capacity

RingFull == Len(chan) >= Capacity

Broadcast(id) ==
    IF phase = "stopped"
    THEN UNCHANGED chanVars
    ELSE IF ~RingFull
    THEN /\ chan' = Append(chan, id)
         /\ UNCHANGED missed
    ELSE /\ chan' = Append(Tail(chan), id)
         /\ missed' = missed + 1

--------------------------------------------------------------------------------
(* catch_up_transactions *)

ReadLimit ==
    IF phase = "lagged" THEN Min2(remaining, LagBatch) ELSE CatchUpBatch

\* Mutant: any batch ends the catch-up.
AnyBatch(n) == n <= ReadLimit

\* A batch of n records ends the catch-up.
ShortBatch(n) == n < ReadLimit

AtLoopTop == phase \in CatchingUp /\ ~backoff /\ pos = end

\* read_txs_after(last_tx_id, read_limit) succeeds.  Nothing to read ends the
\* catch-up.
CatchUpRead(readable) ==
    /\ AtLoopTop
    /\ ~cancelled
    /\ pos' = after
    /\ end' = Min2(after + ReadLimit, tail)
    /\ after + 1 .. end' \subseteq readable
    /\ phase' = IF end' = after THEN "live" ELSE phase
    /\ UNCHANGED <<tail, chanVars, backoff, after, remaining, cancelled,
                   delivered>>

\* The read fails: sleep, then try again from the same record.
CatchUpError ==
    /\ AtLoopTop
    /\ ~cancelled
    /\ backoff' = TRUE
    /\ UNCHANGED <<tail, chanVars, phase, after, remaining, pos, end,
                   cancelled, delivered>>

\* Mutant: only the token wakes the task from its sleep.
RetryWhenCancelled ==
    /\ backoff
    /\ cancelled
    /\ backoff' = FALSE
    /\ UNCHANGED <<tail, chanVars, phase, after, remaining, pos, end,
                   cancelled, delivered>>

CatchUpRetry ==
    /\ backoff
    /\ backoff' = FALSE
    /\ UNCHANGED <<tail, chanVars, phase, after, remaining, pos, end,
                   cancelled, delivered>>

\* accept one record of the batch.  The last one also moves last_tx_id, uses
\* up max_records, and ends the catch-up after a short batch.
CatchUpAccept ==
    /\ pos < end
    /\ delivered' = Append(delivered, pos + 1)
    /\ pos' = pos + 1
    /\ IF pos + 1 < end
       THEN UNCHANGED <<phase, after, remaining>>
       ELSE /\ after' = end
            /\ remaining' = IF phase = "lagged"
                            THEN remaining - (end - after) ELSE 0
            /\ phase' = IF \/ ShortBatch(end - after)
                           \/ phase = "lagged" /\ remaining' = 0
                        THEN "live" ELSE phase
    /\ UNCHANGED <<tail, chanVars, backoff, end, cancelled>>

\* Both the check at the top of the loop and the sleep after a failed read give
\* up once the token is cancelled; the task then enters the live phase.
CatchUpCancelled ==
    /\ cancelled
    /\ phase \in CatchingUp
    /\ pos = end
    /\ phase' = "live"
    /\ backoff' = FALSE
    /\ remaining' = 0
    /\ UNCHANGED <<tail, chanVars, after, pos, end, cancelled, delivered>>

--------------------------------------------------------------------------------
(* The live phase.  tokio::select! takes any ready branch, so a cancelled  *)
(* task may still receive.                                                 *)

\* Mutant: off by one.
SeenBefore(id) == id < after

\* Already seen in a catch-up.
AlreadySeen(id) == id <= after

LiveRecv ==
    /\ phase = "live"
    /\ missed = 0
    /\ chan # <<>>
    /\ chan' = Tail(chan)
    /\ IF AlreadySeen(Head(chan))
       THEN UNCHANGED <<after, delivered>>
       ELSE /\ after' = Head(chan)
            /\ delivered' = Append(delivered, Head(chan))
    /\ UNCHANGED <<tail, missed, phase, backoff, remaining, pos, end,
                   cancelled>>

\* Mutant: off by one.
OneMissedLess == missed - 1

\* The max_records of the catch-up that makes up for a lag.
RecordsMissed == missed

LiveLagged ==
    /\ phase = "live"
    /\ missed > 0
    /\ phase' = "lagged"
    /\ remaining' = RecordsMissed
    /\ missed' = 0
    /\ UNCHANGED <<tail, chan, backoff, after, pos, end, cancelled, delivered>>

\* Mutant: the token is looked at only when a record arrives.
LiveCancelledOnRecord ==
    /\ phase = "live"
    /\ cancelled
    /\ chan # <<>>
    /\ phase' = "stopped"
    /\ UNCHANGED <<tail, chanVars, backoff, after, remaining, pos, end,
                   cancelled, delivered>>

LiveCancelled ==
    /\ phase = "live"
    /\ cancelled
    /\ phase' = "stopped"
    /\ UNCHANGED <<tail, chanVars, backoff, after, remaining, pos, end,
                   cancelled, delivered>>

\* Node::close cancels the token.
Cancel ==
    /\ ~cancelled
    /\ cancelled' = TRUE
    /\ UNCHANGED <<tail, chanVars, taskVars>>

--------------------------------------------------------------------------------

\* What the task does on its own; `readable` are the records a read can return.
TaskStep(readable) ==
    \/ CatchUpRead(readable)
    \/ CatchUpError
    \/ CatchUpRetry
    \/ CatchUpAccept
    \/ LiveRecv
    \/ LiveLagged

ShutdownStep == Cancel \/ CatchUpCancelled \/ LiveCancelled
================================================================================
