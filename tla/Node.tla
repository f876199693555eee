---------------------------------- MODULE Node ----------------------------------
(***************************************************************************)
(* A node (src/node.rs) around its indexer (src/indexer.rs): the log feeds *)
(* the indexer, the indexer writes to SlateDB and announces completions,   *)
(* clients execute transactions and open database values, and the node may *)
(* crash and start again from its log and its durable storage.             *)
(*                                                                         *)
(* The log is the one OrderedDelivery promises: record i has tx_id i and   *)
(* the indexer accepts records in order.  What a transaction does to the   *)
(* facts is the subject of TxStore; here a transaction claims a unique     *)
(* value, so that its outcome depends on the transactions before it.       *)
(* Storage writes are not awaited for durability: a crash loses a suffix   *)
(* of them.                                                                *)
(***************************************************************************)
EXTENDS Naturals, Sequences, FiniteSets

CONSTANTS
    Clients,
    Startup,        \* the waiter of from_slate_and_tx_log
    Claims,         \* unique values that transactions claim
    Junk,           \* a record that does not decode to transaction operations
    Capacity,       \* DEFAULT_TX_COMPLETION_CAPACITY (1024)
    StartupBatch,   \* records a starting node waits for (u16::MAX)
    MaxRecords, MaxCrashes, MaxFaults       \* bounds

ASSUME NodeAssumption ==
    /\ Startup \notin Clients
    /\ Junk \notin Claims
    /\ Capacity \in Nat \ {0}
    /\ StartupBatch \in Nat \ {0}
    /\ MaxRecords \in Nat /\ MaxCrashes \in Nat /\ MaxFaults \in Nat

VARIABLES
    log,        \* the transaction log; survives crashes
    store,      \* transaction entities in SlateDB: tx_id -> outcome
    durable,    \* writes up to this tx_id survive a crash
    phase,      \* "down", "starting" or "up"
    backlog,    \* history: length of the log when the node last started
    accepted,   \* records 1..accepted went through Subscriber::accept
    latest,     \* latest_indexed_tx
    schema,     \* transactions reflected in the in-memory metadata
    call,       \* what each caller is doing
    rx,         \* each caller's receiver of completions
    replies,    \* history: outcomes execute_tx returned, by tx_id
    crashes, faults

logVars    == <<log>>
storeVars  == <<store, durable>>
indexVars  == <<accepted, latest, schema>>
callVars   == <<call, rx, replies>>
lifeVars   == <<phase, backlog, crashes>>
vars == <<log, store, durable, phase, backlog, accepted, latest, schema, call,
          rx, replies, crashes, faults>>

Callers == Clients \cup {Startup}
Idle == [op |-> "idle"]
None == [i \in {} |-> "none"]       \* the empty function

\* Functions from some tx_ids.
Put(f, i, o) == [j \in DOMAIN f \cup {i} |-> IF j = i THEN o ELSE f[j]]
UpTo(f, t) == [j \in {i \in DOMAIN f : i <= t} |-> f[j]]
Committed(f) == {i \in DOMAIN f : f[i] = "committed"}

\* latest_tx_key_from_sdb: the highest transaction entity, 0 being bootstrap's.
LastTx(f) ==
    CHOOSE t \in DOMAIN f \cup {0} : \A i \in DOMAIN f : i <= t

--------------------------------------------------------------------------------
(* Completions: a broadcast channel that overwrites its oldest message.    *)
(* Both kinds of waiter ignore the lag error, so it is not represented.    *)

\* Mutant: off by one.
RxFullLate(q) == Len(q) > Capacity

RxFull(q) == Len(q) >= Capacity

Push(q, m) == Append(IF RxFull(q) THEN Tail(q) ELSE q, m)

\* The callers that hold a TxWaiter.
Waiting(c) == call[c].op \in {"execute", "await", "asof"}

Announce(i, o) ==
    rx' = [c \in Callers |->
             IF Waiting(c) THEN Push(rx[c], [id |-> i, outcome |-> o]) ELSE rx[c]]

--------------------------------------------------------------------------------
(* Indexer::accept, under the indexer's write lock: the batch is written,  *)
(* then the metadata and latest_indexed_tx move and the completion is      *)
(* sent.  A reader of storage may come in between.                         *)

Alive == phase # "down"
Current == accepted + 1

\* The batch of the current record is written, the rest is still to do.
Writing == Current \in DOMAIN store

\* indexer.read() waits for the writer.
ReadLock == ~Writing

CanAccept == Alive /\ ~Writing /\ accepted < Len(log)

\* The pipeline: a claim commits unless the value is taken.
Verdict(i) ==
    IF \E j \in Committed(store) : log[j] = log[i] THEN "aborted" ELSE "committed"

\* transact_tx up to the write of the batch, of a committed or an aborted
\* transaction.
WriteTx ==
    /\ CanAccept
    /\ log[Current] # Junk
    /\ store' = Put(store, Current, Verdict(Current))
    /\ UNCHANGED <<logVars, durable, indexVars, callVars, lifeVars, faults>>

\* A storage error in transact_tx_inner is an aborted transaction too.
WriteTransientAbort ==
    /\ CanAccept
    /\ log[Current] # Junk
    /\ faults < MaxFaults
    /\ faults' = faults + 1
    /\ store' = Put(store, Current, "aborted")
    /\ UNCHANGED <<logVars, durable, indexVars, callVars, lifeVars>>

\* The rest of transact_tx.
FinishTx ==
    /\ Alive
    /\ Writing
    /\ accepted' = Current
    /\ latest' = Current
    /\ schema' = IF store[Current] = "committed" THEN schema \cup {Current} ELSE schema
    /\ Announce(Current, store[Current])
    /\ UNCHANGED <<logVars, storeVars, call, replies, lifeVars, faults>>

\* Mutant: nobody is told.
FailSilently ==
    /\ CanAccept
    /\ log[Current] = Junk
    /\ accepted' = Current
    /\ UNCHANGED <<logVars, storeVars, latest, schema, callVars, lifeVars, faults>>

\* A record that does not decode only announces its failure.
FailUndecodable ==
    /\ CanAccept
    /\ log[Current] = Junk
    /\ accepted' = Current
    /\ Announce(Current, "failed")
    /\ UNCHANGED <<logVars, storeVars, latest, schema, call, replies, lifeVars,
                   faults>>

\* Neither the batch nor the aborted transaction could be written.
FailStorage ==
    /\ CanAccept
    /\ log[Current] # Junk
    /\ faults < MaxFaults
    /\ faults' = faults + 1
    /\ accepted' = Current
    /\ Announce(Current, "failed")
    /\ UNCHANGED <<logVars, storeVars, latest, schema, call, replies, lifeVars>>

\* SlateDB makes a prefix of the writes durable.
Flush ==
    /\ Alive
    /\ \E t \in DOMAIN store : t > durable /\ durable' = t
    /\ UNCHANGED <<logVars, store, indexVars, callVars, lifeVars, faults>>

--------------------------------------------------------------------------------
(* Starting and stopping *)

\* Mutant: the subscription starts at the end of the log.
ResumeAtEnd == Len(log)

\* after_tx_id of the subscription.
ResumeAfter == LastTx(store)

\* Mutant: off by one.
StartupTargetLow ==
    IF ResumeAfter + StartupBatch < Len(log) THEN ResumeAfter + StartupBatch
    ELSE IF Len(log) > ResumeAfter THEN Len(log) - 1 ELSE Len(log)

\* The last of the records read_txs_after returns.
StartupTarget ==
    IF ResumeAfter + StartupBatch < Len(log) THEN ResumeAfter + StartupBatch
    ELSE Len(log)

\* from_slate_and_tx_log up to its await.
Boot ==
    /\ phase = "down"
    /\ latest' = LastTx(store)
    /\ accepted' = ResumeAfter
    /\ schema' = Committed(store)
    /\ backlog' = Len(log)
    /\ IF StartupTarget <= ResumeAfter
       THEN phase' = "up" /\ UNCHANGED call
       ELSE /\ phase' = "starting"
            /\ call' = [call EXCEPT ![Startup] =
                          [op |-> "asof", id |-> StartupTarget, base |-> LastTx(store)]]
    /\ UNCHANGED <<logVars, storeVars, rx, replies, crashes, faults>>

\* The process ends, at any point.  Callers lose their answers.
Crash ==
    /\ Alive
    /\ crashes < MaxCrashes
    /\ crashes' = crashes + 1
    /\ phase' = "down"
    /\ store' = UpTo(store, durable)
    /\ accepted' = 0 /\ latest' = 0 /\ schema' = {} /\ backlog' = 0
    /\ call' = [c \in Callers |-> Idle]
    /\ rx' = [c \in Callers |-> <<>>]
    /\ UNCHANGED <<logVars, durable, replies, faults>>

--------------------------------------------------------------------------------
(* Clients *)

Return(c, s) ==
    /\ call' = [call EXCEPT ![c] = s]
    /\ rx' = [rx EXCEPT ![c] = <<>>]

\* submit_tx of this node, or an append by another node or program version that
\* shares the log.
SubmitTx ==
    /\ Len(log) < MaxRecords
    /\ \E x \in Claims \cup {Junk} : log' = Append(log, x)
    /\ UNCHANGED <<storeVars, indexVars, callVars, lifeVars, faults>>

\* execute_tx takes its waiter, then appends.
ExecuteTx(c) ==
    /\ phase = "up"
    /\ ReadLock
    /\ call[c] = Idle
    /\ call' = [call EXCEPT ![c] = [op |-> "execute"]]
    /\ UNCHANGED <<logVars, storeVars, indexVars, rx, replies, lifeVars, faults>>

ExecuteAppend(c) ==
    /\ call[c].op = "execute"
    /\ Len(log) < MaxRecords
    /\ \E x \in Claims : log' = Append(log, x)
    /\ call' = [call EXCEPT ![c] = [op |-> "await", id |-> Len(log) + 1]]
    /\ UNCHANGED <<storeVars, indexVars, rx, replies, lifeVars, faults>>

\* completion_from_storage
Recovered(i) == IF i \in DOMAIN store THEN store[i] ELSE "failed"

\* Mutant: the first completion at or after the own one answers.
OutcomeOfAny(i, m) == m.outcome

\* The answer to a caller that waits for i and receives m, m.id >= i.
Outcome(i, m) == IF m.id = i THEN m.outcome ELSE Recovered(i)

\* Mutant: a later completion is skipped.
AnswersOwn(i, m) == m.id = i

Answers(i, m) == m.id >= i

\* await_tx receives one completion.  Its shortcut for transactions up to the
\* waiter's baseline does not apply: the record was appended after.
AwaitTx(c) ==
    /\ call[c].op = "await"
    /\ rx[c] # <<>>
    /\ LET i == call[c].id
           m == Head(rx[c])
       IN IF Answers(i, m)
          THEN Return(c, Idle) /\ replies' = Put(replies, i, Outcome(i, m))
          ELSE rx' = [rx EXCEPT ![c] = Tail(@)] /\ UNCHANGED <<call, replies>>
    /\ UNCHANGED <<logVars, storeVars, indexVars, lifeVars, faults>>

\* db_as_of takes its waiter.  The basis is that of some record of the log.
DbAsOf(c) ==
    /\ phase = "up"
    /\ ReadLock
    /\ call[c] = Idle
    /\ \E t \in 1..Len(log) :
          call' = [call EXCEPT ![c] = [op |-> "asof", id |-> t, base |-> latest]]
    /\ UNCHANGED <<logVars, storeVars, indexVars, rx, replies, lifeVars, faults>>

\* Mutant: off by one.
ReachedEarly(i, t) == i + 1 >= t

\* await_indexed: indexing has reached t.
Reached(i, t) == i >= t

\* await_indexed looks at its baseline, then receives one completion after
\* another.  A starting node is up when it returns.
AwaitIndexed(c) ==
    /\ call[c].op = "asof"
    /\ LET t == call[c].id
           skip == t > call[c].base
           done == ~skip \/ Reached(Head(rx[c]).id, t)
       IN /\ skip => rx[c] # <<>>
          /\ IF done
             THEN Return(c, IF c = Startup THEN Idle ELSE [op |-> "basis", id |-> t])
             ELSE rx' = [rx EXCEPT ![c] = Tail(@)] /\ UNCHANGED call
          /\ phase' = IF done /\ c = Startup THEN "up" ELSE phase
    /\ UNCHANGED <<logVars, storeVars, indexVars, replies, backlog, crashes, faults>>

\* DB_AS_OF_INDEXING_TIMEOUT
AsOfTimeout(c) ==
    /\ call[c].op = "asof"
    /\ Return(c, Idle)
    /\ UNCHANGED <<logVars, storeVars, indexVars, replies, lifeVars, faults>>

\* A database value: its basis, the schema its idents come from and, as history,
\* what it contains when it is opened and the answers given before it was asked
\* for.
Db(t, s, f) ==
    [op |-> "holds", basis |-> t, idents |-> s, view |-> UpTo(store, t), known |-> f]

OpenAsOf(c) ==
    /\ call[c].op = "basis"
    /\ ReadLock
    /\ call' = [call EXCEPT ![c] = Db(call[c].id, schema, {})]
    /\ UNCHANGED <<logVars, storeVars, indexVars, rx, replies, lifeVars, faults>>

\* db reads the idents, gives up the lock, and then looks for its basis.
DbIdents(c) ==
    /\ phase = "up"
    /\ ReadLock
    /\ call[c] = Idle
    /\ call' = [call EXCEPT ![c] =
                  [op |-> "db", idents |-> schema, known |-> Committed(replies)]]
    /\ UNCHANGED <<logVars, storeVars, indexVars, rx, replies, lifeVars, faults>>

\* Mutant: only durable writes are looked at.
DurableBasis == durable

LatestBasis == LastTx(store)

DbBasis(c) ==
    /\ call[c].op = "db"
    /\ call' = [call EXCEPT ![c] = Db(LatestBasis, call[c].idents, call[c].known)]
    /\ UNCHANGED <<logVars, storeVars, indexVars, rx, replies, lifeVars, faults>>

DropDb(c) ==
    /\ call[c].op = "holds"
    /\ call' = [call EXCEPT ![c] = Idle]
    /\ UNCHANGED <<logVars, storeVars, indexVars, rx, replies, lifeVars, faults>>

--------------------------------------------------------------------------------
Init ==
    /\ log = <<>>
    /\ store = None
    /\ durable = 0
    /\ phase = "down"
    /\ backlog = 0
    /\ accepted = 0 /\ latest = 0 /\ schema = {}
    /\ call = [c \in Callers |-> Idle]
    /\ rx = [c \in Callers |-> <<>>]
    /\ replies = None
    /\ crashes = 0 /\ faults = 0

Accept ==
    WriteTx \/ WriteTransientAbort \/ FinishTx \/ FailUndecodable \/ FailStorage

ClientStep(c) ==
    \/ ExecuteTx(c) \/ ExecuteAppend(c) \/ AwaitTx(c)
    \/ DbAsOf(c) \/ AwaitIndexed(c) \/ AsOfTimeout(c) \/ OpenAsOf(c)
    \/ DbIdents(c) \/ DbBasis(c) \/ DropDb(c)

Next ==
    \/ Accept
    \/ Flush
    \/ Boot
    \/ AwaitIndexed(Startup)
    \/ Crash
    \/ SubmitTx
    \/ \E c \in Clients : ClientStep(c)

Spec == Init /\ [][Next]_vars

\* The subscription task keeps accepting and waiting callers are scheduled.
Fairness ==
    /\ WF_vars(Accept)
    /\ WF_vars(Boot)
    /\ \A c \in Callers : WF_vars(AwaitTx(c) \/ AwaitIndexed(c))

FairSpec == Spec /\ Fairness

--------------------------------------------------------------------------------
TypeOK ==
    /\ log \in Seq(Claims \cup {Junk})
    /\ DOMAIN store \subseteq 1..Len(log)
    /\ \A i \in DOMAIN store : store[i] \in {"committed", "aborted"}
    /\ durable \in 0..Len(log)
    /\ phase \in {"down", "starting", "up"}
    /\ accepted \in 0..Len(log) /\ latest \in 0..accepted
    /\ schema \subseteq DOMAIN store
    /\ \A c \in Callers : Len(rx[c]) <= Capacity

\* What replaying the log from its start makes of record i: the first claim of a
\* value commits, a later one aborts.
Replayed(i) ==
    IF log[i] = Junk THEN "failed"
    ELSE IF \E j \in 1..i - 1 : log[j] = log[i] THEN "aborted" ELSE "committed"

\* However often the node crashed and with whatever part of its writes, storage
\* holds what a replay of the log from the start produces, up to some record and
\* without holes (accept, from_slate_and_tx_log).
StoreIsReplay ==
    \E n \in 0..Len(log) :
        /\ Alive => n \in {accepted, Current}
        /\ DOMAIN store = {i \in 1..n : log[i] # Junk}
        /\ \A i \in DOMAIN store : store[i] = Replayed(i)

\* execute_tx tells each client the outcome the log determines, also when its
\* completion was overwritten in the channel and had to be recovered from
\* storage, and also when the node later crashes and indexes the record again
\* (await_tx, completion_from_storage).
TruthfulReplies == \A i \in DOMAIN replies : replies[i] = Replayed(i)

\* Whatever fails, execute_tx reports what storage holds about the transaction,
\* until a crash (transact_tx, await_tx, completion_from_storage).
RepliesMatchStorage ==
    crashes = 0 => \A i \in DOMAIN replies : replies[i] = Recovered(i)

\* What a database value contains does not change while it is in use: everything
\* up to its basis was indexed when it was opened (db, db_as_of, await_indexed).
DbImmutable ==
    \A c \in Clients :
        call[c].op = "holds" => UpTo(store, call[c].basis) = call[c].view

\* A client told that a transaction committed finds it, and the idents it
\* defined, in every database value it opens afterwards with db, across restarts
\* (execute_tx, db, from_slate_and_tx_log).
ReadYourWrites ==
    \A c \in Clients :
        call[c].op = "holds" =>
            \A i \in call[c].known : i \in DOMAIN call[c].view /\ i \in call[c].idents

\* A node that finished starting has indexed what was in the log when it started
\* (from_slate_and_tx_log).
StartupCaughtUp == phase = "up" => accepted >= backlog

\* A database value can resolve the idents of the transactions it contains
\* (db, db_as_of).
IdentsCoverBasis ==
    \A c \in Clients :
        call[c].op = "holds" => Committed(call[c].view) \subseteq call[c].idents

\* execute_tx returns unless the node goes down: a completion that was
\* overwritten is made up for by a later one (await_tx).
ExecuteReturns == \A c \in Clients : call[c].op = "await" ~> call[c].op # "await"

\* A node that starts gets up, even if the last records are undecodable
\* (from_slate_and_tx_log, await_indexed).
StartupReturns == phase = "starting" ~> phase # "starting"
================================================================================
