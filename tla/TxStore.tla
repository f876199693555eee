-------------------------------- MODULE TxStore --------------------------------
(***************************************************************************)
(* The transaction pipeline of the indexer (src/indexer.rs                 *)
(* transact_tx_inner, with src/tx.rs, src/tempids.rs and src/schema.rs)    *)
(* over the index rows it writes.  One step is one call of transact_tx,    *)
(* which runs under the indexer's write lock and is the only writer.       *)
(*                                                                         *)
(* Rows are never updated or removed: a row says that transaction t        *)
(* asserted or retracted a fact.  What the database contains as of a       *)
(* transaction is read off the newest row of each fact.                    *)
(***************************************************************************)
EXTENDS Naturals, FiniteSets

CONSTANTS
    Attrs, Values,
    Multi,          \* attributes of cardinality many
    Unique,         \* attributes with a uniqueness constraint
    Identity,       \* the ones among them that are :db.unique/identity
    TxInputs,       \* the transactions clients submit: sets of TxOps
    MaxTx,          \* bound: transaction ids
    MaxEntities     \* bound: allocated entities

ASSUME SchemaAssumption ==
    /\ Multi \subseteq Attrs
    /\ Unique \subseteq Attrs
    /\ Identity \subseteq Unique

ASSUME BoundAssumption == MaxTx \in Nat /\ MaxEntities \in Nat

VARIABLES
    store,      \* index rows
    next,       \* the user partition's counter: entities 1..next-1 exist
    latest,     \* latest_indexed_tx
    last        \* the latest transaction: its datoms if they could be resolved,
                \*   and whether it committed

vars == <<store, next, latest, last>>

TempId == 0                     \* the entity of a datom with an unresolved tempid
Entities == Nat \ {TempId}
Facts == [e : Entities, a : Attrs, v : Values]
Rows == [e : Entities, a : Attrs, v : Values, t : Nat, op : {"add", "ret"}]

--------------------------------------------------------------------------------
(* Reading the index (find_live_key_under_prefix, TemporalFilterIterator)  *)

Versions(e, a, v, T) ==
    {r \in store : r.e = e /\ r.a = a /\ r.v = v /\ r.t <= T}

\* Newest version first, and within a transaction ADD sorts before RETRACT.
Live(e, a, v, T) ==
    \E r \in Versions(e, a, v, T) :
        r.op = "add" /\ \A q \in Versions(e, a, v, T) : q.t <= r.t

View(T) ==
    {f \in {[e |-> r.e, a |-> r.a, v |-> r.v] : r \in store} :
        Live(f.e, f.a, f.v, T)}

\* batch_lookup_unique_eids: the first live row under (v, a).
Owners(a, v) == {f.e : f \in {g \in View(latest) : g.a = a /\ g.v = v}}
Owner(a, v) == CHOOSE e \in Owners(a, v) : TRUE

--------------------------------------------------------------------------------
(* Entity references: an id, a tempid, or a lookup ref [a v].              *)

IdRef(i) == [ref |-> "id", id |-> i]
TempRef == [ref |-> "temp"]
LookupRef(a, v) == [ref |-> "lookup", a |-> a, v |-> v]

EntityRefs ==
    [ref : {"id"}, id : Entities] \cup [ref : {"temp"}]
    \cup [ref : {"lookup"}, a : Attrs, v : Values]

TxOps ==
    [op : {"add", "ret"}, e : EntityRefs, a : Attrs, v : Values]
    \cup [op : {"retractEntity"}, e : EntityRefs]

ASSUME InputAssumption == TxInputs \subseteq SUBSET TxOps

RefResolves(r) ==
    r.ref = "lookup" => r.a \in Identity /\ Owners(r.a, r.v) # {}

Resolved(r) ==
    IF r.ref = "lookup" THEN Owner(r.a, r.v)
    ELSE IF r.ref = "temp" THEN TempId ELSE r.id

\* expand_tx_ops: lookup refs become ids, RetractEntity becomes retractions of
\* what the entity has now.
Writes(ops) == {o \in ops : o.op \in {"add", "ret"}}
EntityRetractions(ops) == ops \ Writes(ops)

ExpandFails(ops) ==
    \/ \E o \in ops : ~RefResolves(o.e)
    \/ \E o \in EntityRetractions(ops) : o.e.ref = "temp"

Expand(ops) ==
    {[e |-> Resolved(o.e), a |-> o.a, v |-> o.v, op |-> o.op] :
        o \in Writes(ops)}
    \cup
    {[e |-> f.e, a |-> f.a, v |-> f.v, op |-> "ret"] :
        f \in {g \in View(latest) :
                 \E o \in EntityRetractions(ops) : g.e = Resolved(o.e)}}

\* validate_allocated_entity_ids
Unallocated(D) == \E d \in D : d.e # TempId /\ d.e >= next

--------------------------------------------------------------------------------
(* resolve_tempids, for transactions with one tempid: its assertions of    *)
(* identity attributes name the entity it upserts to; without one it is    *)
(* allocated.                                                              *)

UsesTempId(D) == \E d \in D : d.e = TempId

Upserts(D) ==
    {Owner(d.a, d.v) : d \in {x \in D : /\ x.e = TempId
                                        /\ x.op = "add"
                                        /\ x.a \in Identity
                                        /\ Owners(x.a, x.v) # {}}}

TempIdFails(D) ==
    \/ \E e, f \in Upserts(D) : e # f
    \/ Upserts(D) = {} /\ \E d \in D : d.e = TempId /\ d.op = "ret"

\* Mutant: an upserted tempid also takes an entity id.
AllocatesAlways(D) == UsesTempId(D)

Allocates(D) == UsesTempId(D) /\ Upserts(D) = {}

\* Mutant: the counter's previous value is allocated.
TempIdTargetLow(D) ==
    IF Upserts(D) = {} THEN next - 1 ELSE CHOOSE e \in Upserts(D) : TRUE

TempIdTarget(D) ==
    IF Upserts(D) = {} THEN next ELSE CHOOSE e \in Upserts(D) : TRUE

ResolveTempIds(D) ==
    {[e |-> IF d.e = TempId THEN TempIdTarget(D) ELSE d.e,
      a |-> d.a, v |-> d.v, op |-> d.op] : d \in D}

--------------------------------------------------------------------------------
(* validate_datoms: conflicts within the transaction on cardinality-one    *)
(* attributes.                                                             *)

\* Mutant: retracting the old value while asserting a new one conflicts.
AnyRetractConflict(D) ==
    \E d, x \in D : /\ d.a \notin Multi
                    /\ d.op = "add" /\ x.op = "ret"
                    /\ d.e = x.e /\ d.a = x.a

AddRetractConflict(D) ==
    \E d, x \in D : /\ d.a \notin Multi
                    /\ d.op = "add" /\ x.op = "ret"
                    /\ d.e = x.e /\ d.a = x.a /\ d.v = x.v

CardinalityConflict(D) ==
    \E d, x \in D : /\ d.a \notin Multi
                    /\ d.op = "add" /\ x.op = "add"
                    /\ d.e = x.e /\ d.a = x.a /\ d.v # x.v

(* finalize_datoms_for_commit: an assertion of the stored value of a       *)
(* cardinality-one attribute is dropped, and one of another value retracts *)
(* the stored one.  Only entities that existed before are looked up.       *)

OldValues(d) ==
    IF d.a \in Multi \/ d.e >= next THEN {}
    ELSE {f.v : f \in {g \in View(latest) : g.e = d.e /\ g.a = d.a}}
OldValue(d) == CHOOSE v \in OldValues(d) : TRUE

Asserts(D) == {d \in D : d.op = "add"}

Unchanged(d) == OldValues(d) # {} /\ OldValue(d) = d.v

\* Mutant: the replaced value stays.
FinalizeKeeping(D) == D \ {d \in Asserts(D) : Unchanged(d)}

Finalize(D) ==
    (D \ {d \in Asserts(D) : Unchanged(d)})
    \cup
    {[e |-> d.e, a |-> d.a, v |-> OldValue(d), op |-> "ret"] :
        d \in {x \in Asserts(D) : OldValues(x) # {} /\ ~Unchanged(x)}}

(* validate_unique_constraints, on the finalized datoms.                   *)

\* Mutant: a retraction of the value from any entity frees it.
UniqueConflictLax(D) ==
    \E d \in Asserts(D) :
        /\ d.a \in Unique
        /\ \/ \E x \in Asserts(D) : x.a = d.a /\ x.v = d.v /\ x.e # d.e
           \/ /\ Owners(d.a, d.v) # {}
              /\ Owner(d.a, d.v) # d.e
              /\ \A x \in D : x.op = "ret" => x.a # d.a \/ x.v # d.v

UniqueConflict(D) ==
    \E d \in Asserts(D) :
        /\ d.a \in Unique
        /\ \/ \E x \in Asserts(D) : x.a = d.a /\ x.v = d.v /\ x.e # d.e
           \/ /\ Owners(d.a, d.v) # {}
              /\ Owner(d.a, d.v) # d.e
              /\ [e |-> Owner(d.a, d.v), a |-> d.a, v |-> d.v, op |-> "ret"] \notin D

--------------------------------------------------------------------------------

\* Mutant: rows are stamped with the previous transaction.
IndexRowsStale(D, t) ==
    {[e |-> d.e, a |-> d.a, v |-> d.v, t |-> latest, op |-> d.op] : d \in D}

\* write_index_entries
IndexRows(D, t) ==
    {[e |-> d.e, a |-> d.a, v |-> d.v, t |-> t, op |-> d.op] : d \in D}

\* Stages 2 to 4: references and tempids become entity ids, or fail to.
Resolves(ops) ==
    /\ ~ExpandFails(ops)
    /\ ~Unallocated(Expand(ops))
    /\ ~TempIdFails(Expand(ops))

Datoms(ops) == ResolveTempIds(Expand(ops))

\* Stages 5 to 7.
Valid(D) ==
    /\ ~AddRetractConflict(D)
    /\ ~CardinalityConflict(D)
    /\ ~UniqueConflict(Finalize(D))

\* transact_tx_inner succeeds: rows, counters and latest_indexed_tx move together.
Commit(ops, t) ==
    /\ Resolves(ops)
    /\ Valid(Datoms(ops))
    /\ Allocates(Expand(ops)) => next <= MaxEntities
    /\ store' = store \cup IndexRows(Finalize(Datoms(ops)), t)
    /\ next' = IF Allocates(Expand(ops)) THEN next + 1 ELSE next
    /\ latest' = t
    /\ last' = [datoms |-> Datoms(ops), resolved |-> TRUE, committed |-> TRUE]

\* write_aborted_tx: only the transaction entity is written.
Abort(ops, t) ==
    /\ ~(Resolves(ops) /\ Valid(Datoms(ops)))
    /\ latest' = t
    /\ last' = [datoms |-> IF Resolves(ops) THEN Datoms(ops) ELSE {},
                resolved |-> Resolves(ops), committed |-> FALSE]
    /\ UNCHANGED <<store, next>>

Init ==
    /\ store = {}
    /\ next = 1
    /\ latest = 0
    /\ last = [datoms |-> {}, resolved |-> TRUE, committed |-> TRUE]

\* The log hands over transactions with growing ids (see OrderedDelivery); a
\* record that does not decode leaves a gap.
TransactTx(ops, t) == Commit(ops, t) \/ Abort(ops, t)

Next ==
    \E t \in latest + 1 .. MaxTx : \E ops \in TxInputs : TransactTx(ops, t)

Spec == Init /\ [][Next]_vars

--------------------------------------------------------------------------------
TypeOK ==
    /\ store \subseteq Rows
    /\ next \in Entities
    /\ latest \in Nat
    /\ last.committed \in BOOLEAN

\* At every basis a cardinality-one attribute of an entity has at most one
\* value: finalize_datoms_for_commit retracts what it replaces.
OneValue ==
    \A T \in 0..latest : \A f, g \in View(T) :
        f.e = g.e /\ f.a = g.a /\ f.a \notin Multi => f.v = g.v

\* At every basis a value of a unique attribute has at most one owner, also
\* when ownership moves between entities within one transaction.
OneOwner ==
    \A T \in 0..latest : \A f, g \in View(T) :
        f.a = g.a /\ f.v = g.v /\ f.a \in Unique => f.e = g.e

\* A transaction never changes what the database contained as of an earlier
\* one (db_as_of).
HistoryImmutable ==
    [][\A T \in 0..latest : View(T)' = View(T)]_vars

\* bootstrap.rs scan_partition_counters: the counter a restarted node derives
\* from the index rows.
ScannedCounter ==
    IF store = {} THEN 1
    ELSE CHOOSE n \in {r.e + 1 : r \in store} : \A r \in store : r.e < n

\* A restarted node allocates exactly the entities the running one would: no
\* id is reused and replay assigns the same ids.
CounterRecoverable == next = ScannedCounter

\* The pipeline implements the abstract transaction on facts, the contradictions
\* it lets through included: the cardinality-one rewrite and the uniqueness check
\* on rewritten datoms accept and produce exactly what FactStore says of the
\* submitted datoms (transact_tx_inner).
FS == INSTANCE FactStore WITH facts <- View(latest)
FactStoreSpec == FS!Spec

\* No transaction that asserts and retracts the same fact commits, as documented
\* of validate_datoms.
ContradictionsAbort == last.committed => ~FS!Contradictory(last.datoms)
================================================================================
