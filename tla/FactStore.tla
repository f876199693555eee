------------------------------- MODULE FactStore -------------------------------
(***************************************************************************)
(* What a transaction promises: the database is a set of facts (entity,    *)
(* attribute, value).  A transaction asserts and retracts facts relative   *)
(* to the facts before it, all or nothing.  Asserting a value of a         *)
(* cardinality-one attribute replaces the value the entity had.            *)
(*                                                                         *)
(* Commit and Abort are the transactions as documented, but for those that *)
(* assert and retract the same fact: the documentation counts them all as  *)
(* conflicts, schema.rs lets them through when the attribute is            *)
(* multi-valued.  What becomes of these is CommitContradiction.            *)
(***************************************************************************)
CONSTANTS Multi, Unique     \* multi-valued and unique attributes

VARIABLES
    facts,      \* the current facts
    last        \* the latest transaction: its datoms, whether its entity
                \*   references could be resolved, whether it committed

Fact(d) == [e |-> d.e, a |-> d.a, v |-> d.v]
Adds(D) == {Fact(d) : d \in {x \in D : x.op = "add"}}
Rets(D) == {Fact(d) : d \in {x \in D : x.op = "ret"}}

\* A transaction that asserts and retracts the same fact.
Contradictory(D) == Adds(D) \cap Rets(D) # {}

\* A transaction that contradicts itself on a cardinality-one attribute.
Conflicting(D) ==
    \E f, g \in Adds(D) :
        /\ f.a \notin Multi
        /\ f \in Rets(D) \/ (f.e = g.e /\ f.a = g.a /\ f.v # g.v)

\* Facts that give way to the assertions of D.
Replaced(D) ==
    {f \in facts : \E g \in Adds(D) :
        f.a \notin Multi /\ g.e = f.e /\ g.a = f.a /\ g.v # f.v}

After(D) == (facts \ (Rets(D) \cup Replaced(D))) \cup Adds(D)

OneOwner(F) ==
    \A f, g \in F : f.a \in Unique /\ f.a = g.a /\ f.v = g.v => f.e = g.e

Init ==
    /\ facts = {}
    /\ last = [datoms |-> {}, resolved |-> TRUE, committed |-> TRUE]

\* D is in conflict neither with itself, on a cardinality-one attribute, nor with
\* the facts.
Acceptable(D) == ~Conflicting(D) /\ OneOwner(After(D))

Commit ==
    /\ last'.committed
    /\ last'.resolved
    /\ ~Contradictory(last'.datoms)
    /\ Acceptable(last'.datoms)
    /\ facts' = After(last'.datoms)

\* Not as documented: facts of multi-valued attributes are asserted and retracted
\* at once.  The assertions win.
CommitContradiction ==
    /\ last'.committed
    /\ last'.resolved
    /\ Contradictory(last'.datoms)
    /\ Acceptable(last'.datoms)
    /\ facts' = After(last'.datoms)

Abort ==
    /\ ~last'.committed
    /\ last'.resolved => ~Acceptable(last'.datoms)
    /\ facts' = facts

Next == Commit \/ CommitContradiction \/ Abort

Spec == Init /\ [][Next]_<<facts, last>>
================================================================================
