----------------------------- MODULE TxStoreProofs -----------------------------
(***************************************************************************)
(* Proofs about TxStore for every schema, every set of values and every    *)
(* set of transactions.                                                    *)
(*                                                                         *)
(* The argument.  A transaction is newer than every row, so it leaves the  *)
(* view at earlier bases alone (ViewBefore), and the new view is NewView   *)
(* of the finalized datoms: what they assert, and what was there and they  *)
(* do not retract (ViewAfter).  While every cardinality-one attribute has  *)
(* one value, finalizing datoms without conflicts does not change what     *)
(* they mean (FinalizeMeaning); the uniqueness check then speaks about the *)
(* new view (UniqueMeaning).                                               *)
(***************************************************************************)
EXTENDS TxStore, TLAPS

DatomSet == [e : Entities, a : Attrs, v : Values, op : {"add", "ret"}]

D2F(d) == [e |-> d.e, a |-> d.a, v |-> d.v]
Datom(f, o) == [e |-> f.e, a |-> f.a, v |-> f.v, op |-> o]

NewView(F) ==
    {f \in Facts : \/ Datom(f, "add") \in F
                   \/ f \in View(latest) /\ Datom(f, "ret") \notin F}

\* Rows are older than the next transaction and about allocated entities, and
\* the newest entity has a row.
RowBounds ==
    /\ \A r \in store : r.t <= latest /\ r.e < next
    /\ \/ store = {} /\ next = 1
       \/ \E r \in store : next = r.e + 1

Inv == TypeOK /\ RowBounds /\ OneValue /\ OneOwner

--------------------------------------------------------------------------------
\* A view is the set of facts that are live at its basis.
LEMMA ViewIsLive ==
    ASSUME TypeOK, NEW T \in Nat
    PROVE  /\ View(T) \subseteq Facts
           /\ \A f \in Facts : f \in View(T) <=> Live(f.e, f.a, f.v, T)
           /\ \A f \in View(T) : \E r \in store : r.e = f.e
<1>1. View(T) \subseteq Facts
  BY DEF View, TypeOK, Rows, Facts
<1>2. ASSUME NEW f \in Facts, Live(f.e, f.a, f.v, T) PROVE f \in View(T)
  <2>1. PICK r \in store : r.e = f.e /\ r.a = f.a /\ r.v = f.v
    BY <1>2 DEF Live, Versions
  <2>2. f = [e |-> r.e, a |-> r.a, v |-> r.v]
    BY <2>1 DEF Facts
  <2>3. QED
    BY <1>2, <2>2 DEF View
<1>3. ASSUME NEW f \in View(T)
      PROVE  Live(f.e, f.a, f.v, T) /\ \E r \in store : r.e = f.e
  <2>1. Live(f.e, f.a, f.v, T)
    BY DEF View
  <2>2. QED
    BY <2>1 DEF Live, Versions
<1>4. QED
  BY <1>1, <1>2, <1>3

\* Between the newest row and the next transaction every basis shows the same.
LEMMA ViewFromLatest ==
    ASSUME TypeOK, RowBounds, NEW T \in Nat, T >= latest
    PROVE  View(T) = View(latest)
<1>1. \A r \in store : r.t <= T /\ r.t <= latest
  BY DEF RowBounds, TypeOK, Rows
<1>2. \A e, a, v : Versions(e, a, v, T) = Versions(e, a, v, latest)
  BY <1>1 DEF Versions
<1>3. QED
  BY <1>2 DEF View, Live

\* Writing rows of a later transaction leaves the view at earlier bases alone.
LEMMA ViewBefore ==
    ASSUME TypeOK, NEW F \in SUBSET DatomSet, NEW t \in Nat, NEW T \in Nat, T < t,
           store' = store \cup IndexRows(F, t)
    PROVE  View(T)' = View(T)
<1>1. \A r \in IndexRows(F, t) : r.t = t
  BY DEF IndexRows
<1>2. \A r \in store' : r.t <= T => r \in store
  BY <1>1
<1>3. \A e, a, v : Versions(e, a, v, T)' = Versions(e, a, v, T)
  BY <1>2 DEF Versions
<1>4. \A e, a, v : Live(e, a, v, T)' = Live(e, a, v, T)
  BY <1>3 DEF Live
<1>5. ASSUME NEW f, f \in View(T)' PROVE f \in View(T)
  <2>1. Live(f.e, f.a, f.v, T)
    BY <1>5, <1>4 DEF View
  <2>2. PICK r \in store' : f = [e |-> r.e, a |-> r.a, v |-> r.v]
    BY <1>5 DEF View
  <2>3. PICK q \in store : q.e = f.e /\ q.a = f.a /\ q.v = f.v
    BY <2>1 DEF Live, Versions
  <2>4. f = [e |-> q.e, a |-> q.a, v |-> q.v]
    BY <2>2, <2>3
  <2>5. QED
    BY <2>1, <2>4 DEF View
<1>6. ASSUME NEW f \in View(T) PROVE f \in View(T)'
  BY <1>4 DEF View
<1>7. QED
  BY <1>5, <1>6

\* The view as of the new transaction.
LEMMA ViewAfter ==
    ASSUME TypeOK, RowBounds, NEW F \in SUBSET DatomSet, NEW t \in Nat, t > latest,
           store' = store \cup IndexRows(F, t), TypeOK'
    PROVE  View(t)' = NewView(F)
<1>0. latest \in Nat /\ store \subseteq Rows
  BY DEF TypeOK
<1>1. \A r \in store : r.t \in Nat /\ r.t <= latest /\ r.t < t
  BY <1>0 DEF RowBounds, Rows
<1>2. ASSUME NEW f \in Facts
      PROVE  Live(f.e, f.a, f.v, t)' <=> f \in NewView(F)
  <2> DEFINE new(o) == [e |-> f.e, a |-> f.a, v |-> f.v, t |-> t, op |-> o]
             vers  == Versions(f.e, f.a, f.v, t)'
             old   == Versions(f.e, f.a, f.v, latest)
  <2>1. \A o \in {"add", "ret"} : Datom(f, o) \in F <=> new(o) \in IndexRows(F, t)
    <3> SUFFICES ASSUME NEW o \in {"add", "ret"}
                 PROVE  Datom(f, o) \in F <=> new(o) \in IndexRows(F, t)
      OBVIOUS
    <3>1. ASSUME Datom(f, o) \in F PROVE new(o) \in IndexRows(F, t)
      BY <3>1 DEF Datom, IndexRows
    <3>2. ASSUME new(o) \in IndexRows(F, t) PROVE Datom(f, o) \in F
      <4>1. PICK d \in F : new(o) = [e |-> d.e, a |-> d.a, v |-> d.v, t |-> t, op |-> d.op]
        BY <3>2 DEF IndexRows
      <4>2. d.e = f.e /\ d.a = f.a /\ d.v = f.v /\ d.op = o
        BY <4>1
      <4>3. d = Datom(f, o)
        BY <4>2 DEF DatomSet, Datom
      <4>4. QED
        BY <4>3
    <3>3. QED
      BY <3>1, <3>2
  <2>2. \A r : r \in vers <=> \/ r \in old
                              \/ \E o \in {"add", "ret"} : r = new(o) /\ Datom(f, o) \in F
    <3> SUFFICES ASSUME NEW r
                 PROVE  r \in vers <=> \/ r \in old
                                       \/ \E o \in {"add", "ret"} :
                                            r = new(o) /\ Datom(f, o) \in F
      OBVIOUS
    <3>1. ASSUME r \in vers PROVE r \in old \/ \E o \in {"add", "ret"} :
                                            r = new(o) /\ Datom(f, o) \in F
      <4>1. r \in store' /\ r.e = f.e /\ r.a = f.a /\ r.v = f.v /\ r.t <= t
        BY <3>1 DEF Versions
      <4>2. CASE r \in store
        BY <4>1, <4>2, <1>1 DEF Versions
      <4>3. CASE r \in IndexRows(F, t)
        <5>1. PICK d \in F : r = [e |-> d.e, a |-> d.a, v |-> d.v, t |-> t, op |-> d.op]
          BY <4>3 DEF IndexRows
        <5>2. d.op \in {"add", "ret"} /\ r = new(d.op)
          BY <5>1, <4>1 DEF DatomSet
        <5>3. new(d.op) \in IndexRows(F, t)
          BY <5>2, <4>3
        <5>4. QED
          BY <5>2, <5>3, <2>1
      <4>4. QED
        BY <4>1, <4>2, <4>3
    <3>2. ASSUME r \in old PROVE r \in vers
      BY <3>2, <1>1 DEF Versions
    <3>3. ASSUME NEW o \in {"add", "ret"}, r = new(o), Datom(f, o) \in F
          PROVE  r \in vers
      <4>1. r \in store'
        BY <3>3, <2>1
      <4>2. QED
        BY <4>1, <3>3 DEF Versions
    <3>4. QED
      BY <3>1, <3>2, <3>3
  <2>3. \A r \in old : r.t \in Nat /\ r.t < t
    BY <1>1 DEF Versions
  <2>4. Live(f.e, f.a, f.v, t)' <=> \E r \in vers : r.op = "add" /\ \A q \in vers : q.t <= r.t
    BY DEF Live
  <2>5. Live(f.e, f.a, f.v, latest) <=> \E r \in old : r.op = "add" /\ \A q \in old : q.t <= r.t
    BY DEF Live
  <2>6. f \in View(latest) <=> Live(f.e, f.a, f.v, latest)
    BY <1>0, ViewIsLive
  <2>7. new("add").op = "add" /\ new("ret").op = "ret"
        /\ new("add").t = t /\ new("ret").t = t
    OBVIOUS
  <2> HIDE DEF vers, old, new
  <2>8. ASSUME Datom(f, "add") \in F PROVE \E r \in vers : r.op = "add" /\ \A q \in vers : q.t <= r.t
    <3>1. new("add") \in vers
      BY <2>2, <2>8
    <3>2. \A q \in vers : q.t <= t
      BY <2>2, <2>3, <2>7
    <3>3. QED
      BY <3>1, <3>2, <2>7
  <2>9. ASSUME Datom(f, "add") \notin F, Datom(f, "ret") \notin F PROVE vers = old
    BY <2>2, <2>9
  <2>10. ASSUME Datom(f, "add") \notin F, Datom(f, "ret") \in F
         PROVE  ~ \E r \in vers : r.op = "add" /\ \A q \in vers : q.t <= r.t
    <3>1. new("ret") \in vers
      BY <2>2, <2>10
    <3>2. ASSUME NEW r \in vers, r.op = "add" PROVE r.t < t /\ r.t \in Nat
      BY <2>2, <2>3, <2>7, <2>10, <3>2
    <3>3. QED
      BY <3>1, <3>2, <2>7
  <2>11. QED
    BY <2>4, <2>5, <2>6, <2>8, <2>9, <2>10 DEF NewView
<1>3. View(t)' \subseteq Facts
  BY DEF View, TypeOK, Rows, Facts
<1>4. ASSUME NEW f \in Facts, Live(f.e, f.a, f.v, t)' PROVE f \in View(t)'
  <2>1. PICK r \in store' : r.e = f.e /\ r.a = f.a /\ r.v = f.v
    BY <1>4 DEF Live, Versions
  <2>2. f = [e |-> r.e, a |-> r.a, v |-> r.v]
    BY <2>1 DEF Facts
  <2>3. QED
    BY <1>4, <2>2 DEF View
<1>5. ASSUME NEW f \in View(t)' PROVE Live(f.e, f.a, f.v, t)'
  BY DEF View
<1>6. QED
  BY <1>2, <1>3, <1>4, <1>5 DEF NewView

--------------------------------------------------------------------------------
\* What finalize_datoms_for_commit reads: the stored value of a cardinality-one
\* attribute, of which there is at most one.
LEMMA OldValueIsTheValue ==
    ASSUME Inv, NEW d \in DatomSet
    PROVE  /\ OldValues(d) # {} =>
                /\ d.a \notin Multi
                /\ OldValue(d) \in Values
                /\ [e |-> d.e, a |-> d.a, v |-> OldValue(d)] \in View(latest)
           /\ \A f \in View(latest) :
                f.e = d.e /\ f.a = d.a /\ d.a \notin Multi
                    => OldValues(d) # {} /\ OldValue(d) = f.v
<1>0. TypeOK /\ RowBounds /\ OneValue /\ latest \in Nat
  BY DEF Inv, TypeOK
<1>1. ASSUME OldValues(d) # {}
      PROVE  /\ d.a \notin Multi
             /\ \E g \in View(latest) : g.e = d.e /\ g.a = d.a /\ g.v = OldValue(d)
  <2>1. OldValue(d) \in OldValues(d)
    BY <1>1 DEF OldValue
  <2>2. QED
    BY <2>1 DEF OldValues
<1>2. View(latest) \subseteq Facts
  BY <1>0, ViewIsLive
<1>3. ASSUME NEW f \in View(latest), f.e = d.e, f.a = d.a, d.a \notin Multi
      PROVE  OldValues(d) # {} /\ OldValue(d) = f.v
  <2>1. PICK r \in store : r.e = f.e
    BY <1>0, ViewIsLive
  <2>2. d.e < next /\ ~(d.e >= next)
    BY <1>0, <1>3, <2>1 DEF RowBounds, TypeOK, Entities, DatomSet
  <2>3. f.v \in OldValues(d)
    BY <1>3, <2>2 DEF OldValues
  <2>4. PICK g \in View(latest) : g.e = d.e /\ g.a = d.a /\ g.v = OldValue(d)
    BY <1>1, <2>3
  <2>5. latest \in 0..latest
    BY <1>0
  <2>6. QED
    BY <1>0, <1>3, <2>3, <2>4, <2>5 DEF OneValue
<1>4. ASSUME OldValues(d) # {}
      PROVE  /\ OldValue(d) \in Values
             /\ [e |-> d.e, a |-> d.a, v |-> OldValue(d)] \in View(latest)
  <2>1. PICK g \in View(latest) : g.e = d.e /\ g.a = d.a /\ g.v = OldValue(d)
    BY <1>1, <1>4
  <2>2. g = [e |-> d.e, a |-> d.a, v |-> OldValue(d)] /\ g.v \in Values
    BY <2>1, <1>2 DEF Facts
  <2>3. QED
    BY <2>1, <2>2
<1>5. QED
  BY <1>1, <1>3, <1>4

\* The assertions and retractions of a set of datoms, as facts.
LEMMA AddsAndRets ==
    ASSUME NEW D \in SUBSET DatomSet
    PROVE  /\ FS!Adds(D) \subseteq Facts
           /\ \A f \in Facts : f \in FS!Adds(D) <=> Datom(f, "add") \in D
           /\ \A f \in Facts : f \in FS!Rets(D) <=> Datom(f, "ret") \in D
<1>1. \A d \in D : d \in DatomSet /\ FS!Fact(d) \in Facts
  BY DEF FS!Fact, DatomSet, Facts
<1>2. \A d \in D : d = Datom(FS!Fact(d), d.op)
  BY DEF FS!Fact, DatomSet, Datom
<1>3. \A f \in Facts : FS!Fact(Datom(f, "add")) = f /\ FS!Fact(Datom(f, "ret")) = f
  BY DEF FS!Fact, Datom, Facts
<1>4. \A f \in Facts : Datom(f, "add").op = "add" /\ Datom(f, "ret").op = "ret"
  BY DEF Datom
<1>5. QED
  BY <1>1, <1>2, <1>3, <1>4 DEF FS!Adds, FS!Rets

\* What finalizing does to the datoms.
LEMMA FinalizeDatoms ==
    ASSUME Inv, NEW D \in SUBSET DatomSet
    PROVE  /\ Finalize(D) \subseteq DatomSet
           /\ \A f \in Facts : Datom(f, "add") \in Finalize(D)
                <=> Datom(f, "add") \in D /\ ~Unchanged(Datom(f, "add"))
           /\ \A f \in Facts : Datom(f, "ret") \in Finalize(D)
                <=> \/ Datom(f, "ret") \in D
                    \/ \E x \in Asserts(D) : /\ OldValues(x) # {}
                                             /\ ~Unchanged(x)
                                             /\ x.e = f.e /\ x.a = f.a
                                             /\ OldValue(x) = f.v
<1> DEFINE gen == {x \in Asserts(D) : OldValues(x) # {} /\ ~Unchanged(x)}
           ret(x) == [e |-> x.e, a |-> x.a, v |-> OldValue(x), op |-> "ret"]
<1>1. Finalize(D) = (D \ {d \in Asserts(D) : Unchanged(d)}) \cup {ret(x) : x \in gen}
  BY DEF Finalize
<1>2. \A x \in gen : /\ x \in DatomSet
                     /\ OldValue(x) \in Values
                     /\ ret(x) = [e |-> x.e, a |-> x.a, v |-> OldValue(x), op |-> "ret"]
                     /\ ret(x) \in DatomSet
  <2> SUFFICES ASSUME NEW x \in gen
               PROVE  /\ x \in DatomSet
                      /\ OldValue(x) \in Values
                      /\ ret(x) = [e |-> x.e, a |-> x.a, v |-> OldValue(x), op |-> "ret"]
                      /\ ret(x) \in DatomSet
    OBVIOUS
  <2>1. x \in DatomSet /\ OldValues(x) # {}
    BY DEF Asserts
  <2>2. OldValue(x) \in Values
    BY <2>1, OldValueIsTheValue, Zenon
  <2>3. QED
    BY <2>1, <2>2 DEF DatomSet
<1>3. \A f \in Facts : Datom(f, "add").op = "add" /\ Datom(f, "ret").op = "ret"
  BY DEF Datom
<1>4. \A x \in gen : ret(x).op = "ret"
  BY <1>2
<1>5. \A f \in Facts : \A x \in gen :
        ret(x) = Datom(f, "ret") <=> x.e = f.e /\ x.a = f.a /\ OldValue(x) = f.v
  <2> SUFFICES ASSUME NEW f \in Facts, NEW x \in gen
               PROVE  ret(x) = Datom(f, "ret")
                        <=> x.e = f.e /\ x.a = f.a /\ OldValue(x) = f.v
    OBVIOUS
  <2>1. ret(x) = [e |-> x.e, a |-> x.a, v |-> OldValue(x), op |-> "ret"]
    BY <1>2
  <2> HIDE DEF ret, gen
  <2>2. QED
    BY <2>1 DEF Datom
<1>6. \A x : x \in gen <=> x \in Asserts(D) /\ OldValues(x) # {} /\ ~Unchanged(x)
  OBVIOUS
<1> HIDE DEF ret, gen
<1>7. Finalize(D) \subseteq DatomSet
  BY <1>1, <1>2
<1>8. ASSUME NEW f \in Facts
      PROVE  Datom(f, "add") \in Finalize(D)
                <=> Datom(f, "add") \in D /\ ~Unchanged(Datom(f, "add"))
  <2>1. Datom(f, "add") \notin {ret(x) : x \in gen}
    BY <1>3, <1>4
  <2>2. Datom(f, "add") \in D => Datom(f, "add") \in Asserts(D)
    BY <1>3 DEF Asserts
  <2>3. QED
    BY <1>1, <2>1, <2>2 DEF Asserts
<1>9. ASSUME NEW f \in Facts
      PROVE  Datom(f, "ret") \in Finalize(D)
                <=> \/ Datom(f, "ret") \in D
                    \/ \E x \in Asserts(D) : /\ OldValues(x) # {}
                                             /\ ~Unchanged(x)
                                             /\ x.e = f.e /\ x.a = f.a
                                             /\ OldValue(x) = f.v
  <2>1. Datom(f, "ret") \notin Asserts(D)
    BY <1>3 DEF Asserts
  <2>2. Datom(f, "ret") \in {ret(x) : x \in gen}
          <=> \E x \in gen : x.e = f.e /\ x.a = f.a /\ OldValue(x) = f.v
    BY <1>5
  <2>3. QED
    BY <1>1, <1>6, <2>1, <2>2
<1>10. QED
  BY <1>7, <1>8, <1>9

\* Finalizing datoms that do not contradict each other keeps their meaning.
LEMMA FinalizeMeaning ==
    ASSUME Inv, NEW D \in SUBSET DatomSet,
           ~AddRetractConflict(D), ~CardinalityConflict(D)
    PROVE  NewView(Finalize(D)) = FS!After(D)
<1>0. TypeOK /\ latest \in Nat
  BY DEF Inv, TypeOK
<1>1. View(latest) \subseteq Facts
  BY <1>0, ViewIsLive
<1>2. FS!Adds(D) \subseteq Facts
  BY AddsAndRets
<1>3. ASSUME NEW f \in Facts
      PROVE  f \in NewView(Finalize(D)) <=> f \in FS!After(D)
  <2> DEFINE add == Datom(f, "add")
             replaces(x) == /\ x \in Asserts(D)
                            /\ OldValues(x) # {} /\ ~Unchanged(x)
                            /\ x.e = f.e /\ x.a = f.a /\ OldValue(x) = f.v
  <2>0. add \in DatomSet /\ add.e = f.e /\ add.a = f.a /\ add.v = f.v /\ add.op = "add"
    BY DEF Datom, DatomSet, Facts
  <2>1. add \in Finalize(D) <=> add \in D /\ ~Unchanged(add)
    BY FinalizeDatoms
  <2>2. Datom(f, "ret") \in Finalize(D)
          <=> Datom(f, "ret") \in D \/ \E x \in D : replaces(x)
    BY FinalizeDatoms DEF Asserts
  <2>3. /\ f \in FS!Adds(D) <=> add \in D
        /\ f \in FS!Rets(D) <=> Datom(f, "ret") \in D
    BY AddsAndRets
  <2>4. \A x \in D : replaces(x) => /\ x \in DatomSet /\ x.op = "add"
                                    /\ x.a \notin Multi /\ x.v # f.v
    BY OldValueIsTheValue, Zenon DEF Asserts, Unchanged
  <2>5. ASSUME f \in View(latest)
        PROVE  f \in FS!Replaced(D) <=> \E x \in D : replaces(x)
    <3>1. ASSUME NEW x \in D, replaces(x) PROVE f \in FS!Replaced(D)
      <4>1. x = Datom(D2F(x), "add") /\ D2F(x) \in Facts
        BY <2>4, <3>1 DEF DatomSet, Datom, D2F, Facts
      <4>2. D2F(x) \in FS!Adds(D)
        BY <4>1, AddsAndRets
      <4>3. D2F(x).e = f.e /\ D2F(x).a = f.a /\ D2F(x).v # f.v /\ f.a \notin Multi
        BY <2>4, <3>1 DEF D2F
      <4>4. QED
        BY <4>2, <4>3, <2>5 DEF FS!Replaced
    <3>2. ASSUME f \in FS!Replaced(D) PROVE \E x \in D : replaces(x)
      <4>1. PICK g \in FS!Adds(D) : f.a \notin Multi /\ g.e = f.e /\ g.a = f.a /\ g.v # f.v
        BY <3>2 DEF FS!Replaced
      <4>2. Datom(g, "add") \in D /\ Datom(g, "add") \in Asserts(D)
            /\ Datom(g, "add") \in DatomSet
        BY <4>1, <1>2, AddsAndRets DEF Asserts, Datom
      <4>3. /\ Datom(g, "add").e = f.e /\ Datom(g, "add").a = f.a
            /\ Datom(g, "add").v = g.v
        BY <4>1 DEF Datom
      <4>4. OldValues(Datom(g, "add")) # {} /\ OldValue(Datom(g, "add")) = f.v
        BY <4>1, <4>2, <4>3, <2>5, OldValueIsTheValue, Zenon
      <4>5. replaces(Datom(g, "add"))
        BY <4>1, <4>2, <4>3, <4>4 DEF Unchanged
      <4>6. QED
        BY <4>2, <4>5
    <3>3. QED
      BY <3>1, <3>2
  <2>6. ASSUME add \in D, Unchanged(add)
        PROVE  f \in View(latest) /\ Datom(f, "ret") \notin Finalize(D)
    <3>1. OldValues(add) # {} /\ OldValue(add) = f.v
      BY <2>0, <2>6 DEF Unchanged
    <3>2. f.a \notin Multi /\ [e |-> f.e, a |-> f.a, v |-> f.v] \in View(latest)
      BY <2>0, <3>1, OldValueIsTheValue
    <3>3. f \in View(latest)
      BY <3>2 DEF Facts
    <3>4. Datom(f, "ret") \notin D
      <4>1. SUFFICES ASSUME Datom(f, "ret") \in D PROVE FALSE
        OBVIOUS
      <4>2. /\ Datom(f, "ret").e = f.e /\ Datom(f, "ret").a = f.a
            /\ Datom(f, "ret").v = f.v /\ Datom(f, "ret").op = "ret"
        BY DEF Datom
      <4>3. QED
        BY <4>1, <4>2, <2>0, <2>6, <3>2 DEF AddRetractConflict
    <3>5. \A x \in D : ~replaces(x)
      BY <2>0, <2>4, <2>6 DEF CardinalityConflict
    <3>6. QED
      BY <3>3, <3>4, <3>5, <2>2
  <2> HIDE DEF add, replaces
  <2>7. f \in NewView(Finalize(D)) <=> \/ add \in Finalize(D)
                                       \/ f \in View(latest) /\ Datom(f, "ret") \notin Finalize(D)
    BY DEF NewView, add
  <2>8. f \in FS!After(D) <=> \/ f \in FS!Adds(D)
                              \/ f \in View(latest) /\ f \notin FS!Rets(D) /\ f \notin FS!Replaced(D)
    BY DEF FS!After
  <2>9. QED
    BY <2>1, <2>2, <2>3, <2>5, <2>6, <2>7, <2>8
<1>4. FS!After(D) \subseteq Facts
  BY <1>1, <1>2 DEF FS!After
<1>5. QED
  BY <1>3, <1>4 DEF NewView

--------------------------------------------------------------------------------
\* The owner the unique index names is the one owner in the view.
LEMMA OwnerIsTheOwner ==
    ASSUME Inv, NEW a \in Attrs, NEW v \in Values
    PROVE  /\ Owners(a, v) # {} =>
                /\ Owner(a, v) \in Entities
                /\ Owner(a, v) < next
                /\ [e |-> Owner(a, v), a |-> a, v |-> v] \in View(latest)
           /\ \A g \in View(latest) :
                g.a = a /\ g.v = v /\ a \in Unique
                    => Owners(a, v) # {} /\ Owner(a, v) = g.e
<1>0. TypeOK /\ RowBounds /\ OneOwner /\ latest \in Nat
  BY DEF Inv, TypeOK
<1>1. View(latest) \subseteq Facts
  BY <1>0, ViewIsLive
<1>2. ASSUME Owners(a, v) # {}
      PROVE  \E g \in View(latest) : g.e = Owner(a, v) /\ g.a = a /\ g.v = v
  <2>1. Owner(a, v) \in Owners(a, v)
    BY <1>2 DEF Owner
  <2>2. QED
    BY <2>1 DEF Owners
<1>3. ASSUME Owners(a, v) # {}
      PROVE  /\ Owner(a, v) \in Entities
             /\ Owner(a, v) < next
             /\ [e |-> Owner(a, v), a |-> a, v |-> v] \in View(latest)
  <2>1. PICK g \in View(latest) : g.e = Owner(a, v) /\ g.a = a /\ g.v = v
    BY <1>2, <1>3
  <2>2. g = [e |-> Owner(a, v), a |-> a, v |-> v] /\ g.e \in Entities
    BY <1>1, <2>1 DEF Facts
  <2>3. \E r \in store : r.e = g.e
    BY <1>0, ViewIsLive
  <2>4. g.e < next
    BY <1>0, <2>3 DEF RowBounds
  <2>5. QED
    BY <2>1, <2>2, <2>4
<1>4. ASSUME NEW g \in View(latest), g.a = a, g.v = v, a \in Unique
      PROVE  Owners(a, v) # {} /\ Owner(a, v) = g.e
  <2>1. g.e \in Owners(a, v)
    BY <1>4 DEF Owners
  <2>2. PICK h \in View(latest) : h.e = Owner(a, v) /\ h.a = a /\ h.v = v
    BY <1>2, <2>1
  <2>3. latest \in 0..latest
    BY <1>0
  <2>4. QED
    BY <1>0, <1>4, <2>1, <2>2, <2>3 DEF OneOwner
<1>5. QED
  BY <1>3, <1>4

\* The uniqueness check rejects exactly what would leave a value two owners.
LEMMA UniqueMeaning ==
    ASSUME Inv, NEW F \in SUBSET DatomSet
    PROVE  UniqueConflict(F) <=> ~FS!OneOwner(NewView(F))
<1>0. View(latest) \subseteq Facts
  BY ViewIsLive DEF Inv, TypeOK
<1>1. \A d \in Asserts(F) : d \in F /\ d \in DatomSet /\ d = Datom(D2F(d), "add")
                            /\ D2F(d) \in Facts /\ d.a \in Attrs /\ d.v \in Values
  BY DEF Asserts, DatomSet, Datom, D2F, Facts
<1>2. \A d \in Asserts(F) : D2F(d) \in NewView(F)
                            /\ D2F(d).e = d.e /\ D2F(d).a = d.a /\ D2F(d).v = d.v
  BY <1>1 DEF NewView, D2F
<1>3. \A f \in Facts : Datom(f, "add") \in F =>
        /\ Datom(f, "add") \in Asserts(F)
        /\ Datom(f, "add").e = f.e /\ Datom(f, "add").a = f.a /\ Datom(f, "add").v = f.v
  BY DEF Asserts, Datom
<1>4. ASSUME UniqueConflict(F) PROVE ~FS!OneOwner(NewView(F))
  <2>1. PICK d \in Asserts(F) :
            /\ d.a \in Unique
            /\ \/ \E x \in Asserts(F) : x.a = d.a /\ x.v = d.v /\ x.e # d.e
               \/ /\ Owners(d.a, d.v) # {}
                  /\ Owner(d.a, d.v) # d.e
                  /\ [e |-> Owner(d.a, d.v), a |-> d.a, v |-> d.v, op |-> "ret"] \notin F
    BY <1>4 DEF UniqueConflict
  <2>2. CASE \E x \in Asserts(F) : x.a = d.a /\ x.v = d.v /\ x.e # d.e
    BY <2>1, <2>2, <1>2 DEF FS!OneOwner
  <2>3. CASE /\ Owners(d.a, d.v) # {}
             /\ Owner(d.a, d.v) # d.e
             /\ [e |-> Owner(d.a, d.v), a |-> d.a, v |-> d.v, op |-> "ret"] \notin F
    <3> DEFINE g == [e |-> Owner(d.a, d.v), a |-> d.a, v |-> d.v]
    <3>1. g \in View(latest)
      BY <2>3, <1>1, OwnerIsTheOwner
    <3>2. Datom(g, "ret") \notin F
      BY <2>3 DEF Datom
    <3>3. g \in NewView(F)
      BY <3>1, <3>2, <1>0 DEF NewView
    <3>4. g.a = d.a /\ g.v = d.v /\ g.e # d.e
      BY <2>3
    <3> HIDE DEF g
    <3>5. QED
      BY <2>1, <3>3, <3>4, <1>2 DEF FS!OneOwner
  <2>4. QED
    BY <2>1, <2>2, <2>3
<1>5. ASSUME ~UniqueConflict(F) PROVE FS!OneOwner(NewView(F))
  <2> SUFFICES ASSUME NEW f \in NewView(F), NEW g \in NewView(F),
                      f.a \in Unique, f.a = g.a, f.v = g.v
               PROVE  f.e = g.e
    BY DEF FS!OneOwner
  <2>0. /\ f \in Facts /\ g \in Facts
        /\ f.a \in Attrs /\ f.v \in Values
    BY DEF NewView, Facts
  <2>1. ASSUME NEW x \in Facts, NEW y \in Facts, x.a \in Unique, x.a = y.a, x.v = y.v,
               Datom(x, "add") \in F, y \in View(latest), Datom(y, "ret") \notin F
        PROVE  x.e = y.e
    <3>0. x.a \in Attrs /\ x.v \in Values
      BY DEF Facts
    <3>1. Owners(x.a, x.v) # {} /\ Owner(x.a, x.v) = y.e
      BY <2>1, <3>0, OwnerIsTheOwner, Zenon
    <3>2. [e |-> Owner(x.a, x.v), a |-> x.a, v |-> x.v, op |-> "ret"] = Datom(y, "ret")
      BY <2>1, <3>1 DEF Datom
    <3>3. QED
      <4>1. PICK d \in Asserts(F) : d.a = x.a /\ d.v = x.v /\ d.e = x.e
        BY <2>1, <1>3 DEF Asserts, Datom
      <4>2. d.a \in Unique /\ Owners(d.a, d.v) # {} /\ Owner(d.a, d.v) = y.e
        BY <4>1, <2>1, <3>1
      <4>3. [e |-> Owner(d.a, d.v), a |-> d.a, v |-> d.v, op |-> "ret"] \notin F
        BY <4>1, <2>1, <3>2
      <4>4. QED
        BY <4>1, <4>2, <4>3, <1>5, Zenon DEF UniqueConflict
  <2>2. CASE Datom(f, "add") \in F /\ Datom(g, "add") \in F
    BY <2>0, <2>2, <1>3, <1>5 DEF UniqueConflict
  <2>3. CASE Datom(f, "add") \in F /\ Datom(g, "add") \notin F
    BY <2>0, <2>1, <2>3 DEF NewView
  <2>4. CASE Datom(f, "add") \notin F /\ Datom(g, "add") \in F
    BY <2>0, <2>1, <2>4 DEF NewView
  <2>5. CASE Datom(f, "add") \notin F /\ Datom(g, "add") \notin F
    <3>1. f \in View(latest) /\ g \in View(latest)
      BY <2>5 DEF NewView
    <3>2. OneOwner /\ latest \in 0..latest
      BY DEF Inv, TypeOK
    <3>3. QED
      BY <3>1, <3>2 DEF OneOwner
  <2>6. QED
    BY <2>2, <2>3, <2>4, <2>5
<1>6. QED
  BY <1>4, <1>5

--------------------------------------------------------------------------------
\* Resolved datoms are about allocated entities, or about the one the
\* transaction allocates; and that one is asserted to have some value.
LEMMA DatomsTyped ==
    ASSUME Inv, NEW ops \in TxInputs, Resolves(ops)
    PROVE  /\ Datoms(ops) \subseteq DatomSet
           /\ \A d \in Datoms(ops) :
                d.e < next \/ (d.e = next /\ Allocates(Expand(ops)))
           /\ Allocates(Expand(ops)) =>
                \E d \in Datoms(ops) : d.e = next /\ d.op = "add"
<1> DEFINE X == Expand(ops)
<1>0. TypeOK /\ RowBounds /\ latest \in Nat /\ next \in Entities
  BY DEF Inv, TypeOK
<1>1. View(latest) \subseteq Facts /\ \A f \in View(latest) : f.e < next
  <2>1. View(latest) \subseteq Facts /\ \A f \in View(latest) : \E r \in store : r.e = f.e
    BY <1>0, ViewIsLive
  <2>2. QED
    BY <1>0, <2>1 DEF RowBounds
<1>2. ops \subseteq TxOps
  BY InputAssumption
<1>3. ASSUME NEW o \in Writes(ops)
      PROVE  /\ Resolved(o.e) \in Nat /\ o.a \in Attrs /\ o.v \in Values
             /\ o.op \in {"add", "ret"}
  <2>1. o \in [op : {"add", "ret"}, e : EntityRefs, a : Attrs, v : Values] /\ o \in ops
    BY <1>2 DEF Writes, TxOps
  <2>2. RefResolves(o.e) /\ o.e \in EntityRefs
    BY <2>1 DEF Resolves, ExpandFails
  <2>3. CASE o.e.ref = "lookup"
    <3>1. o.e.a \in Attrs /\ o.e.v \in Values
      BY <2>2, <2>3 DEF EntityRefs
    <3>2. Owner(o.e.a, o.e.v) \in Entities
      BY <2>2, <2>3, <3>1, OwnerIsTheOwner, Zenon DEF RefResolves
    <3>3. QED
      BY <2>1, <2>3, <3>2 DEF Resolved, Entities
  <2>4. CASE o.e.ref # "lookup"
    BY <2>1, <2>2, <2>4 DEF Resolved, EntityRefs, Entities, TempId
  <2>5. QED
    BY <2>3, <2>4
<1>4. X \subseteq [e : Nat, a : Attrs, v : Values, op : {"add", "ret"}]
  BY <1>1, <1>3 DEF Expand, Facts, Entities
<1>5. \A d \in X : d.e = TempId \/ d.e < next
  BY <1>0, <1>4 DEF Resolves, Unallocated, Entities
<1>6. ASSUME Upserts(X) # {} PROVE TempIdTarget(X) \in Entities /\ TempIdTarget(X) < next
  <2>1. TempIdTarget(X) \in Upserts(X)
    BY <1>6 DEF TempIdTarget
  <2>2. PICK d \in X : TempIdTarget(X) = Owner(d.a, d.v) /\ Owners(d.a, d.v) # {}
    BY <2>1 DEF Upserts
  <2>3. d.a \in Attrs /\ d.v \in Values
    BY <1>4
  <2>4. Owner(d.a, d.v) \in Entities /\ Owner(d.a, d.v) < next
    <3> HIDE DEF X
    <3>1. QED
      BY <2>2, <2>3, OwnerIsTheOwner, Zenon
  <2>5. QED
    BY <2>2, <2>4
<1>7. ASSUME Upserts(X) = {} PROVE TempIdTarget(X) = next
  BY <1>7 DEF TempIdTarget
<1> DEFINE res(d) == [e |-> IF d.e = TempId THEN TempIdTarget(X) ELSE d.e,
                      a |-> d.a, v |-> d.v, op |-> d.op]
<1>8. Datoms(ops) = {res(d) : d \in X}
  BY DEF Datoms, ResolveTempIds
<1>9. ~TempIdFails(X)
  BY DEF Resolves
<1> HIDE DEF X
<1>10. ASSUME NEW d \in X
       PROVE  res(d) \in DatomSet
              /\ (res(d).e < next \/ (res(d).e = next /\ Allocates(X)))
  <2>1. d.e \in Nat /\ d.a \in Attrs /\ d.v \in Values /\ d.op \in {"add", "ret"}
    BY <1>4
  <2>2. CASE d.e = TempId /\ Upserts(X) = {}
    <3>1. res(d).e = next /\ Allocates(X)
      BY <2>2, <1>7 DEF Allocates, UsesTempId
    <3>2. QED
      BY <2>1, <3>1, <1>0 DEF DatomSet
  <2>3. CASE d.e = TempId /\ Upserts(X) # {}
    <3>1. res(d).e \in Entities /\ res(d).e < next
      BY <2>3, <1>6
    <3>2. QED
      BY <2>1, <3>1 DEF DatomSet
  <2>4. CASE d.e # TempId
    <3>1. res(d).e = d.e /\ d.e \in Entities /\ d.e < next
      BY <2>4, <2>1, <1>5 DEF Entities
    <3>2. QED
      BY <2>1, <3>1 DEF DatomSet
  <2>5. QED
    BY <2>2, <2>3, <2>4
<1>11. ASSUME Allocates(X) PROVE \E d \in X : res(d).e = next /\ res(d).op = "add"
  <2>1. PICK d \in X : d.e = TempId
    BY <1>11 DEF Allocates, UsesTempId
  <2>2. Upserts(X) = {} /\ d.op = "add"
    BY <1>4, <1>9, <1>11, <2>1 DEF Allocates, TempIdFails
  <2>3. QED
    BY <2>1, <2>2, <1>7
<1>12. QED
  BY <1>8, <1>10, <1>11, Zenon DEF X

--------------------------------------------------------------------------------
\* What one committed transaction does.
LEMMA CommitStep ==
    ASSUME Inv, NEW t \in Nat, t > latest, NEW ops \in TxInputs, Commit(ops, t)
    PROVE  /\ Inv'
           /\ \A T \in 0..latest : View(T)' = View(T)
           /\ View(latest)' = FS!After(Datoms(ops))
           /\ FS!Acceptable(Datoms(ops))
<1> DEFINE D == Datoms(ops)
           F == Finalize(D)
<1>0. /\ TypeOK /\ RowBounds /\ OneValue /\ OneOwner
      /\ latest \in Nat /\ next \in Entities /\ next \in Nat /\ next + 1 \in Entities
      /\ store \subseteq Rows
  BY DEF Inv, TypeOK, Entities, TempId
<1>1. /\ Resolves(ops)
      /\ ~AddRetractConflict(D) /\ ~CardinalityConflict(D) /\ ~UniqueConflict(F)
      /\ store' = store \cup IndexRows(F, t)
      /\ next' = IF Allocates(Expand(ops)) THEN next + 1 ELSE next
      /\ latest' = t
      /\ last'.committed = TRUE
  BY DEF Commit, Valid
<1>2. /\ D \subseteq DatomSet
      /\ \A d \in D : d.e < next \/ (d.e = next /\ Allocates(Expand(ops)))
      /\ Allocates(Expand(ops)) => \E d \in D : d.e = next /\ d.op = "add"
  BY <1>1, DatomsTyped
<1> HIDE DEF D
<1>3. F \subseteq DatomSet
  BY <1>2, FinalizeDatoms
<1>4. TypeOK'
  <2>1. IndexRows(F, t) \subseteq Rows
    BY <1>3 DEF IndexRows, DatomSet, Rows
  <2>2. next' \in Entities /\ latest' \in Nat /\ last'.committed \in BOOLEAN
    BY <1>0, <1>1, Zenon
  <2>3. QED
    BY <2>1, <2>2, <1>0, <1>1 DEF TypeOK
<1>5. RowBounds'
  <2>1. \A d \in F : \E x \in D : x.e = d.e
    BY DEF Finalize, Asserts
  <2>2. \A d \in F : d.e \in Nat /\ d.e < next'
    BY <2>1, <1>0, <1>1, <1>2, <1>3 DEF DatomSet, Entities
  <2>3. \A r \in IndexRows(F, t) : r.t = t /\ \E d \in F : r.e = d.e
    BY DEF IndexRows
  <2>4. \A r \in store' : r.t <= latest' /\ r.e < next'
    BY <2>2, <2>3, <1>0, <1>1 DEF RowBounds, Rows, Entities
  <2>5. CASE Allocates(Expand(ops))
    <3>1. PICK d \in D : d.e = next /\ d.op = "add"
      BY <2>5, <1>2
    <3>2. OldValues(d) = {}
      BY <3>1, <1>0 DEF OldValues
    <3>3. d \in F
      BY <3>1, <3>2 DEF Finalize, Unchanged
    <3> DEFINE row == [e |-> d.e, a |-> d.a, v |-> d.v, t |-> t, op |-> d.op]
    <3>r. row \in IndexRows(F, t)
      BY <3>3 DEF IndexRows
    <3>4. \E r \in IndexRows(F, t) : r.e = next
      <4>1. row.e = next
        BY <3>1
      <4>2. QED
        BY <3>r, <4>1
    <3>5. QED
      BY <2>4, <2>5, <3>4, <1>1 DEF RowBounds
  <2>6. CASE ~Allocates(Expand(ops)) /\ store # {}
    BY <2>4, <2>6, <1>0, <1>1 DEF RowBounds
  <2>7. CASE ~Allocates(Expand(ops)) /\ store = {}
    <3>1. next = 1
      BY <2>7, <1>0 DEF RowBounds
    <3>2. F = {}
      BY <2>2, <2>7, <3>1, <1>1, <1>3 DEF DatomSet, Entities, TempId
    <3>3. store' = {} /\ next' = 1
      BY <2>7, <3>1, <3>2, <1>1 DEF IndexRows
    <3>4. QED
      BY <3>3 DEF RowBounds
  <2>8. QED
    BY <2>5, <2>6, <2>7
<1>6. \A T \in Nat : T < t => View(T)' = View(T)
  BY <1>0, <1>1, <1>3, ViewBefore
<1>7. View(t)' = NewView(F)
  BY <1>0, <1>1, <1>3, <1>4, ViewAfter
<1>8. View(t)' = FS!After(D)
  BY <1>1, <1>2, <1>7, FinalizeMeaning
<1>9. FS!OneOwner(FS!After(D))
  BY <1>1, <1>3, <1>7, <1>8, UniqueMeaning, Zenon
<1>10. ~FS!Conflicting(D)
  <2> SUFFICES ASSUME NEW f \in FS!Adds(D), NEW g \in FS!Adds(D), f.a \notin Multi,
                      f \in FS!Rets(D) \/ (f.e = g.e /\ f.a = g.a /\ f.v # g.v)
               PROVE  FALSE
    BY DEF FS!Conflicting
  <2>1. f \in Facts /\ g \in Facts /\ Datom(f, "add") \in D /\ Datom(g, "add") \in D
        /\ (f \in FS!Rets(D) => Datom(f, "ret") \in D)
    BY <1>2, AddsAndRets
  <2>2. QED
    BY <2>1, <1>1 DEF AddRetractConflict, CardinalityConflict, Datom
<1>11. ASSUME NEW f \in View(t)', NEW g \in View(t)',
              f.e = g.e, f.a = g.a, f.a \notin Multi
       PROVE  f.v = g.v
  <2>1. f \in FS!After(D) /\ g \in FS!After(D)
    BY <1>8
  <2>2. CASE f \in FS!Adds(D) /\ g \in FS!Adds(D)
    BY <2>2, <1>10, <1>11 DEF FS!Conflicting
  <2>3. CASE f \in FS!Adds(D) /\ g \notin FS!Adds(D)
    BY <2>1, <2>3, <1>11 DEF FS!After, FS!Replaced
  <2>4. CASE f \notin FS!Adds(D) /\ g \in FS!Adds(D)
    BY <2>1, <2>4, <1>11 DEF FS!After, FS!Replaced
  <2>5. CASE f \notin FS!Adds(D) /\ g \notin FS!Adds(D)
    <3>1. f \in View(latest) /\ g \in View(latest) /\ latest \in 0..latest
      BY <2>1, <2>5, <1>0 DEF FS!After
    <3>2. QED
      BY <3>1, <1>0, <1>11 DEF OneValue
  <2>6. QED
    BY <2>2, <2>3, <2>4, <2>5
<1>12. ASSUME NEW T \in 0..t, T # t
       PROVE  \E S \in 0..latest : View(T)' = View(S)
  <2>1. T \in Nat /\ T < t /\ View(T)' = View(T)
    BY <1>6, <1>12
  <2>2. CASE T <= latest
    BY <2>1, <2>2, <1>0
  <2>3. CASE T > latest
    BY <2>1, <2>3, <1>0, ViewFromLatest
  <2>4. QED
    BY <2>1, <2>2, <2>3, <1>0
<1>13. OneValue'
  BY <1>0, <1>1, <1>11, <1>12 DEF OneValue
<1>14. OneOwner'
  BY <1>0, <1>1, <1>8, <1>9, <1>12 DEF OneOwner, FS!OneOwner
<1>15. QED
  BY <1>0, <1>1, <1>4, <1>5, <1>6, <1>8, <1>9, <1>10, <1>13, <1>14
     DEF Inv, D, FS!Acceptable

\* What one rejected transaction does.
LEMMA AbortStep ==
    ASSUME Inv, NEW t \in Nat, t > latest, NEW ops \in TxInputs, Abort(ops, t)
    PROVE  /\ Inv'
           /\ \A T \in 0..latest : View(T)' = View(T)
           /\ View(latest)' = View(latest)
           /\ Resolves(ops) => ~FS!Acceptable(Datoms(ops))
<1>0. /\ TypeOK /\ RowBounds /\ OneValue /\ OneOwner
      /\ latest \in Nat /\ next \in Entities /\ store \subseteq Rows
  BY DEF Inv, TypeOK
<1>1. /\ store' = store /\ next' = next /\ latest' = t
      /\ ~(Resolves(ops) /\ Valid(Datoms(ops)))
      /\ last'.committed = FALSE
  BY DEF Abort
<1>2. \A T : View(T)' = View(T)
  BY <1>1 DEF View, Live, Versions
<1>3. \A T \in Nat : T >= latest => View(T) = View(latest)
  BY <1>0, ViewFromLatest
<1>4. \A T \in 0..t : \E S \in 0..latest : View(T)' = View(S)
  BY <1>0, <1>2, <1>3
<1>5. TypeOK' /\ RowBounds'
  <2>1. last'.committed \in BOOLEAN
    BY <1>1, Zenon
  <2>2. QED
    BY <2>1, <1>0, <1>1 DEF TypeOK, RowBounds, Rows
<1>6. OneValue' /\ OneOwner'
  BY <1>0, <1>1, <1>4 DEF OneValue, OneOwner
<1>7. View(latest)' = View(latest)
  BY <1>0, <1>1, <1>2, <1>3
<1>8. ASSUME Resolves(ops) PROVE ~FS!Acceptable(Datoms(ops))
  <2> DEFINE D == Datoms(ops)
             F == Finalize(D)
  <2>1. D \subseteq DatomSet
    BY <1>8, DatomsTyped
  <2>2. AddRetractConflict(D) \/ CardinalityConflict(D) \/ UniqueConflict(F)
    BY <1>1, <1>8 DEF Valid
  <2> HIDE DEF D
  <2>3. \A d \in D : d \in DatomSet /\ D2F(d) \in Facts /\ d = Datom(D2F(d), d.op)
                     /\ D2F(d).e = d.e /\ D2F(d).a = d.a /\ D2F(d).v = d.v
    BY <2>1 DEF DatomSet, D2F, Facts, Datom
  <2>4. CASE AddRetractConflict(D)
    <3>1. PICK d \in D, x \in D : /\ d.a \notin Multi
                                  /\ d.op = "add" /\ x.op = "ret"
                                  /\ d.e = x.e /\ d.a = x.a /\ d.v = x.v
      BY <2>4 DEF AddRetractConflict
    <3>2. D2F(d) = D2F(x)
      BY <3>1 DEF D2F
    <3>3. D2F(d) \in FS!Adds(D) /\ D2F(d) \in FS!Rets(D) /\ D2F(d).a \notin Multi
      BY <2>1, <2>3, <3>1, <3>2, AddsAndRets
    <3>4. QED
      BY <3>3 DEF FS!Acceptable, FS!Conflicting, D
  <2>5. CASE CardinalityConflict(D)
    <3>1. PICK d \in D, x \in D : /\ d.a \notin Multi
                                  /\ d.op = "add" /\ x.op = "add"
                                  /\ d.e = x.e /\ d.a = x.a /\ d.v # x.v
      BY <2>5 DEF CardinalityConflict
    <3>2. D2F(d) \in FS!Adds(D) /\ D2F(x) \in FS!Adds(D) /\ D2F(d).a \notin Multi
      BY <2>1, <2>3, <3>1, AddsAndRets
    <3>3. D2F(d).e = D2F(x).e /\ D2F(d).a = D2F(x).a /\ D2F(d).v # D2F(x).v
      BY <2>3, <3>1
    <3>4. FS!Conflicting(D)
      BY <3>2, <3>3 DEF FS!Conflicting
    <3>5. QED
      BY <3>4 DEF FS!Acceptable, D
  <2>6. CASE ~AddRetractConflict(D) /\ ~CardinalityConflict(D)
    <3>1. UniqueConflict(F) /\ F \subseteq DatomSet
      BY <2>1, <2>2, <2>6, FinalizeDatoms
    <3>2. ~FS!OneOwner(NewView(F))
      BY <3>1, UniqueMeaning
    <3>3. NewView(F) = FS!After(D)
      BY <2>1, <2>6, FinalizeMeaning
    <3>4. QED
      BY <3>2, <3>3 DEF FS!Acceptable, D
  <2>7. QED
    BY <2>4, <2>5, <2>6
<1>9. QED
  BY <1>0, <1>2, <1>5, <1>6, <1>7, <1>8 DEF Inv

\* An empty database.
LEMMA InitInv == Init => Inv /\ View(latest) = {}
<1> SUFFICES ASSUME Init PROVE Inv /\ View(latest) = {}
  OBVIOUS
<1>1. \A T : View(T) = {}
  BY DEF Init, View
<1>2. TypeOK /\ RowBounds
  BY DEF Init, TypeOK, RowBounds, Entities, TempId
<1>3. QED
  BY <1>1, <1>2 DEF Inv, OneValue, OneOwner

\* A stuttering step keeps everything.
LEMMA StutterStep ==
    ASSUME Inv, UNCHANGED vars
    PROVE  Inv' /\ \A T : View(T)' = View(T)
<1>1. \A T : View(T)' = View(T)
  BY DEF vars, View, Live, Versions
<1>2. TypeOK' /\ RowBounds'
  BY DEF vars, Inv, TypeOK, RowBounds
<1>3. OneValue' /\ OneOwner'
  BY <1>1 DEF vars, Inv, OneValue, OneOwner
<1>4. QED
  BY <1>1, <1>2, <1>3 DEF Inv

\* A step is a transaction newer than the latest one.
LEMMA StepCases ==
    ASSUME Inv, Next
    PROVE  \E t \in Nat : \E ops \in TxInputs :
              t > latest /\ (Commit(ops, t) \/ Abort(ops, t))
<1>1. latest \in Nat /\ MaxTx \in Nat
  BY BoundAssumption DEF Inv, TypeOK
<1>2. \A t \in latest + 1 .. MaxTx : t \in Nat /\ t > latest
  BY <1>1
<1>3. QED
  BY <1>2 DEF Next, TransactTx

LEMMA NextInv == Inv /\ [Next]_vars => Inv'
<1> SUFFICES ASSUME Inv, [Next]_vars PROVE Inv'
  OBVIOUS
<1>1. CASE Next
  <2>1. PICK t \in Nat, ops \in TxInputs : t > latest /\ (Commit(ops, t) \/ Abort(ops, t))
    BY <1>1, StepCases
  <2>2. QED
    BY <2>1, CommitStep, AbortStep
<1>2. CASE UNCHANGED vars
  BY <1>2, StutterStep
<1>3. QED
  BY <1>1, <1>2

--------------------------------------------------------------------------------
\* Every reachable state is well typed.
THEOREM TypeCorrect == Spec => []TypeOK
<1>1. Inv => TypeOK
  BY DEF Inv
<1>2. QED
  BY <1>1, InitInv, NextInv, PTL DEF Spec

\* No sequence of transactions gives a cardinality-one attribute two values at
\* any basis.
THEOREM OneValueAlways == Spec => []OneValue
<1>1. Inv => OneValue
  BY DEF Inv
<1>2. QED
  BY <1>1, InitInv, NextInv, PTL DEF Spec

\* No sequence of transactions gives a unique value two owners at any basis.
THEOREM OneOwnerAlways == Spec => []OneOwner
<1>1. Inv => OneOwner
  BY DEF Inv
<1>2. QED
  BY <1>1, InitInv, NextInv, PTL DEF Spec

\* The counter found by scanning the index after a restart is the counter the
\* running node had, after every sequence of transactions.
THEOREM CounterAlwaysRecoverable == Spec => []CounterRecoverable
<1>1. Inv => CounterRecoverable
  <2> SUFFICES ASSUME Inv PROVE next = ScannedCounter
    BY DEF CounterRecoverable
  <2>0. RowBounds /\ store \subseteq Rows /\ next \in Nat
    BY DEF Inv, TypeOK, Entities
  <2>1. CASE store = {}
    BY <2>0, <2>1 DEF RowBounds, ScannedCounter
  <2>2. CASE store # {}
    <3> DEFINE ok(n) == n \in {r.e + 1 : r \in store} /\ \A r \in store : r.e < n
    <3>1. \A r \in store : r.e \in Nat /\ r.e < next
      BY <2>0 DEF RowBounds, Rows, Entities
    <3>2. ok(next)
      BY <2>0, <2>2, <3>1 DEF RowBounds
    <3>3. \A n : ok(n) => n = next
      BY <2>0, <3>1, <3>2
    <3>4. ScannedCounter = CHOOSE n : ok(n)
      BY <2>2, Zenon DEF ScannedCounter
    <3> HIDE DEF ok
    <3>5. QED
      BY <3>2, <3>3, <3>4
  <2>3. QED
    BY <2>1, <2>2
<1>2. QED
  BY <1>1, InitInv, NextInv, PTL DEF Spec

\* No transaction changes the database as of an earlier one.
THEOREM HistoryNeverChanges == Spec => HistoryImmutable
<1>1. Inv /\ [Next]_vars => [\A T \in 0..latest : View(T)' = View(T)]_vars
  <2> SUFFICES ASSUME Inv, Next PROVE \A T \in 0..latest : View(T)' = View(T)
    OBVIOUS
  <2>1. PICK t \in Nat, ops \in TxInputs : t > latest /\ (Commit(ops, t) \/ Abort(ops, t))
    BY StepCases
  <2>2. QED
    BY <2>1, CommitStep, AbortStep
<1>2. QED
  BY <1>1, InitInv, NextInv, PTL DEF Spec, HistoryImmutable

\* The pipeline commits exactly the transactions that are in conflict neither with
\* themselves, on a cardinality-one attribute, nor with the facts, and their effect
\* is what they say, assertions winning over retractions of the same fact: the
\* indexer implements the abstract store of facts.
THEOREM ImplementsFactStore == Spec => FactStoreSpec
<1>1. Init => FS!Init
  BY InitInv DEF Init, FS!Init
<1>2. Inv /\ [Next]_vars => [FS!Next]_<<View(latest), last>>
  <2> SUFFICES ASSUME Inv, [Next]_vars PROVE [FS!Next]_<<View(latest), last>>
    OBVIOUS
  <2>1. CASE Next
    <3>1. PICK t \in Nat, ops \in TxInputs : t > latest /\ (Commit(ops, t) \/ Abort(ops, t))
      BY <2>1, StepCases
    <3>2. CASE Commit(ops, t)
      <4>1. /\ View(latest)' = FS!After(Datoms(ops))
            /\ FS!Acceptable(Datoms(ops))
        BY <3>1, <3>2, CommitStep
      <4>2. last'.committed /\ last'.resolved /\ last'.datoms = Datoms(ops)
        BY <3>2 DEF Commit
      <4>3. QED
        BY <4>1, <4>2 DEF FS!Next, FS!Commit, FS!CommitContradiction
    <3>3. CASE Abort(ops, t)
      <4>1. /\ View(latest)' = View(latest)
            /\ Resolves(ops) => ~FS!Acceptable(Datoms(ops))
        BY <3>1, <3>3, AbortStep
      <4>2. /\ ~last'.committed /\ (last'.resolved <=> Resolves(ops))
            /\ Resolves(ops) => last'.datoms = Datoms(ops)
        BY <3>3 DEF Abort
      <4>3. QED
        BY <4>1, <4>2 DEF FS!Next, FS!Abort
    <3>4. QED
      BY <3>1, <3>2, <3>3, Zenon
  <2>2. CASE UNCHANGED vars
    BY <2>2 DEF vars, View, Live, Versions
  <2>3. QED
    BY <2>1, <2>2
<1>3. QED
  BY <1>1, <1>2, InitInv, NextInv, PTL DEF Spec, FactStoreSpec, FS!Spec
================================================================================
