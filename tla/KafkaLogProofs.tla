---------------------------- MODULE KafkaLogProofs -----------------------------
(***************************************************************************)
(* Proofs about KafkaLog, for every channel capacity, batch size, number   *)
(* of records and set of unreadable records.                               *)
(*                                                                         *)
(* The argument.  Base is the position of the receiver: records up to Base *)
(* were received, or went through the consumer thread before the receiver  *)
(* existed.  Broadcasting moves no record across Base, so it suffices that *)
(* the task only receives when it has accepted everything up to Base.  A   *)
(* catch-up establishes that: the initial one because it ends on a short   *)
(* batch, that is, at what was the end of the log after the receiver was   *)
(* created; the one after a lag because it reads as many records as were   *)
(* overwritten.                                                            *)
(***************************************************************************)
EXTENDS KafkaLog, Integers, SequenceTheorems, TLAPS

Base == polled - Len(chan) - missed

\* The channel holds consecutive records, the newest being the last polled.
ChanShape ==
    /\ Base >= 0
    /\ \A i \in 1..Len(chan) : chan[i] = polled - Len(chan) + i

\* A batch is only held during a catch-up and never exceeds what was asked.
BatchShape ==
    /\ after <= tail
    /\ pos <= end
    /\ pos < end => /\ phase \in CatchingUp
                    /\ ~backoff
                    /\ after <= pos
                    /\ end <= tail
                    /\ phase = "lagged" => end - after <= remaining

\* The task has accepted exactly the records it accounts for, and is, or will
\* be at the end of its catch-up, past Base.
Progress ==
    /\ GapFree
    /\ pos < end => Len(delivered) = pos
    /\ pos = end => Len(delivered) = after
    /\ phase = "live" => after >= Base
    /\ phase = "lagged" => after + remaining >= Base
    /\ pos < end /\ end - after < ReadLimit => end >= Base

Inv ==
    /\ TypeOK
    /\ polled <= tail
    /\ BatchShape
    /\ phase # "stopped" => ChanShape
    /\ ~cancelled => phase # "stopped" /\ Progress

--------------------------------------------------------------------------------
\* What receiving does to the channel.
LEMMA TailOfNatSeq ==
    ASSUME NEW s \in Seq(Nat), s # <<>>
    PROVE  /\ Tail(s) \in Seq(Nat)
           /\ Len(Tail(s)) = Len(s) - 1
           /\ \A i \in 1..Len(Tail(s)) : Tail(s)[i] = s[i + 1]
           /\ Head(s) = s[1]
           /\ Head(s) \in Nat
           /\ Len(s) \in Nat \ {0}
BY HeadTailProperties, EmptySeq, SMT

\* What appending a record does to a channel or a history.
LEMMA AppendToNatSeq ==
    ASSUME NEW s \in Seq(Nat), NEW x \in Nat
    PROVE  /\ Append(s, x) \in Seq(Nat)
           /\ Len(Append(s, x)) = Len(s) + 1
           /\ \A i \in 1..Len(s) : Append(s, x)[i] = s[i]
           /\ Append(s, x)[Len(s) + 1] = x
           /\ Len(s) \in Nat
BY AppendProperties, LenProperties, SMT

\* Appending the next record keeps a history gap-free.
LEMMA AppendNext ==
    ASSUME NEW s \in Seq(Nat), \A i \in 1..Len(s) : s[i] = i
    PROVE  \A i \in 1..Len(Append(s, Len(s) + 1)) : Append(s, Len(s) + 1)[i] = i
<1>1. Len(s) \in Nat /\ Len(s) + 1 \in Nat
  BY LenProperties
<1>2. QED
  BY <1>1, AppendToNatSeq

\* Broadcasting the next record leaves Base where it is (Broadcast).
LEMMA BroadcastKeepsBase ==
    ASSUME TypeOK, Poll
    PROVE  /\ chan' \in Seq(Nat) /\ Len(chan') <= Capacity
           /\ missed' \in Nat
           /\ phase # "stopped" /\ ChanShape => ChanShape' /\ Base' = Base
<1> USE SizeAssumption DEF TypeOK
<1>0. /\ polled \in Nat /\ polled + 1 \in Nat /\ Len(chan) \in Nat
      /\ missed \in Nat /\ polled' = polled + 1
  BY LenProperties DEF Poll
<1>1. CASE phase = "stopped"
  BY <1>1 DEF Poll, Broadcast, chanVars
<1>2. CASE phase # "stopped" /\ ~RingFull
  <2>1. chan' = Append(chan, polled + 1) /\ missed' = missed
    BY <1>2 DEF Poll, Broadcast
  <2>2. /\ chan' \in Seq(Nat)
        /\ Len(chan') = Len(chan) + 1
        /\ \A i \in 1..Len(chan) : chan'[i] = chan[i]
        /\ chan'[Len(chan) + 1] = polled + 1
    BY <2>1, <1>0, AppendToNatSeq
  <2>3. Base' = Base
    BY <2>1, <2>2, <1>0 DEF Base
  <2>4. ASSUME ChanShape, NEW i \in 1..Len(chan')
        PROVE  chan'[i] = polled' - Len(chan') + i
    <3>1. polled' - Len(chan') = polled - Len(chan)
      BY <2>2, <1>0
    <3>2. CASE i \in 1..Len(chan)
      BY <3>1, <3>2, <2>2, <2>4 DEF ChanShape
    <3>3. CASE i = Len(chan) + 1
      BY <3>1, <3>3, <2>2, <1>0
    <3>4. QED
      BY <3>2, <3>3, <2>2, <1>0
  <2>5. QED
    BY <2>1, <2>2, <2>3, <2>4, <1>2, <1>0 DEF ChanShape, RingFull
<1>3. CASE phase # "stopped" /\ RingFull
  <2>1. chan' = Append(Tail(chan), polled + 1) /\ missed' = missed + 1
    BY <1>3 DEF Poll, Broadcast
  <2>2. chan # <<>>
    BY <1>3, EmptySeq DEF RingFull
  <2>3. /\ Tail(chan) \in Seq(Nat)
        /\ Len(Tail(chan)) = Len(chan) - 1
        /\ \A i \in 1..Len(Tail(chan)) : Tail(chan)[i] = chan[i + 1]
        /\ Len(chan) \in Nat \ {0}
    BY <2>2, TailOfNatSeq
  <2>4. /\ chan' \in Seq(Nat)
        /\ Len(chan') = Len(chan)
        /\ \A i \in 1..Len(chan) - 1 : chan'[i] = chan[i + 1]
        /\ chan'[Len(chan)] = polled + 1
    <3>1. /\ chan' \in Seq(Nat)
          /\ Len(chan') = Len(Tail(chan)) + 1
          /\ \A i \in 1..Len(Tail(chan)) : chan'[i] = Tail(chan)[i]
          /\ chan'[Len(Tail(chan)) + 1] = polled + 1
      BY <2>1, <2>3, <1>0, AppendToNatSeq
    <3>2. Len(Tail(chan)) + 1 = Len(chan)
      BY <2>3
    <3>3. QED
      BY <3>1, <3>2, <2>3
  <2>5. Base' = Base
    BY <2>1, <2>4, <1>0 DEF Base
  <2>6. ASSUME ChanShape, NEW i \in 1..Len(chan')
        PROVE  chan'[i] = polled' - Len(chan') + i
    <3>1. CASE i = Len(chan)
      BY <3>1, <2>4, <1>0
    <3>2. CASE i \in 1..Len(chan) - 1
      <4>1. i + 1 \in 1..Len(chan)
        BY <3>2, <1>0
      <4>2. chan[i + 1] = polled - Len(chan) + (i + 1)
        BY <4>1, <2>6 DEF ChanShape
      <4>3. QED
        BY <4>2, <3>2, <2>4, <1>0
    <3>3. QED
      BY <3>1, <3>2, <2>4, <1>0
  <2>7. ChanShape => ChanShape'
    BY <2>5, <2>6 DEF ChanShape
  <2>8. QED
    BY <2>1, <2>4, <2>5, <2>7, <1>0
<1>4. QED
  BY <1>1, <1>2, <1>3

--------------------------------------------------------------------------------
\* A fresh subscription satisfies the invariant.
LEMMA InitInv == Init => Inv
<1> SUFFICES ASSUME NEW t \in 0..MaxRecords, NEW p \in 0..t, NEW a \in 0..p,
                    SubInit(t, a), polled = p
             PROVE  Inv
  BY DEF Init
<1> USE SizeAssumption
<1>1. t \in Nat /\ p \in Nat /\ a \in Nat /\ a <= p /\ p <= t
  OBVIOUS
<1>2. chan \in Seq(Nat) /\ Len(chan) = 0
  BY EmptySeq DEF SubInit
<1>3. /\ delivered \in Seq(Nat)
      /\ Len(delivered) = a
      /\ \A i \in 1..a : delivered[i] = i
  BY <1>1 DEF SubInit, Prefix
<1>b. backoff \in BOOLEAN /\ cancelled \in BOOLEAN
  BY Zenon DEF SubInit
<1>4. TypeOK
  BY <1>1, <1>2, <1>3, <1>b DEF SubInit, TypeOK, Phases, CatchingUp
<1>5. ChanShape
  BY <1>1, <1>2 DEF SubInit, ChanShape, Base
<1>6. BatchShape
  BY <1>1 DEF SubInit, BatchShape
<1>7. Progress
  BY <1>1, <1>3 DEF SubInit, Progress, GapFree
<1>8. QED
  BY <1>1, <1>4, <1>5, <1>6, <1>7 DEF Inv, SubInit

\* Every step preserves the invariant.
LEMMA NextInv == Inv /\ [Next]_vars => Inv'
<1> SUFFICES ASSUME Inv, [Next]_vars PROVE Inv'
  OBVIOUS
<1> USE SizeAssumption
<1>t. /\ tail \in Nat /\ polled \in Nat /\ polled <= tail
      /\ chan \in Seq(Nat) /\ Len(chan) \in Nat /\ missed \in Nat
      /\ after \in Nat /\ remaining \in Nat /\ pos \in Nat /\ end \in Nat
      /\ delivered \in Seq(Nat) /\ Len(delivered) \in Nat
  BY LenProperties DEF Inv, TypeOK
<1>frame. ASSUME UNCHANGED <<chan, missed, polled>>, phase # "stopped"
          PROVE  ChanShape' /\ Base' = Base
  BY <1>frame DEF Inv, ChanShape, Base
<1>1. CASE Produce
  <2> USE <1>1, <1>t DEF Produce, taskVars, chanVars
  <2>1. TypeOK' /\ polled' <= tail'
    BY DEF Inv, TypeOK
  <2>2. BatchShape'
    BY DEF Inv, BatchShape
  <2>3. Progress => Progress'
    BY DEF Progress, GapFree, Base, ReadLimit, Min2
  <2>4. QED
    BY <2>1, <2>2, <2>3, <1>frame DEF Inv
<1>2. CASE Poll
  <2> USE <1>2, <1>t DEF Poll, taskVars
  <2>0. TypeOK
    BY DEF Inv
  <2>1. TypeOK' /\ polled' <= tail'
    BY <2>0, BroadcastKeepsBase DEF TypeOK
  <2>2. BatchShape'
    BY DEF Inv, BatchShape
  <2>3. phase # "stopped" => ChanShape' /\ Base' = Base
    BY <2>0, BroadcastKeepsBase DEF Inv
  <2>4. Progress /\ phase # "stopped" => Progress'
    BY <2>3 DEF Progress, GapFree, ReadLimit, Min2
  <2>5. QED
    BY <2>1, <2>2, <2>3, <2>4 DEF Inv
<1>3. CASE CatchUpRead(Readable) /\ UNCHANGED polled
  <2> USE <1>3, <1>t DEF CatchUpRead, AtLoopTop, chanVars
  <2>0. ReadLimit \in Nat /\ after <= tail
    BY DEF ReadLimit, Min2, Inv, BatchShape
  <2>a. /\ end' \in Nat /\ after <= end' /\ end' <= tail
        /\ end' <= after + ReadLimit
        /\ end' < after + ReadLimit => end' = tail
    BY <2>0 DEF Min2
  <2>b. phase = "lagged" => end' - after <= remaining
    BY <2>a, <2>0 DEF ReadLimit, Min2
  <2>1. TypeOK' /\ polled' <= tail'
    BY <2>a DEF Inv, TypeOK, Phases, CatchingUp
  <2>2. BatchShape'
    BY <2>0, <2>a, <2>b DEF Inv, BatchShape, CatchingUp
  <2>3. ChanShape' /\ Base' = Base
    BY <1>frame DEF CatchingUp
  <2>c. Base \in Int /\ Base <= tail
    BY DEF Base
  <2>d. phase' = phase => ReadLimit' = ReadLimit
    BY DEF ReadLimit
  <2>4. Progress => Progress'
    <3> SUFFICES ASSUME Progress PROVE Progress'
      OBVIOUS
    <3>1. GapFree' /\ Len(delivered') = after'
      BY DEF Progress, GapFree
    <3>2. phase' = "live" => after' >= Base'
      BY <2>0, <2>a, <2>c, <2>3 DEF Progress, CatchingUp, ReadLimit, Min2
    <3>3. phase' = "lagged" => after' + remaining' >= Base'
      BY <2>3 DEF Progress
    <3>4. pos' < end' /\ end' - after' < ReadLimit' => end' >= Base'
      BY <2>0, <2>a, <2>c, <2>d, <2>3
    <3>5. QED
      BY <3>1, <3>2, <3>3, <3>4, <2>a DEF Progress
  <2>5. QED
    BY <2>1, <2>2, <2>3, <2>4 DEF Inv, CatchingUp
<1>4. CASE CatchUpError /\ UNCHANGED polled
  <2> USE <1>4, <1>t DEF CatchUpError, AtLoopTop, chanVars
  <2>1. TypeOK' /\ polled' <= tail'
    BY DEF Inv, TypeOK
  <2>2. BatchShape'
    BY DEF Inv, BatchShape
  <2>3. Progress => Progress'
    BY DEF Progress, GapFree, Base, ReadLimit, Min2
  <2>4. QED
    BY <2>1, <2>2, <2>3, <1>frame DEF Inv
<1>5. CASE CatchUpRetry /\ UNCHANGED polled
  <2> USE <1>5, <1>t DEF CatchUpRetry, chanVars
  <2>1. TypeOK' /\ polled' <= tail'
    BY Zenon DEF Inv, TypeOK
  <2>2. BatchShape'
    BY DEF Inv, BatchShape
  <2>3. Progress => Progress'
    BY DEF Progress, GapFree, Base, ReadLimit, Min2
  <2>4. QED
    BY <2>1, <2>2, <2>3, <1>frame DEF Inv
<1>6. CASE CatchUpAccept /\ UNCHANGED polled
  <2> USE <1>6, <1>t DEF CatchUpAccept, chanVars
  <2>0. /\ phase \in CatchingUp /\ ~backoff /\ after <= pos /\ end <= tail
        /\ phase = "lagged" => end - after <= remaining
    BY DEF Inv, BatchShape
  <2>a. /\ delivered' \in Seq(Nat)
        /\ Len(delivered') = Len(delivered) + 1
    BY AppendToNatSeq
  <2>1. TypeOK' /\ polled' <= tail'
    <3>1. remaining' \in Nat
      BY <2>0
    <3>2. phase' \in Phases
      BY <2>0 DEF Phases, CatchingUp
    <3>3. QED
      BY <3>1, <3>2, <2>a DEF Inv, TypeOK
  <2>2. BatchShape'
    BY <2>0 DEF Inv, BatchShape
  <2>3. ChanShape' /\ Base' = Base
    BY <2>0, <1>frame DEF CatchingUp
  <2>b. Base \in Int
    BY DEF Base
  <2>4. Progress => Progress'
    <3> SUFFICES ASSUME Progress PROVE Progress'
      OBVIOUS
    <3>0. Len(delivered) = pos /\ Len(delivered') = pos'
      BY <2>a DEF Progress
    <3>1. GapFree'
      <4>1. delivered' = Append(delivered, Len(delivered) + 1)
        BY <3>0
      <4>2. QED
        BY <4>1, AppendNext DEF Progress, GapFree
    <3>2. CASE pos + 1 < end
      BY <3>0, <3>1, <3>2, <2>3, <2>0 DEF Progress, ReadLimit, Min2, CatchingUp
    <3>3. CASE ~(pos + 1 < end)
      <4>1. pos' = end' /\ after' = end /\ end' = end
        BY <3>3
      <4>2. phase' = "live" => end >= Base
        BY <3>3, <2>0, <2>b DEF Progress, ShortBatch, CatchingUp
      <4>3. phase' = "lagged" => end + remaining' >= Base
        BY <3>3, <2>0, <2>b DEF Progress, CatchingUp
      <4>4. QED
        BY <4>1, <4>2, <4>3, <3>0, <3>1, <2>3 DEF Progress
    <3>4. QED
      BY <3>2, <3>3
  <2>5. phase' # "stopped"
    BY <2>0 DEF CatchingUp
  <2>6. QED
    BY <2>1, <2>2, <2>3, <2>4, <2>5 DEF Inv
<1>7. CASE LiveRecv /\ UNCHANGED polled
  <2> USE <1>7, <1>t DEF LiveRecv
  <2>a. /\ chan' \in Seq(Nat)
        /\ Len(chan') = Len(chan) - 1
        /\ \A i \in 1..Len(chan') : chan'[i] = chan[i + 1]
        /\ Head(chan) = chan[1] /\ Head(chan) \in Nat
        /\ Len(chan) \in Nat \ {0}
    BY TailOfNatSeq
  <2>b. ChanShape /\ Base = polled - Len(chan) /\ Base \in Int
    BY DEF Inv, Base
  <2>c. Head(chan) = Base + 1 /\ Head(chan) <= polled
    BY <2>a, <2>b DEF ChanShape
  <2>d. Base' = Base + 1 /\ Base' \in Int
    BY <2>a, <2>b DEF Base
  <2>1. TypeOK' /\ polled' <= tail'
    <3>1. delivered' \in Seq(Nat) /\ after' \in Nat
      <4>1. CASE AlreadySeen(Head(chan))
        BY <4>1
      <4>2. CASE ~AlreadySeen(Head(chan))
        <5>1. delivered' = Append(delivered, Head(chan)) /\ after' = Head(chan)
          BY <4>2
        <5>2. QED
          BY <5>1, <2>a, AppendToNatSeq
      <4>3. QED
        BY <4>1, <4>2
    <3>2. QED
      BY <3>1, <2>a DEF Inv, TypeOK
  <2>2. BatchShape'
    BY <2>a, <2>c DEF Inv, BatchShape, CatchingUp
  <2>3. ChanShape'
    <3>1. ASSUME NEW i \in 1..Len(chan')
          PROVE  chan'[i] = polled' - Len(chan') + i
      <4>1. i + 1 \in 1..Len(chan)
        BY <2>a
      <4>2. chan[i + 1] = polled - Len(chan) + (i + 1)
        BY <4>1, <2>b DEF ChanShape
      <4>3. QED
        BY <4>2, <2>a
    <3>2. QED
      BY <3>1, <2>b, <2>d DEF ChanShape
  <2>4. Progress => Progress'
    <3> SUFFICES ASSUME Progress PROVE Progress'
      OBVIOUS
    <3>0. pos = end /\ Len(delivered) = after /\ after >= Base
      BY DEF Progress, Inv, BatchShape, CatchingUp
    <3>1. CASE AlreadySeen(Head(chan))
      BY <3>0, <3>1, <2>c, <2>d DEF Progress, GapFree, AlreadySeen
    <3>2. CASE ~AlreadySeen(Head(chan))
      <4>1. Head(chan) = after + 1
        BY <3>0, <3>2, <2>b, <2>c DEF AlreadySeen
      <4>2. delivered' = Append(delivered, Len(delivered) + 1) /\ after' = after + 1
        BY <4>1, <3>0, <3>2
      <4>3. GapFree' /\ Len(delivered') = after'
        BY <4>1, <4>2, <3>0, <3>2, AppendNext, AppendToNatSeq
           DEF Progress, GapFree
      <4>4. QED
        BY <4>2, <4>3, <3>0, <2>b, <2>d DEF Progress, CatchingUp
    <3>3. QED
      BY <3>1, <3>2
  <2>5. QED
    BY <2>1, <2>2, <2>3, <2>4 DEF Inv
<1>8. CASE LiveLagged /\ UNCHANGED polled
  <2> USE <1>8, <1>t DEF LiveLagged, RecordsMissed
  <2>1. TypeOK' /\ polled' <= tail'
    BY DEF Inv, TypeOK, Phases, CatchingUp
  <2>2. BatchShape'
    BY DEF Inv, BatchShape, CatchingUp
  <2>3. Base' = Base + missed /\ Base \in Int
    BY DEF Base
  <2>4. ChanShape'
    BY <2>3 DEF Inv, ChanShape
  <2>5. Progress => Progress'
    BY <2>3 DEF Progress, GapFree, Inv, BatchShape, CatchingUp
  <2>6. QED
    BY <2>1, <2>2, <2>4, <2>5 DEF Inv
<1>9. CASE Cancel /\ UNCHANGED polled
  <2> USE <1>9, <1>t DEF Cancel, taskVars, chanVars
  <2>1. TypeOK' /\ polled' <= tail' /\ BatchShape'
    BY DEF Inv, TypeOK, BatchShape
  <2>2. QED
    BY <2>1, <1>frame DEF Inv
<1>10. CASE CatchUpCancelled /\ UNCHANGED polled
  <2> USE <1>10, <1>t DEF CatchUpCancelled, chanVars
  <2>b. backoff' \in BOOLEAN /\ cancelled' \in BOOLEAN
    BY Zenon DEF Inv, TypeOK
  <2>1. TypeOK' /\ polled' <= tail' /\ BatchShape'
    BY <2>b DEF Inv, TypeOK, BatchShape, Phases
  <2>2. ChanShape'
    BY <1>frame DEF CatchingUp
  <2>3. QED
    BY <2>1, <2>2 DEF Inv
<1>11. CASE LiveCancelled /\ UNCHANGED polled
  <2> USE <1>11, <1>t DEF LiveCancelled, chanVars
  <2>1. TypeOK' /\ polled' <= tail' /\ BatchShape'
    BY DEF Inv, TypeOK, BatchShape, Phases, CatchingUp
  <2>2. QED
    BY <2>1 DEF Inv
<1>12. CASE UNCHANGED vars
  <2> USE <1>12, <1>t DEF vars, subVars
  <2>1. TypeOK' /\ polled' <= tail' /\ BatchShape'
    BY DEF Inv, TypeOK, BatchShape
  <2>2. Progress => Progress'
    BY DEF Progress, GapFree, Base, ReadLimit, Min2
  <2>3. QED
    BY <2>1, <2>2, <1>frame DEF Inv
<1>13. QED
  BY <1>1, <1>2, <1>3, <1>4, <1>5, <1>6, <1>7, <1>8, <1>9, <1>10, <1>11, <1>12
     DEF Next, Running, Task, TaskStep, ShutdownStep

--------------------------------------------------------------------------------
\* Every reachable state of the Kafka subscription is well typed.
THEOREM TypeCorrect == Spec => []TypeOK
<1>1. Inv => TypeOK
  BY DEF Inv
<1>2. QED
  BY <1>1, InitInv, NextInv, PTL DEF Spec

\* Until the node is closed the subscriber has accepted a prefix of the log,
\* each record once and in order, whatever the capacity of the channel, the
\* batch sizes, the failures of reads and the records that cannot be read.
THEOREM NoGapWhileRunning == Spec => []GapFreeWhileRunning
<1>1. Inv => GapFreeWhileRunning
  BY DEF Inv, Progress, GapFreeWhileRunning
<1>2. QED
  BY <1>1, InitInv, NextInv, PTL DEF Spec

--------------------------------------------------------------------------------
\* What the running subscription does to the log and the history, in terms of
\* the abstract specification.
LEMMA RunningImplements ==
    ASSUME Inv, ~cancelled, ~cancelled', [Running]_vars, Inv'
    PROVE  [Ordered!Next]_Ordered!vars
<1> USE SizeAssumption DEF Ordered!vars
<1>t. tail \in Nat /\ delivered \in Seq(Nat) /\ Len(delivered) \in Nat
  BY LenProperties DEF Inv, TypeOK
<1>1. CASE Produce
  BY <1>1 DEF Produce, taskVars, Ordered!Next, Ordered!Append1
<1>2. CASE Poll
  BY <1>2 DEF Poll, taskVars
<1>3. CASE CatchUpAccept
  <2>1. Len(delivered) = pos /\ pos < end /\ end <= tail
    BY <1>3 DEF CatchUpAccept, Inv, Progress, BatchShape
  <2>2. pos \in Nat /\ end \in Nat
    BY DEF Inv, TypeOK
  <2>3. QED
    BY <1>3, <2>1, <2>2, <1>t DEF CatchUpAccept, Ordered!Next, Ordered!Deliver
<1>4. CASE LiveRecv
  <2>1. CASE AlreadySeen(Head(chan))
    BY <1>4, <2>1 DEF LiveRecv
  <2>2. CASE ~AlreadySeen(Head(chan))
    <3>1. delivered' = Append(delivered, Head(chan)) /\ after' = Head(chan)
          /\ tail' = tail /\ chan # <<>>
      BY <1>4, <2>2 DEF LiveRecv
    <3>2. Head(chan) \in Nat
      BY <3>1, TailOfNatSeq DEF Inv, TypeOK
    <3>3. Len(delivered') = Len(delivered) + 1
          /\ delivered'[Len(delivered) + 1] = Head(chan)
      BY <3>1, <3>2, <1>t, AppendToNatSeq
    <3>4. Head(chan) = Len(delivered) + 1
      BY <3>3, <1>t DEF Inv, Progress, GapFree
    <3>5. after' <= tail'
      BY DEF Inv, BatchShape
    <3>6. QED
      BY <3>1, <3>2, <3>4, <3>5, <1>t DEF Ordered!Next, Ordered!Deliver
  <2>3. QED
    BY <2>1, <2>2
<1>5. CASE CatchUpRead(Readable) \/ CatchUpError \/ CatchUpRetry \/ LiveLagged
  BY <1>5 DEF CatchUpRead, CatchUpError, CatchUpRetry, LiveLagged
<1>6. CASE UNCHANGED vars
  BY <1>6 DEF vars, subVars
<1>7. QED
  BY <1>1, <1>2, <1>3, <1>4, <1>5, <1>6 DEF Running, Task, TaskStep

\* Until the node is closed, the Kafka log and its subscription implement the
\* abstract ordered delivery, for every value of the constants.
THEOREM ImplementsOrderedDelivery == Spec => OrderedSpec
<1>1. Init => Ordered!Init /\ Inv
  <2> SUFFICES ASSUME Init PROVE Ordered!Init /\ Inv
    OBVIOUS
  <2>1. PICK t \in 0..MaxRecords : \E p \in 0..t : \E a \in 0..p : SubInit(t, a)
    BY DEF Init
  <2>2. PICK p \in 0..t : \E a \in 0..p : SubInit(t, a)
    BY <2>1
  <2>3. PICK a \in 0..p : SubInit(t, a)
    BY <2>2
  <2>4. tail \in Nat /\ a \in 0..tail /\ delivered = Ordered!Prefix(a)
    BY <2>3, SizeAssumption DEF SubInit, Prefix, Ordered!Prefix
  <2>5. QED
    BY <2>4, InitInv DEF Ordered!Init
<1>2. Inv /\ [Next]_vars => Inv' /\ [cancelled \/ Ordered!Next]_Ordered!vars
  <2> SUFFICES ASSUME Inv, [Next]_vars, ~cancelled
               PROVE  Inv' /\ [Ordered!Next]_Ordered!vars
    BY NextInv
  <2>1. Inv'
    BY NextInv
  <2>2. CASE ShutdownStep /\ UNCHANGED polled
    <3>1. UNCHANGED <<tail, delivered>>
      BY <2>2 DEF ShutdownStep, Cancel, CatchUpCancelled, LiveCancelled, taskVars
    <3>2. QED
      BY <2>1, <3>1 DEF Ordered!vars
  <2>3. CASE [Running]_vars
    <3>1. cancelled' = cancelled
      BY <2>3 DEF Running, Task, TaskStep, Produce, Poll, CatchUpRead, CatchUpError,
             CatchUpRetry, CatchUpAccept, LiveRecv, LiveLagged, vars, subVars
    <3>2. QED
      BY <2>1, <2>3, <3>1, RunningImplements
  <2>4. QED
    BY <2>2, <2>3 DEF Next
<1>3. QED
  BY <1>1, <1>2, PTL DEF Spec, OrderedSpec
================================================================================
