---------------------------- MODULE Drain_proofs ----------------------------
(***************************************************************************)
(* Proofs about Drain, for every set of partitions, every length of the    *)
(* log and every poll limit.                                               *)
(*                                                                         *)
(* The argument.  The log only grows, so the end at which a partition is   *)
(* announced lies at or beyond what it held when the drain began; the      *)
(* position never recedes, so a partition that has left `pending` stays    *)
(* completely read.  The loop ends without raising only when `pending` is  *)
(* empty.                                                                  *)
(***************************************************************************)
EXTENDS Drain, TLAPS

\* The log only grows.
StartWithinLog == \A p \in Partitions : atStart[p] <= log[p]

\* A partition that is no longer pending holds nothing the drain has missed.
EndedIsRead == \A p \in Partitions \ pending : atStart[p] <= position[p]

\* The inductive invariant.
IInv == TypeOK /\ StartWithinLog /\ EndedIsRead

----------------------------------------------------------------------------
\* Nothing is read and every partition is pending when the drain begins.
LEMMA InitIInv ==
    ASSUME Init
    PROVE  IInv
  BY DrainAssumption DEF Init, IInv, TypeOK, StartWithinLog, EndedIsRead

\* A producer's append leaves what was read and what is pending alone.
LEMMA ProduceIInv ==
    ASSUME IInv, NEW p \in Partitions, Produce(p)
    PROVE  IInv'
  <1> USE DrainAssumption DEF IInv, TypeOK
  <1>1. log[p] \in 0..MaxLength /\ log[p] + 1 \in 0..MaxLength
    BY DEF Produce
  <1>2. log' \in [Partitions -> 0..MaxLength]
        /\ \A q \in Partitions : log[q] <= log'[q]
    BY <1>1 DEF Produce
  <1>3. TypeOK'
    BY <1>2 DEF Produce
  <1>4. StartWithinLog' /\ EndedIsRead'
    BY <1>2 DEF Produce, StartWithinLog, EndedIsRead
  <1>5. QED
    BY <1>3, <1>4

\* A delivered message moves one position forward, within the log.
LEMMA MessageIInv ==
    ASSUME IInv, NEW p \in Partitions, PollMessage(p)
    PROVE  IInv'
  <1> USE DrainAssumption DEF IInv, TypeOK
  <1>1. position[p] + 1 \in 1..MaxLength
    BY DEF PollMessage
  <1>2. position' \in [Partitions -> 0..MaxLength]
        /\ \A q \in Partitions : position[q] <= position'[q]
    BY <1>1 DEF PollMessage
  <1>3. messages' \in Seq(Partitions \X (1..MaxLength))
    BY <1>1 DEF PollMessage
  <1>4. TypeOK'
    BY <1>2, <1>3 DEF PollMessage
  <1>5. StartWithinLog' /\ EndedIsRead'
    BY <1>2 DEF PollMessage, StartWithinLog, EndedIsRead
  <1>6. QED
    BY <1>4, <1>5

\* An announced end is the end of a log that holds all it held at the start.
LEMMA EndIInv ==
    ASSUME IInv, NEW p \in Partitions, PollEndOfPartition(p)
    PROVE  IInv'
  <1> USE DrainAssumption DEF IInv, TypeOK
  <1>1. TypeOK' /\ StartWithinLog'
    BY DEF PollEndOfPartition, StartWithinLog
  <1>2. atStart[p] <= position[p]
    BY DEF PollEndOfPartition, StartWithinLog
  <1>3. EndedIsRead'
    BY <1>2 DEF PollEndOfPartition, EndedIsRead
  <1>4. QED
    BY <1>1, <1>3

\* The other steps change neither the log nor what was read.
LEMMA QuietIInv ==
    ASSUME IInv, PollNothing \/ PollError \/ Finish \/ UNCHANGED vars
    PROVE  IInv'
  <1> USE DrainAssumption DEF IInv, TypeOK, StartWithinLog, EndedIsRead
  <1>1. CASE PollNothing
    BY <1>1 DEF PollNothing, Polls
  <1>2. CASE PollError
    BY <1>2 DEF PollError
  <1>3. CASE Finish
    BY <1>3 DEF Finish
  <1>4. CASE UNCHANGED vars
    BY <1>4 DEF vars
  <1>5. QED
    BY <1>1, <1>2, <1>3, <1>4

LEMMA NextIInv ==
    ASSUME IInv, [Next]_vars
    PROVE  IInv'
  BY ProduceIInv, MessageIInv, EndIInv, QuietIInv DEF Next, Drained

LEMMA SpecIInv == Spec => []IInv
  <1>1. Init => IInv
    BY InitIInv
  <1>2. IInv /\ [Next]_vars => IInv'
    BY NextIInv
  <1>3. QED
    BY <1>1, <1>2, PTL DEF Spec

----------------------------------------------------------------------------
\* The consumer's state is always of its type: positions stay within the log
\* and the count of empty polls within its limit.
THEOREM TypeCorrect == Spec => []TypeOK
  <1>1. IInv => TypeOK
    BY DEF IInv
  <1>2. QED
    BY <1>1, SpecIInv, PTL

\* Each step of the drain is a step of the bounded read, or none.
LEMMA StepReads ==
    ASSUME IInv, [Next]_vars
    PROVE  [Topic!ReadNext]_(Topic!readVars)
  <1>1. CASE \E p \in Partitions : Produce(p)
    BY <1>1 DEF Produce, Topic!ReadNext, Topic!Grow
  <1>2. CASE \E p \in Partitions : PollMessage(p)
    BY <1>2 DEF PollMessage, Polls, Topic!ReadNext, Topic!Deliver
  <1>3. CASE PollNothing \/ UNCHANGED vars
        \/ \E p \in Partitions : PollEndOfPartition(p)
    BY <1>3 DEF PollNothing, PollEndOfPartition, vars, Topic!readVars
  <1>4. CASE PollError
    BY <1>4 DEF PollError, Polls, Topic!ReadNext, Topic!Refuse
  <1>5. CASE Finish /\ pending # {}
    BY <1>5 DEF Finish, Topic!ReadNext, Topic!Refuse
  <1>6. CASE Finish /\ pending = {}
    BY <1>6 DEF Finish, IInv, EndedIsRead, Topic!ReadNext, Topic!Return
  <1>7. QED
    BY <1>1, <1>2, <1>3, <1>4, <1>5, <1>6 DEF Next, Drained

\* The drain implements the bounded read of a topic: in order, once, and
\* complete whenever it returns.
THEOREM ImplementsTopicRead == Spec => RefinesTopicRead
  <1>1. Init => Topic!ReadInit
    BY DEF Init, Topic!ReadInit
  <1>2. IInv /\ [Next]_vars => [Topic!ReadNext]_(Topic!readVars)
    BY StepReads
  <1>3. QED
    BY <1>1, <1>2, SpecIInv, PTL DEF Spec, RefinesTopicRead, Topic!ReadSpec
=============================================================================
