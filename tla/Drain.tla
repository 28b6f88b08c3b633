------------------------------- MODULE Drain -------------------------------
(***************************************************************************)
(* drain_messages (common/kafka.py): read a topic from its first offset to *)
(* the end of every partition, once.  The broker and librdkafka are        *)
(* external: a poll returns nothing, the next message of some partition in *)
(* offset order, the end-of-partition event of a partition read to its     *)
(* end, or an error.  A producer may still append while the drain runs;    *)
(* reading past an announced end announces the new end again.              *)
(***************************************************************************)
EXTENDS Integers, Sequences

CONSTANTS
    Partitions,
    MaxLength,       \* bound: messages ever in one partition
    EmptyPollLimit   \* _EMPTY_POLL_LIMIT

ASSUME DrainAssumption == MaxLength \in Nat /\ EmptyPollLimit \in Nat \ {0}

VARIABLES
    log,         \* broker: messages in each partition
    atStart,     \* history: their number when the drain was assigned
    position,    \* consumer: messages delivered from each partition
    announced,   \* consumer: partitions whose end has been announced
    pending,     \* partitions not yet at end-of-log
    messages,    \* what has been read: <<partition, index>>, in order
    empty,       \* empty polls in a row
    result       \* "draining", "returned", "stalled" or "error"

vars == <<log, atStart, position, announced, pending, messages, empty, result>>

Polls == result = "draining" /\ pending # {} /\ empty < EmptyPollLimit

Init ==
    /\ log \in [Partitions -> 0..MaxLength]
    /\ atStart = log
    /\ position = [p \in Partitions |-> 0]
    /\ announced = {}
    /\ pending = Partitions
    /\ messages = <<>>
    /\ empty = 0
    /\ result = "draining"

\* External: a producer appends a message.
Produce(p) ==
    /\ log[p] < MaxLength
    /\ log' = [log EXCEPT ![p] = @ + 1]
    /\ UNCHANGED <<atStart, position, announced, pending, messages, empty, result>>

\* External: an idle broker, or one that has nothing to say any more.
PollNothing ==
    /\ Polls
    /\ empty' = empty + 1
    /\ UNCHANGED <<log, atStart, position, announced, pending, messages, result>>

PollMessage(p) ==
    /\ Polls /\ position[p] < log[p]
    /\ position' = [position EXCEPT ![p] = @ + 1]
    /\ announced' = announced \ {p}
    /\ messages' = Append(messages, <<p, position[p] + 1>>)
    /\ empty' = 0
    /\ UNCHANGED <<log, atStart, pending, result>>

\* Mutant: the first end-of-partition event ends the drain.
MutantFirstEof(p) ==
    /\ Polls /\ position[p] = log[p] /\ p \notin announced
    /\ announced' = announced \cup {p}
    /\ pending' = {}
    /\ empty' = 0
    /\ UNCHANGED <<log, atStart, position, messages, result>>

PollEndOfPartition(p) ==
    /\ Polls /\ position[p] = log[p] /\ p \notin announced
    /\ announced' = announced \cup {p}
    /\ pending' = pending \ {p}
    /\ empty' = 0
    /\ UNCHANGED <<log, atStart, position, messages, result>>

PollError ==
    /\ Polls
    /\ result' = "error"
    /\ UNCHANGED <<log, atStart, position, announced, pending, messages, empty>>

\* Mutant: the stall guard ends the polling and raises nothing.
MutantNoGuard ==
    /\ result = "draining" /\ pending = {}
    /\ result' = "returned"
    /\ UNCHANGED <<log, atStart, position, announced, pending, messages, empty>>

\* After the loop: a truncated read is refused, a complete one returned.
Finish ==
    /\ result = "draining" /\ ~Polls
    /\ result' = IF pending # {} THEN "stalled" ELSE "returned"
    /\ UNCHANGED <<log, atStart, position, announced, pending, messages, empty>>

Drained ==
    \/ PollNothing \/ PollError \/ Finish
    \/ \E p \in Partitions : PollMessage(p) \/ PollEndOfPartition(p)

Next == Drained \/ \E p \in Partitions : Produce(p)

Spec == Init /\ [][Next]_vars

\* poll(0.1) always comes back.
FairSpec == Spec /\ WF_vars(Drained)
----------------------------------------------------------------------------

TypeOK ==
    /\ log \in [Partitions -> 0..MaxLength]
    /\ atStart \in [Partitions -> 0..MaxLength]
    /\ position \in [Partitions -> 0..MaxLength]
    /\ announced \subseteq Partitions /\ pending \subseteq Partitions
    /\ messages \in Seq(Partitions \X (1..MaxLength))
    /\ empty \in 0..EmptyPollLimit
    /\ result \in {"draining", "returned", "stalled", "error"}

Topic == INSTANCE TopicRead
           WITH Partitions <- Partitions, log <- log, atStart <- atStart,
                read <- position, messages <- messages, result <- result

\* The drain implements the bounded read: no offset is skipped, read twice or
\* out of order, however the partitions interleave and whatever is appended
\* meanwhile, and it returns only a complete read: a stall raises and never
\* truncates ("raise (loud) rather than return a truncated read").
RefinesTopicRead == Topic!ReadSpec

\* The drain ends, in a complete read or loudly, even when the broker goes
\* quiet for good.
DrainEnds == <>(result # "draining")
=============================================================================
