--------------------------- MODULE Alerting_proofs ---------------------------
(***************************************************************************)
(* Proofs about Alerting and the AgentLoop it drives, for any probes,      *)
(* rounds, payloads, tables, parts and samples.                            *)
(*                                                                         *)
(* The four parts of the state that meet here are proved about apart, each *)
(* with the inductive invariant it needs: the loop's record of what ran,   *)
(* the gateway and the command make is at, the two samples of the scrape   *)
(* and the merges that end between their queries, and the request's groups *)
(* beside the sweep that answers one.                                      *)
(*                                                                         *)
(* The context is the fifth.  What is compared there are totals of rows,   *)
(* so the module first gets from the recursion behind Total that it adds   *)
(* up (TotalStep) and that rows which each count, or total, a part of some *)
(* things count all of them (CountByParts, SumByParts).  Each query and    *)
(* each probe is then such a count over one reading of the tables that is  *)
(* Sound, and the invariant ReadInv says that the readings behind a        *)
(* context are ever later ones.                                            *)
(***************************************************************************)
EXTENDS Alerting, FiniteSetTheorems, SequenceTheorems, WellFoundedInduction, TLAPS

(* Finite sets.                                                             *)

\* Of some subsets of a finite set, one holds no other.
LEMMA SmallestSubset ==
    ASSUME NEW S, IsFiniteSet(S), NEW Q \in SUBSET (SUBSET S), Q # {}
    PROVE  \E R \in Q : \A U \in SUBSET S : U \subseteq R /\ U # R => U \notin Q
  <1>1. Q \subseteq FiniteSubsetsOf(S)
    BY FS_FiniteSubsetsOfFinite
  <1>2. PICK R \in Q : \A U \in Q : ~(<<U, R>> \in StrictSubsetOrdering(S))
    BY <1>1, FS_StrictSubsetOrderingWellFounded, WFMin
  <1> QED
    BY <1>2 DEF StrictSubsetOrdering

\* Of a finite set of numbers there is a greatest: its least cofinal subset has one member.
LEMMA HasGreatest ==
    ASSUME NEW S \in SUBSET Nat, IsFiniteSet(S), S # {}
    PROVE  \E m \in S : \A n \in S : n <= m
  <1> DEFINE Cofinal == {T \in SUBSET S : \A n \in S : \E m \in T : n <= m}
  <1>1. S \in Cofinal
    OBVIOUS
  <1>2. Cofinal \subseteq FiniteSubsetsOf(S)
    BY FS_FiniteSubsetsOfFinite
  <1>3. PICK T \in Cofinal : \A U \in Cofinal : ~(<<U, T>> \in StrictSubsetOrdering(S))
    <2> HIDE DEF Cofinal
    <2> QED
      BY <1>1, <1>2, FS_StrictSubsetOrderingWellFounded, WFMin
  <1>4. T \subseteq S /\ \A n \in S : \E m \in T : n <= m
    OBVIOUS
  <1>5. PICK m \in T : TRUE
    BY <1>4
  <1>6. ASSUME NEW a \in T, NEW b \in T, a < b  PROVE FALSE
    <2>1. T \ {a} \in Cofinal
      <3>1. ASSUME NEW n \in S  PROVE \E k \in T \ {a} : n <= k
        <4>1. PICK k \in T : n <= k
          BY <1>4
        <4>2. CASE k # a
          BY <4>1, <4>2
        <4>3. CASE k = a
          <5>1. n <= b /\ b \in T \ {a}
            BY <1>4, <1>6, <4>1, <4>3
          <5> QED
            BY <5>1
        <4> QED
          BY <4>2, <4>3
      <3> QED
        BY <1>4, <3>1
    <2> HIDE DEF Cofinal
    <2>2. <<T \ {a}, T>> \in StrictSubsetOrdering(S)
      BY <1>4, <1>6 DEF StrictSubsetOrdering
    <2> QED
      BY <1>3, <2>1, <2>2
  <1>7. \A n \in S : n <= m
    <2> SUFFICES ASSUME NEW n \in S  PROVE n <= m
      OBVIOUS
    <2>1. PICK k \in T : n <= k
      BY <1>4
    <2>2. ~(m < k)
      BY <1>6
    <2> QED
      BY <1>4, <2>1, <2>2
  <1> QED
    BY <1>4, <1>7

----------------------------------------------------------------------------
(* Every step, as the loop sees it. *)
LEMMA LoopSteps ==
    ASSUME [Next]_vars
    PROVE  \/ UNCHANGED loopVars
           \/ Loop
           \/ Renew("running")
           \/ Renew("none")
  BY DEF Next, Run, Serve, Reset, Write, Stage, CommandFails, FirstSample, SampleParts,
         SampleMerges, Unsettled, PushStorage, MergeBegins, MergeRuns, MergeEnds, Post, Sweep, Query,
         Reason, SweepFails, AgentStep, Handle, Respond, Close, vars

----------------------------------------------------------------------------
(* The loop: what ran is what is cited, and what was asked is answered.      *)

\* A probe is recorded when it returned rows, and a finding takes the record.
Cited ==
    /\ executed = succeeded
    /\ outcome = "finding" => executed # {} /\ probes_run = executed

\* A turn records the probes that ran in it.
LEMMA LoopCited ==
    ASSUME Cited, Loop
    PROVE  Cited'
  <1>1. ASSUME NEW turn, Took(turn)
        PROVE  executed' = succeeded' /\ outcome = "running"
    BY <1>1 DEF Took, ExecutedAfter, Cited
  <1>2. CASE NoToolUse
    BY <1>1, <1>2 DEF NoToolUse, Return, Cited
  <1>3. ASSUME NEW turn \in Turns, ProbeTurn(turn) \/ RejectTurn(turn)
        PROVE  Cited'
    BY <1>1, <1>3 DEF ProbeTurn, RejectTurn, Continue, Cited
  <1>4. ASSUME NEW turn \in Turns, SubmitTurn(turn) \/ SecondBlindTurn(turn)
        PROVE  Cited'
    BY <1>1, <1>4 DEF SubmitTurn, SecondBlindTurn, Return, Cited
  <1>5. CASE ApiError \/ BudgetExhausted
    BY <1>5 DEF ApiError, BudgetExhausted, Return, Cited
  <1>6. QED
    BY <1>2, <1>3, <1>4, <1>5 DEF Loop

\* Every finding cites a Test step that really ran, and exactly the probes that
\* returned rows.
THEOREM FindingsCiteTheirTests == Spec => []FindingCitesItsTests
  <1>1. Init => Cited
    BY DEF Init, LoopInit, Cited
  <1>2. Cited /\ [Next]_vars => Cited'
    <2> SUFFICES ASSUME Cited, [Next]_vars
                 PROVE  Cited'
      OBVIOUS
    <2>1. CASE UNCHANGED loopVars \/ Renew("running") \/ Renew("none")
      BY <2>1 DEF loopVars, Renew, Cited
    <2>2. QED
      BY <2>1, LoopSteps, LoopCited
  <1>3. Cited => FindingCitesItsTests
    BY DEF Cited, FindingCitesItsTests
  <1>4. QED
    BY <1>1, <1>2, <1>3, PTL DEF Spec

\* Of the submissions of a turn, the loop keeps the last.
LEMMA TheSubmission ==
    ASSUME NEW turn \in Turns, Submits(turn) # {}
    PROVE  LastSubmit(turn) \in Submits(turn) /\ \A j \in Submits(turn) : j <= LastSubmit(turn)
  <1>1. PICK n \in 0..MaxBlocks : turn \in [1..n -> Blocks]
    BY DEF Turns
  <1>2. Submits(turn) \subseteq 1..n
    BY <1>1 DEF Submits
  <1>3. IsFiniteSet(Submits(turn)) /\ Submits(turn) \in SUBSET Nat
    <2>1. IsFiniteSet(1..n) /\ 1..n \subseteq Nat
      BY <1>1, RoundsAssumption, FS_Interval
    <2> QED
      BY <1>2, <2>1, FS_Subset
  <1>4. PICK m \in Submits(turn) : \A j \in Submits(turn) : j <= m
    BY <1>3, HasGreatest
  <1> QED
    BY <1>4 DEF LastSubmit

\* A turn that goes on answers its probes and its last submission.
LEMMA LoopAnswers ==
    ASSUME AnsweredButSuperseded, Loop
    PROVE  AnsweredButSuperseded'
  <1>1. CASE NoToolUse \/ ApiError \/ BudgetExhausted
    BY <1>1 DEF NoToolUse, ApiError, BudgetExhausted, Return, AnsweredButSuperseded
  <1>2. ASSUME NEW turn \in Turns, SubmitTurn(turn) \/ SecondBlindTurn(turn)
        PROVE  AnsweredButSuperseded'
    BY <1>2 DEF SubmitTurn, SecondBlindTurn, Return, AnsweredButSuperseded
  <1>3. ASSUME NEW turn \in Turns, Took(turn)
        PROVE  /\ DOMAIN asked' = DOMAIN turn
               /\ Superseded' = {i \in Submits(turn) : \E j \in Submits(turn) : j > i}
    <2>1. asked' = [i \in DOMAIN turn |-> turn[i].tool]
      BY <1>3 DEF Took
    <2> QED
      BY <2>1 DEF Superseded, Submits
  <1>4. ASSUME NEW turn \in Turns, ProbeTurn(turn)
        PROVE  AnsweredButSuperseded'
    <2>1. Took(turn) /\ Submits(turn) = {} /\ answered' = DOMAIN turn
      BY <1>4 DEF ProbeTurn, Continue, Dispatched
    <2> QED
      BY <1>3, <2>1 DEF AnsweredButSuperseded
  <1>5. ASSUME NEW turn \in Turns, RejectTurn(turn)
        PROVE  AnsweredButSuperseded'
    <2> DEFINE last == LastSubmit(turn)
    <2>1. /\ Took(turn) /\ Submits(turn) # {}
          /\ answered' = (DOMAIN turn \ Submits(turn)) \cup {last}
      BY <1>5 DEF RejectTurn, Continue, Dispatched
    <2>2. /\ last \in Submits(turn) /\ \A j \in Submits(turn) : j <= last
          /\ Submits(turn) \subseteq DOMAIN turn
      BY <2>1, TheSubmission DEF Submits
    <2>3. \A j \in Submits(turn) : j \in Int
      <3>1. PICK n \in 0..MaxBlocks : turn \in [1..n -> Blocks]
        BY DEF Turns
      <3> QED
        BY <3>1 DEF Submits
    <2> HIDE DEF last
    <2>4. {i \in Submits(turn) : \E j \in Submits(turn) : j > i} = Submits(turn) \ {last}
      BY <2>2, <2>3
    <2>5. answered' = DOMAIN turn \ (Submits(turn) \ {last})
      BY <2>1, <2>2
    <2> QED
      BY <1>3, <2>1, <2>4, <2>5 DEF AnsweredButSuperseded
  <1>6. QED
    BY <1>1, <1>2, <1>4, <1>5 DEF Loop

\* While the conversation goes on, exactly the submissions that a later one of
\* their turn replaced are left without a tool_result, whatever the model asks.
THEOREM EveryUseIsAnswered == Spec => []AnsweredButSuperseded
  <1>1. Init => AnsweredButSuperseded
    BY DEF Init, LoopInit, AnsweredButSuperseded
  <1>2. AnsweredButSuperseded /\ [Next]_vars => AnsweredButSuperseded'
    <2> SUFFICES ASSUME AnsweredButSuperseded, [Next]_vars
                 PROVE  AnsweredButSuperseded'
      OBVIOUS
    <2>1. CASE UNCHANGED loopVars \/ Renew("running") \/ Renew("none")
      BY <2>1 DEF loopVars, Renew, AnsweredButSuperseded, Superseded
    <2>2. QED
      BY <2>1, LoopSteps, LoopAnswers
  <1>3. QED
    BY <1>1, <1>2, PTL DEF Spec

----------------------------------------------------------------------------
(* The gateway: the wipe comes before the first push of a run.              *)

AllOf(run) == \A j \in DOMAIN gateway : gateway[j] = run

\* What the gateway holds while make is at a command.  A wipe that fails may
\* leave everything an earlier run pushed, and nothing of this one.
GatewayByCommand ==
    /\ make \in {"reset", "engine", "reconcile", "clickhouse", "done", "failed"}
    /\ make = "reset" => AllOf("earlier")
    /\ make \in Stages \cup {"clickhouse", "done"} => AllOf("this")
    /\ make = "failed" => AllOf("this") \/ AllOf("earlier")

\* A wipe and a push of a stage that has begun leave metrics of this run only.
LEMMA GatewayAfter ==
    /\ gateway' = Wiped => AllOf("this")'
    /\ \A job : AllOf("this") /\ gateway' = Pushed(job) => AllOf("this")'
  BY DEF Wiped, Pushed, AllOf

\* Other steps leave the gateway to the command make is at.
LEMMA GatewayKept ==
    ASSUME GatewayByCommand, UNCHANGED <<make, gateway>>
    PROVE  GatewayByCommand'
  BY DEF GatewayByCommand, AllOf, Stages

\* Resets and pushes leave what the next command finds.
LEMMA GatewaySteps ==
    ASSUME GatewayByCommand, [Next]_vars
    PROVE  GatewayByCommand'
  <1>1. CASE UNCHANGED <<make, gateway>>
    BY <1>1, GatewayKept
  <1>2. CASE Reset
    BY <1>2, GatewayAfter DEF Reset, After, GatewayByCommand, Stages
  <1>3. CASE Stage
    <2>1. make \in Stages /\ AllOf("this") /\ gateway' = Pushed(make)
          /\ make' \in {"reconcile", "clickhouse"}
      BY <1>3 DEF Stage, After, GatewayByCommand, Stages
    <2>2. QED
      BY <2>1, GatewayAfter DEF GatewayByCommand, Stages
  <1>4. CASE CommandFails
    <2>1. make' = "failed"
      BY <1>4 DEF CommandFails
    <2>2. AllOf("this")' \/ AllOf("earlier")'
      <3>1. CASE make \in {"reset"} \cup Stages /\ UNCHANGED gateway
        BY <3>1 DEF GatewayByCommand, AllOf, Stages
      <3>2. CASE gateway' = Wiped
        BY <3>2, GatewayAfter
      <3>3. CASE make \in Stages /\ gateway' = Pushed(make)
        BY <3>3, GatewayAfter DEF GatewayByCommand
      <3>4. QED
        BY <1>4, <3>1, <3>2, <3>3 DEF CommandFails
    <2>3. QED
      BY <2>1, <2>2 DEF GatewayByCommand, Stages
  <1>5. CASE Unsettled \/ PushStorage
    <2>1. make = "clickhouse" /\ AllOf("this") /\ make' \in {"done", "failed"}
          /\ gateway' \in {gateway, Pushed(make)}
      BY <1>5 DEF Unsettled, PushStorage, After, GatewayByCommand
    <2>2. AllOf("this")'
      BY <2>1, GatewayAfter DEF AllOf
    <2>3. make' = "done" => gateway' = Pushed(make) \/ AllOf("this")'
      BY <2>2
    <2>4. QED
      BY <2>1, <2>2 DEF GatewayByCommand, Stages
  <1>6. QED
    BY <1>1, <1>2, <1>3, <1>4, <1>5
       DEF Next, Run, Serve, Write, FirstSample, SampleParts, SampleMerges, MergeBegins,
           MergeRuns, MergeEnds, Post, Sweep, Query, Reason, SweepFails, AgentStep, Handle, Respond,
           Close, vars, stackVars

\* The rules never evaluate on two runs at once: once the stages of this run have
\* begun, or one has pushed, nothing an earlier run pushed is left.
THEOREM NoStaleMetricIsLeft == Spec => []NoStaleMetric
  <1>1. Init => GatewayByCommand
    <2> SUFFICES ASSUME Init
                 PROVE  GatewayByCommand
      OBVIOUS
    <2>1. PICK jobs \in SUBSET Jobs : gateway \in [jobs -> {"earlier"}]
      BY DEF Init
    <2>2. AllOf("earlier")
      BY <2>1 DEF AllOf
    <2>3. QED
      BY <2>2 DEF Init, GatewayByCommand, Stages
  <1>2. GatewayByCommand /\ [Next]_vars => GatewayByCommand'
    BY GatewaySteps
  <1>3. GatewayByCommand => NoStaleMetric
    BY DEF GatewayByCommand, NoStaleMetric, AllOf, Stages
  <1>4. QED
    BY <1>1, <1>2, <1>3, PTL DEF Spec

----------------------------------------------------------------------------
(* The scrape: two samples, and the merges that end between their queries.  *)

\* What settle's two counts say of the storage: a merge that ends makes the
\* number of parts smaller than a count read before it.
CountsTellMerges ==
    /\ scrape = [phase |-> scrape.phase, previous |-> scrape.previous,
                 counts |-> scrape.counts, left |-> scrape.left, ended |-> scrape.ended]
    /\ storage = [parts |-> storage.parts, merging |-> storage.merging]
    /\ storage.parts \in Int /\ scrape.previous \in Int /\ scrape.counts \in Int
    /\ make \in {"reset"} \cup Stages => scrape.phase = "first"
    /\ scrape.phase = "parts" =>
          /\ "between" \in scrape.ended => scrape.previous > storage.parts
          /\ "between" \notin scrape.ended => scrape.previous = storage.parts
          /\ "within" \notin scrape.ended
    /\ scrape.phase = "merges" =>
          /\ "between" \in scrape.ended => scrape.previous > scrape.counts
          /\ "between" \notin scrape.ended => scrape.previous = scrape.counts
          /\ "within" \in scrape.ended => scrape.counts > storage.parts
          /\ "within" \notin scrape.ended => scrape.counts = storage.parts

\* Other steps move neither counts nor parts.
LEMMA CountsKept ==
    ASSUME CountsTellMerges, UNCHANGED <<scrape, storage>>,
           make' \in {"reset"} \cup Stages => make \in {"reset"} \cup Stages
    PROVE  CountsTellMerges'
  BY DEF CountsTellMerges, Stages

\* A sample, as settle reads it.
LEMMA SampleSteps ==
    ASSUME CountsTellMerges, FirstSample \/ SampleParts \/ SampleMerges
    PROVE  CountsTellMerges'
  <1>1. UNCHANGED <<make, storage>> /\ make = "clickhouse"
    BY DEF FirstSample, SampleParts, SampleMerges
  <1>2. CASE FirstSample
    <2>1. scrape' = [phase |-> "parts", previous |-> storage.parts,
                     counts |-> scrape.counts, left |-> scrape.left, ended |-> {}]
      BY <1>2 DEF FirstSample, CountsTellMerges
    <2>2. QED
      BY <1>1, <2>1 DEF CountsTellMerges, Stages
  <1>3. CASE SampleParts
    <2>1. /\ scrape.phase = "parts"
          /\ scrape' = [phase |-> "merges", previous |-> scrape.previous,
                        counts |-> storage.parts, left |-> scrape.left,
                        ended |-> scrape.ended]
      BY <1>3 DEF SampleParts, CountsTellMerges
    <2>2. QED
      BY <1>1, <2>1 DEF CountsTellMerges, Stages
  <1>4. CASE SampleMerges
    <2>1. scrape.phase = "merges"
      BY <1>4 DEF SampleMerges
    <2>2. CASE scrape' = [scrape EXCEPT !.phase = "settled"]
      <3>1. scrape' = [phase |-> "settled", previous |-> scrape.previous,
                       counts |-> scrape.counts, left |-> scrape.left,
                       ended |-> scrape.ended]
        BY <2>2 DEF CountsTellMerges
      <3>2. QED
        BY <1>1, <3>1 DEF CountsTellMerges, Stages
    <2>3. CASE \E left \in 0..scrape.left - 1 :
                 scrape' = [scrape EXCEPT
                              !.phase = "parts", !.left = left,
                              !.previous = scrape.counts,
                              !.ended = IF "within" \in @ THEN {"between"} ELSE {}]
      <3>1. PICK left : scrape' = [phase |-> "parts", previous |-> scrape.counts,
                                   counts |-> scrape.counts, left |-> left,
                                   ended |-> IF "within" \in scrape.ended
                                             THEN {"between"} ELSE {}]
        BY <2>3 DEF CountsTellMerges
      <3>2. QED
        BY <1>1, <2>1, <3>1 DEF CountsTellMerges, Stages
    <2>4. QED
      BY <1>4, <2>2, <2>3 DEF SampleMerges
  <1>5. QED
    BY <1>2, <1>3, <1>4

\* The merger, beside the scrape.
LEMMA MergerSteps ==
    ASSUME CountsTellMerges, MergeBegins \/ MergeRuns \/ MergeEnds
    PROVE  CountsTellMerges'
  <1>1. CASE MergeBegins \/ MergeRuns
    <2>1. PICK merging :
             /\ storage' = [parts |-> storage.parts, merging |-> merging]
             /\ UNCHANGED <<make, scrape>>
      BY <1>1 DEF MergeBegins, MergeRuns, CountsTellMerges
    <2>2. QED
      BY <2>1 DEF CountsTellMerges, Stages
  <1>2. CASE MergeEnds
    <2>1. /\ storage' = [parts |-> storage.parts - 1, merging |-> "no"]
          /\ make = "clickhouse" /\ UNCHANGED make
      BY <1>2 DEF MergeEnds
    <2>2. PICK more :
             /\ scrape.phase = "parts" => more = {"between"}
             /\ scrape.phase = "merges" => more = {"within"}
             /\ scrape' = [scrape EXCEPT !.ended = @ \cup more]
      <3> DEFINE more == CASE scrape.phase = "parts" -> {"between"}
                           [] scrape.phase = "merges" -> {"within"}
                           [] OTHER -> {}
      <3>1. /\ scrape.phase = "parts" => more = {"between"}
            /\ scrape.phase = "merges" => more = {"within"}
        OBVIOUS
      <3>2. scrape' = [scrape EXCEPT !.ended = @ \cup more]
        BY <1>2 DEF MergeEnds
      <3>3. QED
        BY <3>1, <3>2
    <2>3. scrape' = [phase |-> scrape.phase, previous |-> scrape.previous,
                     counts |-> scrape.counts, left |-> scrape.left,
                     ended |-> scrape.ended \cup more]
      BY <2>2 DEF CountsTellMerges
    <2>4. scrape'.phase = scrape.phase /\ scrape'.previous = scrape.previous
          /\ scrape'.counts = scrape.counts /\ scrape'.ended = scrape.ended \cup more
          /\ storage'.parts = storage.parts - 1
      BY <2>1, <2>3
    <2>5. CASE scrape.phase = "parts"
      <3>1. "between" \in scrape'.ended
            /\ ("within" \in scrape'.ended <=> "within" \in scrape.ended)
        BY <2>2, <2>4, <2>5
      <3>2. scrape.previous > storage'.parts
        BY <2>4, <2>5 DEF CountsTellMerges
      <3>3. QED
        BY <2>1, <2>3, <2>4, <2>5, <3>1, <3>2 DEF CountsTellMerges, Stages
    <2>6. CASE scrape.phase = "merges"
      <3>1. "within" \in scrape'.ended
            /\ ("between" \in scrape'.ended <=> "between" \in scrape.ended)
        BY <2>2, <2>4, <2>6
      <3>2. scrape.counts > storage'.parts
        BY <2>4, <2>6 DEF CountsTellMerges
      <3>3. QED
        BY <2>1, <2>3, <2>4, <2>6, <3>1, <3>2 DEF CountsTellMerges, Stages
    <2>7. CASE scrape.phase \notin {"parts", "merges"}
      BY <2>1, <2>3, <2>4, <2>7 DEF CountsTellMerges, Stages
    <2>8. QED
      BY <2>5, <2>6, <2>7
  <1>3. QED
    BY <1>1, <1>2

\* Samples, merges and the stages before them.
LEMMA CountsSteps ==
    ASSUME CountsTellMerges, [Next]_vars
    PROVE  CountsTellMerges'
  <1>1. CASE Stage
    <2>1. UNCHANGED scrape /\ scrape.phase = "first"
      BY <1>1 DEF Stage, CountsTellMerges
    <2>2. \E parts \in Int :
             storage' = [parts |-> parts, merging |-> storage.merging]
      BY <1>1 DEF Stage, CountsTellMerges
    <2>3. PICK parts \in Int : storage' = [parts |-> parts, merging |-> storage.merging]
      BY <2>2
    <2>4. QED
      BY <2>1, <2>3 DEF CountsTellMerges, Stages
  <1>2. CASE UNCHANGED <<make, scrape, storage>>
    BY <1>2, CountsKept
  <1>3. CASE Reset \/ CommandFails \/ Unsettled \/ PushStorage
    <2>1. make' \in {"reset"} \cup Stages => make \in {"reset"} \cup Stages
      BY <1>3 DEF Reset, CommandFails, Unsettled, PushStorage, After, Stages
    <2>2. UNCHANGED <<scrape, storage>>
      BY <1>3 DEF Reset, CommandFails, Unsettled, PushStorage
    <2>3. QED
      BY <2>1, <2>2, CountsKept
  <1>4. QED
    BY <1>1, <1>2, <1>3, SampleSteps, MergerSteps
       DEF Next, Run, Serve, Write, Post, Sweep, Query, Reason, SweepFails, AgentStep,
           Handle, Respond, Close, vars, stackVars

\* What settle returns is quiet.
LEMMA SettledIsQuiet ==
    ASSUME CountsTellMerges, [Next]_vars,
           scrape.phase # "settled", scrape'.phase = "settled"
    PROVE  /\ storage.merging # "running"
           /\ "between" \notin scrape.ended
           /\ "within" \notin scrape.ended => scrape.counts = storage.parts
  <1>1. CASE SampleMerges
    <2>1. scrape.phase = "merges"
      BY <1>1 DEF SampleMerges
    <2>2. CASE Settled
      BY <2>1, <2>2 DEF Settled, CountsTellMerges
    <2>3. CASE ~Settled
      <3>1. \E left : scrape' = [scrape EXCEPT
                                   !.phase = "parts", !.left = left,
                                   !.previous = scrape.counts,
                                   !.ended = IF "within" \in @ THEN {"between"} ELSE {}]
        BY <1>1, <2>3 DEF SampleMerges
      <3>2. scrape'.phase = "parts"
        BY <3>1 DEF CountsTellMerges
      <3>3. QED
        BY <3>2
    <2>4. QED
      BY <2>2, <2>3
  <1>2. CASE FirstSample \/ SampleParts
    BY <1>2 DEF FirstSample, SampleParts, CountsTellMerges
  <1>3. CASE MergeEnds
    <2>1. scrape'.phase = scrape.phase
      BY <1>3 DEF MergeEnds, CountsTellMerges
    <2>2. QED
      BY <2>1
  <1>4. CASE UNCHANGED scrape
    BY <1>4
  <1>5. QED
    BY <1>1, <1>2, <1>3, <1>4
       DEF Next, Run, Serve, Reset, Write, Stage, CommandFails, Unsettled, PushStorage,
           MergeBegins, MergeRuns, Post, Sweep, Query, Reason, SweepFails, AgentStep, Handle,
           Respond, Close, vars, stackVars

\* What a scrape publishes was quiet: no merge has been running for any time when
\* settle returns, none ended between its last two samples, and the counts are the storage's unless one ended
\* between the two queries of the last sample.
THEOREM ScrapesWhatIsQuiet == Spec => PublishedIsQuiescent
  <1>1. Init => CountsTellMerges
    <2> SUFFICES ASSUME Init
                 PROVE  CountsTellMerges
      OBVIOUS
    <2>1. MaxSamples \in Nat
      BY AlertingAssumption
    <2>2. QED
      BY <2>1 DEF Init, CountsTellMerges
  <1>2. CountsTellMerges /\ [Next]_vars => CountsTellMerges'
    BY CountsSteps
  <1>3. CountsTellMerges /\ [Next]_vars
          => [scrape.phase # "settled" /\ scrape'.phase = "settled" =>
                /\ storage.merging # "running"
                /\ "between" \notin scrape.ended
                /\ "within" \notin scrape.ended => scrape.counts = storage.parts]_vars
    BY SettledIsQuiet
  <1>4. QED
    BY <1>1, <1>2, <1>3, PTL DEF Spec, PublishedIsQuiescent

----------------------------------------------------------------------------
(* The request: its groups, and the sweep that answers one.                 *)

\* A payload has one group to sweep, when one of its alerts fires.
LEMMA OneGroup ==
    ASSUME NEW payload
    PROVE  IF Firing(payload) = {}
           THEN _dedupe_by_group_key(payload) = <<>>
           ELSE _dedupe_by_group_key(payload) = <<Key(payload)>>
  <1> DEFINE keys == {Key(payload) : i \in Firing(payload)}
  <1>1. _dedupe_by_group_key(payload) = CHOOSE f \in [1..Cardinality(keys) -> keys] :
                                           IsInjective(f)
    BY DEF _dedupe_by_group_key, SetToSeq
  <1>2. CASE Firing(payload) = {}
    <2>1. keys = {} /\ Cardinality(keys) = 0
      BY <1>2, FS_EmptySet
    <2> HIDE DEF keys
    <2>2. \E f \in [1..0 -> keys] : IsInjective(f)
      <3> DEFINE f == [i \in 1..0 |-> i]
      <3>1. f \in [1..0 -> keys] /\ IsInjective(f)
        BY DEF IsInjective
      <3>2. QED
        BY <3>1
    <2>3. _dedupe_by_group_key(payload) \in [1..0 -> keys]
      BY <1>1, <2>1, <2>2
    <2>4. _dedupe_by_group_key(payload) \in Seq(keys)
          /\ Len(_dedupe_by_group_key(payload)) = 0
      BY <2>3
    <2>5. QED
      BY <1>2, <2>4, EmptySeq
  <1>3. CASE Firing(payload) # {}
    <2>1. keys = {Key(payload)}
      BY <1>3
    <2>2. Cardinality(keys) = 1
      BY <2>1, FS_Singleton
    <2>3. <<Key(payload)>> \in [1..1 -> keys] /\ IsInjective(<<Key(payload)>>)
      BY <2>1 DEF IsInjective
    <2> HIDE DEF keys
    <2>4. _dedupe_by_group_key(payload) \in [1..1 -> keys]
      BY <1>1, <2>2, <2>3
    <2>5. QED
      BY <1>3, <2>1, <2>4
  <1>4. QED
    BY <1>2, <1>3

RequestType ==
    /\ request = [phase |-> request.phase, groups |-> request.groups,
                  firing |-> request.firing, sweeps |-> request.sweeps,
                  handled |-> request.handled, rows |-> request.rows]
    /\ request.phase \in {"idle", "serving", "observing", "answered", "failed"}
    /\ outcome \in {"none", "running", "finding", "escalation", "raised"}
    /\ request.firing \in BOOLEAN
    /\ request.groups = <<>> \/ \E k : request.groups = <<k>>

\* A group is swept while the request is served, then answered, once.
OneSweepAtATime ==
    /\ RequestType
    /\ request.phase # "serving" => outcome = "none"
    /\ request.phase = "idle" => request.sweeps = 0
    /\ request.phase = "serving" /\ outcome = "none" =>
          \/ /\ request.sweeps = 0 /\ request.handled = <<>>
             /\ request.firing <=> request.groups # <<>>
          \/ /\ request.sweeps = 1 /\ Len(request.handled) = 1
             /\ request.firing /\ request.groups = <<>>
    /\ request.phase = "observing" \/ outcome # "none" =>
          /\ request.sweeps = 1 /\ request.handled = <<>>
          /\ request.firing /\ request.groups # <<>>
    /\ request.phase = "answered" =>
          /\ request.sweeps = IF request.firing THEN 1 ELSE 0
          /\ Len(request.handled) = request.sweeps
    /\ request.phase = "failed" => request.sweeps = 1

\* Other steps leave the request as it is.
LEMMA RequestKept ==
    ASSUME OneSweepAtATime, UNCHANGED <<request, outcome>>
    PROVE  OneSweepAtATime'
  BY DEF OneSweepAtATime, RequestType

\* The loop goes from one outcome of a sweep to another.
LEMMA LoopGoesOn ==
    ASSUME Loop
    PROVE  /\ outcome = "running"
           /\ outcome' \in {"running", "finding", "escalation", "raised"}
  <1>1. ASSUME NEW turn, Took(turn)
        PROVE  outcome = "running"
    BY <1>1 DEF Took
  <1>2. CASE NoToolUse
    BY <1>1, <1>2 DEF NoToolUse, Return
  <1>3. ASSUME NEW turn \in Turns, ProbeTurn(turn) \/ RejectTurn(turn)
        PROVE  outcome = "running" /\ outcome' = outcome
    BY <1>1, <1>3 DEF ProbeTurn, RejectTurn, Continue
  <1>4. ASSUME NEW turn \in Turns, SubmitTurn(turn) \/ SecondBlindTurn(turn)
        PROVE  outcome = "running" /\ outcome' \in {"finding", "escalation"}
    BY <1>1, <1>4 DEF SubmitTurn, SecondBlindTurn, Return
  <1>5. CASE ApiError \/ BudgetExhausted
    BY <1>5 DEF ApiError, BudgetExhausted, Return
  <1>6. QED
    BY <1>2, <1>3, <1>4, <1>5 DEF Loop

\* A request goes from its one group to its one sweep, and to an answer.
LEMMA RequestSteps ==
    ASSUME OneSweepAtATime, [Next]_vars
    PROVE  OneSweepAtATime'
  <1> USE DEF OneSweepAtATime
  <1>1. CASE UNCHANGED <<request, outcome>>
    BY <1>1, RequestKept
  <1>2. CASE Post
    <2>1. PICK payload \in Payloads :
             request' = [Idle EXCEPT !.phase = "serving",
                                     !.groups = _dedupe_by_group_key(payload),
                                     !.firing = Firing(payload) # {}]
      BY <1>2 DEF Post
    <2>2. request' = [phase |-> "serving", groups |-> _dedupe_by_group_key(payload),
                      firing |-> Firing(payload) # {}, sweeps |-> 0,
                      handled |-> <<>>, rows |-> <<>>]
      BY <2>1 DEF Idle
    <2>3. request.phase = "idle" /\ outcome' = outcome /\ outcome = "none"
      BY <1>2 DEF Post, loopVars
    <2>4. PICK fires \in BOOLEAN : fires = (Firing(payload) # {})
      OBVIOUS
    <2>5. fires <=> _dedupe_by_group_key(payload) # <<>>
      <3>1. CASE Firing(payload) = {}
        BY <2>4, <3>1, OneGroup, Zenon
      <3>2. CASE Firing(payload) # {}
        <4>1. _dedupe_by_group_key(payload) = <<Key(payload)>>
          BY <3>2, OneGroup
        <4>2. <<Key(payload)>> # <<>>
          OBVIOUS
        <4>3. QED
          BY <2>4, <3>2, <4>1, <4>2, Zenon
      <3>3. QED
        BY <3>1, <3>2
    <2>6. \/ _dedupe_by_group_key(payload) = <<>>
          \/ \E k : _dedupe_by_group_key(payload) = <<k>>
      BY OneGroup
    <2>7. request' = [phase |-> "serving", groups |-> _dedupe_by_group_key(payload),
                      firing |-> fires, sweeps |-> 0, handled |-> <<>>, rows |-> <<>>]
      BY <2>2, <2>4
    <2>8. QED
      BY <2>3, <2>5, <2>6, <2>7 DEF RequestType
  <1>3. CASE Sweep
    <2>1. /\ request.phase = "serving" /\ outcome = "none" /\ outcome' = outcome
          /\ request.groups # <<>>
          /\ request' = [phase |-> "observing", groups |-> request.groups,
                         firing |-> request.firing, sweeps |-> request.sweeps + 1,
                         handled |-> request.handled, rows |-> request.rows]
      BY <1>3 DEF Sweep, loopVars, RequestType
    <2>2. QED
      BY <2>1 DEF RequestType
  <1>4. CASE Query
    <2>1. /\ request.phase = "observing" /\ outcome' = outcome
          /\ \E rows : request' = [phase |-> request.phase, groups |-> request.groups,
                                   firing |-> request.firing, sweeps |-> request.sweeps,
                                   handled |-> request.handled, rows |-> rows]
      BY <1>4 DEF Query, loopVars, RequestType
    <2>2. PICK rows : request' = [phase |-> request.phase, groups |-> request.groups,
                                  firing |-> request.firing, sweeps |-> request.sweeps,
                                  handled |-> request.handled, rows |-> rows]
      BY <2>1
    <2>3. QED
      BY <2>1, <2>2 DEF RequestType
  <1>5. CASE Reason
    <2>1. /\ request.phase = "observing" /\ outcome' = "running"
          /\ request' = [phase |-> "serving", groups |-> request.groups,
                         firing |-> request.firing, sweeps |-> request.sweeps,
                         handled |-> request.handled, rows |-> <<>>]
      BY <1>5 DEF Reason, Observed, Renew, RequestType
    <2>2. QED
      BY <2>1 DEF RequestType
  <1>6. CASE SweepFails
    <2>1. /\ request.phase = "observing" \/ outcome = "raised"
          /\ outcome' = "none"
          /\ request' = [phase |-> "failed", groups |-> request.groups,
                         firing |-> request.firing, sweeps |-> request.sweeps,
                         handled |-> request.handled, rows |-> <<>>]
      BY <1>6 DEF SweepFails, Renew, RequestType
    <2>2. QED
      BY <2>1 DEF RequestType
  <1>7. CASE AgentStep
    <2>1. /\ outcome = "running" /\ UNCHANGED request
          /\ outcome' \in {"running", "finding", "escalation", "raised"}
      BY <1>7, LoopGoesOn DEF AgentStep
    <2>2. QED
      BY <2>1 DEF RequestType
  <1>8. CASE Handle
    <2>1. /\ request.phase = "serving" /\ outcome # "none" /\ outcome' = "none"
          /\ request' = [phase |-> "serving", groups |-> Tail(request.groups),
                         firing |-> request.firing, sweeps |-> request.sweeps,
                         handled |-> Append(request.handled,
                                            [group_key |-> Head(request.groups),
                                             verdict |-> outcome]),
                         rows |-> request.rows]
      BY <1>8 DEF Handle, Renew, RequestType
    <2>2. request.handled = <<>> /\ \E k : request.groups = <<k>>
      BY <2>1 DEF RequestType
    <2>3. Tail(request.groups) = <<>>
      BY <2>2
    <2>4. Len(Append(request.handled, [group_key |-> Head(request.groups),
                                       verdict |-> outcome])) = 1
      BY <2>2
    <2>5. QED
      BY <2>1, <2>2, <2>3, <2>4 DEF RequestType
  <1>9. CASE Respond
    <2>1. /\ request.phase = "serving" /\ outcome = "none" /\ outcome' = outcome
          /\ request.groups = <<>>
          /\ request' = [phase |-> "answered", groups |-> request.groups,
                         firing |-> request.firing, sweeps |-> request.sweeps,
                         handled |-> request.handled, rows |-> request.rows]
      BY <1>9 DEF Respond, loopVars, RequestType
    <2>2. QED
      BY <2>1 DEF RequestType
  <1>10. CASE Close
    <2>1. outcome' = outcome /\ outcome = "none" /\ request' = Idle
      BY <1>10 DEF Close, loopVars
    <2>2. QED
      BY <2>1 DEF RequestType, Idle
  <1>11. QED
    BY <1>1, <1>2, <1>3, <1>4, <1>5, <1>6, <1>7, <1>8, <1>9, <1>10
       DEF Next, Run, Serve, Reset, Write, Stage, CommandFails, FirstSample, SampleParts,
           SampleMerges, Unsettled, PushStorage, MergeBegins, MergeRuns, MergeEnds, vars, loopVars

\* Every request ends in at most one sweep, and in exactly one when it is answered
\* and one of its alerts fires, however many alerts its group carries.
THEOREM SweepsOnce == Spec => []OneSweepPerRequest
  <1>1. Init => OneSweepAtATime
    BY DEF Init, LoopInit, Idle, OneSweepAtATime, RequestType
  <1>2. OneSweepAtATime /\ [Next]_vars => OneSweepAtATime'
    BY RequestSteps
  <1>3. OneSweepAtATime => OneSweepPerRequest
    BY DEF OneSweepAtATime, RequestType, OneSweepPerRequest
  <1>4. QED
    BY <1>1, <1>2, <1>3, PTL DEF Spec

----------------------------------------------------------------------------
(* Sums: what the context's totals add up to.                               *)

\* Rows that can be summed up by a field.
Summable(S, field) == IsFiniteSet(S) /\ \A r \in S : r[field] \in Int

Pick(s) == CHOOSE x \in s : TRUE

\* The recursion MapThenSumSet chooses a function for.
Adds(iter, S, field) ==
    iter = [s \in SUBSET S |-> IF s = {} THEN 0
                               ELSE Pick(s)[field] + iter[s \ {Pick(s)}]]

\* What a total is a value of.
LEMMA TotalIs ==
    ASSUME NEW S, NEW field
    PROVE  Total(S, field) = (CHOOSE iter : Adds(iter, S, field))[S]
  BY DEF Total, MapThenSumSet, MapThenFoldSet, Adds, Pick

\* The recursion as far as the subsets of at most n rows.
AddsTo(f, S, field, n) ==
    LET level == {s \in SUBSET S : Cardinality(s) <= n}
    IN /\ f \in [level -> Int]
       /\ \A s \in level : f[s] = IF s = {} THEN 0 ELSE Pick(s)[field] + f[s \ {Pick(s)}]

\* A row fewer.
LEMMA PickOne ==
    ASSUME NEW s, IsFiniteSet(s), s # {}
    PROVE  /\ Pick(s) \in s /\ IsFiniteSet(s \ {Pick(s)})
           /\ Cardinality(s) \in Nat \ {0}
           /\ Cardinality(s \ {Pick(s)}) = Cardinality(s) - 1
  <1>1. Pick(s) \in s
    BY DEF Pick
  <1>2. Cardinality(s) \in Nat /\ Cardinality(s) # 0
    BY FS_CardinalityType, FS_EmptySet
  <1> QED
    BY <1>1, <1>2, FS_RemoveElement

\* ... and one row further.
LEMMA AddsToGrows ==
    ASSUME NEW S, NEW field, Summable(S, field), NEW n \in Nat, NEW f, AddsTo(f, S, field, n)
    PROVE  \E g : AddsTo(g, S, field, n + 1)
  <1> DEFINE level == {s \in SUBSET S : Cardinality(s) <= n}
             above == {s \in SUBSET S : Cardinality(s) <= n + 1}
             g == [s \in above |-> IF s = {} THEN 0 ELSE Pick(s)[field] + f[s \ {Pick(s)}]]
  <1>1. /\ f \in [level -> Int]
        /\ \A s \in level : f[s] = IF s = {} THEN 0 ELSE Pick(s)[field] + f[s \ {Pick(s)}]
    BY DEF AddsTo
  <1>2. ASSUME NEW s \in above, s # {}
        PROVE  s \ {Pick(s)} \in level /\ Pick(s) \in S
    <2>1. s \in SUBSET S /\ IsFiniteSet(s) /\ Cardinality(s) <= n + 1
      BY FS_Subset DEF Summable
    <2>2. /\ Pick(s) \in s /\ Cardinality(s) \in Nat
          /\ Cardinality(s \ {Pick(s)}) = Cardinality(s) - 1
      BY <1>2, <2>1, PickOne
    <2>3. Cardinality(s \ {Pick(s)}) <= n
      BY <2>1, <2>2
    <2> QED
      BY <2>1, <2>2, <2>3
  <1>3. \A s \in level : s \in above
    <2> SUFFICES ASSUME NEW s \in level  PROVE Cardinality(s) <= n + 1
      OBVIOUS
    <2>1. Cardinality(s) <= n /\ Cardinality(s) \in Nat
      BY FS_Subset, FS_CardinalityType DEF Summable
    <2> QED
      BY <2>1
  <1> HIDE DEF level, above
  <1>4. g \in [above -> Int]
    <2>1. ASSUME NEW s \in above
          PROVE  (IF s = {} THEN 0 ELSE Pick(s)[field] + f[s \ {Pick(s)}]) \in Int
      <3>1. s # {} => Pick(s)[field] \in Int /\ f[s \ {Pick(s)}] \in Int
        BY <1>1, <1>2 DEF Summable
      <3> QED
        BY <3>1
    <2> QED
      BY <2>1
  <1>5. \A s \in level : g[s] = f[s]
    BY <1>1, <1>3
  <1>6. \A s \in above : g[s] = IF s = {} THEN 0 ELSE Pick(s)[field] + f[s \ {Pick(s)}]
    OBVIOUS
  <1> HIDE DEF g
  <1>7. \A s \in above : g[s] = IF s = {} THEN 0 ELSE Pick(s)[field] + g[s \ {Pick(s)}]
    BY <1>2, <1>5, <1>6
  <1>8. AddsTo(g, S, field, n + 1)
    BY <1>4, <1>7 DEF AddsTo, above
  <1> QED
    BY <1>8

\* ... and so to any number.
LEMMA AddsToAll ==
    ASSUME NEW S, NEW field, Summable(S, field), NEW n \in Nat
    PROVE  \E f : AddsTo(f, S, field, n)
  <1> DEFINE Short == {k \in Nat : ~\E f : AddsTo(f, S, field, k)}
  <1>1. ASSUME Short # {}  PROVE FALSE
    <2>1. PICK m \in Short : \A k \in Short : m <= k
      <3>1. \E m \in Short : \A k \in Short : ~(<<k, m>> \in OpToRel(<, Nat))
        <4>1. Short \subseteq Nat
          OBVIOUS
        <4> HIDE DEF Short
        <4> QED
          BY <1>1, <4>1, NatLessThanWellFounded, WFMin
      <3>2. PICK m \in Short : \A k \in Short : ~(<<k, m>> \in OpToRel(<, Nat))
        BY <3>1
      <3>3. \A k \in Short : ~(k < m)
        BY <3>2 DEF OpToRel
      <3> QED
        BY <3>3
    <2>2. m \in Nat /\ ~\E f : AddsTo(f, S, field, m)
      OBVIOUS
    <2>3. m # 0
      <3> SUFFICES \E f : AddsTo(f, S, field, 0)
        BY <2>2
      <3> DEFINE level == {s \in SUBSET S : Cardinality(s) <= 0}
                 f == [s \in level |-> 0]
      <3>1. \A s \in level : s = {}
        <4> SUFFICES ASSUME NEW s \in level  PROVE s = {}
          OBVIOUS
        <4>1. IsFiniteSet(s) /\ Cardinality(s) \in Nat /\ Cardinality(s) <= 0
          BY FS_Subset, FS_CardinalityType DEF Summable
        <4>2. Cardinality(s) = 0
          BY <4>1
        <4> QED
          BY <4>1, <4>2, FS_EmptySet
      <3>2. f \in [level -> Int] /\ \A s \in level : f[s] = 0
        OBVIOUS
      <3> HIDE DEF f, level
      <3>3. AddsTo(f, S, field, 0)
        BY <3>1, <3>2 DEF AddsTo, level
      <3> QED
        BY <3>3
    <2>4. m - 1 \in Nat /\ (m - 1) + 1 = m /\ ~(m <= m - 1)
      BY <2>2, <2>3
    <2>5. m - 1 \notin Short
      BY <2>1, <2>4
    <2>6. PICK f : AddsTo(f, S, field, m - 1)
      BY <2>4, <2>5
    <2>7. \E g : AddsTo(g, S, field, (m - 1) + 1)
      BY <2>4, <2>6, AddsToGrows
    <2> QED
      BY <2>2, <2>4, <2>7
  <1> QED
    BY <1>1

\* The recursion has a solution, and one in the integers.
LEMMA AddsSolved ==
    ASSUME NEW S, NEW field, Summable(S, field)
    PROVE  \E iter \in [SUBSET S -> Int] : Adds(iter, S, field)
  <1>1. Cardinality(S) \in Nat /\ \A s \in SUBSET S : Cardinality(s) <= Cardinality(S)
    BY FS_CardinalityType, FS_Subset DEF Summable
  <1>2. PICK f : AddsTo(f, S, field, Cardinality(S))
    BY <1>1, AddsToAll
  <1>3. {s \in SUBSET S : Cardinality(s) <= Cardinality(S)} = SUBSET S
    BY <1>1
  <1>4. /\ f \in [SUBSET S -> Int]
        /\ \A s \in SUBSET S : f[s] = IF s = {} THEN 0 ELSE Pick(s)[field] + f[s \ {Pick(s)}]
    BY <1>2, <1>3 DEF AddsTo
  <1>5. Adds(f, S, field)
    BY <1>4 DEF Adds
  <1> QED
    BY <1>4, <1>5

\* Solutions agree on what they share.
LEMMA AddsAgree ==
    ASSUME NEW field, NEW S, IsFiniteSet(S), NEW T, NEW f, NEW g,
           Adds(f, S, field), Adds(g, T, field), NEW s, s \subseteq S, s \subseteq T
    PROVE  f[s] = g[s]
  <1> DEFINE Apart == {r \in SUBSET S : r \subseteq T /\ f[r] # g[r]}
  <1>1. ASSUME Apart # {}  PROVE FALSE
    <2>1. PICK r \in Apart : \A u \in SUBSET S : u \subseteq r /\ u # r => u \notin Apart
      <3>1. Apart \in SUBSET (SUBSET S)
        OBVIOUS
      <3> HIDE DEF Apart
      <3> QED
        BY <1>1, <3>1, SmallestSubset
    <2>2. r \subseteq S /\ r \subseteq T /\ f[r] # g[r]
      OBVIOUS
    <2>3. /\ f[r] = IF r = {} THEN 0 ELSE Pick(r)[field] + f[r \ {Pick(r)}]
          /\ g[r] = IF r = {} THEN 0 ELSE Pick(r)[field] + g[r \ {Pick(r)}]
      BY <2>2 DEF Adds
    <2>4. CASE r = {}
      BY <2>2, <2>3, <2>4
    <2>5. CASE r # {}
      <3>1. Pick(r) \in r
        BY <2>5 DEF Pick
      <3>2. r \ {Pick(r)} \notin Apart
        BY <2>1, <2>2, <3>1
      <3>3. f[r \ {Pick(r)}] = g[r \ {Pick(r)}]
        BY <2>2, <3>2
      <3> QED
        BY <2>2, <2>3, <2>5, <3>3
    <2> QED
      BY <2>4, <2>5
  <1> QED
    BY <1>1

\* A total is that of the rows but one, and the one.
LEMMA TotalPicks ==
    ASSUME NEW S, NEW field, Summable(S, field)
    PROVE  /\ Total(S, field) \in Int
           /\ S = {} => Total(S, field) = 0
           /\ S # {} => Total(S, field) = Pick(S)[field] + Total(S \ {Pick(S)}, field)
  <1>1. ASSUME NEW T \in SUBSET S
        PROVE  \E f \in [SUBSET T -> Int] : Adds(f, T, field) /\ Total(T, field) = f[T]
    <2>1. Summable(T, field)
      BY FS_Subset DEF Summable
    <2>2. PICK g \in [SUBSET T -> Int] : Adds(g, T, field)
      BY <2>1, AddsSolved
    <2> DEFINE h == CHOOSE iter : Adds(iter, T, field)
    <2>3. Adds(h, T, field)
      BY <2>2
    <2>4. Total(T, field) = h[T]
      BY TotalIs
    <2> HIDE DEF h
    <2>5. h[T] = g[T]
      BY <2>1, <2>2, <2>3, AddsAgree DEF Summable
    <2> QED
      BY <2>2, <2>4, <2>5
  <1>2. PICK f \in [SUBSET S -> Int] : Adds(f, S, field) /\ Total(S, field) = f[S]
    BY <1>1
  <1>3. f[S] = IF S = {} THEN 0 ELSE Pick(S)[field] + f[S \ {Pick(S)}]
    BY <1>2 DEF Adds
  <1>4. Total(S, field) \in Int
    BY <1>2
  <1>5. f[S \ {Pick(S)}] = Total(S \ {Pick(S)}, field)
    <2>1. S \ {Pick(S)} \in SUBSET S /\ IsFiniteSet(S)
      BY DEF Summable
    <2>2. PICK g \in [SUBSET (S \ {Pick(S)}) -> Int] :
             /\ Adds(g, S \ {Pick(S)}, field)
             /\ Total(S \ {Pick(S)}, field) = g[S \ {Pick(S)}]
      BY <1>1, <2>1
    <2> QED
      BY <1>2, <2>1, <2>2, AddsAgree
  <1> QED
    BY <1>2, <1>3, <1>4, <1>5

\* ... whichever the one is.
LEMMA TotalStep ==
    ASSUME NEW S, NEW field, Summable(S, field), NEW y \in S
    PROVE  Total(S, field) = y[field] + Total(S \ {y}, field)
  <1> DEFINE Odd == {s \in SUBSET S : \E z \in s :
                       Total(s, field) # z[field] + Total(s \ {z}, field)}
  <1>1. ASSUME NEW s \in SUBSET S
        PROVE  /\ Summable(s, field)
               /\ Total(s, field) \in Int
               /\ s # {} => Total(s, field) = Pick(s)[field] + Total(s \ {Pick(s)}, field)
    <2>1. Summable(s, field)
      BY FS_Subset DEF Summable
    <2> QED
      BY <2>1, TotalPicks
  <1>2. ASSUME Odd # {}  PROVE FALSE
    <2>1. PICK s \in Odd : \A u \in SUBSET S : u \subseteq s /\ u # s => u \notin Odd
      <3>1. Odd \in SUBSET (SUBSET S) /\ IsFiniteSet(S)
        BY DEF Summable
      <3> HIDE DEF Odd
      <3> QED
        BY <1>2, <3>1, SmallestSubset
    <2>2. PICK z \in s : Total(s, field) # z[field] + Total(s \ {z}, field)
      OBVIOUS
    <2>3. s \subseteq S /\ z \in S /\ Pick(s) \in s
      BY <2>2 DEF Pick
    <2> DEFINE p == Pick(s)
               t == (s \ {p}) \ {z}
    <2>4. Total(s, field) = p[field] + Total(s \ {p}, field)
      BY <1>1, <2>2, <2>3
    <2>5. p # z
      BY <2>2, <2>4
    <2>6. s \ {p} \notin Odd /\ s \ {z} \notin Odd
      BY <2>1, <2>2, <2>3
    <2>7. Total(s \ {p}, field) = z[field] + Total(t, field)
      BY <2>2, <2>3, <2>5, <2>6
    <2>8. Total(s \ {z}, field) = p[field] + Total(t, field)
      <3>1. (s \ {z}) \ {p} = t
        OBVIOUS
      <3> QED
        BY <2>3, <2>5, <2>6, <3>1
    <2>9. Total(t, field) \in Int /\ p[field] \in Int /\ z[field] \in Int
      BY <1>1, <2>2, <2>3 DEF Summable
    <2> QED
      BY <2>2, <2>4, <2>7, <2>8, <2>9
  <1> QED
    BY <1>2

\* A total is that of some rows and of the others.
LEMMA TotalApart ==
    ASSUME NEW S, NEW field, Summable(S, field), NEW X \in SUBSET S
    PROVE  Total(S, field) = Total(X, field) + Total(S \ X, field)
  <1> DEFINE Odd == {u \in SUBSET S : Total(S, field) # Total(u, field) + Total(S \ u, field)}
  <1>1. ASSUME NEW s \in SUBSET S
        PROVE  Summable(s, field) /\ Total(s, field) \in Int /\ (s = {} => Total(s, field) = 0)
    <2>1. Summable(s, field)
      BY FS_Subset DEF Summable
    <2> QED
      BY <2>1, TotalPicks
  <1>2. ASSUME Odd # {}  PROVE FALSE
    <2>1. PICK u \in Odd : \A v \in SUBSET S : v \subseteq u /\ v # u => v \notin Odd
      <3>1. Odd \in SUBSET (SUBSET S) /\ IsFiniteSet(S)
        BY DEF Summable
      <3> HIDE DEF Odd
      <3> QED
        BY <1>2, <3>1, SmallestSubset
    <2>2. u \subseteq S /\ Total(S, field) # Total(u, field) + Total(S \ u, field)
      OBVIOUS
    <2>3. CASE u = {}
      <3>1. S \ u = S
        BY <2>3
      <3>2. Total(S \ u, field) = Total(S, field)
        BY <3>1, Zenon
      <3>3. Total(u, field) = 0 /\ Total(S, field) \in Int
        BY <1>1, <2>2, <2>3
      <3> QED
        BY <2>2, <3>2, <3>3
    <2>4. CASE u # {}
      <3>1. PICK y : y \in u
        BY <2>4
      <3> DEFINE v == u \ {y}
      <3>2. Total(S, field) = Total(v, field) + Total(S \ v, field)
        BY <2>1, <2>2, <3>1
      <3>3. Total(u, field) = y[field] + Total(v, field)
        BY <1>1, <2>2, <3>1, TotalStep
      <3>4. Total(S \ v, field) = y[field] + Total(S \ u, field)
        <4>1. y \in S \ v /\ (S \ v) \ {y} = S \ u /\ S \ v \in SUBSET S
          BY <2>2, <3>1
        <4> QED
          BY <1>1, <4>1, TotalStep
      <3>5. y[field] \in Int /\ Total(v, field) \in Int /\ Total(S \ u, field) \in Int
        BY <1>1, <2>2, <3>1 DEF Summable
      <3> QED
        BY <2>2, <3>2, <3>3, <3>4, <3>5
    <2> QED
      BY <2>3, <2>4
  <1> QED
    BY <1>2

\* Rows that each count a part of some things count the things.
LEMMA CountByParts ==
    ASSUME NEW A, IsFiniteSet(A), NEW R, IsFiniteSet(R), NEW part \in [A -> R], NEW field,
           \A r \in R : r[field] = Cardinality({a \in A : part[a] = r})
    PROVE  Total(R, field) = Cardinality(A)
  <1> DEFINE In(q) == {a \in A : part[a] \in q}
             Odd == {q \in SUBSET R : Total(q, field) # Cardinality(In(q))}
  <1>1. Summable(R, field)
    <2>1. ASSUME NEW r \in R  PROVE r[field] \in Int
      <3>1. Cardinality({a \in A : part[a] = r}) \in Nat
        BY FS_Subset, FS_CardinalityType
      <3> QED
        BY <3>1
    <2> QED
      BY <2>1 DEF Summable
  <1>2. ASSUME NEW q \in SUBSET R
        PROVE  /\ Summable(q, field) /\ (q = {} => Total(q, field) = 0)
               /\ IsFiniteSet(In(q)) /\ Cardinality(In(q)) \in Nat
    <2>1. Summable(q, field)
      BY <1>1, FS_Subset DEF Summable
    <2>2. IsFiniteSet(In(q)) /\ Cardinality(In(q)) \in Nat
      BY FS_Subset, FS_CardinalityType
    <2> QED
      BY <2>1, <2>2, TotalPicks
  <1>3. ASSUME Odd # {}  PROVE FALSE
    <2>1. PICK q \in Odd : \A v \in SUBSET R : v \subseteq q /\ v # q => v \notin Odd
      <3>1. Odd \in SUBSET (SUBSET R)
        OBVIOUS
      <3> HIDE DEF Odd
      <3> QED
        BY <1>3, <3>1, SmallestSubset
    <2>2. q \subseteq R /\ Total(q, field) # Cardinality(In(q))
      OBVIOUS
    <2>3. CASE q = {}
      <3>1. In(q) = {} /\ Total(q, field) = 0
        BY <1>2, <2>3
      <3> QED
        BY <2>2, <3>1, FS_EmptySet
    <2>4. CASE q # {}
      <3>1. PICK r : r \in q
        BY <2>4
      <3> DEFINE v == q \ {r}
                 own == {a \in A : part[a] = r}
      <3>2. Total(v, field) = Cardinality(In(v))
        BY <2>1, <2>2, <3>1
      <3>3. Total(q, field) = r[field] + Total(v, field)
        BY <1>2, <2>2, <3>1, TotalStep
      <3>4. r[field] = Cardinality(own)
        BY <2>2, <3>1
      <3>5. Cardinality(In(q)) = Cardinality(own) + Cardinality(In(v))
        <4>1. In(q) = own \cup In(v) /\ own \cap In(v) = {}
          BY <3>1
        <4>2. /\ IsFiniteSet(own) /\ Cardinality(own) \in Nat
              /\ IsFiniteSet(In(v)) /\ Cardinality(In(v)) \in Nat
          BY <1>2, <2>2, FS_Subset, FS_CardinalityType
        <4> HIDE DEF own, In
        <4>3. Cardinality(own \cup In(v))
                = Cardinality(own) + Cardinality(In(v)) - Cardinality(own \cap In(v))
          BY <4>2, FS_Union
        <4>4. Cardinality(own \cap In(v)) = 0
          BY <4>1, FS_EmptySet
        <4> QED
          BY <4>1, <4>2, <4>3, <4>4
      <3> HIDE DEF v, own, In
      <3> QED
        BY <2>2, <3>2, <3>3, <3>4, <3>5
    <2> QED
      BY <2>3, <2>4
  <1>4. Total(R, field) = Cardinality(In(R))
    BY <1>3
  <1>5. In(R) = A
    OBVIOUS
  <1> QED
    BY <1>4, <1>5

\* Rows that each total a part of some things total the things.
LEMMA SumByParts ==
    ASSUME NEW A, NEW of, Summable(A, of), NEW R, IsFiniteSet(R), NEW part \in [A -> R], NEW field,
           \A r \in R : r[field] = Total({a \in A : part[a] = r}, of)
    PROVE  Total(R, field) = Total(A, of)
  <1> DEFINE In(q) == {a \in A : part[a] \in q}
             Odd == {q \in SUBSET R : Total(q, field) # Total(In(q), of)}
  <1>1. ASSUME NEW X \in SUBSET A
        PROVE  Summable(X, of) /\ Total(X, of) \in Int /\ (X = {} => Total(X, of) = 0)
    <2>1. Summable(X, of)
      BY FS_Subset DEF Summable
    <2> QED
      BY <2>1, TotalPicks
  <1>2. Summable(R, field)
    <2>1. ASSUME NEW r \in R  PROVE r[field] \in Int
      BY <1>1
    <2> QED
      BY <2>1 DEF Summable
  <1>3. ASSUME NEW q \in SUBSET R
        PROVE  Summable(q, field) /\ (q = {} => Total(q, field) = 0)
    <2>1. Summable(q, field)
      BY <1>2, FS_Subset DEF Summable
    <2> QED
      BY <2>1, TotalPicks
  <1>4. ASSUME Odd # {}  PROVE FALSE
    <2>1. PICK q \in Odd : \A v \in SUBSET R : v \subseteq q /\ v # q => v \notin Odd
      <3>1. Odd \in SUBSET (SUBSET R)
        OBVIOUS
      <3> HIDE DEF Odd
      <3> QED
        BY <1>4, <3>1, SmallestSubset
    <2>2. q \subseteq R /\ Total(q, field) # Total(In(q), of)
      OBVIOUS
    <2>3. CASE q = {}
      <3>1. In(q) = {} /\ Total(q, field) = 0
        BY <1>3, <2>3
      <3> QED
        BY <1>1, <2>2, <3>1
    <2>4. CASE q # {}
      <3>1. PICK r : r \in q
        BY <2>4
      <3> DEFINE v == q \ {r}
                 own == {a \in A : part[a] = r}
      <3>2. Total(v, field) = Total(In(v), of)
        BY <2>1, <2>2, <3>1
      <3>3. Total(q, field) = r[field] + Total(v, field)
        BY <1>3, <2>2, <3>1, TotalStep
      <3>4. r[field] = Total(own, of)
        BY <2>2, <3>1
      <3>5. Total(In(q), of) = Total(own, of) + Total(In(v), of)
        <4>1. In(q) \in SUBSET A /\ own \in SUBSET In(q) /\ In(q) \ own = In(v)
          BY <3>1
        <4> HIDE DEF own, In
        <4>2. Summable(In(q), of)
          BY <1>1, <4>1
        <4>3. Total(In(q), of) = Total(own, of) + Total(In(q) \ own, of)
          BY <4>1, <4>2, TotalApart
        <4> QED
          BY <4>1, <4>3
      <3> HIDE DEF v, own, In
      <3> QED
        BY <2>2, <3>2, <3>3, <3>4, <3>5
    <2> QED
      BY <2>3, <2>4
  <1>5. Total(R, field) = Total(In(R), of)
    BY <1>4
  <1>6. In(R) = A
    OBVIOUS
  <1> QED
    BY <1>5, <1>6

----------------------------------------------------------------------------
(* Counting by groups.                                                      *)

\* What a function makes of finitely many things is finite, and no more than they.
LEMMA ImageOf ==
    ASSUME NEW S, IsFiniteSet(S), NEW f
    PROVE  LET image == {f[x] : x \in S}
           IN /\ IsFiniteSet(image)
              /\ Cardinality(image) \in Nat /\ Cardinality(image) <= Cardinality(S)
              /\ (\A x, y \in S : f[x] = f[y] => x = y)
                    => Cardinality(image) = Cardinality(S)
  <1> DEFINE image == {f[x] : x \in S}
             g == [x \in S |-> f[x]]
  <1>1. g \in Surjection(S, image)
    BY DEF Surjection
  <1>2. /\ IsFiniteSet(image) /\ Cardinality(image) <= Cardinality(S)
        /\ Cardinality(image) = Cardinality(S) <=> g \in Injection(S, image)
    <2> HIDE DEF g, image
    <2> QED
      BY <1>1, FS_Surjection
  <1>3. (\A x, y \in S : f[x] = f[y] => x = y) => g \in Injection(S, image)
    BY <1>1 DEF Surjection, Injection, IsInjective
  <1>4. Cardinality(image) \in Nat
    BY <1>2, FS_CardinalityType
  <1> QED
    BY <1>2, <1>3, <1>4

\* One row for each group, counting its members: together they count everything.
LEMMA CountByGroup ==
    ASSUME NEW A, IsFiniteSet(A), NEW D, IsFiniteSet(D), NEW key \in [A -> D],
           NEW row, \A c, d \in D : row[c] = row[d] => c = d, NEW field,
           \A d \in D : row[d][field] = Cardinality({a \in A : key[a] = d})
    PROVE  Total({row[d] : d \in D}, field) = Cardinality(A)
  <1> DEFINE R == {row[d] : d \in D}
             part == [a \in A |-> row[key[a]]]
  <1>1. IsFiniteSet(R) /\ part \in [A -> R]
    BY ImageOf
  <1>2. ASSUME NEW r \in R
        PROVE  r[field] = Cardinality({a \in A : part[a] = r})
    <2>1. PICK d \in D : r = row[d]
      OBVIOUS
    <2>2. {a \in A : part[a] = r} = {a \in A : key[a] = d}
      BY <2>1
    <2> QED
      BY <2>1, <2>2
  <1> HIDE DEF R, part
  <1>3. Total(R, field) = Cardinality(A)
    BY <1>1, <1>2, CountByParts
  <1> QED
    BY <1>3 DEF R

\* One row for each group, totalling its members: together they total everything.
LEMMA SumByGroup ==
    ASSUME NEW A, NEW of, Summable(A, of), NEW D, IsFiniteSet(D), NEW key \in [A -> D],
           NEW row, \A c, d \in D : row[c] = row[d] => c = d, NEW field,
           \A d \in D : row[d][field] = Total({a \in A : key[a] = d}, of)
    PROVE  Total({row[d] : d \in D}, field) = Total(A, of)
  <1> DEFINE R == {row[d] : d \in D}
             part == [a \in A |-> row[key[a]]]
  <1>1. IsFiniteSet(R) /\ part \in [A -> R]
    BY ImageOf
  <1>2. ASSUME NEW r \in R
        PROVE  r[field] = Total({a \in A : part[a] = r}, of)
    <2>1. PICK d \in D : r = row[d]
      OBVIOUS
    <2>2. {a \in A : part[a] = r} = {a \in A : key[a] = d}
      BY <2>1
    <2> QED
      BY <2>1, <2>2
  <1> HIDE DEF R, part
  <1>3. Total(R, field) = Total(A, of)
    BY <1>1, <1>2, SumByParts
  <1> QED
    BY <1>3 DEF R

\* The total of one row, and of none.
LEMMA TotalOfOne ==
    ASSUME NEW field
    PROVE  /\ Total({}, field) = 0
           /\ \A r : r[field] \in Int => Total({r}, field) = r[field]
  <1>1. Total({}, field) = 0
    <2>1. Summable({}, field)
      BY FS_EmptySet DEF Summable
    <2> QED
      BY <2>1, TotalPicks
  <1>2. ASSUME NEW r, r[field] \in Int  PROVE Total({r}, field) = r[field]
    <2>1. Summable({r}, field)
      BY <1>2, FS_Singleton DEF Summable
    <2>2. Total({r}, field) = r[field] + Total({r} \ {r}, field)
      BY <2>1, TotalStep
    <2>3. {r} \ {r} = {}
      OBVIOUS
    <2>4. Total({r} \ {r}, field) = 0
      BY <1>1, <2>3, Zenon
    <2> QED
      BY <1>2, <2>2, <2>4
  <1> QED
    BY <1>1, <1>2

----------------------------------------------------------------------------
(* One reading of the serving tables.                                       *)

\* Tables whose rows are keyed and whose credits join.
Sound(db) ==
    /\ IsFiniteSet(db.exposures) /\ IsFiniteSet(db.conversions)
    /\ \A e, f \in db.exposures : e.exposure_id = f.exposure_id => e = f
    /\ \A a, b \in db.conversions : a.conversion_id = b.conversion_id => a = b
    /\ \A a \in db.conversions : a.candidate_count \in Nat /\ a.revenue \in Int /\ a.ip \in Int
    /\ \A p \in HotPairs(db) : Lag(p) \in 0..WindowDays * DaySeconds
    /\ \A a \in Attributed(db) : \E e \in db.exposures : e.exposure_id = a.credited

\* The exposure a row is credited to.
Shown(db) == [a \in Attributed(db) |-> CHOOSE e \in db.exposures : e.exposure_id = a.credited]

\* A join has each attributed row once, beside its exposure.
LEMMA JoinedOnce ==
    ASSUME NEW db, Sound(db)
    PROVE  /\ IsFiniteSet(Attributed(db)) /\ Cardinality(Attributed(db)) \in Nat
           /\ \A a \in Attributed(db) : Shown(db)[a] \in db.exposures
           /\ Joined(db) = {<<a, Shown(db)[a]>> : a \in Attributed(db)}
  <1>1. IsFiniteSet(Attributed(db)) /\ Cardinality(Attributed(db)) \in Nat
    BY FS_Subset, FS_CardinalityType DEF Sound, Attributed
  <1>2. ASSUME NEW a \in Attributed(db)
        PROVE  /\ Shown(db)[a] \in db.exposures
               /\ \A e \in db.exposures : a.credited = e.exposure_id <=> e = Shown(db)[a]
    <2>1. PICK e \in db.exposures : e.exposure_id = a.credited
      BY DEF Sound
    <2>2. Shown(db)[a] \in db.exposures /\ Shown(db)[a].exposure_id = a.credited
      BY <2>1 DEF Shown
    <2> QED
      BY <2>2 DEF Sound
  <1>3. Joined(db) = {<<a, Shown(db)[a]>> : a \in Attributed(db)}
    BY <1>2 DEF Joined
  <1> QED
    BY <1>1, <1>2, <1>3

\* The days of a match rate count every attributed row.
LEMMA MatchRateCounts ==
    ASSUME NEW db, Sound(db)
    PROVE  Total(MATCH_RATE_BY_DAY(db), "attributed") = Cardinality(Attributed(db))
  <1> DEFINE A == Attributed(db)
             day == [a \in db.conversions |-> a.event_time \div DaySeconds]
             D == {day[a] : a \in db.conversions}
             on(d) == {a \in db.conversions : a.event_time \div DaySeconds = d}
             row == [d \in D |-> [day |-> d, processed |-> Cardinality(on(d)),
                                  attributed |-> Cardinality(on(d) \cap A)]]
             key == [a \in A |-> day[a]]
  <1>1. IsFiniteSet(D)
    <2> HIDE DEF day
    <2> QED
      BY ImageOf DEF Sound
  <1>2. A \subseteq db.conversions /\ IsFiniteSet(A)
    BY JoinedOnce DEF Attributed
  <1>3. MATCH_RATE_BY_DAY(db) = {row[d] : d \in D}
    BY DEF MATCH_RATE_BY_DAY
  <1>4. \A c, d \in D : row[c] = row[d] => c = d
    OBVIOUS
  <1>5. ASSUME NEW d \in D
        PROVE  row[d]["attributed"] = Cardinality({a \in A : key[a] = d})
    <2>1. on(d) \cap A = {a \in A : key[a] = d}
      BY <1>2
    <2> QED
      BY <2>1
  <1>6. key \in [A -> D]
    BY <1>2
  <1> HIDE DEF A, D, row, key
  <1>7. Total({row[d] : d \in D}, "attributed") = Cardinality(A)
    BY <1>1, <1>2, <1>4, <1>5, <1>6, CountByGroup
  <1> QED
    BY <1>3, <1>7 DEF A

\* Pairs of the join are no more than attributed rows.
LEMMA PairsCount ==
    ASSUME NEW db, Sound(db), NEW P \in SUBSET Joined(db)
    PROVE  /\ IsFiniteSet(P) /\ Cardinality(P) \in Nat
           /\ Cardinality(P) <= Cardinality(Attributed(db))
           /\ Cardinality(Joined(db)) = Cardinality(Attributed(db))
           /\ \A p \in P : /\ p[1] \in Attributed(db) /\ p[2] = Shown(db)[p[1]]
                           /\ p = <<p[1], p[2]>>
  <1> DEFINE pair == [a \in Attributed(db) |-> <<a, Shown(db)[a]>>]
  <1>1. /\ IsFiniteSet(Attributed(db)) /\ Cardinality(Attributed(db)) \in Nat
        /\ Joined(db) = {pair[a] : a \in Attributed(db)}
    BY JoinedOnce
  <1>2. /\ IsFiniteSet(Joined(db)) /\ Cardinality(Joined(db)) \in Nat
        /\ Cardinality(Joined(db)) <= Cardinality(Attributed(db))
    <2> HIDE DEF pair
    <2> QED
      BY <1>1, ImageOf
  <1>5. Cardinality(Joined(db)) = Cardinality(Attributed(db))
    <2>1. \A a, b \in Attributed(db) : pair[a] = pair[b] => a = b
      OBVIOUS
    <2> HIDE DEF pair
    <2> QED
      BY <1>1, <2>1, ImageOf
  <1>3. /\ IsFiniteSet(P) /\ Cardinality(P) \in Nat /\ Cardinality(P) <= Cardinality(Joined(db))
    BY <1>2, FS_Subset, FS_CardinalityType
  <1>4. \A p \in P : /\ p[1] \in Attributed(db) /\ p[2] = Shown(db)[p[1]]
                     /\ p = <<p[1], p[2]>>
    BY <1>1
  <1> QED
    BY <1>1, <1>2, <1>3, <1>4, <1>5

\* The lags are one for each pair, since a conversion is in one.
LEMMA LagsCount ==
    ASSUME NEW db, Sound(db), NEW P \in SUBSET Joined(db)
    PROVE  Cardinality({<<p[1].conversion_id, Lag(p)>> : p \in P}) = Cardinality(P)
  <1> DEFINE lag == [p \in P |-> <<p[1].conversion_id, Lag(p)>>]
  <1>1. IsFiniteSet(P)
    BY PairsCount
  <1>2. ASSUME NEW p \in P, NEW q \in P, lag[p] = lag[q]
        PROVE  p = q
    <2>1. p[1].conversion_id = q[1].conversion_id
      BY <1>2
    <2>2. /\ p[1] \in Attributed(db) /\ p[2] = Shown(db)[p[1]] /\ p = <<p[1], p[2]>>
          /\ q[1] \in Attributed(db) /\ q[2] = Shown(db)[q[1]] /\ q = <<q[1], q[2]>>
      BY PairsCount
    <2>3. p[1] = q[1]
      BY <2>1, <2>2 DEF Sound, Attributed
    <2> QED
      BY <2>2, <2>3
  <1>3. {<<p[1].conversion_id, Lag(p)>> : p \in P} = {lag[p] : p \in P}
    OBVIOUS
  <1> HIDE DEF lag
  <1>4. Cardinality({lag[p] : p \in P}) = Cardinality(P)
    BY <1>1, <1>2, ImageOf
  <1> QED
    BY <1>3, <1>4

\* The rows of the join with a campaign are those whose exposure is its.
LEMMA CreditedTo ==
    ASSUME NEW db, Sound(db), NEW m
    PROVE  {p[1] : p \in {q \in Joined(db) : q[2].campaign_id = m}}
             = {a \in Attributed(db) : Shown(db)[a].campaign_id = m}
  <1> DEFINE P == {q \in Joined(db) : q[2].campaign_id = m}
  <1>1. ASSUME NEW a \in Attributed(db), Shown(db)[a].campaign_id = m
        PROVE  a \in {p[1] : p \in P}
    <2> DEFINE p == <<a, Shown(db)[a]>>
    <2>1. p \in Joined(db)
      BY JoinedOnce
    <2>2. p[1] = a /\ p[2] = Shown(db)[a]
      OBVIOUS
    <2> HIDE DEF p
    <2>3. p \in P
      BY <1>1, <2>1, <2>2
    <2> QED
      BY <2>2, <2>3
  <1>2. ASSUME NEW p \in P
        PROVE  p[1] \in Attributed(db) /\ Shown(db)[p[1]].campaign_id = m
    <2>1. p \in Joined(db) /\ p[2].campaign_id = m
      OBVIOUS
    <2> QED
      BY <2>1, PairsCount
  <1> HIDE DEF P
  <1>3. {p[1] : p \in P} = {a \in Attributed(db) : Shown(db)[a].campaign_id = m}
    BY <1>1, <1>2
  <1> QED
    BY <1>3 DEF P

\* The campaigns of a report count every attributed row.
LEMMA CampaignsCount ==
    ASSUME NEW db, Sound(db)
    PROVE  Total(campaign_metrics(report(db)), "conversions") = Cardinality(Attributed(db))
  <1> DEFINE A == Attributed(db)
             campaign == [e \in db.exposures |-> e.campaign_id]
             D == {campaign[e] : e \in db.exposures}
             credited(m) == {p[1] : p \in {q \in Joined(db) : q[2].campaign_id = m}}
             of(m, type) == Cardinality({a \in credited(m) : a.conversion_type = type})
             spend(m) == Total({e \in db.exposures : e.campaign_id = m}, "spend")
             shown(m) == Cardinality({e \in db.exposures : e.campaign_id = m})
             row == [m \in D |->
                       [campaign |-> m, spend |-> spend(m), exposures |-> shown(m),
                        conversions |-> Cardinality(credited(m)),
                        purchases |-> of(m, "purchase"), revenue |-> Revenue(credited(m)),
                        roas |-> _ratio(Revenue(credited(m)), spend(m)),
                        cpa |-> _ratio(spend(m), of(m, "purchase")),
                        cvr |-> _ratio(Cardinality(credited(m)), shown(m)),
                        site_visit_rate |-> _ratio(of(m, "site_visit"), shown(m))]]
             key == [a \in A |-> Shown(db)[a].campaign_id]
  <1>1. IsFiniteSet(D) /\ IsFiniteSet(A)
    <2>1. IsFiniteSet(db.exposures) /\ IsFiniteSet(A)
      BY JoinedOnce DEF Sound
    <2> HIDE DEF campaign
    <2>2. IsFiniteSet({campaign[e] : e \in db.exposures})
      BY <2>1, ImageOf
    <2> QED
      BY <2>1, <2>2
  <1>2. campaign_metrics(report(db)) = {row[m] : m \in D}
    <2> DEFINE line(m) == <<m, spend(m), shown(m), Cardinality(credited(m)), of(m, "purchase"),
                            Revenue(credited(m)),
                            _ratio(Revenue(credited(m)), spend(m)),
                            _ratio(spend(m), of(m, "purchase")),
                            _ratio(Cardinality(credited(m)), shown(m)),
                            _ratio(of(m, "site_visit"), shown(m))>>
    <2>1. report(db) = {line(m) : m \in {e.campaign_id : e \in db.exposures}}
      BY DEF report
    <2>2. {e.campaign_id : e \in db.exposures} = D
      OBVIOUS
    <2> DEFINE metric(r) == [campaign |-> r[1], spend |-> r[2], exposures |-> r[3],
                             conversions |-> r[4], purchases |-> r[5], revenue |-> r[6],
                             roas |-> r[7], cpa |-> r[8], cvr |-> r[9],
                             site_visit_rate |-> r[10]]
    <2>3. campaign_metrics(report(db)) = {metric(r) : r \in report(db)}
      BY DEF campaign_metrics
    <2> HIDE DEF D, credited, of, spend, shown
    <2>4. \A m \in D : metric(line(m)) = row[m]
      OBVIOUS
    <2> HIDE DEF metric, line, row
    <2> QED
      BY <2>1, <2>2, <2>3, <2>4
  <1>3. \A c, d \in D : row[c] = row[d] => c = d
    OBVIOUS
  <1>4. ASSUME NEW m \in D
        PROVE  row[m]["conversions"] = Cardinality({a \in A : key[a] = m})
    <2>1. credited(m) = {a \in A : Shown(db)[a].campaign_id = m}
      BY CreditedTo
    <2>2. {a \in A : key[a] = m} = {a \in A : Shown(db)[a].campaign_id = m}
      OBVIOUS
    <2>3. row[m]["conversions"] = Cardinality(credited(m))
      OBVIOUS
    <2> HIDE DEF credited, key, row
    <2> QED
      BY <2>1, <2>2, <2>3
  <1>5. key \in [A -> D]
    BY JoinedOnce
  <1> HIDE DEF A, D, row, key
  <1>6. Total({row[m] : m \in D}, "conversions") = Cardinality(A)
    BY <1>1, <1>3, <1>4, <1>5, CountByGroup
  <1> QED
    BY <1>2, <1>6 DEF A

\* The rows behind some clusters: the clusters count them.
LEMMA ClustersCount ==
    ASSUME NEW A, IsFiniteSet(A), NEW C \in SUBSET Clusters(A)
    PROVE  Total(C, "attributed_conversions")
             = Cardinality({a \in A : \E c \in C : c.ip = a.ip})
  <1> DEFINE B == {a \in A : \E c \in C : c.ip = a.ip}
             key == [a \in B |-> a.ip]
             D == {key[a] : a \in B}
             on(ip) == {a \in A : a.ip = ip}
             row == [ip \in D |-> [ip |-> ip, attributed_conversions |-> Cardinality(on(ip)),
                                   max_candidate_count |-> WidestFanOut(on(ip))]]
             line(ip) == [ip |-> ip, attributed_conversions |-> Cardinality(on(ip)),
                          max_candidate_count |-> WidestFanOut(on(ip))]
  <1>1. IsFiniteSet(B)
    BY FS_Subset
  <1>2. IsFiniteSet(D) /\ key \in [B -> D]
    <2>1. key \in [B -> D]
      OBVIOUS
    <2> HIDE DEF B, key
    <2> QED
      BY <1>1, <2>1, ImageOf
  <1>3. C = {row[ip] : ip \in D}
    <2>1. Clusters(A) = {line(ip) : ip \in {a.ip : a \in A}}
      BY DEF Clusters
    <2>2. \A ip : line(ip).ip = ip
      OBVIOUS
    <2>3. \A ip \in D : row[ip] = line(ip)
      OBVIOUS
    <2>4. D = {a.ip : a \in B}
      OBVIOUS
    <2> HIDE DEF line, row, D
    <2>5. ASSUME NEW c \in C  PROVE c \in {row[ip] : ip \in D}
      <3>1. PICK a \in A : c = line(a.ip)
        BY <2>1
      <3>2. a \in B
        BY <2>2, <3>1
      <3>3. a.ip \in D
        BY <2>4, <3>2
      <3> QED
        BY <2>3, <3>1, <3>3
    <2>6. ASSUME NEW ip \in D  PROVE row[ip] \in C
      <3>1. PICK a \in B : a.ip = ip
        BY <2>4
      <3>2. PICK c \in C : c.ip = ip
        BY <3>1
      <3>3. PICK b \in A : c = line(b.ip)
        BY <2>1
      <3>4. c = line(ip)
        BY <2>2, <3>2, <3>3
      <3> QED
        BY <2>3, <3>4
    <2> QED
      BY <2>5, <2>6
  <1>4. \A c, d \in D : row[c] = row[d] => c = d
    OBVIOUS
  <1>5. ASSUME NEW ip \in D
        PROVE  row[ip]["attributed_conversions"] = Cardinality({a \in B : key[a] = ip})
    <2>1. on(ip) = {a \in B : key[a] = ip}
      OBVIOUS
    <2> QED
      BY <2>1
  <1> HIDE DEF B, D, row, key
  <1>6. \A d \in D : row[d]["attributed_conversions"] = Cardinality({a \in B : key[a] = d})
    BY <1>5
  <1>7. key \in [B -> D] /\ IsFiniteSet(D)
    BY <1>2
  <1>8. Total({row[d] : d \in D}, "attributed_conversions") = Cardinality(B)
    <2>1. IsFiniteSet(D)
      BY <1>7
    <2>2. key \in [B -> D]
      BY <1>7
    <2>3. ASSUME NEW f, f = "attributed_conversions"  PROVE Total({row[d] : d \in D}, f) = Cardinality(B)
      <3>1. \A d \in D : row[d][f] = Cardinality({a \in B : key[a] = d})
        BY <1>6, <2>3
      <3> QED
        BY <1>1, <1>4, <2>1, <2>2, <3>1, CountByGroup
    <2> QED
      BY <2>3
  <1> QED
    BY <1>3, <1>8 DEF B

\* Rows with integers to be ordered by.
Listable(rows) ==
    IsFiniteSet(rows) /\ \A r \in rows : r.attributed_conversions \in Int /\ r.ip \in Int

\* The order is one, and the rows before a row are fewer than those before a later one.
LEMMA ListOrder ==
    ASSUME NEW rows, Listable(rows), NEW r \in rows, NEW q \in rows, Before(q, r)
    PROVE  LET before(x) == {y \in rows : Before(y, x)}
           IN /\ before(q) \subseteq before(r) /\ q \in before(r) \ before(q)
              /\ Cardinality(before(q)) \in Nat /\ Cardinality(before(r)) \in Nat
              /\ Cardinality(before(q)) < Cardinality(before(r))
  <1> DEFINE before(x) == {y \in rows : Before(y, x)}
  <1>1. before(q) \subseteq before(r) /\ q \in before(r) /\ q \notin before(q)
    BY DEF Before, Listable
  <1>2. IsFiniteSet(before(r)) /\ IsFiniteSet(before(q))
    BY FS_Subset DEF Listable
  <1>3. Cardinality(before(q)) \in Nat /\ Cardinality(before(r)) \in Nat
    BY <1>2, FS_CardinalityType
  <1>4. before(q) \subseteq before(r) \ {q} /\ IsFiniteSet(before(r) \ {q})
        /\ Cardinality(before(r) \ {q}) = Cardinality(before(r)) - 1
    BY <1>1, <1>2, FS_RemoveElement
  <1>5. Cardinality(before(q)) <= Cardinality(before(r) \ {q})
    BY <1>4, FS_Subset
  <1> QED
    BY <1>1, <1>3, <1>4, <1>5

\* A list shorter than its limit is whole, and what a list leaves out is no greater than
\* what it holds.
LEMMA ListIs ==
    ASSUME NEW rows, Listable(rows)
    PROVE  /\ Limited(rows) \subseteq rows
           /\ Cardinality(Limited(rows)) < TopClusters => Limited(rows) = rows
           /\ \A c \in Limited(rows) : \A r \in rows \ Limited(rows) :
                 r.attributed_conversions <= c.attributed_conversions
  <1> DEFINE before(x) == {y \in rows : Before(y, x)}
             list == Limited(rows)
  <1>1. list = {r \in rows : Cardinality(before(r)) < TopClusters}
    BY DEF Limited
  <1>2. ASSUME Cardinality(list) < TopClusters, list # rows
        PROVE  FALSE
    <2> DEFINE Cut == {before(r) : r \in rows \ list}
    <2>1. Cut # {} /\ Cut \in SUBSET (SUBSET rows) /\ IsFiniteSet(rows)
      BY <1>1, <1>2 DEF Listable
    <2>2. PICK R \in Cut : \A U \in SUBSET rows : U \subseteq R /\ U # R => U \notin Cut
      <3> HIDE DEF Cut
      <3> QED
        BY <2>1, SmallestSubset
    <2>3. PICK r \in rows \ list : R = before(r)
      OBVIOUS
    <2>4. ASSUME NEW q \in before(r)  PROVE q \in list
      <3>1. q \in rows /\ Before(q, r)
        OBVIOUS
      <3>2. before(q) \subseteq before(r) /\ before(q) # before(r) /\ before(q) \in SUBSET rows
        BY <3>1, ListOrder
      <3>3. before(q) \notin Cut
        BY <2>2, <2>3, <3>2
      <3> QED
        BY <3>1, <3>3
    <2>5. IsFiniteSet(list) /\ before(r) \subseteq list
      <3>1. list \subseteq rows /\ IsFiniteSet(rows)
        BY <1>1 DEF Listable
      <3> QED
        BY <2>4, <3>1, FS_Subset
    <2>6. Cardinality(before(r)) <= Cardinality(list) /\ Cardinality(list) \in Nat
          /\ Cardinality(before(r)) \in Nat
      BY <2>5, FS_Subset, FS_CardinalityType
    <2>7. ~(Cardinality(before(r)) < TopClusters)
      BY <1>1, <2>3
    <2> QED
      BY <1>2, <2>6, <2>7, ObserveAssumption
  <1>3. ASSUME NEW c \in list, NEW r \in rows \ list,
               ~(r.attributed_conversions <= c.attributed_conversions)
        PROVE  FALSE
    <2>1. c \in rows /\ r \in rows
      BY <1>1
    <2>2. Before(r, c)
      BY <1>3, <2>1 DEF Before, Listable
    <2>3. /\ Cardinality(before(r)) < Cardinality(before(c))
          /\ Cardinality(before(r)) \in Nat /\ Cardinality(before(c)) \in Nat
      BY <2>1, <2>2, ListOrder
    <2>4. Cardinality(before(c)) < TopClusters /\ ~(Cardinality(before(r)) < TopClusters)
      BY <1>1, <1>3, <2>1
    <2> QED
      BY <2>3, <2>4, ObserveAssumption
  <1> QED
    BY <1>1, <1>2, <1>3

\* The clusters of one reading can be listed.
LEMMA ClustersListable ==
    ASSUME NEW db, Sound(db)
    PROVE  /\ IsFiniteSet(IpResolved(Attributed(db)))
           /\ \A a \in IpResolved(Attributed(db)) : a.candidate_count \in Nat
           /\ Listable(Clusters(IpResolved(Attributed(db))))
  <1> DEFINE A == IpResolved(Attributed(db))
             on(ip) == {a \in A : a.ip = ip}
             line == [a \in A |-> [ip |-> a.ip, attributed_conversions |-> Cardinality(on(a.ip)),
                                   max_candidate_count |-> WidestFanOut(on(a.ip))]]
  <1>1. IsFiniteSet(A) /\ A \subseteq db.conversions
    <2>1. A \subseteq Attributed(db) /\ IsFiniteSet(Attributed(db))
      BY JoinedOnce DEF IpResolved
    <2> QED
      BY <2>1, FS_Subset DEF Attributed
  <1>2. \A a \in A : a.candidate_count \in Nat /\ a.ip \in Int
    BY <1>1 DEF Sound
  <1>3. Clusters(A) = {line[a] : a \in A}
    BY DEF Clusters
  <1>4. \A a \in A : line[a].ip = a.ip /\ line[a].attributed_conversions = Cardinality(on(a.ip))
    OBVIOUS
  <1>5. \A ip : Cardinality(on(ip)) \in Int
    <2> SUFFICES ASSUME NEW ip  PROVE Cardinality(on(ip)) \in Int
      OBVIOUS
    <2>1. IsFiniteSet(on(ip))
      BY <1>1, FS_Subset
    <2>2. Cardinality(on(ip)) \in Nat
      BY <2>1, FS_CardinalityType
    <2> QED
      BY <2>2
  <1> HIDE DEF A, line, on
  <1>6. IsFiniteSet(Clusters(A))
    BY <1>1, <1>3, ImageOf
  <1>7. \A r \in Clusters(A) : r.attributed_conversions \in Int /\ r.ip \in Int
    BY <1>2, <1>3, <1>4, <1>5
  <1> QED
    BY <1>1, <1>2, <1>6, <1>7 DEF Listable, A

\* What the list of clusters accounts for.
LEMMA ListCount ==
    ASSUME NEW db, Sound(db)
    PROVE  LET list == IP_CLUSTER_TOP(db)
               all == Cardinality(IpResolved(Attributed(db)))
           IN /\ Total(list, "attributed_conversions") \in Nat /\ all \in Nat
              /\ all <= Cardinality(Attributed(db))
              /\ Total(list, "attributed_conversions") <= all
              /\ Cardinality(list) < TopClusters
                    => Total(list, "attributed_conversions") = all
  <1> DEFINE A == IpResolved(Attributed(db))
             list == IP_CLUSTER_TOP(db)
             B == {a \in A : \E c \in list : c.ip = a.ip}
  <1>1. IsFiniteSet(A) /\ Listable(Clusters(A))
    BY ClustersListable
  <1>2. list = Limited(Clusters(A)) /\ list \in SUBSET Clusters(A)
    BY <1>1, ListIs DEF IP_CLUSTER_TOP
  <1> HIDE DEF A, list
  <1>3. Total(list, "attributed_conversions") = Cardinality(B)
    BY <1>1, <1>2, ClustersCount
  <1>4. /\ Cardinality(B) <= Cardinality(A)
        /\ Cardinality(B) \in Nat /\ Cardinality(A) \in Nat
    <2>1. B \subseteq A
      OBVIOUS
    <2> HIDE DEF B
    <2> QED
      BY <1>1, <2>1, FS_Subset, FS_CardinalityType
  <1>5. ASSUME Cardinality(list) < TopClusters  PROVE B = A
    <2>1. list = Clusters(A)
      BY <1>1, <1>2, <1>5, ListIs
    <2> DEFINE line(k) == [ip |-> k,
                           attributed_conversions |-> Cardinality({a \in A : a.ip = k}),
                           max_candidate_count |-> WidestFanOut({a \in A : a.ip = k})]
    <2>2. ASSUME NEW a \in A  PROVE \E c \in list : c.ip = a.ip
      <3>1. line(a.ip) \in Clusters(A)
        BY DEF Clusters
      <3>2. line(a.ip).ip = a.ip
        OBVIOUS
      <3> HIDE DEF line
      <3> QED
        BY <2>1, <3>1, <3>2
    <2> QED
      BY <2>2
  <1>6. Cardinality(A) <= Cardinality(Attributed(db))
    <2>1. A \subseteq Attributed(db) /\ IsFiniteSet(Attributed(db))
      BY JoinedOnce DEF A, IpResolved
    <2> QED
      BY <2>1, FS_Subset
  <1> HIDE DEF B
  <1>7. Cardinality(list) < TopClusters => Total(list, "attributed_conversions") = Cardinality(A)
    BY <1>3, <1>5
  <1> QED
    BY <1>3, <1>4, <1>6, <1>7 DEF A, list

\* What is read of a genre is the pairs of the join with it.
LEMMA GenreCredits ==
    ASSUME NEW db, Sound(db), NEW g
    PROVE  Total({r \in GENRE_CONVERSIONS(db) : r.genre = g}, "n")
             = Cardinality({p \in Joined(db) : p[2].genre = g})
  <1> DEFINE n(h) == Cardinality({p \in Joined(db) : p[2].genre = h})
             own == {r \in GENRE_CONVERSIONS(db) : r.genre = g}
  <1>1. GENRE_CONVERSIONS(db) = {[genre |-> h, n |-> n(h)] : h \in {p[2].genre : p \in Joined(db)}}
    BY DEF GENRE_CONVERSIONS
  <1>2. {p \in Joined(db) : p[2].genre = g} \in SUBSET Joined(db)
    OBVIOUS
  <1>3. n(g) \in Nat
    BY <1>2, PairsCount
  <1> HIDE DEF n
  <1>4. CASE g \in {p[2].genre : p \in Joined(db)}
    <2> DEFINE r == [genre |-> g, n |-> n(g)]
    <2>1. own = {r}
      BY <1>1, <1>4
    <2>2. r["n"] = n(g)
      OBVIOUS
    <2> HIDE DEF r, own
    <2>3. Total({r}, "n") = r["n"]
      BY <1>3, <2>2, TotalOfOne
    <2> QED
      BY <2>1, <2>2, <2>3 DEF own, n
  <1>5. CASE g \notin {p[2].genre : p \in Joined(db)}
    <2>1. own = {}
      BY <1>1, <1>5
    <2>2. {p \in Joined(db) : p[2].genre = g} = {}
      BY <1>5
    <2>3. n(g) = 0
      BY <2>2, FS_EmptySet DEF n
    <2> HIDE DEF own
    <2>4. Total(own, "n") = 0
      BY <2>1, TotalOfOne
    <2> QED
      BY <2>3, <2>4 DEF own, n
  <1> QED
    BY <1>4, <1>5

\* The rows of a genre reach, over exposures seen before.
LEMMA GenreRows ==
    ASSUME NEW db, Sound(db), NEW seen
    PROVE  LET shown(g) == Cardinality({e \in seen.exposures : e.genre = g})
               n(g) == Cardinality({p \in Joined(db) : p[2].genre = g})
           IN genre_reach(GENRE_EXPOSURES(seen), GENRE_CONVERSIONS(db)) =
                {[genre |-> g, exposures |-> shown(g), attributed_conversions |-> n(g),
                  conversions_per_exposure |-> _ratio(n(g), shown(g))] :
                    g \in {e.genre : e \in seen.exposures}}
  <1> DEFINE shown(g) == Cardinality({e \in seen.exposures : e.genre = g})
             n(g) == Cardinality({p \in Joined(db) : p[2].genre = g})
             total(g) == Total({r \in GENRE_CONVERSIONS(db) : r.genre = g}, "n")
             reach(r) == [genre |-> r.genre, exposures |-> r.exposures,
                          attributed_conversions |-> total(r.genre),
                          conversions_per_exposure |-> _ratio(total(r.genre), r.exposures)]
             G == {e.genre : e \in seen.exposures}
             exposed(g) == [genre |-> g, exposures |-> shown(g)]
             line(g) == [genre |-> g, exposures |-> shown(g), attributed_conversions |-> n(g),
                         conversions_per_exposure |-> _ratio(n(g), shown(g))]
  <1>1. GENRE_EXPOSURES(seen) = {exposed(g) : g \in G}
    BY DEF GENRE_EXPOSURES
  <1>2. genre_reach(GENRE_EXPOSURES(seen), GENRE_CONVERSIONS(db))
          = {reach(r) : r \in GENRE_EXPOSURES(seen)}
    BY DEF genre_reach
  <1>3. \A g : total(g) = n(g)
    BY GenreCredits
  <1> HIDE DEF shown, n, total, G
  <1>4. \A g : reach(exposed(g)) = line(g)
    BY <1>3
  <1> HIDE DEF reach, exposed, line
  <1>5. genre_reach(GENRE_EXPOSURES(seen), GENRE_CONVERSIONS(db)) = {line(g) : g \in G}
    BY <1>1, <1>2, <1>4
  <1> QED
    BY <1>5 DEF shown, n, G, line

\* The genres count the credits of what was seen of them, and more.
LEMMA GenresCount ==
    ASSUME NEW db, Sound(db), NEW seen, Sound(seen), seen.exposures \subseteq db.exposures,
           Attributed(seen) \subseteq Attributed(db)
    PROVE  LET reached == Total(genre_reach(GENRE_EXPOSURES(seen), GENRE_CONVERSIONS(db)),
                                "attributed_conversions")
           IN reached \in Nat /\ Cardinality(Attributed(seen)) <= reached
  <1> DEFINE shown(g) == Cardinality({e \in seen.exposures : e.genre = g})
             n(g) == Cardinality({p \in Joined(db) : p[2].genre = g})
             genre == [e \in seen.exposures |-> e.genre]
             D == {genre[e] : e \in seen.exposures}
             row == [g \in D |-> [genre |-> g, exposures |-> shown(g),
                                  attributed_conversions |-> n(g),
                                  conversions_per_exposure |-> _ratio(n(g), shown(g))]]
             P == {p \in Joined(db) : p[2].genre \in D}
             key == [p \in P |-> p[2].genre]
  <1>1. IsFiniteSet(D)
    <2> HIDE DEF genre
    <2> QED
      BY ImageOf DEF Sound
  <1>2. genre_reach(GENRE_EXPOSURES(seen), GENRE_CONVERSIONS(db)) = {row[g] : g \in D}
    <2>1. D = {e.genre : e \in seen.exposures}
      OBVIOUS
    <2>2. genre_reach(GENRE_EXPOSURES(seen), GENRE_CONVERSIONS(db)) =
            {[genre |-> g, exposures |-> shown(g), attributed_conversions |-> n(g),
              conversions_per_exposure |-> _ratio(n(g), shown(g))] : g \in {e.genre : e \in seen.exposures}}
      BY GenreRows
    <2> HIDE DEF D, n, shown
    <2> QED
      BY <2>1, <2>2
  <1>3. \A c, d \in D : row[c] = row[d] => c = d
    <2> HIDE DEF D, n, shown
    <2> QED
      OBVIOUS
  <1>4. ASSUME NEW g \in D
        PROVE  row[g]["attributed_conversions"] = Cardinality({p \in P : key[p] = g})
    <2>1. {p \in P : key[p] = g} = {p \in Joined(db) : p[2].genre = g}
      OBVIOUS
    <2>2. row[g]["attributed_conversions"] = n(g)
      OBVIOUS
    <2> HIDE DEF row, key
    <2> QED
      BY <2>1, <2>2
  <1>5. IsFiniteSet(P) /\ Cardinality(P) \in Nat /\ P \in SUBSET Joined(db)
    <2>1. P \in SUBSET Joined(db)
      OBVIOUS
    <2> HIDE DEF P
    <2> QED
      BY <2>1, PairsCount
  <1>6. key \in [P -> D]
    OBVIOUS
  <1>8. Joined(seen) \subseteq P
    <2> SUFFICES ASSUME NEW p \in Joined(seen)  PROVE p \in Joined(db) /\ p[2].genre \in D
      OBVIOUS
    <2>1. p[1] \in Attributed(seen) /\ p[2] \in seen.exposures
      BY DEF Joined
    <2>2. p[2].genre \in D
      BY <2>1
    <2> QED
      BY <2>2 DEF Joined
  <1>9. Cardinality(Joined(seen)) = Cardinality(Attributed(seen))
    <2>1. Joined(seen) \in SUBSET Joined(seen)
      OBVIOUS
    <2> QED
      BY <2>1, PairsCount
  <1>10. Cardinality(Joined(seen)) <= Cardinality(P)
    <2> HIDE DEF P
    <2> QED
      BY <1>5, <1>8, FS_Subset
  <1> HIDE DEF D, row, key, P
  <1>7. Total({row[g] : g \in D}, "attributed_conversions") = Cardinality(P)
    BY <1>1, <1>3, <1>4, <1>5, <1>6, CountByGroup
  <1> QED
    BY <1>2, <1>5, <1>7, <1>9, <1>10

----------------------------------------------------------------------------
(* What a request has read, and when.                                       *)

\* The numbers of statements executed.
Moments == 0..Cardinality(Statements)

\* A statement is earlier by the first of its four numbers that differs.
LEMMA EarlierIs ==
    ASSUME NEW s, NEW t
    PROVE  Earlier(s, t) <=>
             \/ s[1] < t[1]
             \/ s[1] = t[1] /\ s[2] < t[2]
             \/ s[1] = t[1] /\ s[2] = t[2] /\ s[3] < t[3]
             \/ s[1] = t[1] /\ s[2] = t[2] /\ s[3] = t[3] /\ s[4] < t[4]
  <1>1. 1..4 = {1, 2, 3, 4} /\ 1..0 = {} /\ 1..1 = {1} /\ 1..2 = {1, 2} /\ 1..3 = {1, 2, 3}
    OBVIOUS
  <1>2. 1 - 1 = 0 /\ 2 - 1 = 1 /\ 3 - 1 = 2 /\ 4 - 1 = 3
    OBVIOUS
  <1> DEFINE at(i) == s[i] < t[i] /\ \A j \in 1..i - 1 : s[j] = t[j]
  <1>3. at(1) <=> s[1] < t[1]
    BY <1>1, <1>2
  <1>4. at(2) <=> s[1] = t[1] /\ s[2] < t[2]
    BY <1>1, <1>2
  <1>5. at(3) <=> s[1] = t[1] /\ s[2] = t[2] /\ s[3] < t[3]
    BY <1>1, <1>2
  <1>6. at(4) <=> s[1] = t[1] /\ s[2] = t[2] /\ s[3] = t[3] /\ s[4] < t[4]
    BY <1>1, <1>2
  <1>7. Earlier(s, t) <=> \E i \in 1..4 : at(i)
    BY DEF Earlier
  <1> HIDE DEF at
  <1> QED
    BY <1>1, <1>3, <1>4, <1>5, <1>6, <1>7

\* The day of a row, by its time.
LEMMA DayOf ==
    ASSUME NEW r, r.event_time \in Int
    PROVE  /\ Day(r) \in Int
           /\ \A q : q.event_time \in Int /\ q.event_time <= r.event_time => Day(q) <= Day(r)
  BY ObserveAssumption DEF Day

\* There are finitely many statements, each at its place.
LEMMA StatementsOrdered ==
    /\ IsFiniteSet(Statements) /\ Cardinality(Statements) \in Nat
    /\ \A s \in Statements : s[1] \in Int /\ s[2] \in Int /\ s[3] \in Int /\ s[4] \in Int
    /\ \A s, t, u \in Statements : Earlier(s, t) /\ Earlier(t, u) => Earlier(s, u)
    /\ \A stage \in Stages : WorkOf(stage) \in Moments
  <1> DEFINE Put(pass, table, rows) == {Insert(pass, table, r) : r \in rows}
  <1>1. Statements = Put(1, 1, Impressions) \cup Put(1, 2, HotRows) \cup Put(2, 2, Recovered)
                       \cup {PreSnapshot, PostSnapshot}
    BY DEF Statements
  <1>2. ASSUME NEW pass, NEW table, NEW rows, IsFiniteSet(rows)
        PROVE  IsFiniteSet(Put(pass, table, rows))
    <2> DEFINE put == [r \in rows |-> Insert(pass, table, r)]
    <2>1. Put(pass, table, rows) = {put[r] : r \in rows}
      OBVIOUS
    <2> HIDE DEF put, Put
    <2> QED
      BY <1>2, <2>1, ImageOf
  <1>3. IsFiniteSet(Statements)
    <2>1. /\ IsFiniteSet(Put(1, 1, Impressions)) /\ IsFiniteSet(Put(1, 2, HotRows))
          /\ IsFiniteSet(Put(2, 2, Recovered))
      BY <1>2, TablesAssumption
    <2>2. IsFiniteSet({PreSnapshot} \cup {PostSnapshot})
      BY FS_Singleton, FS_Union
    <2>3. {PreSnapshot, PostSnapshot} = {PreSnapshot} \cup {PostSnapshot}
      OBVIOUS
    <2> HIDE DEF Put
    <2>4. IsFiniteSet(Put(1, 1, Impressions) \cup Put(1, 2, HotRows))
      BY <2>1, FS_Union
    <2>5. IsFiniteSet(Put(1, 1, Impressions) \cup Put(1, 2, HotRows) \cup Put(2, 2, Recovered))
      BY <2>1, <2>4, FS_Union
    <2> QED
      BY <1>1, <2>2, <2>3, <2>5, FS_Union
  <1>4. ASSUME NEW s \in Statements
        PROVE  s[1] \in Int /\ s[2] \in Int /\ s[3] \in Int /\ s[4] \in Int
    <2>1. ASSUME NEW pass \in {1, 2}, NEW table \in {1, 2},
                 NEW r \in Impressions \cup HotRows \cup Recovered, s = Insert(pass, table, r)
          PROVE  s[1] \in Int /\ s[2] \in Int /\ s[3] \in Int /\ s[4] \in Int
      <3>1. r.event_time \in Int /\ r.insert \in Nat
        BY TablesAssumption
      <3>2. Day(r) \in Int
        BY <3>1, DayOf
      <3> QED
        BY <2>1, <3>1, <3>2 DEF Insert
    <2>2. CASE s \in {PreSnapshot, PostSnapshot}
      BY <2>2 DEF PreSnapshot, PostSnapshot
    <2>3. CASE s \in Put(1, 1, Impressions) \/ s \in Put(1, 2, HotRows)
                 \/ s \in Put(2, 2, Recovered)
      BY <2>1, <2>3
    <2> HIDE DEF Put
    <2> QED
      BY <1>1, <2>2, <2>3
  <1>5. ASSUME NEW s \in Statements, NEW t \in Statements, NEW u \in Statements,
               Earlier(s, t), Earlier(t, u)
        PROVE  Earlier(s, u)
    <2>1. /\ s[1] \in Int /\ s[2] \in Int /\ s[3] \in Int /\ s[4] \in Int
          /\ t[1] \in Int /\ t[2] \in Int /\ t[3] \in Int /\ t[4] \in Int
          /\ u[1] \in Int /\ u[2] \in Int /\ u[3] \in Int /\ u[4] \in Int
      BY <1>4
    <2> QED
      BY <1>5, <2>1, EarlierIs
  <1>6. Cardinality(Statements) \in Nat
    BY <1>3, FS_CardinalityType
  <1>7. ASSUME NEW stage \in Stages  PROVE WorkOf(stage) \in Moments
    <2> DEFINE W == {s \in Statements : stage = "engine" => s[1] = 1}
    <2>1. W \subseteq Statements
      OBVIOUS
    <2>2. WorkOf(stage) = Cardinality(W)
      BY DEF WorkOf
    <2> HIDE DEF W
    <2>3. Cardinality(W) \in Nat /\ Cardinality(W) <= Cardinality(Statements)
      BY <1>3, <2>1, FS_Subset, FS_CardinalityType
    <2> QED
      BY <1>6, <2>2, <2>3 DEF Moments
  <1> QED
    BY <1>3, <1>4, <1>5, <1>6, <1>7

\* What was executed stays so, and was after what comes earlier.
LEMMA ExecutedGrows ==
    ASSUME NEW n \in Moments
    PROVE  /\ \A m \in 0..n : Executed(m) \subseteq Executed(n)
           /\ \A s \in Executed(n), t \in Statements : Earlier(t, s) => t \in Executed(n)
  <1> DEFINE before(s) == {t \in Statements : Earlier(t, s)}
  <1>1. n \in Nat /\ \A k : Executed(k) = {s \in Statements : Cardinality(before(s)) < k}
    BY StatementsOrdered DEF Moments, Executed
  <1>2. \A s : IsFiniteSet(before(s)) /\ Cardinality(before(s)) \in Nat
    <2> SUFFICES ASSUME NEW s  PROVE IsFiniteSet(before(s)) /\ Cardinality(before(s)) \in Nat
      OBVIOUS
    <2>1. before(s) \subseteq Statements
      OBVIOUS
    <2> HIDE DEF before
    <2> QED
      BY <2>1, StatementsOrdered, FS_Subset, FS_CardinalityType
  <1>3. ASSUME NEW s \in Executed(n), NEW t \in Statements, Earlier(t, s)
        PROVE  t \in Executed(n)
    <2>1. s \in Statements /\ Cardinality(before(s)) < n
      BY <1>1
    <2>2. before(t) \subseteq before(s)
      BY <1>3, <2>1, StatementsOrdered
    <2> HIDE DEF before
    <2>3. Cardinality(before(t)) <= Cardinality(before(s))
      BY <1>2, <2>2, FS_Subset
    <2>4. Cardinality(before(t)) < n
      BY <1>1, <1>2, <2>1, <2>3
    <2> QED
      BY <1>1, <2>4
  <1> HIDE DEF before
  <1>4. ASSUME NEW m \in 0..n  PROVE Executed(m) \subseteq Executed(n)
    BY <1>1, <1>2
  <1> QED
    BY <1>3, <1>4

\* The rows of some that n statements have loaded.
Loaded(n, pass, table, rows) == {r \in rows : Insert(pass, table, r) \in Executed(n)}

\* The tables by the statements executed.
LEMMA ServedTables ==
    ASSUME NEW n \in Moments
    PROVE  LET corrections == Loaded(n, 2, 2, Recovered)
           IN /\ DOMAIN Served = Moments
              /\ Served[n].exposures = Loaded(n, 1, 1, Impressions)
              /\ Served[n].conversions =
                    {r \in Loaded(n, 1, 2, HotRows) :
                       \A q \in corrections : q.conversion_id # r.conversion_id} \cup corrections
  BY DEF Served, Tables, Moments, Loaded

\* They are sound after each statement, and no statement takes a credit or an
\* exposure away.
LEMMA ServedSound ==
    ASSUME NEW n \in Moments
    PROVE  /\ Sound(Served[n])
           /\ \A m \in 0..n : /\ Attributed(Served[m]) \subseteq Attributed(Served[n])
                              /\ Served[m].exposures \subseteq Served[n].exposures
  <1> DEFINE db == Served[n]
             corrections(k) == Loaded(k, 2, 2, Recovered)
             hot(k) == Loaded(k, 1, 2, HotRows)
  <1>1. ASSUME NEW k \in Moments
        PROVE  /\ Served[k].exposures = Loaded(k, 1, 1, Impressions)
               /\ Served[k].conversions =
                     {r \in hot(k) : \A q \in corrections(k) : q.conversion_id # r.conversion_id}
                       \cup corrections(k)
               /\ hot(k) \subseteq HotRows /\ corrections(k) \subseteq Recovered
               /\ Served[k].exposures \subseteq Impressions
    BY ServedTables DEF Loaded
  <1>2. /\ db.exposures \subseteq Impressions /\ db.conversions \subseteq HotRows \cup Recovered
        /\ \A a, b \in db.conversions : a.conversion_id = b.conversion_id => a = b
    <2>1. \A a \in db.conversions :
             \/ a \in Recovered /\ a \in corrections(n)
             \/ a \in HotRows /\ \A q \in corrections(n) : q.conversion_id # a.conversion_id
      BY <1>1
    <2>2. db.exposures \subseteq Impressions /\ db.conversions \subseteq HotRows \cup Recovered
      BY <1>1
    <2> HIDE DEF db, corrections, hot
    <2>3. \A rows \in {HotRows, Recovered} :
             \A a, b \in rows : a.conversion_id = b.conversion_id => a = b
      BY TablesAssumption
    <2>4. ASSUME NEW a \in db.conversions, NEW b \in db.conversions,
                 a.conversion_id = b.conversion_id
          PROVE  a = b
      BY <2>1, <2>3, <2>4
    <2> QED
      BY <2>2, <2>4
  <1>3. IsFiniteSet(db.exposures) /\ IsFiniteSet(db.conversions)
    <2>1. IsFiniteSet(HotRows \cup Recovered)
      BY TablesAssumption, FS_Union
    <2> QED
      BY <1>2, <2>1, TablesAssumption, FS_Subset
  <1>4. \A e, f \in db.exposures : e.exposure_id = f.exposure_id => e = f
    BY <1>2, TablesAssumption
  <1>5. \A a \in db.conversions : a.candidate_count \in Nat /\ a.revenue \in Int /\ a.ip \in Int
    BY <1>2, TablesAssumption
  <1>6. ASSUME NEW a \in Attributed(db)
        PROVE  \E e \in db.exposures :
                  /\ e.exposure_id = a.credited /\ e.event_time \in Int /\ a.event_time \in Int
                  /\ e.event_time <= a.event_time
                  /\ a.path = "hot" => a.event_time - e.event_time <= WindowDays * DaySeconds
    <2>1. /\ a \in db.conversions /\ a.credited # "none" /\ a \in HotRows \cup Recovered
          /\ a.event_time \in Int /\ a.insert \in Nat
      BY <1>2, TablesAssumption DEF Attributed
    <2>2. PICK e \in Impressions :
             /\ e.exposure_id = a.credited /\ e.event_time <= a.event_time
             /\ a.path = "hot" => a.event_time - e.event_time <= WindowDays * DaySeconds
      BY <2>1, TablesAssumption
    <2>3. e.event_time \in Int /\ e.insert \in Nat
      BY TablesAssumption
    <2>4. Day(e) \in Int /\ Day(a) \in Int /\ Day(e) <= Day(a)
      BY <2>1, <2>2, <2>3, DayOf
    <2>5. PICK pass \in {1, 2} : Insert(pass, 2, a) \in Executed(n)
      <3>1. a \in hot(n) \/ a \in corrections(n)
        BY <1>1, <2>1
      <3> QED
        BY <3>1 DEF Loaded
    <2>6. Insert(1, 1, e) \in Statements
      BY DEF Statements
    <2>7. Earlier(Insert(1, 1, e), Insert(pass, 2, a))
      <3> DEFINE s == Insert(1, 1, e)
                 t == Insert(pass, 2, a)
      <3>1. /\ s[1] = 1 /\ s[2] = Day(e) /\ s[3] = 1
            /\ t[1] = pass /\ t[2] = Day(a) /\ t[3] = 2
        BY DEF Insert
      <3> HIDE DEF s, t
      <3>2. Earlier(s, t)
        BY <2>4, <3>1, EarlierIs
      <3> QED
        BY <3>2 DEF s, t
    <2>8. Insert(1, 1, e) \in Executed(n)
      BY <2>5, <2>6, <2>7, ExecutedGrows
    <2>9. e \in db.exposures
      BY <1>1, <2>8 DEF Loaded
    <2> QED
      BY <2>1, <2>2, <2>3, <2>9
  <1>7. ASSUME NEW p \in HotPairs(db)
        PROVE  Lag(p) \in 0..WindowDays * DaySeconds
    <2>1. /\ p[1] \in Attributed(db) /\ p[2] \in db.exposures /\ p[1].credited = p[2].exposure_id
          /\ p[1].path = "hot"
      BY DEF HotPairs, Joined
    <2>2. PICK e \in db.exposures :
             /\ e.exposure_id = p[1].credited /\ e.event_time \in Int /\ p[1].event_time \in Int
             /\ e.event_time <= p[1].event_time
             /\ p[1].event_time - e.event_time <= WindowDays * DaySeconds
      BY <1>6, <2>1
    <2>3. e = p[2]
      BY <1>4, <2>1, <2>2
    <2>4. WindowDays * DaySeconds \in Int
      BY ObserveAssumption
    <2> QED
      BY <2>2, <2>3, <2>4 DEF Lag
  <1>8. Sound(db)
    <2>1. \A a \in Attributed(db) : \E e \in db.exposures : e.exposure_id = a.credited
      BY <1>6
    <2> HIDE DEF db
    <2> QED
      BY <1>2, <1>3, <1>4, <1>5, <1>7, <2>1 DEF Sound
  <1>9. ASSUME NEW m \in 0..n
        PROVE  /\ Attributed(Served[m]) \subseteq Attributed(Served[n])
               /\ Served[m].exposures \subseteq Served[n].exposures
    <2>1. m \in Moments /\ Executed(m) \subseteq Executed(n)
      <3>1. n \in Nat /\ n <= Cardinality(Statements) /\ Cardinality(Statements) \in Nat
        BY StatementsOrdered DEF Moments
      <3> QED
        BY <3>1, ExecutedGrows DEF Moments
    <2>2. /\ corrections(m) \subseteq corrections(n) /\ hot(m) \subseteq hot(n)
          /\ Served[m].exposures \subseteq Served[n].exposures
      BY <1>1, <2>1 DEF Loaded
    <2>3. ASSUME NEW a \in Attributed(Served[m])  PROVE a \in Attributed(Served[n])
      <3>1. a \in Served[m].conversions /\ a.credited # "none"
        BY DEF Attributed
      <3>2. CASE a \in corrections(m)
        BY <1>1, <2>2, <3>1, <3>2 DEF Attributed
      <3>3. CASE a \in hot(m)
        <4>1. a \in hot(n) /\ a \in HotRows
          BY <1>1, <2>1, <2>2, <3>3
        <4>2. ASSUME NEW q \in corrections(n), q.conversion_id = a.conversion_id
              PROVE  FALSE
          <5>1. q \in Recovered
            BY <1>1
          <5>2. PICK h \in HotRows : h.conversion_id = q.conversion_id /\ h.credited = "none"
            BY <5>1, AlertingAssumption
          <5>3. h = a
            BY <4>1, <4>2, <5>2, TablesAssumption
          <5> QED
            BY <3>1, <5>2, <5>3
        <4>3. a \in Served[n].conversions
          BY <1>1, <4>1, <4>2
        <4> QED
          BY <3>1, <4>3 DEF Attributed
      <3> QED
        BY <1>1, <2>1, <3>1, <3>2, <3>3
    <2> QED
      BY <2>2, <2>3
  <1> QED
    BY <1>8, <1>9

\* The answers collected so far are those of tables no newer than the present ones,
\* each no older than the one before.
ReadsInOrder ==
    /\ written \in Moments
    /\ request.phase = "observing" =>
         /\ Len(request.rows) \in 0..Len(Queries)
         /\ \E at \in [1..Len(request.rows) -> 0..written] :
              /\ \A i, j \in 1..Len(request.rows) : i <= j => at[i] <= at[j]
              /\ request.rows = [i \in 1..Len(request.rows) |-> Answer[at[i]][Queries[i]]]

\* The k-th query, and the answer to it after n statements.
LEMMA Answers ==
    ASSUME NEW n \in Moments
    PROVE  /\ Answer[n][Queries[1]] = IP_CLUSTER_OVERALL(Served[n])
           /\ Answer[n][Queries[2]] = WINDOW_EDGE_LAGS(Served[n])
           /\ Answer[n][Queries[3]] = MATCH_RATE_BY_DAY(Served[n])
           /\ Answer[n][Queries[4]] = report(Served[n])
           /\ Answer[n][Queries[5]] = restatement(Served[n])
           /\ Answer[n][Queries[6]] = IP_CLUSTER_TOP(Served[n])
           /\ Answer[n][Queries[7]] = GENRE_EXPOSURES(Served[n])
           /\ Answer[n][Queries[8]] = GENRE_CONVERSIONS(Served[n])
  <1>1. DOMAIN Served = Moments
    BY ServedTables
  <1>2. Len(Queries) = 8 /\ DOMAIN Queries = 1..8
    BY DEF Queries
  <1> DEFINE Names == {Queries[i] : i \in DOMAIN Queries}
  <1>3. \A q \in Names : Answer[n][q] = Result(q, Served[n])
    BY <1>1 DEF Answer
  <1>4. \A i \in 1..8 : Answer[n][Queries[i]] = Result(Queries[i], Served[n])
    BY <1>2, <1>3
  <1> HIDE DEF Names
  <1> QED
    BY <1>4 DEF Queries, Result

\* Rows are collected while the request is observed.
RowsOfSweep == request.phase # "observing" => request.rows = <<>>

ReadInv == OneSweepAtATime /\ RowsOfSweep /\ ReadsInOrder

\* The next answer is of the tables as they are now.
LEMMA QueryReads ==
    ASSUME ReadInv, Query
    PROVE  ReadsInOrder' /\ RowsOfSweep'
  <1> DEFINE len == Len(request.rows)
             e == Answer[written][Queries[len + 1]]
  <1>1. /\ request.phase = "observing" /\ len < Len(Queries) /\ written' = written
        /\ request'.phase = "observing" /\ request'.rows = Append(request.rows, e)
    BY DEF Query, ReadInv, OneSweepAtATime, RequestType, stackVars
  <1>2. Len(Queries) = 8
    BY DEF Queries
  <1>3. len \in 0..8 /\ written \in Moments
    BY <1>1, <1>2 DEF ReadInv, ReadsInOrder
  <1>4. PICK at \in [1..len -> 0..written] :
            /\ \A i, j \in 1..len : i <= j => at[i] <= at[j]
            /\ request.rows = [i \in 1..len |-> Answer[at[i]][Queries[i]]]
    BY <1>1 DEF ReadInv, ReadsInOrder
  <1> HIDE DEF e
  <1>5. LET rows == request'.rows
        IN /\ Len(rows) = len + 1 /\ DOMAIN rows = 1..len + 1
           /\ rows[len + 1] = e /\ \A i \in 1..len : rows[i] = request.rows[i]
           /\ rows = [i \in 1..len + 1 |-> rows[i]]
    <2> DEFINE S == {request.rows[i] : i \in 1..len} \cup {e}
    <2>1. request.rows \in Seq(S) /\ e \in S
      <3>1. \A i \in 1..len : request.rows[i] \in S
        OBVIOUS
      <3>2. request.rows = [i \in 1..len |-> request.rows[i]]
        BY <1>4
      <3> HIDE DEF S
      <3>3. request.rows \in [1..len -> S]
        BY <3>1, <3>2
      <3> QED
        BY <1>3, <3>3 DEF S
    <2> HIDE DEF S
    <2>2. /\ Append(request.rows, e) \in Seq(S)
          /\ Len(Append(request.rows, e)) = len + 1
          /\ Append(request.rows, e)[len + 1] = e
          /\ \A i \in 1..len : Append(request.rows, e)[i] = request.rows[i]
      BY <2>1, AppendProperties
    <2> QED
      BY <1>1, <2>2
  <1> DEFINE next == [i \in 1..len + 1 |-> IF i <= len THEN at[i] ELSE written]
  <1>6. /\ next \in [1..len + 1 -> 0..written]
        /\ \A i, j \in 1..len + 1 : i <= j => next[i] <= next[j]
    <2>1. ASSUME NEW i \in 1..len + 1
          PROVE  next[i] \in 0..written /\ (i <= len => next[i] = at[i]) /\ (i > len => next[i] = written)
      <3>1. written \in Nat /\ written \in 0..written
        BY <1>3, StatementsOrdered DEF Moments
      <3>2. len \in Nat /\ i \in Int
        BY <1>3
      <3>3. ASSUME i <= len  PROVE at[i] \in 0..written
        <4>1. i \in 1..len
          BY <3>2, <3>3
        <4> QED
          BY <4>1
      <3>4. next[i] = IF i <= len THEN at[i] ELSE written
        OBVIOUS
      <3> HIDE DEF next
      <3> QED
        BY <3>1, <3>2, <3>3, <3>4
    <2>2. ASSUME NEW i \in 1..len + 1, NEW j \in 1..len + 1, i <= j
          PROVE  next[i] <= next[j]
      <3>1. CASE j <= len
        <4>1. i \in 1..len /\ j \in 1..len
          BY <1>3, <2>2, <3>1
        <4> HIDE DEF next
        <4> QED
          BY <1>4, <2>1, <2>2, <4>1
      <3>2. CASE j > len
        <4>1. next[j] = written /\ next[i] \in 0..written
          BY <2>1, <3>2
        <4> HIDE DEF next
        <4> QED
          BY <1>3, <4>1
      <3> QED
        BY <1>3, <3>1, <3>2
    <2> QED
      BY <2>1, <2>2
  <1>7. \A i \in 1..len + 1 : request'.rows[i] = Answer[next[i]][Queries[i]]
    <2> SUFFICES ASSUME NEW i \in 1..len + 1
                 PROVE  request'.rows[i] = Answer[next[i]][Queries[i]]
      OBVIOUS
    <2>1. CASE i <= len
      <3>1. i \in 1..len /\ next[i] = at[i]
        BY <1>3, <2>1
      <3> QED
        BY <1>4, <1>5, <3>1
    <2>2. CASE i > len
      <3>1. i = len + 1 /\ next[i] = written
        BY <1>3, <2>2
      <3> QED
        BY <1>5, <3>1 DEF e
    <2> QED
      BY <1>3, <2>1, <2>2
  <1>8. request'.rows = [i \in 1..len + 1 |-> Answer[next[i]][Queries[i]]]
    BY <1>5, <1>7
  <1> HIDE DEF next
  <1>9. ReadsInOrder'
    <2>1. Len(request'.rows) = len + 1 /\ len + 1 \in 0..Len(Queries')
      BY <1>1, <1>2, <1>3, <1>5 DEF Queries
    <2>2. Queries' = Queries /\ Answer' = Answer
      BY DEF Queries, Answer, Served, Result, Tables, Snapshot, Statements, Executed, Earlier,
             Insert, Day, PreSnapshot, PostSnapshot
    <2>3. \E f \in [1..Len(request'.rows) -> 0..written'] :
             /\ \A i, j \in 1..Len(request'.rows) : i <= j => f[i] <= f[j]
             /\ request'.rows = [i \in 1..Len(request'.rows) |-> Answer[f[i]][Queries[i]]]
      BY <1>1, <1>6, <1>8, <2>1
    <2> QED
      BY <1>1, <1>3, <2>1, <2>2, <2>3 DEF ReadsInOrder
  <1> QED
    BY <1>1, <1>9 DEF RowsOfSweep

\* A statement that is executed does not make what was read before it newer.
LEMMA WrittenOn ==
    ASSUME ReadInv, UNCHANGED request, written' \in written..Cardinality(Statements)
    PROVE  ReadsInOrder' /\ RowsOfSweep'
  <1>1. /\ written \in Moments /\ written' \in Moments /\ Moments' = Moments
        /\ written \in Nat /\ written' \in Nat /\ written <= written'
    BY StatementsOrdered DEF ReadInv, ReadsInOrder, Moments
  <1>2. ASSUME request.phase = "observing"
        PROVE  /\ Len(request.rows) \in 0..Len(Queries)
               /\ \E at \in [1..Len(request.rows) -> 0..written'] :
                     /\ \A i, j \in 1..Len(request.rows) : i <= j => at[i] <= at[j]
                     /\ request.rows = [i \in 1..Len(request.rows) |-> Answer[at[i]][Queries[i]]]
    <2>1. PICK at \in [1..Len(request.rows) -> 0..written] :
              /\ \A i, j \in 1..Len(request.rows) : i <= j => at[i] <= at[j]
              /\ request.rows = [i \in 1..Len(request.rows) |-> Answer[at[i]][Queries[i]]]
      BY <1>2 DEF ReadInv, ReadsInOrder
    <2>2. at \in [1..Len(request.rows) -> 0..written']
      <3>1. 0..written \subseteq 0..written'
        BY <1>1
      <3> QED
        BY <3>1
    <2>3. Len(request.rows) \in 0..Len(Queries)
      BY <1>2 DEF ReadInv, ReadsInOrder
    <2> QED
      BY <2>1, <2>2, <2>3
  <1>3. RowsOfSweep'
    BY DEF ReadInv, RowsOfSweep
  <1> QED
    BY <1>1, <1>2, <1>3 DEF ReadsInOrder

\* A request that begins to observe, or does not observe, has read nothing.
LEMMA NothingRead ==
    ASSUME ReadInv, UNCHANGED written, request'.rows = <<>>
    PROVE  ReadsInOrder' /\ RowsOfSweep'
  <1>1. \E at \in [1..0 -> 0..written] :
           /\ \A i, j \in 1..0 : i <= j => at[i] <= at[j]
           /\ <<>> = [i \in 1..0 |-> Answer[at[i]][Queries[i]]]
    <2> DEFINE at == [i \in 1..0 |-> 0]
    <2>3. written \in Nat
      BY StatementsOrdered DEF ReadInv, ReadsInOrder, Moments
    <2>1. at \in [1..0 -> 0..written] /\ \A i, j \in 1..0 : i <= j => at[i] <= at[j]
      OBVIOUS
    <2>2. <<>> = [i \in 1..0 |-> Answer[at[i]][Queries[i]]]
      OBVIOUS
    <2> HIDE DEF at
    <2> QED
      BY <2>1, <2>2
  <1>2. Len(request'.rows) = 0 /\ 0 \in 0..Len(Queries)
    BY DEF Queries
  <1>3. RowsOfSweep' /\ written' \in Moments /\ written \in Nat /\ Moments' = Moments
    BY StatementsOrdered DEF ReadInv, RowsOfSweep, ReadsInOrder, Moments
  <1>4. \E at \in [1..Len(request'.rows) -> 0..written'] :
           /\ \A i, j \in 1..Len(request'.rows) : i <= j => at[i] <= at[j]
           /\ request'.rows = [i \in 1..Len(request'.rows) |-> Answer[at[i]][Queries[i]]]
    <2>1. PICK at \in [1..0 -> 0..written] :
              /\ \A i, j \in 1..0 : i <= j => at[i] <= at[j]
              /\ <<>> = [i \in 1..0 |-> Answer[at[i]][Queries[i]]]
      BY <1>1
    <2>2. 1..Len(request'.rows) = 1..0
      BY <1>2
    <2>3. \A i, j \in 1..Len(request'.rows) : i <= j => at[i] <= at[j]
      BY <2>1, <2>2
    <2>4. request'.rows = [i \in 1..Len(request'.rows) |-> Answer[at[i]][Queries[i]]]
      BY <2>1, <2>2, Zenon
    <2>5. at \in [1..Len(request'.rows) -> 0..written']
      BY <2>2
    <2> QED
      BY <2>3, <2>4, <2>5
  <1> QED
    BY <1>2, <1>3, <1>4 DEF ReadsInOrder

\* Every step keeps what was read in order.
LEMMA ReadsStep ==
    ASSUME ReadInv, [Next]_vars
    PROVE  ReadInv'
  <1>1. OneSweepAtATime'
    BY RequestSteps DEF ReadInv
  <1>2. /\ written \in Moments /\ written \in Nat /\ written <= Cardinality(Statements)
        /\ Cardinality(Statements) \in Nat
    BY StatementsOrdered DEF ReadInv, ReadsInOrder, Moments
  <1>3. CASE UNCHANGED <<request, written>>
    <2>1. written' \in written..Cardinality(Statements)
      BY <1>2, <1>3
    <2> QED
      BY <1>1, <1>3, <2>1, WrittenOn DEF ReadInv
  <1>4. CASE Write
    <2>1. /\ make \in Stages /\ written < WorkOf(make) /\ written' = written + 1
          /\ UNCHANGED request
      BY <1>4 DEF Write
    <2>2. WorkOf(make) \in Nat /\ WorkOf(make) <= Cardinality(Statements)
      BY <1>2, <2>1, StatementsOrdered DEF Moments
    <2>3. written' \in written..Cardinality(Statements)
      BY <1>2, <2>1, <2>2
    <2> QED
      BY <1>1, <2>1, <2>3, WrittenOn DEF ReadInv
  <1>5. CASE Query
    BY <1>1, <1>5, QueryReads DEF ReadInv
  <1>6. CASE Post \/ Sweep \/ Reason \/ SweepFails \/ Handle \/ Respond \/ Close
    <2>1. UNCHANGED written
      BY <1>6 DEF Post, Sweep, Reason, SweepFails, Handle, Respond, Close, stackVars
    <2>2. request.phase \in {"serving"} => request.rows = <<>>
      BY DEF ReadInv, RowsOfSweep
    <2>3. request'.rows = <<>>
      <3>1. CASE Post
        BY <3>1 DEF Post, Idle
      <3>2. CASE Sweep \/ Handle \/ Respond
        <4>1. request.phase = "serving"
          BY <3>2 DEF Sweep, Handle, Respond
        <4>2. \E p, g, n, h : request' = [phase |-> p, groups |-> g, firing |-> request.firing,
                                         sweeps |-> n, handled |-> h, rows |-> request.rows]
          <5>1. request = [phase |-> request.phase, groups |-> request.groups,
                           firing |-> request.firing, sweeps |-> request.sweeps,
                           handled |-> request.handled, rows |-> request.rows]
            BY DEF ReadInv, OneSweepAtATime, RequestType
          <5>2. CASE Sweep
            BY <5>1, <5>2 DEF Sweep
          <5>3. CASE Handle
            BY <5>1, <5>3 DEF Handle
          <5>4. CASE Respond
            BY <5>1, <5>4 DEF Respond
          <5> QED
            BY <3>2, <5>2, <5>3, <5>4
        <4> QED
          BY <2>2, <4>1, <4>2
      <3>3. CASE Reason \/ SweepFails
        BY <3>3 DEF Reason, SweepFails, ReadInv, OneSweepAtATime, RequestType
      <3>4. CASE Close
        BY <3>4 DEF Close, Idle
      <3> QED
        BY <1>6, <3>1, <3>2, <3>3, <3>4
    <2> QED
      BY <1>1, <2>1, <2>3, NothingRead DEF ReadInv
  <1> QED
    BY <1>3, <1>4, <1>5, <1>6
       DEF Next, Run, Serve, Reset, Stage, CommandFails, FirstSample, SampleParts, SampleMerges,
           Unsettled, PushStorage, MergeBegins, MergeRuns, MergeEnds, AgentStep, vars, stackVars

\* What a request has read are answers of the tables after ever later statements.
THEOREM ReadsAreInOrder == Spec => []ReadInv
  <1>1. Init => ReadInv
    <2> SUFFICES ASSUME Init  PROVE ReadInv
      OBVIOUS
    <2>1. OneSweepAtATime
      BY DEF Init, LoopInit, Idle, OneSweepAtATime, RequestType
    <2>2. RowsOfSweep /\ ReadsInOrder
      BY StatementsOrdered DEF Init, Idle, RowsOfSweep, ReadsInOrder, Moments
    <2> QED
      BY <2>1, <2>2 DEF ReadInv
  <1>2. ReadInv /\ [Next]_vars => ReadInv'
    BY ReadsStep
  <1> QED
    BY <1>1, <1>2, PTL DEF Spec

----------------------------------------------------------------------------
(* The context.                                                             *)

\* Where each query of the context stands.
LEMMA ReadsOf ==
    /\ Read("ip_overall") = request.rows[1] /\ Read("lags") = request.rows[2]
    /\ Read("match_rate") = request.rows[3] /\ Read("report") = request.rows[4]
    /\ Read("restatement") = request.rows[5] /\ Read("ip_top") = request.rows[6]
    /\ Read("genre_exp") = request.rows[7] /\ Read("genre_conv") = request.rows[8]
  <1>1. DOMAIN Queries = 1..8
    BY DEF Queries
  <1>2. /\ Queries[1] = "ip_overall" /\ Queries[2] = "lags" /\ Queries[3] = "match_rate"
        /\ Queries[4] = "report" /\ Queries[5] = "restatement" /\ Queries[6] = "ip_top"
        /\ Queries[7] = "genre_exp" /\ Queries[8] = "genre_conv"
    BY DEF Queries
  <1>3. ASSUME NEW k \in 1..8  PROVE Read(Queries[k]) = request.rows[k]
    <2>1. \A i \in DOMAIN Queries : Queries[i] = Queries[k] => i = k
      BY <1>1, <1>2
    <2>2. (CHOOSE i \in DOMAIN Queries : Queries[i] = Queries[k]) = k
      BY <1>1, <2>1
    <2> QED
      BY <2>2 DEF Read
  <1> QED
    BY <1>2, <1>3

\* A completed collect has read the tables at eight moments, in the order of Queries.
ReadAt(n1, n2, n3, n4, n5, n6, n7, n8) ==
    /\ Read("ip_overall") = IP_CLUSTER_OVERALL(Served[n1])
    /\ Read("lags") = WINDOW_EDGE_LAGS(Served[n2])
    /\ Read("match_rate") = MATCH_RATE_BY_DAY(Served[n3])
    /\ Read("report") = report(Served[n4])
    /\ Read("restatement") = restatement(Served[n5])
    /\ Read("ip_top") = IP_CLUSTER_TOP(Served[n6])
    /\ Read("genre_exp") = GENRE_EXPOSURES(Served[n7])
    /\ Read("genre_conv") = GENRE_CONVERSIONS(Served[n8])

\* The eight moments, each no earlier than the one before.
LEMMA EightReads ==
    ASSUME ReadInv, Observed
    PROVE  \E at \in [1..8 -> Moments] :
              /\ \A i, j \in 1..8 : i <= j => at[i] <= at[j]
              /\ ReadAt(at[1], at[2], at[3], at[4], at[5], at[6], at[7], at[8])
  <1>1. Len(request.rows) = 8 /\ written \in Moments
    BY DEF Observed, ReadInv, ReadsInOrder, Queries
  <1>2. PICK at \in [1..8 -> 0..written] :
            /\ \A i, j \in 1..8 : i <= j => at[i] <= at[j]
            /\ request.rows = [i \in 1..8 |-> Answer[at[i]][Queries[i]]]
    BY <1>1 DEF Observed, ReadInv, ReadsInOrder
  <1>3. at \in [1..8 -> Moments]
    <2>1. 0..written \subseteq Moments
      BY <1>1, StatementsOrdered DEF Moments
    <2> QED
      BY <2>1
  <1>4. \A i \in 1..8 : request.rows[i] = Answer[at[i]][Queries[i]] /\ at[i] \in Moments
    BY <1>2, <1>3
  <1>5. ReadAt(at[1], at[2], at[3], at[4], at[5], at[6], at[7], at[8])
    BY <1>4, Answers, ReadsOf DEF ReadAt
  <1> QED
    BY <1>2, <1>3, <1>5

\* The fields of a context, by the query they come from.
LEMMA ContextFields ==
    /\ context.ip_clusters.attributed = Read("ip_overall").attributed
    /\ context.ip_clusters.ip_resolved_attributed = Read("ip_overall").ip_resolved
    /\ context.ip_clusters.top_clusters = Read("ip_top")
    /\ context.window_edge.attributed_hot = Cardinality(Read("lags"))
    /\ context.match_rate.attributed = Total(Read("match_rate"), "attributed")
    /\ context.campaigns = campaign_metrics(Read("report"))
    /\ context.restatements = campaign_restatements(Read("restatement"))
    /\ context.genre_reach = genre_reach(Read("genre_exp"), Read("genre_conv"))
    /\ context.window_edge.buckets
         = [i \in 0..WindowDays - 1 |->
              Cardinality({l \in Read("lags") : Clamped(l[2] \div DaySeconds) = i})]
  BY DEF context, build_context, match_rate_series, window_edge_stats, ip_cluster_stats

\* The queries run one after the other, and the tables only gain credits meanwhile.
LEMMA OrderedHolds ==
    ReadInv => ContextOrdered
  <1> SUFFICES ASSUME ReadInv, Observed
               PROVE  /\ context.ip_clusters.attributed <= context.match_rate.attributed
                      /\ context.window_edge.attributed_hot <= context.match_rate.attributed
                      /\ context.match_rate.attributed <= Total(context.campaigns, "conversions")
                      /\ Total(context.campaigns, "conversions")
                           <= Total(context.genre_reach, "attributed_conversions")
                      /\ Cardinality(context.ip_clusters.top_clusters) < TopClusters =>
                           context.ip_clusters.ip_resolved_attributed
                             <= Total(context.ip_clusters.top_clusters, "attributed_conversions")
                      /\ Total(context.ip_clusters.top_clusters, "attributed_conversions")
                           <= Total(context.genre_reach, "attributed_conversions")
    BY DEF ContextOrdered
  <1>1. PICK at \in [1..8 -> Moments] :
            /\ \A i, j \in 1..8 : i <= j => at[i] <= at[j]
            /\ ReadAt(at[1], at[2], at[3], at[4], at[5], at[6], at[7], at[8])
    BY EightReads
  <1> DEFINE A(i) == Attributed(Served[at[i]])
  <1>2. ASSUME NEW i \in 1..8
        PROVE  /\ at[i] \in Moments /\ Sound(Served[at[i]])
               /\ IsFiniteSet(A(i)) /\ Cardinality(A(i)) \in Nat
    <2>1. at[i] \in Moments
      OBVIOUS
    <2>2. Sound(Served[at[i]])
      BY <2>1, ServedSound
    <2> QED
      BY <2>1, <2>2, JoinedOnce
  <1>3. ASSUME NEW i \in 1..8, NEW j \in 1..8, i <= j
        PROVE  /\ A(i) \subseteq A(j) /\ Cardinality(A(i)) <= Cardinality(A(j))
               /\ Served[at[i]].exposures \subseteq Served[at[j]].exposures
    <2>1. at[i] \in Moments /\ at[j] \in Moments /\ at[i] <= at[j]
      BY <1>1, <1>3
    <2>2. at[i] \in 0..at[j]
      BY <2>1, StatementsOrdered DEF Moments
    <2>3. A(i) \subseteq A(j) /\ Served[at[i]].exposures \subseteq Served[at[j]].exposures
      BY <2>1, <2>2, ServedSound
    <2>4. IsFiniteSet(A(j))
      BY <1>2
    <2> HIDE DEF A
    <2>5. Cardinality(A(i)) <= Cardinality(A(j))
      BY <2>3, <2>4, FS_Subset
    <2> QED
      BY <2>3, <2>5
  <1>4. context.ip_clusters.attributed = Cardinality(A(1))
        /\ context.ip_clusters.ip_resolved_attributed = Cardinality(IpResolved(A(1)))
    BY <1>1, ContextFields DEF ReadAt, IP_CLUSTER_OVERALL
  <1>5. context.match_rate.attributed = Cardinality(A(3))
    <2>1. 3 \in 1..8
      OBVIOUS
    <2> QED
      BY <1>1, <1>2, <2>1, ContextFields, MatchRateCounts DEF ReadAt
  <1>6. context.window_edge.attributed_hot <= Cardinality(A(2))
        /\ context.window_edge.attributed_hot \in Nat
    <2> DEFINE db == Served[at[2]]
    <2>1. 2 \in 1..8
      OBVIOUS
    <2>2. Sound(db)
      BY <1>2, <2>1
    <2>3. HotPairs(db) \in SUBSET Joined(db)
      BY DEF HotPairs
    <2>4. Cardinality(WINDOW_EDGE_LAGS(db)) = Cardinality(HotPairs(db))
      BY <2>2, <2>3, LagsCount DEF WINDOW_EDGE_LAGS
    <2>5. Cardinality(HotPairs(db)) \in Nat /\ Cardinality(HotPairs(db)) <= Cardinality(A(2))
      BY <2>2, <2>3, PairsCount
    <2>6. context.window_edge.attributed_hot = Cardinality(WINDOW_EDGE_LAGS(db))
      BY <1>1, ContextFields DEF ReadAt
    <2> QED
      BY <2>4, <2>5, <2>6
  <1>7. Total(context.campaigns, "conversions") = Cardinality(A(4))
    <2>1. 4 \in 1..8
      OBVIOUS
    <2> QED
      BY <1>1, <1>2, <2>1, ContextFields, CampaignsCount DEF ReadAt
  <1>8. /\ Total(context.genre_reach, "attributed_conversions") \in Nat
        /\ Cardinality(A(7)) <= Total(context.genre_reach, "attributed_conversions")
    <2> DEFINE seen == Served[at[7]]
               db == Served[at[8]]
    <2>1. context.genre_reach = genre_reach(GENRE_EXPOSURES(seen), GENRE_CONVERSIONS(db))
      BY <1>1, ContextFields DEF ReadAt
    <2>2. 7 \in 1..8 /\ 8 \in 1..8 /\ 7 <= 8
      OBVIOUS
    <2>3. /\ Sound(seen) /\ Sound(db) /\ seen.exposures \subseteq db.exposures
          /\ Attributed(seen) \subseteq Attributed(db)
      BY <1>2, <1>3, <2>2
    <2> HIDE DEF seen, db
    <2> QED
      BY <2>1, <2>3, GenresCount DEF seen
  <1>9. LET list == context.ip_clusters.top_clusters
            listed == Total(list, "attributed_conversions")
        IN /\ Cardinality(list) < TopClusters =>
                context.ip_clusters.ip_resolved_attributed <= listed
           /\ listed \in Nat /\ listed <= Cardinality(A(6))
    <2>1. 1 \in 1..8 /\ 6 \in 1..8 /\ 1 <= 6
      OBVIOUS
    <2>2. A(1) \subseteq A(6) /\ IsFiniteSet(A(6)) /\ Sound(Served[at[6]])
          /\ Cardinality(A(6)) \in Nat
      BY <1>2, <1>3, <2>1
    <2>3. IpResolved(A(1)) \subseteq IpResolved(A(6)) /\ IpResolved(A(6)) \subseteq A(6)
      BY <2>2 DEF IpResolved
    <2>4. Cardinality(IpResolved(A(1))) <= Cardinality(IpResolved(A(6)))
      BY <2>2, <2>3, FS_Subset
    <2>5. context.ip_clusters.top_clusters = IP_CLUSTER_TOP(Served[at[6]])
      BY <1>1, ContextFields DEF ReadAt
    <2> DEFINE list == context.ip_clusters.top_clusters
               listed == Total(list, "attributed_conversions")
               all == Cardinality(IpResolved(A(6)))
    <2>6. /\ listed \in Nat /\ all \in Nat /\ all <= Cardinality(A(6)) /\ listed <= all
          /\ Cardinality(list) < TopClusters => listed = all
      BY <2>2, <2>5, ListCount
    <2> HIDE DEF listed, all
    <2>7. listed <= Cardinality(A(6))
      BY <2>2, <2>6
    <2>8. Cardinality(list) < TopClusters => context.ip_clusters.ip_resolved_attributed <= listed
      BY <1>4, <2>4, <2>6 DEF all
    <2> QED
      BY <2>6, <2>7, <2>8 DEF listed
  <1>10. /\ Cardinality(A(1)) <= Cardinality(A(3)) /\ Cardinality(A(2)) <= Cardinality(A(3))
         /\ Cardinality(A(3)) <= Cardinality(A(4)) /\ Cardinality(A(4)) <= Cardinality(A(7))
         /\ Cardinality(A(6)) <= Cardinality(A(7))
         /\ \A i \in {1, 2, 3, 4, 6, 7} : Cardinality(A(i)) \in Nat
    <2>1. \A i \in {1, 2, 3, 4, 6, 7} : i \in 1..8
      OBVIOUS
    <2> HIDE DEF A
    <2> QED
      BY <1>2, <1>3, <2>1
  <1> HIDE DEF A
  <1>11. context.window_edge.attributed_hot <= context.match_rate.attributed
    BY <1>5, <1>6, <1>10
  <1>12. Total(context.campaigns, "conversions")
           <= Total(context.genre_reach, "attributed_conversions")
    BY <1>7, <1>8, <1>10
  <1>13. Total(context.ip_clusters.top_clusters, "attributed_conversions")
           <= Total(context.genre_reach, "attributed_conversions")
    BY <1>8, <1>9, <1>10
  <1> QED
    BY <1>4, <1>5, <1>7, <1>9, <1>10, <1>11, <1>12, <1>13

\* A context never contradicts itself, whatever the stages write between its queries:
\* what an earlier query counts as attributed, a later one accounts for.
THEOREM ContextsAreOrdered == Spec => []ContextOrdered
  BY ReadsAreInOrder, OrderedHolds, PTL

----------------------------------------------------------------------------
(* The probes.                                                              *)

\* A fan-out is the largest of the rows', and that of their parts the largest of those.
LEMMA FanOutIs ==
    ASSUME NEW S, IsFiniteSet(S), \A a \in S : a.candidate_count \in Nat
    PROVE  /\ WidestFanOut(S) \in Nat
           /\ \A a \in S : a.candidate_count <= WidestFanOut(S)
           /\ WidestFanOut(S) = 0 \/ \E a \in S : a.candidate_count = WidestFanOut(S)
           /\ \A w \in Nat : /\ \A a \in S : a.candidate_count <= w
                             /\ w = 0 \/ \E a \in S : a.candidate_count = w
                             => w = WidestFanOut(S)
  <1> DEFINE count == [a \in S |-> a.candidate_count]
             counts == {count[a] : a \in S}
             all == {0} \cup counts
  <1>1. IsFiniteSet(counts)
    <2> HIDE DEF count
    <2> QED
      BY ImageOf
  <1>2. IsFiniteSet(all) /\ all \in SUBSET Nat /\ all # {}
    <2>1. counts \in SUBSET Nat
      OBVIOUS
    <2> HIDE DEF counts
    <2>2. IsFiniteSet(counts \cup {0})
      BY <1>1, FS_AddElement
    <2>3. all = counts \cup {0}
      OBVIOUS
    <2> QED
      BY <2>1, <2>2, <2>3
  <1>3. PICK m \in all : \A n \in all : n <= m
    <2> HIDE DEF all
    <2> QED
      BY <1>2, HasGreatest
  <1>4. WidestFanOut(S) = CHOOSE x \in all : \A y \in all : x >= y
    BY DEF WidestFanOut, Max
  <1>5. WidestFanOut(S) \in all /\ \A y \in all : y <= WidestFanOut(S)
    <2>1. m \in all /\ \A y \in all : m >= y
      BY <1>2, <1>3
    <2> DEFINE w == CHOOSE x \in all : \A y \in all : x >= y
    <2>2. w \in all /\ \A y \in all : w >= y
      <3> HIDE DEF all
      <3> QED
        BY <2>1
    <2> HIDE DEF all, w
    <2> QED
      BY <1>2, <1>4, <2>2 DEF w
  <1>6. all = {0} \cup {a.candidate_count : a \in S}
    OBVIOUS
  <1> HIDE DEF all
  <1>7. WidestFanOut(S) \in Nat
    BY <1>2, <1>5
  <1>8. ASSUME NEW w \in Nat, \A a \in S : a.candidate_count <= w,
               w = 0 \/ \E a \in S : a.candidate_count = w
        PROVE  w = WidestFanOut(S)
    <2>1. w \in all
      BY <1>6, <1>8
    <2>2. \A y \in all : y <= w
      BY <1>6, <1>8
    <2> QED
      BY <1>5, <1>7, <2>1, <2>2
  <1> QED
    BY <1>5, <1>6, <1>7, <1>8

\* The households of a cluster add up to it, and its fan-out is the widest of theirs.
LEMMA ClusterProbe ==
    ASSUME NEW db, Sound(db), NEW c \in Clusters(IpResolved(Attributed(db)))
    PROVE  LET detail == ip_cluster_detail(db, c.ip)
           IN /\ Total(detail, "attributed_conversions") = c.attributed_conversions
              /\ WidestFanOut({[candidate_count |-> r.max_candidate_count] : r \in detail})
                   = c.max_candidate_count
  <1> DEFINE cluster(ip) == {a \in IpResolved(Attributed(db)) : a.ip = ip}
  <1>1. PICK ip : c = [ip |-> ip, attributed_conversions |-> Cardinality(cluster(ip)),
                       max_candidate_count |-> WidestFanOut(cluster(ip))]
    BY DEF Clusters
  <1> DEFINE A == cluster(ip)
             home == [a \in A |-> a.household_id]
             D == {home[a] : a \in A}
             on(h) == {a \in A : a.household_id = h}
             row == [h \in D |-> [household_id |-> h,
                                  attributed_conversions |-> Cardinality(on(h)),
                                  max_candidate_count |-> WidestFanOut(on(h))]]
             detail == ip_cluster_detail(db, c.ip)
  <1>2. IsFiniteSet(A) /\ \A a \in A : a.candidate_count \in Nat
    <2>1. A \subseteq Attributed(db) /\ IsFiniteSet(Attributed(db))
      BY JoinedOnce DEF IpResolved
    <2>2. \A a \in Attributed(db) : a.candidate_count \in Nat
      BY DEF Sound, Attributed
    <2> HIDE DEF A
    <2> QED
      BY <2>1, <2>2, FS_Subset
  <1>3. detail = {row[h] : h \in D}
    <2>1. c.ip = ip
      BY <1>1
    <2>2. \A h : {a \in IpResolved(Attributed(db)) : a.ip = ip /\ a.household_id = h} = on(h)
      OBVIOUS
    <2>3. {a.household_id : a \in {b \in IpResolved(Attributed(db)) : b.ip = ip}} = D
      OBVIOUS
    <2> DEFINE line(h) == [household_id |-> h, attributed_conversions |-> Cardinality(on(h)),
                           max_candidate_count |-> WidestFanOut(on(h))]
    <2>4. ip_cluster_detail(db, ip) = {line(h) : h \in D}
      <3> HIDE DEF D, on
      <3> QED
        BY <2>2, <2>3 DEF ip_cluster_detail
    <2>5. \A h \in D : row[h] = line(h)
      OBVIOUS
    <2> HIDE DEF D, row, line
    <2> QED
      BY <2>1, <2>4, <2>5
  <1>4. IsFiniteSet(D)
    <2> HIDE DEF A, home
    <2> QED
      BY <1>2, ImageOf
  <1>5. \A h \in D : /\ row[h].household_id = h
                     /\ row[h]["attributed_conversions"] = Cardinality({a \in A : home[a] = h})
                     /\ row[h].max_candidate_count = WidestFanOut(on(h))
    <2>1. ASSUME NEW h \in D  PROVE {a \in A : home[a] = h} = on(h)
      OBVIOUS
    <2> HIDE DEF D, home, on
    <2> QED
      BY <2>1
  <1>6. home \in [A -> D]
    OBVIOUS
  <1>7. ASSUME NEW h \in D
        PROVE  /\ WidestFanOut(on(h)) \in Nat
               /\ \A a \in on(h) : a.candidate_count <= WidestFanOut(on(h))
               /\ WidestFanOut(on(h)) = 0 \/ \E a \in on(h) : a.candidate_count = WidestFanOut(on(h))
    <2>1. on(h) \subseteq A
      OBVIOUS
    <2> HIDE DEF A, D, on
    <2>2. IsFiniteSet(on(h)) /\ \A a \in on(h) : a.candidate_count \in Nat
      BY <1>2, <2>1, FS_Subset
    <2> QED
      BY <2>2, FanOutIs
  <1>8. \A a \in A : home[a] \in D /\ a \in on(home[a])
    OBVIOUS
  <1>9. \A h \in D : on(h) \subseteq A
    OBVIOUS
  <1> HIDE DEF A, home, D, on, row, detail
  <1>10. Total({row[h] : h \in D}, "attributed_conversions") = Cardinality(A)
    <2>1. IsFiniteSet(A) /\ IsFiniteSet(D)
      BY <1>2, <1>4
    <2>2. \A d, e \in D : row[d] = row[e] => d = e
      BY <1>5
    <2>3. ASSUME NEW d \in D
          PROVE  row[d]["attributed_conversions"] = Cardinality({a \in A : home[a] = d})
      BY <1>5
    <2>4. Total({row[d] : d \in D}, "attributed_conversions") = Cardinality(A)
      BY <1>6, <2>1, <2>2, <2>3, CountByGroup
    <2> QED
      BY <2>4
  <1> DEFINE tops == {[candidate_count |-> r.max_candidate_count] : r \in detail}
             top == [h \in D |-> [candidate_count |-> WidestFanOut(on(h))]]
  <1>11. tops = {top[h] : h \in D}
    <2> DEFINE fan(r) == [candidate_count |-> r.max_candidate_count]
    <2>1. tops = {fan(r) : r \in detail}
      OBVIOUS
    <2>2. \A h \in D : fan(row[h]) = top[h]
      BY <1>5
    <2> HIDE DEF tops, top, fan
    <2> QED
      BY <1>3, <2>1, <2>2
  <1>12. \A h \in D : top[h].candidate_count = WidestFanOut(on(h))
    OBVIOUS
  <1> HIDE DEF top, tops
  <1>13. IsFiniteSet(tops) /\ \A t \in tops : t.candidate_count \in Nat
    BY <1>4, <1>7, <1>11, <1>12, ImageOf
  <1>14. /\ WidestFanOut(tops) \in Nat
         /\ \A t \in tops : t.candidate_count <= WidestFanOut(tops)
         /\ WidestFanOut(tops) = 0 \/ \E t \in tops : t.candidate_count = WidestFanOut(tops)
    BY <1>13, FanOutIs
  <1>15. \A a \in A : a.candidate_count <= WidestFanOut(tops)
    <2> SUFFICES ASSUME NEW a \in A  PROVE a.candidate_count <= WidestFanOut(tops)
      OBVIOUS
    <2>1. PICK h \in D : a \in on(h)
      BY <1>8
    <2>2. a.candidate_count <= WidestFanOut(on(h))
      BY <1>7, <2>1
    <2>3. WidestFanOut(on(h)) <= WidestFanOut(tops)
      BY <1>11, <1>12, <1>14
    <2> QED
      BY <1>2, <1>7, <1>14, <2>2, <2>3
  <1>16. WidestFanOut(tops) = 0 \/ \E a \in A : a.candidate_count = WidestFanOut(tops)
    <2> SUFFICES ASSUME WidestFanOut(tops) # 0
                 PROVE  \E a \in A : a.candidate_count = WidestFanOut(tops)
      OBVIOUS
    <2>1. PICK h \in D : WidestFanOut(on(h)) = WidestFanOut(tops)
      BY <1>11, <1>12, <1>14
    <2>2. PICK a \in on(h) : a.candidate_count = WidestFanOut(on(h))
      BY <1>7, <2>1
    <2> QED
      BY <1>9, <2>1, <2>2
  <1>17. WidestFanOut(tops) = WidestFanOut(A)
    BY <1>2, <1>14, <1>15, <1>16, FanOutIs
  <1> QED
    BY <1>1, <1>3, <1>10, <1>17 DEF A, detail, tops

\* What the probe counts through an address is its cluster's, and nothing through an
\* address without one.
LEMMA AddressProbe ==
    ASSUME NEW db, Sound(db), NEW ip
    PROVE  LET through == Total(ip_cluster_detail(db, ip), "attributed_conversions")
               clusters == Clusters(IpResolved(Attributed(db)))
           IN /\ \A c \in clusters : c.ip = ip => through = c.attributed_conversions
              /\ (\A c \in clusters : c.ip # ip) => through = 0
  <1> DEFINE A == IpResolved(Attributed(db))
             through == Total(ip_cluster_detail(db, ip), "attributed_conversions")
  <1>1. ASSUME NEW c \in Clusters(A), c.ip = ip  PROVE through = c.attributed_conversions
    BY <1>1, ClusterProbe
  <1>2. ASSUME \A c \in Clusters(A) : c.ip # ip  PROVE through = 0
    <2>1. {b \in A : b.ip = ip} = {}
      <3> SUFFICES ASSUME NEW b \in A, b.ip = ip  PROVE FALSE
        OBVIOUS
      <3> DEFINE line(k) == [ip |-> k,
                             attributed_conversions |-> Cardinality({a \in A : a.ip = k}),
                             max_candidate_count |-> WidestFanOut({a \in A : a.ip = k})]
      <3>1. line(b.ip) \in Clusters(A)
        BY DEF Clusters
      <3>2. line(b.ip).ip = ip
        OBVIOUS
      <3> HIDE DEF line
      <3> QED
        BY <1>2, <3>1, <3>2
    <2> DEFINE H == {a.household_id : a \in {b \in A : b.ip = ip}}
               line(h) == [household_id |-> h,
                           attributed_conversions |->
                             Cardinality({a \in A : a.ip = ip /\ a.household_id = h}),
                           max_candidate_count |->
                             WidestFanOut({a \in A : a.ip = ip /\ a.household_id = h})]
    <2>2. ip_cluster_detail(db, ip) = {line(h) : h \in H}
      BY DEF ip_cluster_detail
    <2>3. H = {}
      BY <2>1
    <2> HIDE DEF H, line
    <2>4. ip_cluster_detail(db, ip) = {}
      BY <2>2, <2>3
    <2> QED
      BY <2>4, TotalOfOne
  <1> QED
    BY <1>1, <1>2

\* What the list leaves out is no greater than what it holds, and nothing when the list
\* is shorter than its limit.
LEMMA UnlistedProbe ==
    ASSUME NEW db, Sound(db), NEW ip, \A c \in IP_CLUSTER_TOP(db) : c.ip # ip
    PROVE  LET through == Total(ip_cluster_detail(db, ip), "attributed_conversions")
               list == IP_CLUSTER_TOP(db)
           IN /\ \A c \in list : through <= c.attributed_conversions
              /\ Cardinality(list) < TopClusters => through = 0
  <1> DEFINE A == IpResolved(Attributed(db))
             rows == Clusters(A)
             list == IP_CLUSTER_TOP(db)
             through == Total(ip_cluster_detail(db, ip), "attributed_conversions")
  <1>1. IsFiniteSet(A) /\ Listable(rows)
    BY ClustersListable
  <1>2. /\ list = Limited(rows) /\ list \subseteq rows
        /\ Cardinality(list) < TopClusters => list = rows
        /\ \A c \in list : \A r \in rows \ list :
              r.attributed_conversions <= c.attributed_conversions
    BY <1>1, ListIs DEF IP_CLUSTER_TOP
  <1>3. \A c \in rows : c.attributed_conversions \in Nat
    <2> DEFINE on(k) == {a \in A : a.ip = k}
    <2>1. \A c \in rows : \E k : c.attributed_conversions = Cardinality(on(k))
      BY DEF Clusters
    <2>2. ASSUME NEW k  PROVE Cardinality(on(k)) \in Nat
      <3>1. on(k) \subseteq A
        OBVIOUS
      <3> HIDE DEF A, on
      <3> QED
        BY <1>1, <3>1, FS_Subset, FS_CardinalityType
    <2> HIDE DEF on, rows
    <2> QED
      BY <2>1, <2>2
  <1> HIDE DEF list
  <1>4. CASE \A r \in rows : r.ip # ip
    <2>1. through = 0
      BY <1>4, AddressProbe
    <2>2. \A c \in list : 0 <= c.attributed_conversions
      BY <1>2, <1>3
    <2> QED
      BY <2>1, <2>2 DEF list
  <1>5. CASE \E r \in rows : r.ip = ip
    <2>1. PICK r \in rows : r.ip = ip
      BY <1>5
    <2>2. through = r.attributed_conversions
      BY <2>1, AddressProbe
    <2>3. r \notin list
      BY <2>1 DEF list
    <2>4. ~(Cardinality(list) < TopClusters)
      BY <1>2, <2>1, <2>3
    <2>5. \A c \in list : r.attributed_conversions <= c.attributed_conversions
      BY <1>2, <2>1, <2>3
    <2> HIDE DEF through
    <2>6. \A c \in list : through <= c.attributed_conversions
      BY <2>2, <2>5
    <2> QED
      BY <2>4, <2>6 DEF list, through
  <1> QED
    BY <1>4, <1>5

\* The columns of a campaign that its trend is for.
LEMMA CampaignColumns ==
    ASSUME NEW db, NEW m \in campaign_metrics(report(db))
    PROVE  LET credited == {p[1] : p \in {q \in Joined(db) : q[2].campaign_id = m.campaign}}
           IN m.conversions = Cardinality(credited) /\ m.revenue = Revenue(credited)
  <1> DEFINE credited(k) == {p[1] : p \in {q \in Joined(db) : q[2].campaign_id = k}}
  <1>1. PICK r \in report(db) :
            /\ m.campaign = r[1] /\ m.conversions = r[4] /\ m.revenue = r[6]
    BY DEF campaign_metrics
  <1> DEFINE of(k, type) == Cardinality({a \in credited(k) : a.conversion_type = type})
             spend(k) == Total({e \in db.exposures : e.campaign_id = k}, "spend")
             shown(k) == Cardinality({e \in db.exposures : e.campaign_id = k})
             line(k) == <<k, spend(k), shown(k), Cardinality(credited(k)), of(k, "purchase"),
                          Revenue(credited(k)), _ratio(Revenue(credited(k)), spend(k)),
                          _ratio(spend(k), of(k, "purchase")),
                          _ratio(Cardinality(credited(k)), shown(k)),
                          _ratio(of(k, "site_visit"), shown(k))>>
  <1>2. report(db) = {line(k) : k \in {e.campaign_id : e \in db.exposures}}
    BY DEF report
  <1> HIDE DEF of, spend, shown, credited
  <1>3. \A k : /\ line(k)[1] = k /\ line(k)[4] = Cardinality(credited(k))
               /\ line(k)[6] = Revenue(credited(k))
    OBVIOUS
  <1> HIDE DEF line
  <1>4. PICK k : r = line(k)
    BY <1>1, <1>2
  <1>5. m.conversions = Cardinality(credited(m.campaign)) /\ m.revenue = Revenue(credited(m.campaign))
    BY <1>1, <1>3, <1>4
  <1> QED
    BY <1>5 DEF credited

\* The days of a campaign add up to its conversions and its revenue.
LEMMA TrendProbe ==
    ASSUME NEW db, Sound(db), NEW m \in campaign_metrics(report(db))
    PROVE  LET trend == campaign_attributed_by_day(db, m.campaign)
           IN Total(trend, "attributed") = m.conversions /\ Total(trend, "revenue") = m.revenue
  <1> DEFINE A == {p[1] : p \in {q \in Joined(db) : q[2].campaign_id = m.campaign}}
             day == [a \in A |-> a.event_time \div DaySeconds]
             D == {day[a] : a \in A}
             on(d) == {a \in A : a.event_time \div DaySeconds = d}
             row == [d \in D |-> [day |-> d, attributed |-> Cardinality(on(d)),
                                  revenue |-> Revenue(on(d))]]
             trend == campaign_attributed_by_day(db, m.campaign)
  <1>1. m.conversions = Cardinality(A) /\ m.revenue = Total(A, "revenue")
    BY CampaignColumns DEF Revenue
  <1>2. IsFiniteSet(A) /\ Summable(A, "revenue")
    <2>1. A \subseteq Attributed(db) /\ IsFiniteSet(Attributed(db))
      <3>1. A = {a \in Attributed(db) : Shown(db)[a].campaign_id = m.campaign}
        BY CreditedTo
      <3> HIDE DEF A
      <3> QED
        BY <3>1, JoinedOnce
    <2>2. \A a \in Attributed(db) : a["revenue"] \in Int
      BY DEF Sound, Attributed
    <2> HIDE DEF A
    <2>3. IsFiniteSet(A)
      BY <2>1, FS_Subset
    <2> QED
      BY <2>1, <2>2, <2>3 DEF Summable
  <1>3. trend = {row[d] : d \in D}
    <2> DEFINE line(d) == [day |-> d, attributed |-> Cardinality(on(d)), revenue |-> Revenue(on(d))]
    <2>1. {a.event_time \div DaySeconds : a \in A} = D
      OBVIOUS
    <2>2. trend = {line(d) : d \in {a.event_time \div DaySeconds : a \in A}}
      BY DEF campaign_attributed_by_day
    <2>3. \A d \in D : row[d] = line(d)
      OBVIOUS
    <2> HIDE DEF D, row, line, trend
    <2> QED
      BY <2>1, <2>2, <2>3
  <1>4. IsFiniteSet(D) /\ day \in [A -> D]
    <2>1. day \in [A -> D]
      OBVIOUS
    <2> HIDE DEF A, day
    <2> QED
      BY <1>2, <2>1, ImageOf
  <1>5. \A d \in D : /\ row[d].day = d
                     /\ row[d]["attributed"] = Cardinality({a \in A : day[a] = d})
                     /\ row[d]["revenue"] = Total({a \in A : day[a] = d}, "revenue")
    <2>1. ASSUME NEW d \in D  PROVE {a \in A : day[a] = d} = on(d)
      OBVIOUS
    <2> HIDE DEF A, D, day, on
    <2> QED
      BY <2>1 DEF Revenue
  <1> HIDE DEF A, D, day, row, on, trend
  <1>6. \A d, e \in D : row[d] = row[e] => d = e
    BY <1>5
  <1>7. Total({row[d] : d \in D}, "attributed") = Cardinality(A)
    <2>1. ASSUME NEW d \in D
          PROVE  row[d]["attributed"] = Cardinality({a \in A : day[a] = d})
      BY <1>5
    <2>2. IsFiniteSet(A) /\ IsFiniteSet(D) /\ day \in [A -> D]
      BY <1>2, <1>4
    <2> QED
      BY <1>6, <2>1, <2>2, CountByGroup
  <1>8. Total({row[d] : d \in D}, "revenue") = Total(A, "revenue")
    <2>1. ASSUME NEW d \in D
          PROVE  row[d]["revenue"] = Total({a \in A : day[a] = d}, "revenue")
      BY <1>5
    <2>2. Summable(A, "revenue") /\ IsFiniteSet(D) /\ day \in [A -> D]
      BY <1>2, <1>4
    <2> QED
      BY <1>6, <2>1, <2>2, SumByGroup
  <1> QED
    BY <1>1, <1>3, <1>7, <1>8 DEF trend

\* A restatement asked for again is the one of the context.
LEMMA RestatedProbe ==
    ASSUME NEW db, NEW r \in campaign_restatements(restatement(db))
    PROVE  campaign_restatement(db, r.campaign) = r
  <1>1. PICK x \in restatement(db) :
            r = [campaign |-> x[1], conversions_as_reported |-> x[2], conversions_now |-> x[3],
                 revenue_delta |-> x[4]]
    BY DEF campaign_restatements
  <1>2. PICK m : x = <<m, AsReported(db, m).conversions, AsOfNow(db, m).conversions,
                       AsOfNow(db, m).revenue - AsReported(db, m).revenue>>
    BY DEF restatement
  <1> QED
    BY <1>1, <1>2 DEF campaign_restatement

\* The day of a lag within the window.
LEMMA BinOf ==
    ASSUME NEW d \in Nat \ {0}, NEW w \in Nat \ {0}, NEW x \in Int, 0 <= x, x <= w * d
    PROVE  x \div d \in 0..w
  <1>1. x \div d \in Int /\ 0 <= x \div d
    OBVIOUS
  <1>2. x = d * (x \div d) + (x % d) /\ x % d \in 0..d - 1
    OBVIOUS
  <1>3. x \div d <= w
    BY <1>1, <1>2
  <1> QED
    BY <1>1, <1>3

\* The days of a lag distribution, clamped to the window, are the context's buckets.
LEMMA LagProbe ==
    ASSUME NEW db, Sound(db), NEW i
    PROVE  Cardinality({l \in WINDOW_EDGE_LAGS(db) : Clamped(l[2] \div DaySeconds) = i})
             = Total({b \in window_edge_distribution(db) : Clamped(b.day_bucket) = i}, "count")
  <1> DEFINE P == {p \in HotPairs(db) : Clamped(Lag(p) \div DaySeconds) = i}
             bucket == [p \in P |-> Lag(p) \div DaySeconds]
             D == {bucket[p] : p \in P}
             of(b) == {p \in HotPairs(db) : Lag(p) \div DaySeconds = b}
             row == [b \in D |-> [day_bucket |-> b, count |-> Cardinality(of(b))]]
             lags == {l \in WINDOW_EDGE_LAGS(db) : Clamped(l[2] \div DaySeconds) = i}
             rows == {b \in window_edge_distribution(db) : Clamped(b.day_bucket) = i}
  <1>1. P \in SUBSET Joined(db) /\ P \subseteq HotPairs(db)
    BY DEF HotPairs
  <1>2. lags = {<<p[1].conversion_id, Lag(p)>> : p \in P}
    <2> DEFINE lag(p) == <<p[1].conversion_id, Lag(p)>>
    <2>1. WINDOW_EDGE_LAGS(db) = {lag(p) : p \in HotPairs(db)}
      BY DEF WINDOW_EDGE_LAGS
    <2>2. \A p : lag(p)[2] = Lag(p)
      OBVIOUS
    <2> HIDE DEF lag
    <2>3. lags = {lag(p) : p \in P}
      BY <2>1, <2>2
    <2> QED
      BY <2>3 DEF lag
  <1>3. Cardinality(lags) = Cardinality(P)
    <2> HIDE DEF lags, P
    <2> QED
      BY <1>1, <1>2, LagsCount
  <1>4. rows = {row[b] : b \in D}
    <2> DEFINE line(b) == [day_bucket |-> b, count |-> Cardinality(of(b))]
    <2>1. window_edge_distribution(db) = {line(b) : b \in {Lag(p) \div DaySeconds : p \in HotPairs(db)}}
      BY DEF window_edge_distribution
    <2>2. \A b : line(b).day_bucket = b
      OBVIOUS
    <2>3. \A b \in D : row[b] = line(b)
      OBVIOUS
    <2>4. \A b : b \in D <=> /\ b \in {Lag(p) \div DaySeconds : p \in HotPairs(db)}
                             /\ Clamped(b) = i
      <3> HIDE DEF of, row, lags, rows
      <3> QED
        OBVIOUS
    <2> HIDE DEF line, D, row
    <2> QED
      BY <2>1, <2>2, <2>3, <2>4
  <1>5. IsFiniteSet(P) /\ IsFiniteSet(D) /\ bucket \in [P -> D]
    <2>1. bucket \in [P -> D]
      OBVIOUS
    <2> HIDE DEF P, bucket
    <2>2. IsFiniteSet(P)
      BY <1>1, PairsCount
    <2> QED
      BY <2>1, <2>2, ImageOf
  <1>6. \A b \in D : /\ row[b].day_bucket = b
                     /\ row[b]["count"] = Cardinality({p \in P : bucket[p] = b})
    <2>1. ASSUME NEW b \in D  PROVE {p \in P : bucket[p] = b} = of(b)
      <3>1. Clamped(b) = i
        OBVIOUS
      <3>2. {p \in P : bucket[p] = b} = {p \in P : Lag(p) \div DaySeconds = b}
        OBVIOUS
      <3> HIDE DEF bucket, D
      <3> QED
        BY <3>1, <3>2
    <2> HIDE DEF P, D, bucket, of
    <2> QED
      BY <2>1
  <1> HIDE DEF P, D, bucket, row, of, lags, rows
  <1>7. Total({row[d] : d \in D}, "count") = Cardinality(P)
    <2>1. ASSUME NEW d \in D
          PROVE  row[d]["count"] = Cardinality({a \in P : bucket[a] = d})
      BY <1>6
    <2>2. \A d, e \in D : row[d] = row[e] => d = e
      BY <1>6
    <2> QED
      BY <1>5, <2>1, <2>2, CountByGroup
  <1> QED
    BY <1>3, <1>4, <1>7 DEF lags, rows

\* The probe's bins, and which of them the context's bins are.
LEMMA BinsProbe ==
    ASSUME NEW db, Sound(db)
    PROVE  /\ \A b \in window_edge_distribution(db) : b.day_bucket \in 0..WindowDays
           /\ \A i \in 0..WindowDays - 1 :
                 Cardinality({l \in WINDOW_EDGE_LAGS(db) : Clamped(l[2] \div DaySeconds) = i})
                   = BinCount(db, i)
                       + IF i = WindowDays - 1 THEN BinCount(db, WindowDays) ELSE 0
  <1> DEFINE bins == window_edge_distribution(db)
             of(b) == {p \in HotPairs(db) : Lag(p) \div DaySeconds = b}
             line(b) == [day_bucket |-> b, count |-> Cardinality(of(b))]
             B == {Lag(p) \div DaySeconds : p \in HotPairs(db)}
  <1>1. bins = {line(b) : b \in B}
    BY DEF window_edge_distribution
  <1>2. \A b \in B : b \in 0..WindowDays
    <2> SUFFICES ASSUME NEW p \in HotPairs(db)
                 PROVE  Lag(p) \div DaySeconds \in 0..WindowDays
      OBVIOUS
    <2>1. Lag(p) \in 0..WindowDays * DaySeconds
      BY DEF Sound
    <2>2. /\ DaySeconds \in Nat \ {0} /\ WindowDays \in Nat \ {0}
          /\ WindowDays * DaySeconds \in Int
      BY ObserveAssumption
    <2>3. Lag(p) \in Int /\ 0 <= Lag(p) /\ Lag(p) <= WindowDays * DaySeconds
      BY <2>1, <2>2
    <2> QED
      BY <2>2, <2>3, BinOf
  <1>3. \A b : line(b).day_bucket = b /\ line(b)["count"] = Cardinality(of(b))
    OBVIOUS
  <1>4. ASSUME NEW b  PROVE Cardinality(of(b)) \in Nat
    <2>1. of(b) \in SUBSET Joined(db)
      BY DEF HotPairs
    <2> HIDE DEF of
    <2> QED
      BY <2>1, PairsCount
  <1>5. IsFiniteSet(bins)
    <2> DEFINE bin == [p \in HotPairs(db) |-> line(Lag(p) \div DaySeconds)]
    <2>1. bins = {bin[p] : p \in HotPairs(db)}
      BY <1>1
    <2>2. IsFiniteSet(HotPairs(db))
      <3>1. HotPairs(db) \in SUBSET Joined(db)
        BY DEF HotPairs
      <3> QED
        BY <3>1, PairsCount
    <2> HIDE DEF bin, bins
    <2> QED
      BY <2>1, <2>2, ImageOf
  <1> HIDE DEF line, B, of, bins
  <1>6. \A b \in bins : b.day_bucket \in 0..WindowDays /\ b["count"] \in Int
    BY <1>1, <1>2, <1>3, <1>4
  <1>7. ASSUME NEW i \in 0..WindowDays - 1
        PROVE  Cardinality({l \in WINDOW_EDGE_LAGS(db) : Clamped(l[2] \div DaySeconds) = i})
                 = BinCount(db, i) + IF i = WindowDays - 1 THEN BinCount(db, WindowDays) ELSE 0
    <2> DEFINE S == {b \in bins : Clamped(b.day_bucket) = i}
               own == {b \in bins : b.day_bucket = i}
               over == {b \in bins : b.day_bucket = WindowDays}
    <2>1. Cardinality({l \in WINDOW_EDGE_LAGS(db) : Clamped(l[2] \div DaySeconds) = i})
            = Total(S, "count")
      BY LagProbe DEF bins
    <2>2. Summable(S, "count") /\ Summable(over, "count")
      <3>1. S \subseteq bins /\ over \subseteq bins
        OBVIOUS
      <3>2. IsFiniteSet(S) /\ IsFiniteSet(over)
        BY <1>5, <3>1, FS_Subset
      <3> QED
        BY <1>6, <3>1, <3>2 DEF Summable
    <2>3. BinCount(db, i) = Total(own, "count") /\ BinCount(db, WindowDays) = Total(over, "count")
      BY DEF BinCount, bins
    <2>4. CASE i # WindowDays - 1
      <3>1. S = own
        BY <1>6, <2>4, ObserveAssumption DEF Clamped
      <3>2. Total(own, "count") \in Int
        <4> HIDE DEF S, own
        <4> QED
          BY <2>2, <3>1, TotalPicks
      <3> HIDE DEF S, own
      <3> QED
        BY <2>1, <2>3, <2>4, <3>1, <3>2
    <2>5. CASE i = WindowDays - 1
      <3>1. own \in SUBSET S /\ S \ own = over
        BY <1>6, <2>5, ObserveAssumption DEF Clamped
      <3>2. Total(S, "count") = Total(own, "count") + Total(S \ own, "count")
        <4> HIDE DEF S, own, over
        <4> QED
          BY <2>2, <3>1, TotalApart
      <3> HIDE DEF S, own, over
      <3> QED
        BY <2>1, <2>3, <2>5, <3>1, <3>2
    <2> QED
      BY <2>4, <2>5
  <1> QED
    BY <1>6, <1>7 DEF bins

\* A genre asked for again is the one of the context.
LEMMA GenreProbe ==
    ASSUME NEW db, Sound(db), NEW g \in genre_reach(GENRE_EXPOSURES(db), GENRE_CONVERSIONS(db))
    PROVE  genre_reach_detail(db, g.genre) =
             [exposures |-> g.exposures, attributed_conversions |-> g.attributed_conversions]
  <1> DEFINE shown(h) == Cardinality({e \in db.exposures : e.genre = h})
             n(h) == Cardinality({p \in Joined(db) : p[2].genre = h})
             line(h) == [genre |-> h, exposures |-> shown(h), attributed_conversions |-> n(h),
                         conversions_per_exposure |-> _ratio(n(h), shown(h))]
  <1>3. genre_reach(GENRE_EXPOSURES(db), GENRE_CONVERSIONS(db))
          = {line(h) : h \in {e.genre : e \in db.exposures}}
    BY GenreRows
  <1>1. PICK h : g = line(h)
    <2> HIDE DEF line
    <2> QED
      BY <1>3
  <1>2. genre_reach_detail(db, h) = [exposures |-> shown(h), attributed_conversions |-> n(h)]
    BY DEF genre_reach_detail
  <1> HIDE DEF shown, n
  <1> QED
    BY <1>1, <1>2

\* Each probe repeats, over tables that did not move, what the context holds.
LEMMA ProbesHold ==
    ReadInv => ProbesConfirmContext
  <1> DEFINE db == Served[written]
  <1> SUFFICES ASSUME ReadInv, Observed,
                      \A i \in DOMAIN Queries : request.rows[i] = Answer[written][Queries[i]]
               PROVE  ProbesAgree(context, db)
    BY DEF ProbesConfirmContext, Unmoved
  <1>1. written \in Moments /\ Sound(db)
    BY ServedSound DEF ReadInv, ReadsInOrder
  <1>2. /\ Read("ip_overall") = IP_CLUSTER_OVERALL(db)
        /\ Read("lags") = WINDOW_EDGE_LAGS(db)
        /\ Read("report") = report(db)
        /\ Read("restatement") = restatement(db)
        /\ Read("ip_top") = IP_CLUSTER_TOP(db)
        /\ Read("genre_exp") = GENRE_EXPOSURES(db)
        /\ Read("genre_conv") = GENRE_CONVERSIONS(db)
    <2>1. DOMAIN Queries = 1..8
      BY DEF Queries
    <2>2. \A i \in 1..8 : request.rows[i] = Answer[written][Queries[i]]
      BY <2>1
    <2> QED
      BY <1>1, <2>2, Answers, ReadsOf
  <1> HIDE DEF db
  <1> DEFINE top == context.ip_clusters.top_clusters
             through(ip) == Total(ip_cluster_detail(db, ip), "attributed_conversions")
  <1>9. /\ top = IP_CLUSTER_TOP(db) /\ top \subseteq Clusters(IpResolved(Attributed(db)))
    <2>1. top = IP_CLUSTER_TOP(db)
      BY <1>2, ContextFields
    <2> QED
      BY <1>1, <2>1, ClustersListable, ListIs DEF IP_CLUSTER_TOP
  <1>3. \A c \in top :
          /\ through(c.ip) = c.attributed_conversions
          /\ WidestFanOut({[candidate_count |-> r.max_candidate_count] :
                            r \in ip_cluster_detail(db, c.ip)})
               = c.max_candidate_count
    BY <1>1, <1>9, ClusterProbe
  <1>10. \A ip \in {a.ip : a \in db.conversions} \ {c.ip : c \in top} :
           /\ \A c \in top : through(ip) <= c.attributed_conversions
           /\ Cardinality(top) < TopClusters => through(ip) = 0
    <2> SUFFICES ASSUME NEW ip, ip \notin {c.ip : c \in top}
                 PROVE  /\ \A c \in top : through(ip) <= c.attributed_conversions
                        /\ Cardinality(top) < TopClusters => through(ip) = 0
      OBVIOUS
    <2>1. \A c \in IP_CLUSTER_TOP(db) : c.ip # ip
      BY <1>9
    <2> QED
      BY <1>1, <1>9, <2>1, UnlistedProbe
  <1>4. /\ Total(top, "attributed_conversions") <= context.ip_clusters.ip_resolved_attributed
        /\ Cardinality(top) < TopClusters =>
             Total(top, "attributed_conversions") = context.ip_clusters.ip_resolved_attributed
    <2>1. context.ip_clusters.ip_resolved_attributed = Cardinality(IpResolved(Attributed(db)))
      BY <1>2, ContextFields DEF IP_CLUSTER_OVERALL
    <2> QED
      BY <1>1, <1>9, <2>1, ListCount
  <1>5. \A m \in context.campaigns :
          LET trend == campaign_attributed_by_day(db, m.campaign)
          IN Total(trend, "attributed") = m.conversions /\ Total(trend, "revenue") = m.revenue
    BY <1>1, <1>2, ContextFields, TrendProbe
  <1>6. \A r \in context.restatements : campaign_restatement(db, r.campaign) = r
    BY <1>2, ContextFields, RestatedProbe
  <1>7. /\ \A i \in DOMAIN context.window_edge.buckets :
             context.window_edge.buckets[i] =
               BinCount(db, i) + IF i = WindowDays - 1 THEN BinCount(db, WindowDays) ELSE 0
        /\ \A b \in window_edge_distribution(db) : b.day_bucket \in 0..WindowDays
    <2>1. context.window_edge.buckets
            = [i \in 0..WindowDays - 1 |->
                 Cardinality({l \in WINDOW_EDGE_LAGS(db) : Clamped(l[2] \div DaySeconds) = i})]
      BY <1>2, ContextFields
    <2> QED
      BY <1>1, <2>1, BinsProbe
  <1>8. \A g \in context.genre_reach :
          genre_reach_detail(db, g.genre) =
            [exposures |-> g.exposures, attributed_conversions |-> g.attributed_conversions]
    <2> SUFFICES ASSUME NEW g \in context.genre_reach
                 PROVE  genre_reach_detail(db, g.genre) =
                          [exposures |-> g.exposures,
                           attributed_conversions |-> g.attributed_conversions]
      OBVIOUS
    <2>1. g \in genre_reach(GENRE_EXPOSURES(db), GENRE_CONVERSIONS(db))
      BY <1>2, ContextFields
    <2> QED
      BY <1>1, <2>1, GenreProbe
  <1> QED
    BY <1>3, <1>10, <1>4, <1>5, <1>6, <1>7, <1>8 DEF ProbesAgree

\* While the tables still hold what the context was built from, each probe confirms the
\* field it is there to test, whatever rows the tables hold.
THEOREM ProbesConfirm == Spec => []ProbesConfirmContext
  BY ReadsAreInOrder, ProbesHold, PTL
=============================================================================
