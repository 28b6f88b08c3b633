------------------------------ MODULE EvalSweep ------------------------------
(***************************************************************************)
(* `make agent-eval` (agent/eval): for each scenario a clean stack is      *)
(* stood up by make targets, the context is collected once, the agent is   *)
(* run EvalReps times and scored, and the tables are spliced into          *)
(* docs/RESULTS.md.  Between two sweeps an operator runs the same make     *)
(* targets by hand: nothing tells the sweep in what state the stack and    *)
(* the lakes are.  Any command may fail, and the sweep may be killed.      *)
(*                                                                         *)
(* A scenario and its profile have the same name in the catalog.  Events   *)
(* are represented by the profile they were generated for: `holds` is the  *)
(* set of profiles of which a store holds rows.  docker compose, the       *)
(* broker and the model behind run_agent are external.                     *)
(***************************************************************************)
EXTENDS Integers, FiniteSets, Sequences

CONSTANTS
    Kind,              \* the catalog: scenario |-> how it is scored
    RunOrder,          \* RUN_ORDER
    NEAR_MISS_PAIR,
    EvalReps,          \* EVAL_REPS
    OperatorProfiles,  \* profiles the operator works with
    MaxOperations,     \* bound: make targets run by hand
    MaxEdits,          \* bound: edits of docs/RESULTS.md by others
    MaxSweeps          \* bound: sweeps started

Scenarios == DOMAIN Kind

ASSUME SweepAssumption ==
    /\ \A n \in Scenarios : Kind[n] \in {"fault_recall", "negative_confirmation",
                                         "capability_boundary", "control"}
    /\ RunOrder \in Seq(Scenarios) /\ RunOrder # <<>>
    /\ NEAR_MISS_PAIR \cup OperatorProfiles \subseteq Scenarios
    /\ EvalReps \in Nat \ {0}

VARIABLES
    up,        \* whether the compose stack runs
    broker,    \* profiles whose events are in the topics
    lake,      \* lake[p]: profiles whose rows are in data/lake/<p>
    serving,   \* ClickHouse: what it holds, and whether it has the snapshots
    sweep,     \* the process: where it is, its scenario's index, context, reps
    results,   \* its completed scenarios
    doc,       \* docs/RESULTS.md, piece by piece
    others,    \* history: the text outside the block, as the last edit of it or
               \* the last kill in a write of the file left it
    ops, edits, sweeps

stack == <<up, broker, lake, serving>>
vars == <<stack, sweep, results, doc, others, ops, edits, sweeps>>

EmptyServing == [holds |-> {}, restated |-> FALSE]
NotPublished == [diagnosis |-> <<>>, false_positives |-> [n |-> 0, of |-> 0],
                 near_miss |-> <<>>, headlines |-> <<>>]
Idle == [step |-> "ended", at |-> 0, ctx |-> EmptyServing, reps |-> <<>>]

\* The file: the text before and after the block, the sentinels, the block.
Text(place, edition) == [is |-> "text", place |-> place, edition |-> edition]
Section(rows) == <<[is |-> "start"], [is |-> "block", rows |-> rows], [is |-> "end"]>>
Page == <<Text("head", 0), [is |-> "start"], [is |-> "block", rows |-> NotPublished],
          [is |-> "end"], Text("tail", 0)>>

TextsOf(text) == {i \in DOMAIN text : text[i].is = "text"}
TextOf(text) == {text[i] : i \in TextsOf(text)}

\* What a kill in a write leaves: a piece that is cut is as good as none.
CutShort(text) == {SubSeq(text, 1, n) : n \in 0..Len(text)}

scenario == RunOrder[sweep.at]
At(step) == sweep.step = step
Go(step) == sweep' = [sweep EXCEPT !.step = step]

Init ==
    /\ up = TRUE
    /\ broker \in SUBSET OperatorProfiles
    /\ lake = [p \in Scenarios |-> {}]
    /\ serving = EmptyServing
    /\ sweep = Idle
    /\ results = <<>>
    /\ doc = Page
    /\ others = TextOf(doc)
    /\ ops = 0 /\ edits = 0 /\ sweeps = 0

----------------------------------------------------------------------------
\* The make targets, as the sweep and the operator run them.

\* `docker compose down -v`: the volumes go too, the lakes stay.
make_down ==
    /\ up' = FALSE /\ broker' = {} /\ serving' = EmptyServing
    /\ UNCHANGED lake

make_lake_reset(p) ==
    /\ lake' = [lake EXCEPT ![p] = {}]
    /\ UNCHANGED <<up, broker, serving>>

make_up == up' = TRUE /\ UNCHANGED <<broker, lake, serving>>

make_seed(p) ==
    /\ up /\ broker' = broker \cup {p}
    /\ UNCHANGED <<up, lake, serving>>

\* The engine drains the whole topics into the lake of p, then loads the days
\* it touched: with them, whatever else that lake holds on those days.
engine(p) ==
    /\ up
    /\ lake' = [lake EXCEPT ![p] = @ \cup broker]
    /\ \E older \in SUBSET lake[p] :
          serving' = [serving EXCEPT !.holds = @ \cup broker \cup older]
    /\ UNCHANGED <<up, broker>>

\* The reconciliation adds the snapshots.
reconcile(p) ==
    /\ up
    /\ \E older \in SUBSET lake[p] :
          serving' = [holds |-> serving.holds \cup older, restated |-> TRUE]
    /\ UNCHANGED <<up, broker, lake>>

----------------------------------------------------------------------------
\* stand_up_profile: down, lake-reset, up, seed, then the two jobs of `run`.

MakeDown == At("down") /\ make_down /\ Go("lake-reset")

\* Mutant: a lake that is already there is kept.
MutantKeepLake == At("lake-reset") /\ Go("up") /\ UNCHANGED stack

MakeLakeReset == At("lake-reset") /\ make_lake_reset(scenario) /\ Go("up")

MakeUp == At("up") /\ make_up /\ Go("seed")

MakeSeed == At("seed") /\ make_seed(scenario) /\ Go("engine")

MakeEngine == At("engine") /\ engine(scenario) /\ Go("reconcile")

MakeReconcile == At("reconcile") /\ reconcile(scenario) /\ Go("collect")

StandUp ==
    /\ \/ MakeDown \/ MakeLakeReset \/ MakeUp
       \/ MakeSeed \/ MakeEngine \/ MakeReconcile
    /\ UNCHANGED <<results, doc, others, ops, edits, sweeps>>

\* The numbers of a context that pin a scenario, represented by the rows they
\* are computed from; the largest restatement is 0 without a pair of snapshots.
headline(ctx) == [rows |-> ctx.holds, roas_delta |-> ctx.restated]

\* collect: the context all the reps are given.
Collect ==
    /\ At("collect")
    /\ sweep' = [sweep EXCEPT !.step = "rep", !.ctx = serving]
    /\ UNCHANGED <<stack, results, doc, others, ops, edits, sweeps>>

\* What run_agent may return: `expected` says whether the top hypothesis is the
\* scenario's; an escalation carries the neutral default, which never is.
Findings(n) ==
    [verdict : {"CONFIDENT", "AMBIGUOUS_NEEDS_HUMAN"},
     expected : IF Kind[n] \in {"fault_recall", "negative_confirmation"}
                THEN BOOLEAN ELSE {FALSE}]

is_abstention(f) == f.verdict = "AMBIGUOUS_NEEDS_HUMAN"

\* Mutant: the top hypothesis is read before the verdict.
MutantTopFirst(n, f) ==
    IF Kind[n] \in {"fault_recall", "negative_confirmation"}
    THEN IF f.expected THEN "correct_diagnosis" ELSE "wrong_diagnosis"
    ELSE IF is_abstention(f) THEN "correct_abstention" ELSE "false_positive"

score_rep(n, f) ==
    IF is_abstention(f)
    THEN IF Kind[n] = "fault_recall" THEN "abstained" ELSE "correct_abstention"
    ELSE IF Kind[n] \in {"fault_recall", "negative_confirmation"}
    THEN IF f.expected THEN "correct_diagnosis" ELSE "wrong_diagnosis"
    ELSE "false_positive"

\* run_scenario's loop; the last rep completes the scenario.
Rep(f) ==
    LET rep == [finding |-> f, outcome |-> score_rep(scenario, f)]
        reps == Append(sweep.reps, rep)
    IN /\ At("rep")
       /\ IF Len(reps) < EvalReps
          THEN sweep' = [sweep EXCEPT !.reps = reps] /\ UNCHANGED results
          ELSE /\ results' = [n \in DOMAIN results \cup {scenario} |->
                                IF n = scenario
                                THEN [headline |-> headline(sweep.ctx), reps |-> reps]
                                ELSE results[n]]
               /\ sweep' = IF sweep.at < Len(RunOrder)
                           THEN [Idle EXCEPT !.step = "down", !.at = sweep.at + 1]
                           ELSE [Idle EXCEPT !.step = "finally"]
       /\ UNCHANGED <<stack, doc, others, ops, edits, sweeps>>

----------------------------------------------------------------------------
\* The finally block: the tables of whatever completed.

OutcomesOf(n, wanted) ==
    Cardinality({i \in DOMAIN results[n].reps : results[n].reps[i].outcome \in wanted})

Controls == {n \in DOMAIN results : Kind[n] = "control"}

\* The reps of a verdict, as the "3x a, 2x b" of the tables counts them.
_spread(n, verdict) ==
    Cardinality({i \in DOMAIN results[n].reps :
                   results[n].reps[i].finding.verdict = verdict})

Diagnosis(n) ==
    [correct |-> OutcomesOf(n, {"correct_diagnosis", "correct_abstention"}),
     total |-> Len(results[n].reps), confident |-> _spread(n, "CONFIDENT")]

false_positive_counts ==
    [n |-> Cardinality(UNION {
         {n} \X {i \in DOMAIN results[n].reps :
                   results[n].reps[i].outcome = "false_positive"} : n \in Controls}),
     of |-> EvalReps * Cardinality(Controls)]

fault_diagnosis_table == [n \in DOMAIN results |-> Diagnosis(n)]

\* The pair side by side; Renders says when it has both.
near_miss_table ==
    [n \in NEAR_MISS_PAIR \cap DOMAIN results |->
       [headline |-> results[n].headline, confident |-> _spread(n, "CONFIDENT")]]

headline_table == [n \in DOMAIN results |-> results[n].headline]

render_section ==
    [diagnosis |-> fault_diagnosis_table, false_positives |-> false_positive_counts,
     near_miss |-> near_miss_table, headlines |-> headline_table]

\* by_name raises KeyError when one of the near-miss pair did not complete.
Renders == results # <<>> /\ NEAR_MISS_PAIR \subseteq DOMAIN results

\* `in' and text.index, of a sentinel.
Has(text, mark) == \E i \in DOMAIN text : text[i].is = mark

index(text, mark) == CHOOSE i \in DOMAIN text :
                        /\ text[i].is = mark
                        /\ \A j \in DOMAIN text : text[j].is = mark => i <= j

HasBlock(text) == Has(text, "start") /\ Has(text, "end")

\* Mutant: the block replaces everything from its start to the end of the file.
MutantToEndOfFile(text, section) ==
    SubSeq(text, 1, index(text, "start") - 1) \o section

\* head + section + tail
Spliced(text, section) ==
    SubSeq(text, 1, index(text, "start") - 1)
      \o section \o SubSeq(text, index(text, "end") + 1, Len(text))

Writes == At("finally") /\ Renders /\ HasBlock(doc)

NewText == Spliced(doc, Section(render_section))

\* Nothing completed, a table raises, or the sentinels are missing.
WriteNothing ==
    /\ At("finally") /\ (~Renders \/ ~HasBlock(doc))
    /\ sweep' = Idle
    /\ UNCHANGED <<stack, results, doc, others, ops, edits, sweeps>>

\* The file is read, spliced and written by three statements in a row: an edit
\* by another process between them is left out.
write_results ==
    /\ Writes
    /\ doc' = NewText
    /\ sweep' = Idle
    /\ UNCHANGED <<stack, results, others, ops, edits, sweeps>>

----------------------------------------------------------------------------
Working == ~At("ended")

\* Mutant: a scenario that fails is stood up again.
MutantRetry ==
    /\ Working /\ ~At("finally")
    /\ sweep' = [Idle EXCEPT !.step = "down", !.at = sweep.at]
    /\ UNCHANGED <<stack, results, doc, others, ops, edits, sweeps>>

\* A command fails, the agent raises, or Ctrl-C: the finally block follows.  A
\* failed engine may have landed its rows.
Raise ==
    /\ Working /\ ~At("finally")
    /\ sweep' = [Idle EXCEPT !.step = "finally"]
    /\ lake' \in {lake, IF At("engine") /\ up
                        THEN [lake EXCEPT ![scenario] = @ \cup broker]
                        ELSE lake}
    /\ UNCHANGED <<up, broker, serving, results, doc, others, ops, edits, sweeps>>

\* SIGKILL: no finally.  write_text empties the file before it writes: a kill in
\* the middle of it leaves a prefix of the text.
Kill ==
    /\ Working
    /\ sweep' = Idle
    /\ \/ UNCHANGED <<doc, others>>
       \/ Writes /\ doc' \in CutShort(NewText) /\ others' = TextOf(doc')
    /\ UNCHANGED <<stack, results, ops, edits, sweeps>>

StartSweep ==
    /\ ~Working /\ sweeps < MaxSweeps
    /\ sweeps' = sweeps + 1
    /\ sweep' = [Idle EXCEPT !.step = "down", !.at = 1]
    /\ results' = <<>>
    /\ UNCHANGED <<stack, doc, others, ops, edits>>

\* The operator, never during a sweep ("run it on a free machine").  A `make
\* run` that stops half-way has run the engine only.
Operate ==
    /\ ~Working /\ ops < MaxOperations
    /\ ops' = ops + 1
    /\ \/ make_down
       \/ make_up
       \/ \E p \in OperatorProfiles : make_lake_reset(p) \/ make_seed(p)
                                         \/ engine(p) \/ reconcile(p)
    /\ UNCHANGED <<sweep, results, doc, others, edits, sweeps>>

\* The text outside the block is rewritten, by hand or by another target that
\* owns a block of its own (queries/cost_report.py), at any time: a sweep takes
\* hours.
Edit ==
    /\ edits < MaxEdits
    /\ edits' = edits + 1
    /\ doc' = [i \in DOMAIN doc |->
                 IF i \in TextsOf(doc) THEN Text(doc[i].place, edits') ELSE doc[i]]
    /\ others' = TextOf(doc')
    /\ UNCHANGED <<stack, sweep, results, ops, sweeps>>

\* "seed the block skeleton before running agent-eval", when a write_results
\* found none.
Seed ==
    /\ edits < MaxEdits
    /\ ~Working /\ ~HasBlock(doc)
    /\ edits' = edits + 1
    /\ doc' = doc \o Section(NotPublished)
    /\ UNCHANGED <<stack, sweep, results, others, ops, sweeps>>

Step ==
    \/ StandUp \/ Collect
    \/ At("rep") /\ \E f \in Findings(scenario) : Rep(f)
    \/ WriteNothing \/ write_results

Next == Step \/ Raise \/ Kill \/ StartSweep \/ Operate \/ Edit \/ Seed

Spec == Init /\ [][Next]_vars

\* Every command ends, and the agent's loop does (AgentLoop).
FairSpec == Spec /\ WF_vars(Step)
----------------------------------------------------------------------------

Contexts == [holds : SUBSET Scenarios, restated : BOOLEAN]

Headlines == [rows : SUBSET Scenarios, roas_delta : BOOLEAN]

Outcomes == {"correct_diagnosis", "wrong_diagnosis", "abstained",
             "correct_abstention", "false_positive"}

Scored == [finding : [verdict : {"CONFIDENT", "AMBIGUOUS_NEEDS_HUMAN"},
                      expected : BOOLEAN],
           outcome : Outcomes]

\* A file in pieces.
IsText(text) ==
    /\ text \in Seq({text[i] : i \in DOMAIN text})
    /\ \A i \in DOMAIN text : text[i].is \in {"text", "start", "block", "end"}

TypeOK ==
    /\ up \in BOOLEAN /\ broker \subseteq Scenarios
    /\ lake \in [Scenarios -> SUBSET Scenarios]
    /\ serving \in Contexts
    /\ sweep \in [step : {"ended", "down", "lake-reset", "up", "seed", "engine",
                          "reconcile", "collect", "rep", "finally"},
                  at : 0..Len(RunOrder), ctx : Contexts, reps : Seq(Scored)]
    /\ \A n \in DOMAIN results :
          n \in Scenarios /\ results[n] \in [headline : Headlines, reps : Seq(Scored)]
    /\ IsText(doc)

Clean(n) == [holds |-> {n}, restated |-> TRUE]

\* Whatever state the stack and the lakes were left in, by hand or by a sweep
\* that failed or was killed, each published row was measured on tables that
\* held exactly its own profile's rows, after a reconciliation: "two profiles
\* cannot co-reside in the serving tables" (run_eval.py).
PublishedOnACleanStack ==
    \A i \in DOMAIN doc : doc[i].is = "block" =>
       LET rows == doc[i].rows IN
       /\ \A n \in DOMAIN rows.headlines : rows.headlines[n] = headline(Clean(n))
       /\ \A n \in DOMAIN rows.diagnosis : rows.diagnosis[n].total = EvalReps
       /\ \A n \in DOMAIN rows.near_miss : rows.near_miss[n].headline = headline(Clean(n))

Confident(n) ==
    {i \in DOMAIN results[n].reps : results[n].reps[i].finding.verdict = "CONFIDENT"}

\* An escalation is never read as a diagnosis, right or wrong, whatever top
\* hypothesis it carries: only a scenario that wants a diagnosis can miss by
\* abstaining, every other is missed by confident findings alone, and the
\* false-positive rate is that of the confident findings of the controls.
EscalationIsNeverADiagnosis ==
    /\ \A n \in DOMAIN results :
          LET missed == EvalReps - fault_diagnosis_table[n].correct
              named == {i \in Confident(n) : results[n].reps[i].finding.expected}
          IN missed = IF Kind[n] = "fault_recall"
                      THEN EvalReps - Cardinality(named)
                      ELSE Cardinality(Confident(n) \ named)
    /\ false_positive_counts.n = Cardinality(
          UNION {{n} \X Confident(n) : n \in {m \in DOMAIN results :
                                              Kind[m] = "control"}})

\* What the sweep does not own in docs/RESULTS.md it neither loses nor doubles:
\* whatever was edited while it ran, and whatever an earlier kill and a new
\* skeleton made of the file, the text outside the block is the one the last edit
\* left, or what a kill in a write left of it (write_results: "a section that
\* follows the block can no longer be silently dropped").
OtherSectionsKept ==
    /\ TextOf(doc) = others
    /\ \A i, j \in TextsOf(doc) : doc[i] = doc[j] => i = j

\* A sweep ends, with tables or without: it never waits for a stack.
SweepEnds == Working ~> ~Working

\* The comment of the finally block: whatever completed is rendered ("partial
\* tables still write"), when there is something to render and a place for it.
PartialTablesStillWrite ==
    [][WriteNothing => results = <<>> \/ ~HasBlock(doc)]_vars
=============================================================================
