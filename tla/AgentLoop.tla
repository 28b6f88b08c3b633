----------------------------- MODULE AgentLoop -----------------------------
(***************************************************************************)
(* run_agent (agent/loop.py): the bounded tool-use loop around an external *)
(* model, one call of it at a time; Alerting makes the calls.  A turn of   *)
(* the model is any sequence of at most MaxBlocks tool_use blocks; a probe *)
(* may succeed or fail, and a submitted payload may or may not validate.   *)
(* The loop executes every block of a turn, then decides.  Prompts, probe  *)
(* results and the text of a finding are left out: the loop never branches *)
(* on them.                                                                *)
(***************************************************************************)
EXTENDS Integers, FiniteSets, Sequences

CONSTANTS
    Probes,       \* probes.REGISTRY
    MaxRounds,    \* AGENT_MAX_PROBE_ROUNDS
    MaxBlocks     \* bound: tool_use blocks in one turn of the model

ASSUME RoundsAssumption == MaxRounds \in Nat /\ MaxBlocks \in Nat

Blocks ==
    [tool : Probes, ok : BOOLEAN]
      \cup [tool : {"submit_finding"}, ok : BOOLEAN]
      \cup [tool : {"unknown"}, ok : {FALSE}]

VARIABLES
    calls,                \* messages.create calls made: len(usages)
    executed,             \* names of the probes that ran
    rejected_empty_once,
    asked, answered,      \* tools of the tool_use blocks of the last turn, and
                          \* positions of those the next user message answers
    succeeded,            \* history: probes that returned rows
    outcome,              \* "none" between calls, then "running", then
                          \* "finding", "escalation" or "raised"
    probes_run            \* of the finding returned

loopVars == <<calls, executed, rejected_empty_once, asked, answered, succeeded,
              outcome, probes_run>>

Submits(turn) == {i \in DOMAIN turn : turn[i].tool = "submit_finding"}

Turns == UNION {[1..n -> Blocks] : n \in 0..MaxBlocks}

Ran(turn) == {turn[i].tool : i \in {j \in DOMAIN turn : turn[j].tool \in Probes
                                                    /\ turn[j].ok}}

\* Mutant: a probe counts as executed as soon as it is dispatched.
MutantFailedProbesCount(turn) ==
    executed \cup {turn[i].tool : i \in {j \in DOMAIN turn : turn[j].tool \in Probes}}

\* _run_probe appends a name only when the probe returned rows.
ExecutedAfter(turn) ==
    executed \cup Ran(turn)

\* The blocks that get a tool_result before the loop decides: all but the
\* submissions.
Dispatched(turn) == DOMAIN turn \ Submits(turn)

\* submit_block: a submission replaces the one before it in the turn.
LastSubmit(turn) == CHOOSE i \in Submits(turn) : \A j \in Submits(turn) : j <= i

Return(result) ==
    /\ outcome' = result
    /\ probes_run' = executed'

Continue(results) ==
    /\ answered' = results
    /\ UNCHANGED <<outcome, probes_run>>

LoopInit ==
    /\ calls = 0
    /\ executed = {}
    /\ rejected_empty_once = FALSE
    /\ asked = <<>> /\ answered = {}
    /\ succeeded = {}
    /\ outcome = "none"
    /\ probes_run = {}

\* run_agent is called, or has returned: its locals are new, or gone.
Renew(result) ==
    /\ calls' = 0
    /\ executed' = {}
    /\ rejected_empty_once' = FALSE
    /\ asked' = <<>> /\ answered' = {}
    /\ succeeded' = {}
    /\ outcome' = result
    /\ probes_run' = {}

Took(turn) ==
    /\ outcome = "running" /\ calls < MaxRounds
    /\ calls' = calls + 1
    /\ asked' = [i \in DOMAIN turn |-> turn[i].tool]
    /\ executed' = ExecutedAfter(turn)
    /\ succeeded' = succeeded \cup Ran(turn)

\* No tool call: the model ended without a finding.
NoToolUse ==
    /\ Took(<<>>)
    /\ Return("escalation")
    /\ UNCHANGED <<rejected_empty_once, answered>>

ProbeTurn(turn) ==
    /\ Took(turn)
    /\ turn # <<>> /\ Submits(turn) = {}
    /\ Continue(Dispatched(turn))
    /\ UNCHANGED <<rejected_empty_once>>

\* A finding with at least one probe run, in this turn or before: validate it.
SubmitTurn(turn) ==
    /\ Took(turn)
    /\ Submits(turn) # {} /\ executed' # {}
    /\ Return(IF turn[LastSubmit(turn)].ok THEN "finding" ELSE "escalation")
    /\ UNCHANGED <<rejected_empty_once, answered>>

\* Mutant: the rejected submission gets no tool_result.
MutantUnanswered(turn) ==
    /\ Took(turn)
    /\ Submits(turn) # {} /\ executed' = {}
    /\ ~rejected_empty_once
    /\ rejected_empty_once' = TRUE
    /\ Continue(Dispatched(turn))

\* A finding with no probe run: sent back once.
RejectTurn(turn) ==
    /\ Took(turn)
    /\ Submits(turn) # {} /\ executed' = {}
    /\ ~rejected_empty_once
    /\ rejected_empty_once' = TRUE
    /\ Continue(Dispatched(turn) \cup {LastSubmit(turn)})

\* ... and escalated the second time.
SecondBlindTurn(turn) ==
    /\ Took(turn)
    /\ Submits(turn) # {} /\ executed' = {}
    /\ rejected_empty_once
    /\ Return("escalation")
    /\ UNCHANGED <<rejected_empty_once, answered>>

\* messages.create raises: nothing in the loop catches it.
ApiError ==
    /\ outcome = "running" /\ calls < MaxRounds
    /\ outcome' = "raised"
    /\ UNCHANGED <<calls, executed, rejected_empty_once, asked, answered,
                   succeeded, probes_run>>

\* Mutant: the loop goes on waiting for a finding once its budget is spent.
MutantKeepWaiting ==
    /\ outcome = "running" /\ calls = MaxRounds
    /\ UNCHANGED loopVars

\* The range is exhausted: the synthesized escalation.
BudgetExhausted ==
    /\ outcome = "running" /\ calls = MaxRounds
    /\ UNCHANGED executed
    /\ Return("escalation")
    /\ UNCHANGED <<calls, rejected_empty_once, asked, answered, succeeded>>

Loop ==
    \/ NoToolUse
    \/ \E turn \in Turns : \/ ProbeTurn(turn) \/ SubmitTurn(turn)
                            \/ RejectTurn(turn) \/ SecondBlindTurn(turn)
    \/ ApiError
    \/ BudgetExhausted
----------------------------------------------------------------------------

\* Every finding cites a Test step that really ran: probes_run is not empty and
\* names exactly the probes that returned rows (finding.py: "non-empty by loop
\* contract").
FindingCitesItsTests ==
    outcome = "finding" => probes_run # {} /\ probes_run = succeeded

\* The submissions of the last turn that a later one of the turn replaced.
Superseded == {i \in DOMAIN asked : /\ asked[i] = "submit_finding"
                                    /\ \E j \in DOMAIN asked :
                                         j > i /\ asked[j] = "submit_finding"}

\* While the conversation goes on, exactly the superseded submissions of the
\* last turn are left without a tool_result: every probe, every unknown tool and
\* the submission that was sent back have theirs (loop.py keeps one submit_block
\* a turn).
AnsweredButSuperseded ==
    outcome = "running" => answered = DOMAIN asked \ Superseded

\* False (README, section 5).  Every tool_use block of the last turn has its tool_result
\* (phase-9.md: "execute each `tool_use` as `agent_ro`, return typed
\* `tool_result`s").
EveryUseAnswered == outcome = "running" => answered = DOMAIN asked
=============================================================================
