----------------------------- MODULE AgentTurn -----------------------------
(***************************************************************************)
(* The turns of one session: AgentService._observed_turn, which picks the  *)
(* checkpoint to resume from, resets the per-turn state, runs the graph    *)
(* and pins its last checkpoint, and AgentGraph, whose nodes are the       *)
(* actions below (one node execution is one superstep of LangGraph).       *)
(*                                                                         *)
(* The model's answers are choices: what a question is classified as,      *)
(* whether evidence suffices, what a draft looks like, whether a check     *)
(* accepts it.  Evidence is the turn that retrieved it, a set of claims is *)
(* the turn that validated it, a response is its kind.  A question about a *)
(* chart or a table is an "artifact"; "lookup" also stands for             *)
(* inconsistency_analysis, which takes the same route everywhere.          *)
(*                                                                         *)
(* The graph's state lives in the thread's checkpoints, one per node: when *)
(* a turn dies, `history` and `support` are what its last checkpoint       *)
(* holds.  `pinned` is the checkpoint the session record points at.        *)
(***************************************************************************)
EXTENDS Naturals, Sequences

CONSTANTS
    MaxTurns,      \* bound: messages sent to the session
    HistoryLimit,  \* validated turns kept in memory (8 in persist_result)
    MaxSteps       \* settings.agent_max_steps, LangGraph's recursion limit (24)

ASSUME TurnAssumption ==
    /\ MaxTurns \in Nat
    /\ HistoryLimit \in Nat \ {0}
    /\ MaxSteps \in Nat

VARIABLES
    run,         \* the turn in progress, or the last one
    pc,          \* the node to run next; "end" and "pinned" while the service finishes
    steps,       \* supersteps of this run
    task,        \* task_type
    retrieved,   \* the turn that retrieved retrieved_evidence, 0 for none
    selected,    \* the turn that retrieved selected_evidence, 0 for none
    sufficient,  \* evidence_sufficient
    draft,       \* draft_answer
    codes,       \* whether validation_error_codes holds any
    retry,       \* retry_count
    codeOk,      \* whether generated_code satisfies the code policy
    execution,   \* status of execution_result
    errors,      \* what artifact_errors holds
    attempt,     \* artifact_attempt
    final,       \* the kind of final_response in each turn's checkpoints
    history,     \* validated_claim_history: turn and task of each entry
    support,     \* source_support_claims: the turn they come from, 0 for none
    pinned,      \* the memory in the pinned checkpoint
    outcome      \* what the caller of each turn was told

control == <<run, pc, steps>>
evidence == <<retrieved, selected, sufficient>>
answer == <<draft, codes, retry>>
artifact == <<codeOk, execution, errors, attempt>>
memory == <<history, support, pinned>>
vars == <<control, task, evidence, answer, artifact, final, memory, outcome>>

Turns == 1..MaxTurns
Tasks == {"lookup", "summary", "comparison", "artifact", "source_support",
          "clarification", "out_of_scope"}

\* sound: the quote checks of validate_and_materialize_citations and
\* _response_invariant_errors find nothing, other than what ValidateCitations says.
Drafts == [author : {"none", "model", "history"}, claims : BOOLEAN, refusal : BOOLEAN,
           sound : BOOLEAN]
NoDraft == [author |-> "none", claims |-> FALSE, refusal |-> FALSE, sound |-> FALSE]
ModelDrafts == {d \in Drafts : d.author = "model"}

\* cited: claims with verified quotes, each assessed semantically or taken from memory;
\* unassessed: claims the model wrote that no semantic check saw; uncited: no claims at all.
Responses == {"cited", "unassessed", "uncited", "artifact", "refusal", "question"}
Grounded == {"cited", "artifact"}

Entries == [run : Turns, task : Tasks]
NoMemory == [history |-> <<>>, support |-> 0, set |-> FALSE]

Nodes == {"load_memory", "classify_task", "resolve_query", "plan", "load_skill",
          "call_tools", "assess_evidence", "synthesize", "validate_citations", "repair",
          "prepare_artifact", "generate_artifact_code", "execute_artifact",
          "inspect_artifact", "repair_artifact", "graceful_response", "persist_result"}

TypeOK ==
    /\ run \in 0..MaxTurns
    /\ pc \in Nodes \cup {"idle", "end", "pinned"}
    /\ steps \in Nat
    /\ task \in Tasks
    /\ retrieved \in 0..MaxTurns
    /\ selected \in 0..MaxTurns
    /\ sufficient \in BOOLEAN
    /\ draft \in Drafts
    /\ codes \in BOOLEAN
    /\ retry \in 0..1
    /\ codeOk \in BOOLEAN
    /\ execution \in {"none", "succeeded", "failed"}
    /\ errors \in {"none", "correctable", "fatal"}
    /\ attempt \in Nat
    /\ final \in [Turns -> Responses \cup {"none"}]
    /\ history \in Seq(Entries)
    /\ support \in 0..MaxTurns
    /\ pinned \in [history : Seq(Entries), support : 0..MaxTurns, set : BOOLEAN]
    /\ outcome \in [Turns -> {"none", "delivered", "failed"}]

Init ==
    /\ run = 0
    /\ pc = "idle"
    /\ steps = 0
    /\ task = "lookup"
    /\ retrieved = 0
    /\ selected = 0
    /\ sufficient = FALSE
    /\ draft = NoDraft
    /\ codes = FALSE
    /\ retry = 0
    /\ codeOk = FALSE
    /\ execution = "none"
    /\ errors = "none"
    /\ attempt = 0
    /\ final = [t \in Turns |-> "none"]
    /\ history = <<>>
    /\ support = 0
    /\ pinned = NoMemory
    /\ outcome = [t \in Turns |-> "none"]

\* A node runs as one superstep unless the recursion limit is reached.
Node(from, to) ==
    /\ pc = from
    /\ steps < MaxSteps
    /\ steps' = steps + 1
    /\ pc' = to
    /\ UNCHANGED <<run, outcome, pinned>>

\* history[-HistoryLimit:] of a history that never exceeds it.
Remembered(h, entry) ==
    IF Len(h) < HistoryLimit THEN Append(h, entry) ELSE Append(Tail(h), entry)

\* Claims of a source_support draft are taken as supported without asking the model, and
\* only the answerable tasks must have claims.
Valid(d, supported) ==
    /\ d.sound
    /\ ~(d.refusal /\ d.claims)
    /\ task # "source_support" => supported /\ (d.refusal \/ d.claims)

Response(d) ==
    IF d.refusal THEN "refusal"
    ELSE IF ~d.claims THEN "uncited"
    ELSE IF task = "source_support" /\ d.author = "model" THEN "unassessed"
    ELSE "cited"

HasClaims(response) == response \in {"cited", "unassessed", "artifact"}

-----------------------------------------------------------------------------
(* Faulty variants of the operations below: bugs the properties must catch. *)

\* The response of a question that stays open is named after its task.
GracefulResponseNamesTask ==
    /\ Node("graceful_response", "persist_result")
    /\ final' = [final EXCEPT ![run] = task]
    /\ UNCHANGED <<task, evidence, answer, artifact, history, support>>

\* A refused program leaves the previous execution_result in place.
ExecuteArtifactKeepsResult ==
    /\ Node("execute_artifact", "inspect_artifact")
    /\ attempt' = attempt + 1
    /\ \/ codeOk /\ execution' = "succeeded" /\ errors' = "none"
       \/ codeOk /\ execution' = "failed" /\ errors' \in {"correctable", "fatal"}
       \/ execution' = execution /\ errors' = "fatal"
    /\ UNCHANGED <<task, evidence, answer, codeOk, final, history, support>>

\* Every turn is remembered, whatever its response.
PersistResultRemembersAll ==
    /\ Node("persist_result", "end")
    /\ history' = IF ~codes /\ task # "source_support"
                     THEN Remembered(history, [run |-> run, task |-> task]) ELSE history
    /\ UNCHANGED <<task, evidence, answer, artifact, final, support>>

\* The attempts are compared with <= 2.
InspectArtifactRepairsTwice ==
    /\ IF execution # "succeeded" THEN UNCHANGED <<errors, final>>
       ELSE \/ errors' \in {"fatal", "correctable"} /\ UNCHANGED final
            \/ errors' = "none" /\ final' = [final EXCEPT ![run] = "artifact"]
    /\ Node("inspect_artifact",
            IF final'[run] # "none" THEN "persist_result"
            ELSE IF errors' = "correctable" /\ attempt <= 2 THEN "repair_artifact"
            ELSE "graceful_response")
    /\ UNCHANGED <<task, evidence, answer, codeOk, execution, attempt, history, support>>

\* A draft is repaired until it is valid.
ValidateCitationsRepairsForever ==
    /\ \E supported \in BOOLEAN :
          /\ codes' = ~Valid(draft, supported)
          /\ final' = IF Valid(draft, supported)
                         THEN [final EXCEPT ![run] = Response(draft)] ELSE final
          /\ Node("validate_citations",
                  IF final'[run] # "none" THEN "persist_result" ELSE "repair")
    /\ UNCHANGED <<task, evidence, draft, retry, artifact, history, support>>

\* A failing turn moves the session's checkpoint as well.
FailPins ==
    /\ pc # "idle"
    /\ outcome' = [outcome EXCEPT ![run] = "failed"]
    /\ pinned' = [history |-> history, support |-> support, set |-> TRUE]
    /\ pc' = "idle"
    /\ UNCHANGED <<run, steps, task, evidence, answer, artifact, final, history, support>>

-----------------------------------------------------------------------------
(* One turn: memory, scope and plan                                        *)

\* Without a pinned checkpoint the thread resumes from its latest one, whatever turn wrote
\* it and however that turn ended.
Resumed == IF pinned.set THEN pinned ELSE [history |-> history, support |-> support, set |-> FALSE]

\* _observed_turn: everything of the previous turn is reset except task_type and
\* source_support_claims, which a later node is expected to overwrite.
BeginTurn ==
    /\ pc = "idle"
    /\ run < MaxTurns
    /\ run' = run + 1
    /\ pc' = "load_memory"
    /\ steps' = 0
    /\ retrieved' = 0
    /\ selected' = 0
    /\ sufficient' = FALSE
    /\ draft' = NoDraft
    /\ codes' = FALSE
    /\ retry' = 0
    /\ codeOk' = FALSE
    /\ execution' = "none"
    /\ errors' = "none"
    /\ attempt' = 0
    /\ history' = Resumed.history
    /\ support' = Resumed.support
    /\ UNCHANGED <<task, final, pinned, outcome>>

\* Old messages may be summarised; no property depends on their text.
LoadMemory ==
    /\ Node("load_memory", "classify_task")
    /\ UNCHANGED <<task, evidence, answer, artifact, final, history, support>>

\* With a single message there is nothing a clarification could be resolved from.
ClassifyTask ==
    /\ \E t \in Tasks :
          /\ task' = t
          /\ Node("classify_task",
                  IF t = "out_of_scope" \/ (t = "clarification" /\ run = 1)
                     THEN "graceful_response" ELSE "resolve_query")
    /\ UNCHANGED <<evidence, answer, artifact, final, history, support>>

\* select_source_support_turn: where in the memory the turn is whose sources are asked for,
\* if that is clear.  pointing: the question says "those", "that", "previous", "comparison".
SelectTurn(h, pointing) ==
    LET comparisons == {i \in 1..Len(h) : h[i].task = "comparison"}
    IN  IF pointing /\ comparisons # {}
           THEN {i \in comparisons : \A j \in comparisons : j <= i}
        ELSE IF Len(h) = 1 THEN {1}
        ELSE {i \in comparisons : comparisons = {i}}

ResolveSources ==
    /\ task = "source_support"
    /\ \E pointing \in BOOLEAN :
          \/ \E i \in SelectTurn(history, pointing) :
                /\ Node("resolve_query", "plan")
                /\ support' = history[i].run
                /\ UNCHANGED task
          \/ /\ SelectTurn(history, pointing) = {}
             /\ Node("resolve_query", "graceful_response")
             /\ support' = 0
             /\ task' = "clarification"
    /\ UNCHANGED <<evidence, answer, artifact, final, history>>

\* The task the resolver makes of a classified one: a change over years turns a lookup
\* into a comparison, and a clarification may become any task there is evidence for.
ResolvedTasks(t) ==
    IF t = "clarification" THEN Tasks \ {"out_of_scope"}
    ELSE IF t = "lookup" THEN {"lookup", "comparison", "clarification"}
    ELSE {t, "clarification"}

ResolveQuery ==
    /\ task # "source_support"
    /\ \E t \in ResolvedTasks(task) :
          /\ task' = t
          /\ Node("resolve_query", IF t = "clarification" THEN "graceful_response" ELSE "plan")
    /\ UNCHANGED <<evidence, answer, artifact, final, history, support>>

\* A summary of no report in particular and a ranking of no report in particular are
\* turned into a question.
Plan ==
    /\ \/ /\ Node("plan", "load_skill")
          /\ UNCHANGED task
       \/ /\ task \in {"summary", "artifact"}
          /\ Node("plan", "graceful_response")
          /\ task' = "clarification"
    /\ UNCHANGED <<evidence, answer, artifact, final, history, support>>

LoadSkill ==
    /\ Node("load_skill", "call_tools")
    /\ UNCHANGED <<task, evidence, answer, artifact, final, history, support>>

-----------------------------------------------------------------------------
(* Evidence                                                                *)

\* Every tool call that fails, times out or exceeds the limit contributes nothing.  Sources
\* of earlier claims are fetched again by their IDs: none are, if there are no claims.
CallTools ==
    /\ Node("call_tools", "assess_evidence")
    /\ retrieved' \in {0, run}
    /\ task = "source_support" /\ support = 0 => retrieved' = 0
    /\ UNCHANGED <<task, selected, sufficient, answer, artifact, final, history, support>>

AssessEvidence ==
    /\ \E enough \in BOOLEAN :
          /\ enough => retrieved # 0
          /\ sufficient' = enough
          /\ selected' \in IF enough THEN {retrieved}
                           ELSE IF task = "source_support" THEN {0} ELSE {0, retrieved}
          /\ Node("assess_evidence",
                  IF ~enough THEN "graceful_response"
                  ELSE IF task = "artifact" THEN "prepare_artifact" ELSE "synthesize")
    /\ UNCHANGED <<task, retrieved, answer, artifact, final, history, support>>

-----------------------------------------------------------------------------
(* Answers                                                                 *)

\* source_support_draft restates the claims; without a line it is empty and unsound.
Synthesize ==
    /\ Node("synthesize", "validate_citations")
    /\ IF task = "source_support"
          THEN draft' \in {d \in Drafts : /\ d.author = "history"
                                          /\ ~d.refusal
                                          /\ d.sound => d.claims}
          ELSE draft' \in ModelDrafts
    /\ UNCHANGED <<task, evidence, codes, retry, artifact, final, history, support>>

\* _validation_route is part of it: "done" if there is a final_response, whoever set it.
ValidateCitations ==
    /\ \E supported \in BOOLEAN :
          /\ codes' = ~Valid(draft, supported)
          /\ final' = IF Valid(draft, supported)
                         THEN [final EXCEPT ![run] = Response(draft)] ELSE final
          /\ Node("validate_citations",
                  IF final'[run] # "none" THEN "persist_result"
                  ELSE IF retry = 0 THEN "repair" ELSE "graceful_response")
    /\ UNCHANGED <<task, evidence, draft, retry, artifact, history, support>>

\* The model rewrites the draft, whoever wrote it.
Repair ==
    /\ Node("repair", "validate_citations")
    /\ draft' \in ModelDrafts
    /\ retry' = 1
    /\ UNCHANGED <<task, evidence, codes, artifact, final, history, support>>

-----------------------------------------------------------------------------
(* Artifacts                                                               *)

\* A proposal that cannot be verified, an unreachable executor: the turn fails.
PrepareArtifact ==
    /\ Node("prepare_artifact", "generate_artifact_code")
    /\ UNCHANGED <<task, evidence, answer, artifact, final, history, support>>

WriteCode ==
    /\ codeOk' \in BOOLEAN
    /\ errors' = IF codeOk' THEN "none" ELSE "fatal"
    /\ UNCHANGED <<task, evidence, answer, execution, attempt, final, history, support>>

GenerateArtifactCode == Node("generate_artifact_code", "execute_artifact") /\ WriteCode
RepairArtifact == Node("repair_artifact", "execute_artifact") /\ WriteCode

\* The program is refused, runs and succeeds, fails in a way a repair may correct
\* (EXECUTION_FAILED, INVALID_ARTIFACT, ARTIFACT_NOT_CREATED) or not, or nobody answers.
ExecuteArtifact ==
    /\ Node("execute_artifact", "inspect_artifact")
    /\ attempt' = attempt + 1
    /\ \/ codeOk /\ execution' = "succeeded" /\ errors' = "none"
       \/ codeOk /\ execution' = "failed" /\ errors' \in {"correctable", "fatal"}
       \/ execution' = "none" /\ errors' = "fatal"
    /\ UNCHANGED <<task, evidence, answer, codeOk, final, history, support>>

\* Outputs over the limits, outputs whose lineage differs from the dataset, or accepted.
\* A result that is missing or failed is left to the route.
Inspect ==
    IF execution # "succeeded" THEN UNCHANGED <<errors, final>>
    ELSE \/ errors' \in {"fatal", "correctable"} /\ UNCHANGED final
         \/ errors' = "none" /\ final' = [final EXCEPT ![run] = "artifact"]

InspectArtifact ==
    /\ Inspect
    /\ Node("inspect_artifact",
            IF final'[run] # "none" THEN "persist_result"
            ELSE IF errors' = "correctable" /\ attempt < 2 THEN "repair_artifact"
            ELSE "graceful_response")
    /\ UNCHANGED <<task, evidence, answer, codeOk, execution, attempt, history, support>>

-----------------------------------------------------------------------------
(* The end of a turn                                                       *)

GracefulResponse ==
    /\ Node("graceful_response", "persist_result")
    /\ final' = [final EXCEPT ![run] = IF task = "clarification" THEN "question"
                                       ELSE "refusal"]
    /\ UNCHANGED <<task, evidence, answer, artifact, history, support>>

PersistResult ==
    /\ Node("persist_result", "end")
    /\ history' = IF HasClaims(final[run]) /\ ~codes /\ task # "source_support"
                     THEN Remembered(history, [run |-> run, task |-> task]) ELSE history
    /\ UNCHANGED <<task, evidence, answer, artifact, final, support>>

\* sessions.set_checkpoint_id with the checkpoint this run wrote last.
PinCheckpoint ==
    /\ pc = "end"
    /\ steps < MaxSteps
    /\ pinned' = [history |-> history, support |-> support, set |-> TRUE]
    /\ pc' = "pinned"
    /\ UNCHANGED <<run, steps, task, evidence, answer, artifact, final, history, support, outcome>>

\* The session is touched, the trace is written and the response is returned.
Deliver ==
    /\ pc = "pinned"
    /\ outcome' = [outcome EXCEPT ![run] = "delivered"]
    /\ pc' = "idle"
    /\ UNCHANGED <<run, steps, task, evidence, answer, artifact, final, memory>>

\* A node raises, the recursion limit or the request deadline is reached, the trace cannot
\* be written, or the process dies: the caller gets an error and the session record stays.
Fail ==
    /\ pc # "idle"
    /\ outcome' = [outcome EXCEPT ![run] = "failed"]
    /\ pc' = "idle"
    /\ UNCHANGED <<run, steps, task, evidence, answer, artifact, final, memory>>

-----------------------------------------------------------------------------
NodeStep ==
    \/ LoadMemory \/ ClassifyTask \/ ResolveSources \/ ResolveQuery \/ Plan \/ LoadSkill
    \/ CallTools \/ AssessEvidence \/ Synthesize \/ ValidateCitations \/ Repair
    \/ PrepareArtifact \/ GenerateArtifactCode \/ ExecuteArtifact \/ InspectArtifact
    \/ RepairArtifact \/ GracefulResponse \/ PersistResult

Next == BeginTurn \/ NodeStep \/ PinCheckpoint \/ Deliver \/ Fail

Spec == Init /\ [][Next]_vars

\* Every provider and tool call has a timeout and the graph has no cycle without a bound:
\* a node that runs finishes.  Nobody promises a next message, and failures are not forced.
FairSpec == Spec /\ WF_vars(NodeStep \/ PinCheckpoint \/ Deliver)

-----------------------------------------------------------------------------
(* Properties                                                              *)

\* A response with claims rests on evidence that this very turn retrieved and judged
\* sufficient, and on the draft that passed validation or the program that ran in it:
\* nothing of an earlier turn's evidence, draft, codes or execution reaches a response.
GroundedInThisTurn ==
    run > 0 /\ final[run] \in Grounded =>
        /\ sufficient
        /\ selected = run
        /\ final[run] = "cited" => draft.sound /\ draft.claims /\ ~draft.refusal /\ ~codes
        /\ final[run] = "artifact" => /\ task = "artifact"
                                      /\ codeOk
                                      /\ execution = "succeeded"
                                      /\ errors = "none"

\* "Only successful validated claim/citation metadata is retained for at most eight turns"
\* (DESIGN.md): every remembered turn had a grounded response of its own, in the order of
\* the turns, whichever checkpoint the session resumed from.
MemoryIsValidated ==
    /\ Len(history) <= HistoryLimit
    /\ \A i \in 1..Len(history) :
          /\ history[i].run <= run
          /\ final[history[i].run] \in Grounded
          /\ history[i].task # "source_support"
    /\ \A i, j \in 1..Len(history) : i < j => history[i].run < history[j].run

\* One answer repair, one code repair, and sixteen supersteps on the longest path
\* (FAILURE_ANALYSIS.md:190), so the recursion limit of 24 is never reached.
TurnIsBounded == steps <= 16 /\ retry <= 1 /\ attempt <= 2

\* A turn that nothing kills ends with a response, without help from the request deadline
\* or the recursion limit.
TurnEnds == pc # "idle" ~> pc = "idle"

\* "source-support intent now resolves only against bounded successful validated claims"
\* (FAILURE_ANALYSIS.md:424): the claims restated are those of a remembered turn.
SourcesAreRemembered ==
    task = "source_support" /\ run > 0 /\ final[run] \in Grounded =>
        \E i \in 1..Len(history) : history[i].run = support

\* "One constrained repair is allowed; a second failure returns no unsupported factual
\* answer" (DESIGN.md:414-415): what is neither a refusal nor a question has claims.
EveryAnswerCited == \A t \in Turns : final[t] # "uncited"

\* "Failed and refused turns cannot replace it" (DESIGN.md:392): what the next turn resumes
\* with holds no turn that its caller saw failing.
FailedTurnsLeaveNoMemory ==
    pc = "idle" =>
        \A i \in 1..Len(Resumed.history) : outcome[Resumed.history[i].run] # "failed"

-----------------------------------------------------------------------------
(* Refinement                                                              *)

TurnStatus(t) ==
    IF t > run THEN "new"
    ELSE IF t = run /\ pc # "idle" THEN "open"
    ELSE outcome[t]

ContractResponse(response) ==
    IF response \in Grounded THEN "grounded"
    ELSE IF response \in {"unassessed", "uncited"} THEN "unverified"
    ELSE response

Contract == INSTANCE TurnContract WITH
    status <- [t \in Turns |-> TurnStatus(t)],
    response <- [t \in Turns |-> ContractResponse(final[t])],
    memory <- {pinned.history[i].run : i \in 1..Len(pinned.history)}

\* The session's turns implement TurnContract.
ImplementsTurnContract == Contract!Spec
=============================================================================
