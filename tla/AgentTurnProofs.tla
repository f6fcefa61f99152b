-------------------------- MODULE AgentTurnProofs --------------------------
(***************************************************************************)
(* Proofs about AgentTurn for any number of turns, any length of the claim *)
(* history and any recursion limit: type correctness, groundedness of      *)
(* responses, validity of the memory, the bound on a turn, refinement of   *)
(* TurnContract.                                                           *)
(*                                                                         *)
(* IInv adds to the properties what the control state implies: how many    *)
(* supersteps lead to each node (Trail), which nodes run before there is a *)
(* response (Undecided), and what the nodes behind assess_evidence may     *)
(* rely on (Basis).                                                        *)
(***************************************************************************)
EXTENDS AgentTurn, TLAPS

\* The nodes that draft and check an answer, and those that make an artifact.
AnswerNodes == {"synthesize", "validate_citations", "repair"}
ArtifactNodes == {"prepare_artifact", "generate_artifact_code", "execute_artifact",
                  "inspect_artifact", "repair_artifact"}
Deciding == Nodes \ {"persist_result"}

\* Supersteps spent on the way to each node.
Trail ==
    /\ pc = "load_memory" => steps = 0
    /\ pc = "classify_task" => steps = 1
    /\ pc = "resolve_query" => steps = 2
    /\ pc = "plan" => steps = 3
    /\ pc = "load_skill" => steps = 4
    /\ pc = "call_tools" => steps = 5
    /\ pc = "assess_evidence" => steps = 6
    /\ pc = "synthesize" => steps = 7 /\ retry = 0
    /\ pc = "validate_citations" => steps = 8 + 2 * retry
    /\ pc = "repair" => steps = 9 /\ retry = 0
    /\ pc = "prepare_artifact" => steps = 7 /\ attempt = 0
    /\ pc = "generate_artifact_code" => steps = 8 /\ attempt = 0
    /\ pc = "execute_artifact" => steps = 9 + 3 * attempt /\ attempt <= 1
    /\ pc = "inspect_artifact" => steps = 7 + 3 * attempt /\ attempt >= 1
    /\ pc = "repair_artifact" => steps = 11 /\ attempt = 1
    /\ pc = "graceful_response" => steps <= 14
    /\ pc = "persist_result" => steps <= 15
    /\ steps <= 16
    /\ pc \in Nodes \ (ArtifactNodes \cup {"graceful_response", "persist_result"}) => attempt = 0
    /\ pc \in Nodes \ (AnswerNodes \cup {"graceful_response", "persist_result"}) => retry = 0
    /\ attempt <= 2

\* Turns start one after the other, and the one in progress gets its response last.
Undecided ==
    /\ pc # "idle" => run > 0
    /\ pc \in Deciding => final[run] = "none"
    /\ pc \in {"persist_result", "end", "pinned"} => final[run] # "none"
    /\ \A t \in Turns : t > run => final[t] = "none" /\ outcome[t] = "none"
    /\ pc # "idle" => outcome[run] = "none"

\* What a node behind assess_evidence finds.
Basis ==
    /\ pc # "idle" => retrieved \in {0, run}
    /\ pc \in AnswerNodes \cup ArtifactNodes => sufficient /\ selected = run
    /\ pc \in ArtifactNodes => task = "artifact"
    /\ pc = "inspect_artifact" /\ execution = "succeeded" => codeOk
    /\ pc = "persist_result" /\ final[run] = "unassessed" => task = "source_support"
    /\ pc = "persist_result" /\ HasClaims(final[run]) => ~codes \/ task = "artifact"

ValidMemory(h) ==
    /\ Len(h) <= HistoryLimit
    /\ \A i \in 1..Len(h) :
          /\ h[i].run <= run
          /\ pc \in Nodes => h[i].run < run
          /\ final[h[i].run] \in Grounded
          /\ h[i].task # "source_support"
    /\ \A i, j \in 1..Len(h) : i < j => h[i].run < h[j].run

IInv ==
    /\ TypeOK
    /\ Trail
    /\ Undecided
    /\ Basis
    /\ GroundedInThisTurn
    /\ ValidMemory(history)
    /\ pinned.set => ValidMemory(pinned.history)

-----------------------------------------------------------------------------
USE TurnAssumption

\* Remembered(h, e) is h, without its oldest entry if it is full, followed by e.
LEMMA RememberedShape ==
    ASSUME NEW h \in Seq(Entries), NEW e \in Entries, Len(h) <= HistoryLimit
    PROVE  /\ Remembered(h, e) \in Seq(Entries)
           /\ Len(Remembered(h, e)) <= HistoryLimit
           /\ Len(Remembered(h, e)) \in Nat \ {0}
           /\ \E k \in {0, 1} : \A i \in 1..Len(Remembered(h, e)) - 1 :
                 i + k \in 1..Len(h) /\ Remembered(h, e)[i] = h[i + k]
           /\ Remembered(h, e)[Len(Remembered(h, e))] = e
<1> DEFINE r == Remembered(h, e)
<1>1. CASE Len(h) < HistoryLimit
  <2>1. r = Append(h, e)
    BY <1>1 DEF Remembered
  <2>2. \A i \in 1..Len(r) - 1 : i + 0 \in 1..Len(h) /\ r[i] = h[i + 0]
    BY <2>1
  <2> QED
    BY <1>1, <2>1, <2>2
<1>2. CASE ~(Len(h) < HistoryLimit)
  <2>1. h # <<>> /\ Tail(h) \in Seq(Entries) /\ Len(Tail(h)) = Len(h) - 1
    BY <1>2
  <2>2. \A i \in 1..Len(h) - 1 : Tail(h)[i] = h[i + 1]
    BY <2>1
  <2>3. r = Append(Tail(h), e)
    BY <1>2 DEF Remembered
  <2>4. \A i \in 1..Len(r) - 1 : i + 1 \in 1..Len(h) /\ r[i] = h[i + 1]
    BY <2>1, <2>2, <2>3
  <2> QED
    BY <1>2, <2>1, <2>3, <2>4
<1> QED
  BY <1>1, <1>2

\* The sources asked for are those of an entry of the memory.
LEMMA SelectTurnInMemory ==
    ASSUME NEW h \in Seq(Entries), NEW pointing \in BOOLEAN
    PROVE  SelectTurn(h, pointing) \subseteq 1..Len(h)
<1> DEFINE comparisons == {i \in 1..Len(h) : h[i].task = "comparison"}
<1>1. CASE pointing /\ comparisons # {}
  BY <1>1 DEF SelectTurn
<1>2. CASE ~(pointing /\ comparisons # {}) /\ Len(h) = 1
  <2>1. SelectTurn(h, pointing) = {1}
    BY <1>2 DEF SelectTurn
  <2> QED
    BY <1>2, <2>1
<1>3. CASE ~(pointing /\ comparisons # {}) /\ Len(h) # 1
  BY <1>3 DEF SelectTurn
<1> QED
  BY <1>1, <1>2, <1>3

LEMMA InitIInv == Init => IInv
<1> SUFFICES ASSUME Init PROVE IInv
  OBVIOUS
<1> USE DEF Init, NoMemory, NoDraft
<1>1. TypeOK
  <2>1. <<>> \in Seq(Entries)
    OBVIOUS
  <2>2. pinned \in [history : Seq(Entries), support : 0..MaxTurns, set : BOOLEAN]
    BY <2>1
  <2>3. draft \in Drafts
    BY DEF Drafts
  <2>4. /\ final \in [Turns -> Responses \cup {"none"}]
        /\ outcome \in [Turns -> {"none", "delivered", "failed"}]
    OBVIOUS
  <2>5. run \in 0..MaxTurns /\ retrieved \in 0..MaxTurns /\ selected \in 0..MaxTurns
        /\ support \in 0..MaxTurns /\ retry \in 0..1
    OBVIOUS
  <2> QED
    BY <2>1, <2>2, <2>3, <2>4, <2>5 DEF TypeOK, Tasks, Nodes
<1>2. Trail /\ Undecided /\ Basis
  BY DEF Trail, Undecided, Basis, Nodes, AnswerNodes, ArtifactNodes, Deciding, Turns
<1>3. GroundedInThisTurn /\ ValidMemory(history)
  BY DEF GroundedInThisTurn, ValidMemory
<1> QED
  BY <1>1, <1>2, <1>3 DEF IInv

\* The memory stays valid as long as no remembered response changes.
LEMMA MemoryStays ==
    ASSUME IInv, UNCHANGED <<run, history, pinned>>, pc' \in Nodes => pc \in Nodes,
           \A t \in Turns : final[t] \in Grounded => final'[t] = final[t]
    PROVE  ValidMemory(history)' /\ (pinned.set => ValidMemory(pinned.history))'
<1>1. ASSUME NEW h \in Seq(Entries), ValidMemory(h)
      PROVE  /\ Len(h) <= HistoryLimit
             /\ \A i \in 1..Len(h) :
                   /\ h[i].run <= run'
                   /\ pc' \in Nodes => h[i].run < run'
                   /\ final'[h[i].run] \in Grounded
                   /\ h[i].task # "source_support"
             /\ \A i, j \in 1..Len(h) : i < j => h[i].run < h[j].run
  <2>1. \A i \in 1..Len(h) : h[i] \in Entries
    OBVIOUS
  <2> QED
    BY <1>1, <2>1 DEF ValidMemory, Entries
<1>2. history \in Seq(Entries) /\ pinned.history \in Seq(Entries)
  BY DEF IInv, TypeOK
<1> QED
  BY <1>1, <1>2 DEF IInv, ValidMemory

\* A new turn finds the memory older than itself.
LEMMA MemoryIsOlder ==
    ASSUME IInv, run' = run + 1, UNCHANGED <<final, pinned>>, history' = Resumed.history
    PROVE  ValidMemory(history)' /\ (pinned.set => ValidMemory(pinned.history))'
<1>1. ASSUME NEW h \in Seq(Entries), ValidMemory(h)
      PROVE  /\ Len(h) <= HistoryLimit
             /\ \A i \in 1..Len(h) :
                   /\ h[i].run <= run'
                   /\ h[i].run < run'
                   /\ final'[h[i].run] \in Grounded
                   /\ h[i].task # "source_support"
             /\ \A i, j \in 1..Len(h) : i < j => h[i].run < h[j].run
  <2>1. \A i \in 1..Len(h) : h[i] \in Entries
    OBVIOUS
  <2>2. run \in Nat /\ \A i \in 1..Len(h) : h[i].run \in Nat
    BY <2>1 DEF IInv, TypeOK, Entries, Turns
  <2> QED
    BY <1>1, <2>2 DEF ValidMemory
<1>2. history \in Seq(Entries) /\ pinned.history \in Seq(Entries)
  BY DEF IInv, TypeOK
<1>3. Resumed.history \in Seq(Entries) /\ ValidMemory(Resumed.history)
  BY <1>2 DEF IInv, Resumed
<1>4. ValidMemory(history)'
  BY <1>1, <1>3 DEF ValidMemory
<1>5. (pinned.set => ValidMemory(pinned.history))'
  BY <1>1, <1>2 DEF IInv, ValidMemory
<1> QED
  BY <1>4, <1>5

\* A turn with a grounded response may be remembered.
LEMMA MemoryGrows ==
    ASSUME IInv, run \in Turns, pc = "persist_result", pc' = "end", run' = run, final' = final,
           final[run] \in Grounded, task \in Tasks \ {"source_support"},
           history' = Remembered(history, [run |-> run, task |-> task])
    PROVE  ValidMemory(history)' /\ history' \in Seq(Entries)
<1>1. PICK e \in Entries : e = [run |-> run, task |-> task] /\ e.run = run /\ e.task = task
  BY DEF Entries
<1>2. history \in Seq(Entries) /\ Len(history) <= HistoryLimit /\ ValidMemory(history)
  BY DEF IInv, TypeOK, ValidMemory
<1>3. history' = Remembered(history, e)
  BY <1>1
<1>4. PICK k \in {0, 1} :
         /\ history' \in Seq(Entries)
         /\ Len(history') <= HistoryLimit
         /\ Len(history') \in Nat \ {0}
         /\ \A i \in 1..Len(history') - 1 :
               i + k \in 1..Len(history) /\ history'[i] = history[i + k]
         /\ history'[Len(history')] = e
  <2>1. e \in Entries /\ Len(history) <= HistoryLimit /\ history \in Seq(Entries)
    BY <1>1, <1>2
  <2>2. Remembered(history, e) \in Seq(Entries)
    BY <2>1, RememberedShape
  <2>3. \E k \in {0, 1} : \A i \in 1..Len(Remembered(history, e)) - 1 :
                 i + k \in 1..Len(history) /\ Remembered(history, e)[i] = history[i + k]
    BY <2>1, RememberedShape
  <2>4. Len(Remembered(history, e)) \in Nat \ {0} /\ Len(Remembered(history, e)) <= HistoryLimit
    BY <2>1, RememberedShape
  <2>5. Remembered(history, e)[Len(Remembered(history, e))] = e
    BY <2>1, RememberedShape
  <2> QED
    BY <1>3, <2>2, <2>3, <2>4, <2>5
<1>5. \A i \in 1..Len(history) : /\ history[i].run < run
                                 /\ final[history[i].run] \in Grounded
                                 /\ history[i].task # "source_support"
                                 /\ history[i].run \in Nat
                                 /\ run \in Nat
  <2>1. \A i \in 1..Len(history) : history[i] \in Entries
    BY <1>2
  <2>2. \A i \in 1..Len(history) : history[i].run \in Nat
    BY <2>1 DEF Entries, Turns
  <2> QED
    BY <1>2, <2>2 DEF ValidMemory, Nodes, Turns
<1>6. \A i \in 1..Len(history') :
         /\ history'[i].run <= run
         /\ final[history'[i].run] \in Grounded
         /\ history'[i].task # "source_support"
  <2> TAKE i \in 1..Len(history')
  <2>1. CASE i = Len(history')
    BY <1>1, <1>4, <2>1 DEF Turns
  <2>2. CASE i # Len(history')
    <3>1. i \in 1..Len(history') - 1
      BY <1>4, <2>2
    <3> QED
      BY <1>5, <1>4, <3>1
  <2> QED
    BY <2>1, <2>2
<1>7. \A i, j \in 1..Len(history') : i < j => history'[i].run < history'[j].run
  <2> SUFFICES ASSUME NEW i \in 1..Len(history'), NEW j \in 1..Len(history'), i < j
               PROVE  history'[i].run < history'[j].run
    OBVIOUS
  <2>1. i \in 1..Len(history') - 1
    BY <1>4
  <2>2. CASE j = Len(history')
    BY <1>1, <1>5, <1>4, <2>1, <2>2
  <2>3. CASE j # Len(history')
    <3>1. j \in 1..Len(history') - 1
      BY <1>4, <2>3
    <3>2. i + k < j + k
      BY <1>4
    <3> QED
      BY <1>2, <1>4, <2>1, <3>1, <3>2 DEF ValidMemory
  <2> QED
    BY <2>2, <2>3
<1> QED
  BY <1>4, <1>6, <1>7 DEF ValidMemory, Nodes

LEMMA StepIInv == IInv /\ [Next]_vars => IInv'
<1> SUFFICES ASSUME IInv, [Next]_vars PROVE IInv'
  OBVIOUS
<1> USE DEF IInv, TypeOK, Trail, Undecided, Basis, GroundedInThisTurn, Node, Nodes, AnswerNodes,
            ArtifactNodes, Deciding, Turns, Tasks, Responses, Grounded, evidence, answer,
            artifact
<1>1. CASE LoadMemory
  BY <1>1, MemoryStays DEF LoadMemory
<1>2. CASE ClassifyTask
  BY <1>2, MemoryStays DEF ClassifyTask
<1>3. CASE ResolveQuery
  BY <1>3, MemoryStays DEF ResolveQuery, ResolvedTasks
<1>4. CASE Plan
  <2>1. /\ pc = "plan" /\ pc' \in {"load_skill", "graceful_response"} /\ steps' = 4 /\ task' \in Tasks
        /\ UNCHANGED <<run, outcome, pinned, final, history, support, evidence, answer, artifact>>
    BY <1>4 DEF Plan
  <2>2. ValidMemory(history)' /\ (pinned.set => ValidMemory(pinned.history))'
    BY <2>1, MemoryStays
  <2> QED
    BY <2>1, <2>2
<1>5. CASE LoadSkill
  BY <1>5, MemoryStays DEF LoadSkill
<1>6. CASE CallTools
  BY <1>6, MemoryStays DEF CallTools
<1>7. CASE AssessEvidence
  BY <1>7, MemoryStays DEF AssessEvidence
<1>8. CASE ResolveSources
  <2>1. \A pointing \in BOOLEAN : SelectTurn(history, pointing) \subseteq 1..Len(history)
    BY SelectTurnInMemory
  <2>2. \A i \in 1..Len(history) : history[i] \in Entries
    OBVIOUS
  <2>3. support' \in 0..MaxTurns
    BY <1>8, <2>1, <2>2 DEF ResolveSources, Entries
  <2>4. /\ pc = "resolve_query" /\ pc' \in {"plan", "graceful_response"} /\ steps' = 3
        /\ task' \in Tasks
        /\ UNCHANGED <<run, outcome, pinned, final, history, evidence, answer, artifact>>
    BY <1>8 DEF ResolveSources
  <2>5. ValidMemory(history)' /\ (pinned.set => ValidMemory(pinned.history))'
    BY <2>4, MemoryStays
  <2> QED
    BY <2>3, <2>4, <2>5
<1>9. CASE Synthesize
  BY <1>9, MemoryStays DEF Synthesize, Drafts, ModelDrafts
<1>10. CASE ValidateCitations
  <2> PICK supported \in BOOLEAN :
        /\ codes' = ~Valid(draft, supported)
        /\ final' = IF Valid(draft, supported)
                       THEN [final EXCEPT ![run] = Response(draft)] ELSE final
        /\ Node("validate_citations",
                IF final'[run] # "none" THEN "persist_result"
                ELSE IF retry = 0 THEN "repair" ELSE "graceful_response")
        /\ UNCHANGED <<task, evidence, draft, retry, artifact, history, support>>
    BY <1>10 DEF ValidateCitations
  <2>1. run \in Turns /\ final[run] = "none" /\ pc = "validate_citations"
    OBVIOUS
  <2>2. Response(draft) \in {"refusal", "uncited", "unassessed", "cited"}
    BY DEF Response
  <2>3. CASE Valid(draft, supported)
    <3>1. /\ final'[run] = Response(draft) /\ pc' = "persist_result" /\ codes' = FALSE
          /\ \A t \in Turns \ {run} : final'[t] = final[t]
      <4>1. final' = [final EXCEPT ![run] = Response(draft)] /\ codes' = FALSE
        BY <2>3
      <4>2. final'[run] = Response(draft) /\ \A t \in Turns \ {run} : final'[t] = final[t]
        BY <2>1, <4>1
      <4> QED
        BY <2>2, <4>1, <4>2
    <3>2. /\ final' \in [Turns -> Responses \cup {"none"}]
          /\ UNCHANGED <<run, outcome, pinned>>
      BY <2>2, <2>3
    <3>3. TypeOK'
      BY <2>1, <3>1, <3>2
    <3>4. Trail' /\ Undecided'
      BY <2>1, <2>2, <3>1, <3>2
    <3>5. Basis' /\ GroundedInThisTurn'
      BY <2>1, <2>3, <3>1 DEF Response, Valid, HasClaims
    <3>6. ValidMemory(history)' /\ (pinned.set => ValidMemory(pinned.history))'
      BY <2>1, <3>1, MemoryStays
    <3> QED
      BY <3>3, <3>4, <3>5, <3>6
  <2>4. CASE ~Valid(draft, supported)
    <3>1. final' = final /\ codes' = TRUE /\ pc' \in {"repair", "graceful_response"}
      BY <2>1, <2>4
    <3>2. TypeOK' /\ Trail' /\ Undecided'
      BY <2>1, <2>4, <3>1
    <3>3. Basis' /\ GroundedInThisTurn'
      BY <2>1, <3>1 DEF HasClaims
    <3>4. ValidMemory(history)' /\ (pinned.set => ValidMemory(pinned.history))'
      BY <2>1, <3>1, MemoryStays
    <3> QED
      BY <3>2, <3>3, <3>4
  <2> QED
    BY <2>3, <2>4
<1>11. CASE Repair
  BY <1>11, MemoryStays DEF Repair, Drafts, ModelDrafts
<1>12. CASE PrepareArtifact
  BY <1>12, MemoryStays DEF PrepareArtifact
<1>13. CASE GenerateArtifactCode
  BY <1>13, MemoryStays DEF GenerateArtifactCode, WriteCode
<1>14. CASE RepairArtifact
  BY <1>14, MemoryStays DEF RepairArtifact, WriteCode
<1>15. CASE ExecuteArtifact
  BY <1>15, MemoryStays DEF ExecuteArtifact
<1>16. CASE InspectArtifact
  <2>1. run \in Turns /\ final[run] = "none" /\ pc = "inspect_artifact" /\ attempt \in {1, 2}
    BY <1>16 DEF InspectArtifact
  <2>2. CASE execution = "succeeded" /\ errors' = "none"
                 /\ final' = [final EXCEPT ![run] = "artifact"]
    <3>1. /\ final'[run] = "artifact" /\ pc' = "persist_result"
          /\ \A t \in Turns \ {run} : final'[t] = final[t]
      BY <1>16, <2>1, <2>2 DEF InspectArtifact
    <3>2. TypeOK' /\ Trail' /\ Undecided'
      BY <1>16, <2>1, <2>2, <3>1 DEF InspectArtifact
    <3>3. Basis' /\ GroundedInThisTurn'
      BY <1>16, <2>1, <2>2, <3>1 DEF InspectArtifact, HasClaims
    <3>4. ValidMemory(history)' /\ (pinned.set => ValidMemory(pinned.history))'
      BY <1>16, <2>1, <3>1, MemoryStays DEF InspectArtifact
    <3> QED
      BY <3>2, <3>3, <3>4
  <2>3. CASE UNCHANGED final /\ errors' \in {"none", "correctable", "fatal"}
    <3>1. /\ pc' \in {"repair_artifact", "graceful_response"}
          /\ pc' = "repair_artifact" => attempt = 1
      BY <1>16, <2>1, <2>3 DEF InspectArtifact
    <3>2. TypeOK' /\ Trail' /\ Undecided'
      BY <1>16, <2>1, <2>3, <3>1 DEF InspectArtifact
    <3>3. Basis' /\ GroundedInThisTurn'
      BY <1>16, <2>1, <2>3, <3>1 DEF InspectArtifact, HasClaims
    <3>4. ValidMemory(history)' /\ (pinned.set => ValidMemory(pinned.history))'
      BY <1>16, <2>1, <2>3, <3>1, MemoryStays DEF InspectArtifact
    <3> QED
      BY <3>2, <3>3, <3>4
  <2> QED
    BY <1>16, <2>2, <2>3 DEF InspectArtifact, Inspect
<1>17. CASE GracefulResponse
  BY <1>17, MemoryStays DEF GracefulResponse, HasClaims
<1>18. CASE PersistResult
  <2>1. run \in Turns /\ pc = "persist_result" /\ pc' = "end" /\ UNCHANGED <<run, pinned, final>>
    BY <1>18 DEF PersistResult
  <2>2. CASE UNCHANGED history
    BY <1>18, <2>1, <2>2, MemoryStays DEF PersistResult
  <2>3. CASE /\ HasClaims(final[run]) /\ ~codes /\ task # "source_support"
             /\ history' = Remembered(history, [run |-> run, task |-> task])
    <3>1. final[run] \in Grounded
      BY <2>1, <2>3 DEF HasClaims
    <3>2. ValidMemory(history)' /\ history' \in Seq(Entries)
      BY <2>1, <2>3, <3>1, MemoryGrows
    <3>3. (pinned.set => ValidMemory(pinned.history))'
      BY <2>1 DEF ValidMemory
    <3>4. /\ steps \in Nat /\ steps <= 15 /\ steps' = steps + 1
          /\ UNCHANGED <<outcome, task, evidence, answer, artifact, support>>
      BY <1>18, <2>1 DEF PersistResult
    <3>5. TypeOK'
      BY <2>1, <3>2, <3>4
    <3>6. Trail' /\ Undecided' /\ Basis' /\ GroundedInThisTurn'
      BY <2>1, <3>4
    <3> QED
      BY <3>2, <3>3, <3>5, <3>6
  <2> QED
    BY <1>18, <2>2, <2>3 DEF PersistResult
<1>19. CASE BeginTurn
  <2>1. /\ run' = run + 1 /\ run' \in Turns /\ pc = "idle" /\ pc' = "load_memory"
        /\ UNCHANGED <<final, pinned, outcome>>
    BY <1>19 DEF BeginTurn
  <2>2. history' \in Seq(Entries) /\ support' \in 0..MaxTurns
    BY <1>19 DEF BeginTurn, Resumed
  <2>3. draft' \in Drafts /\ draft' = NoDraft
    BY <1>19 DEF BeginTurn, NoDraft, Drafts
  <2>4. TypeOK'
    <3>1. /\ run' \in 0..MaxTurns /\ steps' \in Nat /\ attempt' \in Nat
          /\ retrieved' \in 0..MaxTurns /\ selected' \in 0..MaxTurns /\ retry' \in 0..1
      BY <1>19, <2>1 DEF BeginTurn
    <3>2. /\ pc' \in Nodes /\ task' \in Tasks /\ sufficient' \in BOOLEAN /\ codes' \in BOOLEAN
          /\ codeOk' \in BOOLEAN /\ execution' = "none" /\ errors' = "none"
      BY <1>19, <2>1 DEF BeginTurn
    <3>3. /\ final' \in [Turns -> Responses \cup {"none"}]
          /\ outcome' \in [Turns -> {"none", "delivered", "failed"}]
          /\ pinned' \in [history : Seq(Entries), support : 0..MaxTurns, set : BOOLEAN]
      BY <2>1
    <3> QED
      BY <2>2, <2>3, <3>1, <3>2, <3>3
  <2>5. Trail' /\ Undecided'
    BY <1>19, <2>1 DEF BeginTurn
  <2>6. final'[run'] = "none"
    BY <2>1
  <2>7. Basis' /\ GroundedInThisTurn'
    BY <1>19, <2>1, <2>6 DEF BeginTurn
  <2>8. history' = Resumed.history
    BY <1>19 DEF BeginTurn
  <2>9. ValidMemory(history)' /\ (pinned.set => ValidMemory(pinned.history))'
    BY <2>1, <2>8, MemoryIsOlder
  <2> QED
    BY <2>4, <2>5, <2>7, <2>9
<1>20. CASE PinCheckpoint
  <2>1. /\ pinned'.history = history /\ pc = "end" /\ pc' = "pinned"
        /\ UNCHANGED <<run, final, history>>
    BY <1>20 DEF PinCheckpoint
  <2>2. pinned' \in [history : Seq(Entries), support : 0..MaxTurns, set : BOOLEAN]
    BY <1>20 DEF PinCheckpoint
  <2>3. TypeOK' /\ Trail' /\ Undecided' /\ Basis' /\ GroundedInThisTurn'
    BY <1>20, <2>1, <2>2 DEF PinCheckpoint
  <2>4. ValidMemory(history)' /\ ValidMemory(pinned.history)'
    BY <2>1 DEF ValidMemory
  <2> QED
    BY <2>3, <2>4
<1>21. CASE Deliver
  BY <1>21, MemoryStays DEF Deliver, memory
<1>22. CASE Fail
  BY <1>22, MemoryStays DEF Fail, memory
<1>23. CASE UNCHANGED vars
  BY <1>23, MemoryStays DEF vars, control, memory
<1> QED
  BY <1>1, <1>2, <1>3, <1>4, <1>5, <1>6, <1>7, <1>8, <1>9, <1>10,
     <1>11, <1>12, <1>13, <1>14, <1>15, <1>16, <1>17, <1>18, <1>19, <1>20,
     <1>21, <1>22, <1>23
     DEF Next, NodeStep

THEOREM AlwaysIInv == Spec => []IInv
<1>1. IInv /\ [Next]_vars => IInv'
  BY StepIInv
<1> QED
  BY InitIInv, <1>1, PTL DEF Spec

-----------------------------------------------------------------------------
(* The properties                                                          *)

\* Every variable keeps its type: fields of the graph state, checkpoints, outcomes.
THEOREM TypeCorrect == Spec => []TypeOK
<1>1. IInv => TypeOK
  BY DEF IInv
<1> QED
  BY AlwaysIInv, <1>1, PTL

\* A response with claims rests on what its own turn retrieved, checked and executed.
THEOREM ResponsesGrounded == Spec => []GroundedInThisTurn
<1>1. IInv => GroundedInThisTurn
  BY DEF IInv
<1> QED
  BY AlwaysIInv, <1>1, PTL

\* The claim history holds at most HistoryLimit turns, each with a grounded response.
THEOREM MemoryValidated == Spec => []MemoryIsValidated
<1>1. IInv => MemoryIsValidated
  BY DEF IInv, ValidMemory, MemoryIsValidated
<1> QED
  BY AlwaysIInv, <1>1, PTL

\* No turn takes more than sixteen supersteps, one answer repair and one code repair.
THEOREM TurnsAreBounded == Spec => []TurnIsBounded
<1>1. IInv => TurnIsBounded
  BY DEF IInv, TypeOK, Trail, TurnIsBounded
<1> QED
  BY AlwaysIInv, <1>1, PTL

-----------------------------------------------------------------------------
(* Refinement of TurnContract                                              *)

\* No turn has begun in the initial state, and nothing is remembered.
LEMMA InitRefines == Init => Contract!Init
<1> SUFFICES ASSUME Init PROVE Contract!Init
  OBVIOUS
<1>1. [t \in Turns |-> TurnStatus(t)] = [t \in Turns |-> "new"]
  BY DEF Init, TurnStatus, Turns
<1>2. [t \in Turns |-> ContractResponse(final[t])] = [t \in Turns |-> "none"]
  BY DEF Init, ContractResponse, Grounded
<1>3. {pinned.history[i].run : i \in 1..Len(pinned.history)} = {}
  BY DEF Init, NoMemory
<1> QED
  BY <1>1, <1>2, <1>3 DEF Contract!Init

\* A node that decides nothing does not show in the contract ...
LEMMA SilentStep ==
    ASSUME UNCHANGED <<run, final, outcome, pinned>>, (pc' = "idle") = (pc = "idle")
    PROVE  UNCHANGED Contract!vars
<1>1. \A t \in Turns : TurnStatus(t)' = TurnStatus(t)
  BY DEF TurnStatus
<1> QED
  BY <1>1 DEF Contract!vars

\* ... and one that sets final_response is the contract's Respond.
LEMMA RespondStep ==
    ASSUME IInv, UNCHANGED <<run, outcome, pinned>>, pc \in Deciding, pc' # "idle",
           NEW r \in Responses, final' = [final EXCEPT ![run] = r]
    PROVE  Contract!Respond(run)
<1>1. run \in Turns /\ final[run] = "none" /\ pc # "idle"
  BY DEF IInv, TypeOK, Undecided, Deciding, Nodes, Turns
<1>2. \A t \in Turns : TurnStatus(t)' = TurnStatus(t)
  BY <1>1 DEF TurnStatus
<1>3. TurnStatus(run) = "open"
  BY <1>1 DEF TurnStatus, Turns
<1>4. /\ final'[run] = r
      /\ \A t \in Turns \ {run} : final'[t] = final[t]
  BY <1>1 DEF IInv, TypeOK
<1>5. ContractResponse("none") = "none" /\ ContractResponse(r) \in Contract!Responses
  BY DEF ContractResponse, Responses, Grounded, Contract!Responses
<1>6. [t \in Turns |-> ContractResponse(final[t])]'
        = [[t \in Turns |-> ContractResponse(final[t])] EXCEPT ![run] = ContractResponse(r)]
  <2>1. ContractResponse(final[run])' = ContractResponse(r)
    BY <1>4
  <2>2. \A t \in Turns \ {run} : ContractResponse(final[t])' = ContractResponse(final[t])
    BY <1>4
  <2> QED
    BY <1>1, <2>1, <2>2
<1>7. [t \in Turns |-> TurnStatus(t)]' = [t \in Turns |-> TurnStatus(t)]
  BY <1>2
<1>8. UNCHANGED {pinned.history[i].run : i \in 1..Len(pinned.history)}
  OBVIOUS
<1>9. [t \in Turns |-> ContractResponse(final[t])][run] = "none"
  BY <1>1, <1>5
<1>10. [t \in Turns |-> TurnStatus(t)][run] = "open"
  BY <1>1, <1>3
<1> QED
  BY <1>5, <1>6, <1>7, <1>8, <1>9, <1>10 DEF Contract!Respond

LEMMA StepRefines == IInv /\ [Next]_vars => [Contract!Next]_(Contract!vars)
<1> SUFFICES ASSUME IInv, [Next]_vars
             PROVE  Contract!Next \/ UNCHANGED Contract!vars
  OBVIOUS
<1>1. /\ run \in 0..MaxTurns
      /\ pc \in Nodes \cup {"idle", "end", "pinned"}
      /\ pc # "idle" => run \in Turns /\ outcome[run] = "none"
      /\ \A t \in Turns : t > run => final[t] = "none" /\ outcome[t] = "none"
      /\ pc \in {"end", "pinned"} => final[run] # "none"
  BY DEF IInv, TypeOK, Undecided, Turns
<1>2. ASSUME NEW r \in Responses, pc \in Deciding, pc' # "idle", UNCHANGED <<run, outcome, pinned>>,
             final' = [final EXCEPT ![run] = r]
      PROVE  Contract!Next
  <2>1. run \in Turns
    BY <1>1, <1>2 DEF Deciding, Nodes
  <2> QED
    BY <1>2, <2>1, RespondStep DEF Contract!Next
<1>3. CASE LoadMemory \/ ClassifyTask \/ ResolveSources \/ ResolveQuery \/ Plan \/ LoadSkill
  BY <1>3, SilentStep
     DEF LoadMemory, ClassifyTask, ResolveSources, ResolveQuery, Plan, LoadSkill, Node
<1>4. CASE CallTools \/ AssessEvidence \/ Synthesize \/ Repair \/ PersistResult
  BY <1>4, SilentStep DEF CallTools, AssessEvidence, Synthesize, Repair, PersistResult, Node
<1>5. CASE PrepareArtifact \/ GenerateArtifactCode \/ RepairArtifact \/ ExecuteArtifact
  BY <1>5, SilentStep
     DEF PrepareArtifact, GenerateArtifactCode, RepairArtifact, WriteCode, ExecuteArtifact, Node,
         answer, evidence
<1>6. CASE ValidateCitations
  <2>1. Response(draft) \in Responses
    BY DEF Response, Responses
  <2>2. CASE UNCHANGED final
    BY <1>6, <2>2, SilentStep DEF ValidateCitations, Node
  <2>3. CASE final' = [final EXCEPT ![run] = Response(draft)]
    BY <1>2, <1>6, <2>1, <2>3 DEF ValidateCitations, Node, Deciding, Nodes
  <2> QED
    BY <1>6, <2>2, <2>3 DEF ValidateCitations
<1>7. CASE InspectArtifact
  <2>1. CASE UNCHANGED final
    BY <1>7, <2>1, SilentStep DEF InspectArtifact, Node
  <2>2. CASE final' = [final EXCEPT ![run] = "artifact"]
    BY <1>2, <1>7, <2>2 DEF InspectArtifact, Node, Deciding, Nodes, Responses
  <2> QED
    BY <1>7, <2>1, <2>2 DEF InspectArtifact, Inspect
<1>8. CASE GracefulResponse
  BY <1>2, <1>8 DEF GracefulResponse, Node, Deciding, Nodes, Responses
<1>9. CASE BeginTurn
  <2>1. PICK n \in Turns : n = run + 1
    BY <1>1, <1>9 DEF BeginTurn, Turns
  <2>2. /\ UNCHANGED <<final, pinned, outcome>> /\ pc = "idle" /\ pc' = "load_memory"
        /\ run' = run + 1
    BY <1>9 DEF BeginTurn
  <2>3. /\ TurnStatus(n) = "new" /\ TurnStatus(n)' = "open"
        /\ \A t \in Turns : TurnStatus(t) # "open"
        /\ \A t \in Turns \ {n} : TurnStatus(t)' = TurnStatus(t)
    <3>1. \A t \in Turns : outcome[t] \in {"none", "delivered", "failed"}
      BY DEF IInv, TypeOK
    <3>2. n > run /\ run' = n /\ ~(n > n)
      BY <1>1, <2>1, <2>2
    <3>3. TurnStatus(n) = "new" /\ TurnStatus(n)' = "open"
      BY <2>2, <3>2 DEF TurnStatus
    <3>4. \A t \in Turns : TurnStatus(t) # "open"
      BY <2>2, <3>1 DEF TurnStatus
    <3>5. ASSUME NEW t \in Turns \ {n} PROVE TurnStatus(t)' = TurnStatus(t)
      <4>1. (t > n) = (t > run)
        BY <1>1, <2>1 DEF Turns
      <4> QED
        BY <1>1, <2>1, <2>2, <4>1 DEF TurnStatus, Turns
    <3> QED
      BY <3>3, <3>4, <3>5
  <2>4. [t \in Turns |-> TurnStatus(t)]'
          = [[t \in Turns |-> TurnStatus(t)] EXCEPT ![n] = "open"]
    BY <2>1, <2>3
  <2>5. [t \in Turns |-> ContractResponse(final[t])]' = [t \in Turns |-> ContractResponse(final[t])]
    BY <2>2
  <2>6. UNCHANGED {pinned.history[i].run : i \in 1..Len(pinned.history)}
    BY <2>2
  <2>7. Contract!Ask(n)
    BY <2>1, <2>3, <2>4, <2>5, <2>6 DEF Contract!Ask
  <2> QED
    BY <2>1, <2>7 DEF Contract!Next
<1>10. CASE PinCheckpoint
  <2>1. /\ pc = "end" /\ pc' = "pinned" /\ run \in Turns /\ final[run] # "none"
        /\ UNCHANGED <<run, final, outcome>> /\ pinned'.history = history
    BY <1>1, <1>10 DEF PinCheckpoint
  <2>2. TurnStatus(run) = "open" /\ \A t \in Turns : TurnStatus(t)' = TurnStatus(t)
    BY <2>1 DEF TurnStatus, Turns
  <2>3. ContractResponse(final[run]) # "none"
    BY <2>1 DEF ContractResponse
  <2>4. ASSUME NEW i \in 1..Len(history)
        PROVE  /\ history[i].run \in Turns
               /\ ContractResponse(final[history[i].run]) = "grounded"
    <3>1. history[i] \in Entries /\ final[history[i].run] \in Grounded
      BY DEF IInv, TypeOK, ValidMemory
    <3> QED
      BY <3>1 DEF Entries, ContractResponse
  <2>5. {pinned.history[i].run : i \in 1..Len(pinned.history)}'
          = {history[i].run : i \in 1..Len(history)}
    BY <2>1
  <2>6. /\ [t \in Turns |-> TurnStatus(t)]' = [t \in Turns |-> TurnStatus(t)]
        /\ [t \in Turns |-> ContractResponse(final[t])]'
             = [t \in Turns |-> ContractResponse(final[t])]
    BY <2>1, <2>2
  <2>7. {history[i].run : i \in 1..Len(history)}
          \in SUBSET {u \in Turns : [t \in Turns |-> ContractResponse(final[t])][u] = "grounded"}
    BY <2>4
  <2>8. PICK u \in Turns : u = run
    BY <2>1
  <2>9. /\ [t \in Turns |-> TurnStatus(t)][u] = "open"
        /\ [t \in Turns |-> ContractResponse(final[t])][u] # "none"
    BY <2>1, <2>2, <2>3, <2>8
  <2>10. Contract!Remember(u)
    BY <2>5, <2>6, <2>7, <2>9 DEF Contract!Remember
  <2> QED
    BY <2>10 DEF Contract!Next
<1>11. CASE Deliver
  <2>1. /\ pc = "pinned" /\ pc' = "idle" /\ run \in Turns /\ final[run] # "none"
        /\ UNCHANGED <<run, final, pinned>>
        /\ outcome' = [outcome EXCEPT ![run] = "delivered"]
    BY <1>1, <1>11 DEF Deliver, memory
  <2>2. /\ TurnStatus(run) = "open" /\ TurnStatus(run)' = "delivered"
        /\ \A t \in Turns \ {run} : TurnStatus(t)' = TurnStatus(t)
    BY <2>1 DEF TurnStatus, Turns, IInv, TypeOK
  <2>3. ContractResponse(final[run]) # "none"
    BY <2>1 DEF ContractResponse
  <2>4. Contract!Deliver(run)
    BY <2>1, <2>2, <2>3 DEF Contract!Deliver
  <2> QED
    BY <2>1, <2>4 DEF Contract!Next
<1>12. CASE Fail
  <2>1. /\ pc # "idle" /\ pc' = "idle" /\ run \in Turns
        /\ UNCHANGED <<run, final, pinned>>
        /\ outcome' = [outcome EXCEPT ![run] = "failed"]
    BY <1>1, <1>12 DEF Fail, memory
  <2>2. /\ TurnStatus(run) = "open" /\ TurnStatus(run)' = "failed"
        /\ \A t \in Turns \ {run} : TurnStatus(t)' = TurnStatus(t)
    BY <2>1 DEF TurnStatus, Turns, IInv, TypeOK
  <2>3. Contract!Fail(run)
    BY <2>1, <2>2 DEF Contract!Fail
  <2> QED
    BY <2>1, <2>3 DEF Contract!Next
<1>13. CASE UNCHANGED vars
  BY <1>13, SilentStep DEF vars, control, memory
<1> QED
  BY <1>3, <1>4, <1>5, <1>6, <1>7, <1>8, <1>9, <1>10, <1>11, <1>12, <1>13 DEF Next, NodeStep

\* The turns of a session implement TurnContract.
THEOREM RefinesContract == Spec => ImplementsTurnContract
BY InitRefines, StepRefines, AlwaysIInv, PTL DEF Spec, ImplementsTurnContract, Contract!Spec
=============================================================================
