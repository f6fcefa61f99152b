---------------------------- MODULE TurnContract ----------------------------
(***************************************************************************)
(* What a session promises about its turns, with nothing of how a turn is  *)
(* computed.  Turns run one after the other; a turn gets at most one       *)
(* response and is then delivered or reported as failed; and whatever is   *)
(* remembered for later turns comes from grounded responses only.          *)
(***************************************************************************)
EXTENDS Naturals, FiniteSets

CONSTANT Turns

VARIABLES
    status,    \* of each turn: new, open, delivered or failed
    response,  \* what the turn decided to say
    memory     \* the turns whose claims later turns may refer to

vars == <<status, response, memory>>

\* "unverified" responses exist, but nobody may build on them.
Responses == {"grounded", "unverified", "refusal", "question"}

Init ==
    /\ status = [t \in Turns |-> "new"]
    /\ response = [t \in Turns |-> "none"]
    /\ memory = {}

Ask(t) ==
    /\ status[t] = "new"
    /\ \A u \in Turns : status[u] # "open"
    /\ status' = [status EXCEPT ![t] = "open"]
    /\ UNCHANGED <<response, memory>>

Respond(t) ==
    /\ status[t] = "open"
    /\ response[t] = "none"
    /\ \E r \in Responses : response' = [response EXCEPT ![t] = r]
    /\ UNCHANGED <<status, memory>>

\* Only a turn that has its response touches the memory, and the memory holds
\* nothing but grounded responses; old ones may be dropped.
Remember(t) ==
    /\ status[t] = "open"
    /\ response[t] # "none"
    /\ memory' \in SUBSET {u \in Turns : response[u] = "grounded"}
    /\ UNCHANGED <<status, response>>

Deliver(t) ==
    /\ status[t] = "open"
    /\ response[t] # "none"
    /\ status' = [status EXCEPT ![t] = "delivered"]
    /\ UNCHANGED <<response, memory>>

Fail(t) ==
    /\ status[t] = "open"
    /\ status' = [status EXCEPT ![t] = "failed"]
    /\ UNCHANGED <<response, memory>>

Next == \E t \in Turns : Ask(t) \/ Respond(t) \/ Remember(t) \/ Deliver(t) \/ Fail(t)

Spec == Init /\ [][Next]_vars
=============================================================================
