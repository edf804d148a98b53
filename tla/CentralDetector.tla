--------------------------- MODULE CentralDetector ---------------------------
(***************************************************************************)
(* Aggregation and detection on top of the ingestion service:              *)
(* aggregate_window reads the accepted samples and the health of nodes and *)
(* agents, and DetectorService.decide scores the last window or abstains.  *)
(* Messages, ticks, restarts of the service, aggregations and decisions    *)
(* come in any order, so a decision may be about an old window.            *)
(***************************************************************************)
EXTENDS CentralIngestion

CONSTANTS
  Windows,           \* the windows <<start, end>> callers ask for
  None,              \* no window or no decision yet
  NoScore,           \* the score of a decision that did not call the scorer
  MaxScore,          \* scores are multiples of 1 / MaxScore in [0, 1]
  Threshold,
  AbstentionMargin

ASSUME DetectorAssumption ==
  /\ Windows \subseteq Int \X Int
  /\ MaxScore \in Nat
  /\ NoScore \notin 0 .. MaxScore
  /\ Threshold \in 0 .. MaxScore
  /\ AbstentionMargin \in Nat

VARIABLES
  window,     \* the last result of aggregate_window, or None
  decision,   \* the last DetectorDecision, or None
  received    \* history: every message ever accepted, by any incarnation

detectorVars == <<serviceVars, window, decision, received>>

Scores == 0 .. MaxScore

Window ==
  [start   : Int,
   end     : Int,
   at      : Nat,               \* the server time of the aggregation
   nodes   : SUBSET Nodes,      \* missing_or_stale_nodes
   agents  : SUBSET Agents,     \* missing_or_stale_agents
   batches : SUBSET MessageIds] \* evidence_batch_ids

(* Mutant: the loss of a rank is not looked at. *)
CompleteNodes(w) == w.nodes = {}

Complete(w) == w.nodes = {} /\ w.agents = {}

Decision == [window : Window, score : Scores \cup {NoScore}, abstained : BOOLEAN]

DetectorInit ==
  /\ ServiceInit
  /\ window = None
  /\ decision = None
  /\ received = {}

-----------------------------------------------------------------------------

(* The status of node_health and agent_health for a last-seen time. *)
HealthStatus(seen) ==
  IF seen = NeverSeen THEN "missing"
  ELSE IF clock - seen > StaleAfter THEN "stale"
  ELSE "healthy"

(* The batches of a samples list with a sample observed in [start, end). *)
BatchesIn(list, start, end) ==
  {list[i].batch : i \in {j \in DOMAIN list :
     \E t \in list[j].observed : start <= t /\ t < end}}

MissingNodes(start, end) ==
  {n \in Nodes :
     \/ BatchesIn(accepted_samples_by_node[n], start, end) = {}
     \/ HealthStatus(last_seen_by_node[n]) # "healthy"}

MissingAgents(start, end) ==
  {a \in Agents :
     \/ BatchesIn(accepted_samples_by_agent[a], start, end) = {}
     \/ HealthStatus(last_seen_by_agent[a]) # "healthy"}

Evidence(start, end) ==
  UNION ({BatchesIn(accepted_samples_by_node[n], start, end) : n \in Nodes} \cup
         {BatchesIn(accepted_samples_by_agent[a], start, end) : a \in Agents})

(* Mutant: the missing agents are reported as the missing nodes. *)
AggregateWindowSwapped(start, end) ==
  /\ start < end
  /\ window' = [start |-> start, end |-> end, at |-> clock,
                nodes |-> MissingAgents(start, end),
                agents |-> MissingAgents(start, end),
                batches |-> Evidence(start, end)]
  /\ UNCHANGED <<serviceVars, decision, received>>

(* aggregate_window; it raises, changing nothing, unless start < end. *)
AggregateWindow(start, end) ==
  /\ start < end
  /\ window' = [start |-> start, end |-> end, at |-> clock,
                nodes |-> MissingNodes(start, end),
                agents |-> MissingAgents(start, end),
                batches |-> Evidence(start, end)]
  /\ UNCHANGED <<serviceVars, decision, received>>

(* decide: an incomplete window is abstained from without a score. *)
Decide(score) ==
  /\ window # None
  /\ decision' =
       IF Complete(window)
       THEN [window |-> window, score |-> score,
             abstained |-> Distance(score, Threshold) <= AbstentionMargin]
       ELSE [window |-> window, score |-> NoScore, abstained |-> TRUE]
  /\ UNCHANGED <<serviceVars, window, received>>

(* ingest, with the history of what it accepted. *)
Receive(m) ==
  /\ Ingest(m)
  /\ received' = IF ReasonCode(m) = "accepted" THEN received \cup {m} ELSE received
  /\ UNCHANGED <<window, decision>>

DetectorNext ==
  \/ \E m \in Messages : Receive(m)
  \/ \E w \in Windows : AggregateWindow(w[1], w[2])
  \/ \E score \in Scores : Decide(score)
  \/ (ServiceRestart \/ Tick) /\ UNCHANGED <<window, decision, received>>

DetectorSpec == DetectorInit /\ [][DetectorNext]_detectorVars

-----------------------------------------------------------------------------

DetectorTypeOK ==
  /\ TypeOK
  /\ window \in Window \cup {None}
  /\ decision \in Decision \cup {None}
  /\ received \subseteq Message

(* A node is reported missing or stale only if every agent registered for  *)
(* it is: agents report the loss of a rank that the node view hides, never *)
(* the reverse, so the two lists of a window cannot contradict each other. *)
NodeLossIsLossOfAllItsAgents ==
  window # None => \A n \in window.nodes : AgentsOf(n) \subseteq window.agents

(* A decision that called the scorer is about a window to which every      *)
(* registered agent contributed: a sample in the window, named in the      *)
(* evidence, and a message created around the time of the aggregation.     *)
(* Losing one of two ranks of a node is enough to prevent it.              *)
ScoredDecisionsCoverEveryAgent ==
  decision # None /\ decision.score # NoScore =>
    LET w == decision.window
    IN  \A a \in Agents :
          /\ \E m \in received :
               /\ m.agent = a
               /\ m.id \in w.batches
               /\ \E t \in m.observed : w.start <= t /\ t < w.end
          /\ \E m \in received :
               /\ m.agent = a
               /\ m.created >= w.at - StaleAfter - MaxClockSkew
               /\ m.created <= w.at + MaxClockSkew

(* The evidence of a window never names a batch that is later, or earlier, *)
(* than the clocks can explain: a window that lies in the future by more   *)
(* than the allowed skew has no evidence and is never scored.              *)
NoEvidenceFromTheFuture ==
  window # None /\ window.batches # {} => window.start <= window.at + MaxClockSkew

=============================================================================
