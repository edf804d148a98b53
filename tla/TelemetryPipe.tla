---------------------------- MODULE TelemetryPipe ----------------------------
(***************************************************************************)
(* What the agents and the central service together promise about          *)
(* telemetry batches, without messages, sequences, retries or clocks.      *)
(* Batches are produced in an order.  The service stores them in that      *)
(* order, without repetition and without skipping one, and an agent        *)
(* forgets a batch only after the service stored it.  The service may lose *)
(* everything it stored; it then goes on with any batch that every agent   *)
(* could still send.  An agent may restart: what it had not got            *)
(* acknowledged is lost, though the service may still receive it, and its  *)
(* next batch begins a chain of its own.                                   *)
(***************************************************************************)
EXTENDS Naturals, SequencesExt

CONSTANTS Agents, MessageIds

VARIABLES
  produced,      \* the batches of each agent, in the order they were made
  stored,        \* the batches the service holds of each agent
  received,      \* the batches the service has held at some time
  acknowledged,  \* the batches each agent has forgotten
  lost,          \* the batches that were lost with a restart of their agent
  begins         \* the places in "produced" where a chain begins

pipeVars == <<produced, stored, received, acknowledged, lost, begins>>

Init ==
  /\ produced     = [a \in Agents |-> <<>>]
  /\ stored       = [a \in Agents |-> <<>>]
  /\ received     = {}
  /\ acknowledged = [a \in Agents |-> <<>>]
  /\ lost         = [a \in Agents |-> {}]
  /\ begins       = [a \in Agents |-> {1}]

(* The places of the batches an agent still keeps. *)
Kept(a) ==
  {i \in DOMAIN produced[a] : produced[a][i] \notin ToSet(acknowledged[a]) \cup lost[a]}

Produce(a) ==
  /\ \E b \in MessageIds \ ToSet(produced[a]) :
       produced' = [produced EXCEPT ![a] = Append(@, b)]
  /\ UNCHANGED <<stored, received, acknowledged, lost, begins>>

Store(a) ==
  \E i \in DOMAIN produced[a] :
    /\ \A j \in Kept(a) : i <= j
    /\ stored[a] # <<>> => i \notin begins[a] /\ produced[a][i - 1] = Last(stored[a])
    /\ stored' = [stored EXCEPT ![a] = Append(@, produced[a][i])]
    /\ received' = received \cup {produced[a][i]}
    /\ UNCHANGED <<produced, acknowledged, lost, begins>>

Acknowledge(a) ==
  \E i \in Kept(a) :
    /\ \A j \in Kept(a) : i <= j
    /\ produced[a][i] \in received
    /\ acknowledged' = [acknowledged EXCEPT ![a] = Append(@, produced[a][i])]
    /\ UNCHANGED <<produced, stored, received, lost, begins>>

Restart(a) ==
  /\ lost' = [lost EXCEPT ![a] = @ \cup {produced[a][i] : i \in Kept(a)}]
  /\ begins' = [begins EXCEPT ![a] = @ \cup {Len(produced[a]) + 1}]
  /\ UNCHANGED <<produced, stored, received, acknowledged>>

Forget ==
  /\ stored' = [a \in Agents |-> <<>>]
  /\ UNCHANGED <<produced, received, acknowledged, lost, begins>>

Next ==
  \/ \E a \in Agents : Produce(a) \/ Store(a) \/ Acknowledge(a) \/ Restart(a)
  \/ Forget

Spec == Init /\ [][Next]_pipeVars

=============================================================================
