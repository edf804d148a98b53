---------------------------- MODULE RankProcesses ----------------------------
(***************************************************************************)
(* The two ranks of a run as the launcher and the evidence files see them: *)
(* processes that work, leave through main's last barrier, report their    *)
(* completion, and fail or are killed on the way.  RankWorkers, with every *)
(* mode and collective, implements this; RunLifecycle is built on it.      *)
(***************************************************************************)
EXTENDS Integers

VARIABLES
  joint,   \* whether the collectives of the run cannot get out of step
  rank     \* where each rank is

Ranks == {0, 1}
Other(k) == 1 - k

RankStates == {"none", "working", "leaving", "teardown", "exited", "failed", "killed"}

Alive(k)  == rank[k] \in {"working", "leaving", "teardown"}
Broken(k) == rank[k] \in {"failed", "killed"}

RanksBegin ==
  /\ joint \in BOOLEAN
  /\ rank = [k \in Ranks |-> "working"]

(* The ranks pass the barrier before completion together.  One that has    *)
(* got out of step may pass alone: NCCL takes the other's collective for   *)
(* the barrier.                                                            *)
PassFinalBarrier ==
  /\ \A k \in Ranks : rank[k] = "working"
  /\ \E passed \in (SUBSET Ranks) \ {{}} :
       /\ joint => passed = Ranks
       /\ rank' = [k \in Ranks |-> IF k \in passed THEN "leaving" ELSE "working"]
  /\ UNCHANGED joint

(* The event "completion". *)
Completes(k) ==
  /\ rank[k] = "leaving"
  /\ rank' = [rank EXCEPT ![k] = "teardown"]
  /\ UNCHANGED joint

(* An exception, or a crash while the process group is destroyed. *)
Fails(k) ==
  /\ Alive(k)
  /\ rank' = [rank EXCEPT ![k] = "failed"]
  /\ UNCHANGED joint

IsKilled(k) ==
  /\ Alive(k)
  /\ rank' = [rank EXCEPT ![k] = "killed"]
  /\ UNCHANGED joint

(* torchrun kills the other rank of a broken one. *)
RanksStep ==
  \/ PassFinalBarrier
  \/ \E k \in Ranks : Completes(k) \/ Fails(k) \/ (Broken(Other(k)) /\ IsKilled(k))

RanksSpec == RanksBegin /\ [][RanksStep]_<<joint, rank>>

=============================================================================
