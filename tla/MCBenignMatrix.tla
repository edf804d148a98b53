--------------------------- MODULE MCBenignMatrix ---------------------------
(* Two sessions on one tree, two slots of one family, two payloads.  The   *)
(* sweeps are a clean one and one for each way not to be clean.            *)
EXTENDS BenignMatrix, TLC

CONSTANTS c1, c2

(* The runs of a payload are the ones with collectives. *)
Clean(payload, signal) ==
  [pcie_supported |-> TRUE, participation_valid |-> TRUE, exit_status |-> "completed",
   long |-> TRUE, timely |-> TRUE, quiet |-> payload = Idle,
   signal |-> signal]

(* The signals of the idle runs and of the two payloads. *)
Measured(idle, first, second) ==
  [o \in Observations |-> Clean(o[1], (CASE o[1] = Idle -> idle
                                         [] o[1] = 1    -> first
                                         [] OTHER       -> second)[o[2]])]

Good == Measured(<<0, 1>>, <<4, 4>>, <<6, 7>>)

Sessions == Permutations(Contexts)

MCFamilyOf == [s \in Slots |-> "family"]

MCSweeps ==
  {Good,
   Measured(<<0, 1>>, <<4, 5>>, <<5, 5>>),    \* monotone, but hardly
   Measured(<<0, 1>>, <<6, 7>>, <<4, 4>>),    \* the response falls
   Measured(<<0, 1>>, <<5, 5>>, <<5, 5>>),    \* no response
   Measured(<<0, 1>>, <<1, 4>>, <<6, 7>>),    \* the first payload is not captured
   Measured(<<0, 9>>, <<4, 4>>, <<6, 7>>),    \* idle is noise
   [Good EXCEPT ![2, 2].long = FALSE],
   [Good EXCEPT ![2, 2].exit_status = "failed"],
   [Good EXCEPT ![1, 1].participation_valid = FALSE, ![1, 1].exit_status = "failed"],
   [Good EXCEPT ![Idle, 1].timely = FALSE],
   [Good EXCEPT ![Idle, 2].pcie_supported = FALSE, ![Idle, 2].signal = -1],
   [Good EXCEPT ![1, 2].signal = -1]}
=============================================================================
