------------------------------ MODULE MCEggmPw ------------------------------
(***************************************************************************)
(* Instances of EggmPw for TLC: how many commands, button presses and line *)
(* faults each run lets happen.                                            *)
(***************************************************************************)
EXTENDS EggmPw

MCBudget(commands, presses, faults) ==
  [k \in Disturbances |-> CASE k = "command" -> commands
                            [] k = "press"   -> presses
                            [] k = "fault"   -> faults]

SafetyBudget  == MCBudget(2, 2, 1)
LiveBudget    == MCBudget(2, 1, 1)
CommandBudget == MCBudget(2, 0, 0)

(***************************************************************************)
(* The frames in which the reports of EggmPw travel: six data bytes, the   *)
(* first three of them states (button, command, power), of which the       *)
(* command may be 255.  EggmPw takes a report for what was sent.  For such *)
(* reports five values lead to mistakes when a byte turns into one, and no *)
(* other: with one of them in a state's place the sum is 0, as is the      *)
(* checksum of a report that has not arrived to its end.                   *)
(***************************************************************************)
StateData ==
  {<<physical, auto, real, 0, 0, 0>> : physical \in {0, 1}, auto \in {0, 1, 255}, real \in {0, 1}}
Bytes(damaged) == INSTANCE EggmReport WITH DATA <- 6, Data <- StateData, Damaged <- damaged

ASSUME FrameAssumption ==
  /\ Bytes(0..255)!DataAssumption
  /\ {v \in 0..255 : \E d \in StateData : Bytes({v})!Mistakes[d] # {}} = 161..165

=============================================================================
