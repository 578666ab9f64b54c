---------------------------- MODULE MCEggmSerial ----------------------------
(***************************************************************************)
(* An instance of EggmSerial for TLC: reports of two data bytes, states of *)
(* the board and one whose checksum is a CR; a byte may turn into a key, a *)
(* CR, a state, or the value with which an empty checksum passes.          *)
(***************************************************************************)
EXTENDS EggmSerial

MCData == {<<0, 0>>, <<1, 1>>, <<1, 176>>}
MCDamaged == {KEY1, KEY2, CR, 1, 164}

MCBudget(sends, faults) == [k \in {"send", "fault"} |-> IF k = "send" THEN sends ELSE faults]
SerialBudgets == {MCBudget(3, 2)}

=============================================================================
