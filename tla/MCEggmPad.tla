----------------------------- MODULE MCEggmPad -----------------------------
(***************************************************************************)
(* Instances of EggmPad for TLC: two clients and two values; a choice of   *)
(* combinations of disturbances.                                           *)
(***************************************************************************)
EXTENDS EggmPad

Msg(type, data) == [type |-> type, data |-> data]
MCSent == {Msg("GET_SYSTEM", 0), Msg("GET_MUSIC_LIST", 0), Msg("SET_PW", 1), Msg("SET_CUR_MUSIC", 1),
           Msg("PLAY_BEFORE", 0), Msg("PLAY_NEXT", 0), Msg("SCH_START", 1), Msg("SCH_END", 1),
           Msg("SET_MUSIC_LIST", 1), Msg("unknown", 0)}
MCGarbage == {Msg("SET_CUR_MUSIC", 1)}

MCBudget(requests, cuts, quits, stores, songs, restarts) ==
  [k \in Disturbances |-> CASE k = "request" -> requests
                            [] k = "cut"     -> cuts
                            [] k = "quit"    -> quits
                            [] k = "store"   -> stores
                            [] k = "song"    -> songs
                            [] k = "restart" -> restarts]

ServiceBudgets == {MCBudget(2, 1, 1, 0, 1, 0), MCBudget(2, 0, 0, 1, 0, 1)}

=============================================================================
