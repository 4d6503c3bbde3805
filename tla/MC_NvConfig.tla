---------------------------- MODULE MC_NvConfig ----------------------------
(* Writes that cross field boundaries, write half a limit, or zero a field    *)
(* the load checks; an empty sector and two earlier layouts, one without a    *)
(* name (an erased sector is what a loss of power leaves).                    *)
EXTENDS NvConfig

Write(space, addr, count, value) ==
    [space |-> space, addr |-> addr, count |-> count, value |-> value]

EdgeWrites == {
    Write("config", RAILCOM, 2, 0),         \* RailCom off and the limit's high byte
    Write("config", MCP_SCK, 6, 0),         \* zeroes MCP2515 fields and the version
    Write("acdi", 1, 2, 65) }

TwoWrites == {Write("config", MAIN_LIMIT, 2, 3), Write("config", MAIN_LIMIT, 2, 4)}

Old(sck, pin, version) ==
    [Defaults EXCEPT ![NAME] = 66, ![MCP_SCK] = sck, ![FAULT_MAIN] = pin, ![VERSION] = version]
Images == {Zeroes, [Old(0, 4, 0) EXCEPT ![NAME] = 0], Old(9, 12, 0)}
Saved == {Defaults, Old(14, 12, 1)}

============================================================================
