--------------------------- MODULE MCLocalSystem ---------------------------
(* Instances of LocalSystem: two queues of one process.                    *)
EXTENDS LocalSystem

MCQueues     == {1, 2}
MCPid        == [q \in MCQueues |-> CHOOSE p \in Procs : TRUE]
MCDeviceOf   == [q \in MCQueues |-> CHOOSE d \in Devices : TRUE]

MCPriorityMin == -255
MCPriorityMax == 255
NoExecute     == -256
Unread        == [p \in Procs |-> {NoEntry}]

MCMortal     == {<<"HPF", 1>>, <<"UP", 1>>}
MCSwitches   == {<<"KEDF", "HHPF">>}
NoSwitch     == {}

HintOf(kind, q, value) == [kind |-> kind, q |-> q, value |-> value]

(* What an application tells each policy.  HPF gets priorities out of      *)
(* range on both sides; LAX gets queues that become critical after two     *)
(* ticks, one of which is not to be executed before.                       *)
MCHints(type, q) ==
  CASE type = "HPF" -> {HintOf("priority", q, v) :
                          v \in IF q = 1 THEN {1} ELSE {NoExecute, MCPriorityMax + 1}}
    [] type = "HHPF" -> {HintOf("priority", q, v) : v \in {q % 2, q}}
    [] type = "LAX" -> {HintOf("laxity", q, [lax |-> 2, lax_prio |-> v, crit_prio |-> q]) :
                          v \in IF q = 1 THEN {0} ELSE {NoExecute}}
    [] type = "KEDF" -> {HintOf("deadline", q, v) : v \in {3 - q}}
    [] type = "UP" -> {HintOf("utilization", q, 50)}
=============================================================================
