------------------------------ MODULE MCServer ------------------------------
(* An instance of Server: two processes that share a device.               *)
EXTENDS Server

CONSTANTS editor, player

MCQueues     == {1, 2}
MCProcs      == {editor, player}
MCPid        == [q \in MCQueues |-> IF q = 1 THEN editor ELSE player]
MCDeviceOf   == [q \in MCQueues |-> CHOOSE d \in Devices : TRUE]
MCMayEnd     == {<<"PUP", editor, "crashed">>, <<"HPF", editor, "exited">>}
MCWindows    == [i \in 1 .. 2 |-> [kind |-> "window", display |-> CHOOSE d \in Displays : TRUE,
                                  pid |-> IF i = 1 THEN player ELSE editor]]

(* Real-time and normal priorities, of which the editor has the weaker     *)
(* real-time and the stronger normal one; nothing may be read of it.       *)
MCOsPriorities == [p \in MCProcs |->
                     IF p = editor THEN {99, 120, NoEntry} ELSE {50, 130}]
MCPriorityMin  == -255
MCPriorityMax  == 255
=============================================================================
