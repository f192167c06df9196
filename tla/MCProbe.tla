------------------------------- MODULE MCProbe -------------------------------
(* Instance of Probe for TLC: nodes that pass every gate and nodes that stop  *)
(* at each of them.                                                           *)
EXTENDS Probe

MC_Good == [host |-> "name", pin |-> "public", protocol |-> "vless",
            security |-> "TLS", transport |-> "tcp", secret |-> TRUE]

MC_Nodes ==
    {MC_Good,
     [MC_Good EXCEPT !.secret = FALSE],
     [MC_Good EXCEPT !.protocol = "trojan", !.host = "public", !.pin = None,
                     !.security = "UNKNOWN"],
     [MC_Good EXCEPT !.pin = None],
     [MC_Good EXCEPT !.pin = "private"],
     [MC_Good EXCEPT !.pin = "junk"],
     [MC_Good EXCEPT !.security = "REALITY"],
     [MC_Good EXCEPT !.transport = "ws"]}

MC_Options ==
    {[credentials |-> TRUE, direct |-> FALSE, odd |-> FALSE],
     [credentials |-> FALSE, direct |-> TRUE, odd |-> FALSE],
     [credentials |-> TRUE, direct |-> FALSE, odd |-> TRUE]}

MC_Plain == {[credentials |-> TRUE, direct |-> FALSE, odd |-> FALSE]}
==============================================================================
