---------------------------- MODULE MCPowSpend ----------------------------
(* A small instance of PowSpend for TLC. *)
EXTENDS PowSpend

CONSTANTS put1, put2, append1

\* Two writes of replicas to both relays, and one of an announcement to the first relay.
MCSlotsOf == [w \in {put1, put2, append1} |->
    IF w = append1 THEN {"append at relay1"} ELSE {"put at relay1", "put at relay2"}]
=============================================================================
