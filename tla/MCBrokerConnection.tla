------------------------ MODULE MCBrokerConnection ------------------------
(* The instances of BrokerConnection that TLC checks.                      *)
EXTENDS BrokerConnection

CONSTANT MaxConns

MCConns == 1 .. MaxConns
=============================================================================
