--------------------------- MODULE MCBrokerGateway ---------------------------
(* Instances of BrokerGateway for TLC.                                     *)
EXTENDS BrokerGateway
=============================================================================
