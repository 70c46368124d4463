-------------------------- MODULE MCGatewaySession --------------------------
(* Instances of the gateway connection for TLC.  The invariants treat all    *)
(* clients alike.                                                            *)
EXTENDS GatewaySession, TLC

(* The third event of a session has the data of the second.                  *)
EqualData == [e \in Events |-> IF e.seq = 3 THEN Event(e.sid, 2) ELSE e]

AnyClient == Permutations(Clients)

=============================================================================
