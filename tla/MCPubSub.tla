----------------------------- MODULE MCPubSub -----------------------------
(* Instance of PubSub for TLC. *)
EXTENDS PubSub

CONSTANTS r1, r2, l1

MCReceiver == {r1, r2}
MCLocalReceiver == {l1}
=============================================================================
