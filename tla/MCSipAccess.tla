---------------------------- MODULE MCSipAccess ----------------------------
(* Bounds for the model-checking instance of SipAccess: one user agent has *)
(* to send three requests to use the nonce of its challenge twice.         *)
EXTENDS SipAccess

CONSTANTS u1, u2

MCMaxSeq == [c \in Clients |-> IF c = u1 THEN 3 ELSE 2]
=============================================================================
