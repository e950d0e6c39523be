---------------------------- MODULE MCChatPresence ----------------------------
(***************************************************************************)
(* ChatPresence on a small instance: three sockets of one user, one of a   *)
(* second user and one without a token.                                    *)
(***************************************************************************)
EXTENDS ChatPresence, TLC

CONSTANTS u1, u2, s1, s2, s3, s4, s5

Tokens == (s1 :> u1) @@ (s2 :> u1) @@ (s3 :> u1) @@ (s4 :> u2) @@ (s5 :> NULL)
SocketSymmetry == Permutations({s1, s2, s3})
=============================================================================
