------------------------------ MODULE MCPlatform ------------------------------
(***************************************************************************)
(* Platform on a small instance.                                           *)
(***************************************************************************)
EXTENDS Platform, TLC

CONSTANTS u1, u2, u3

\* Enough literals for each seed to be killed between two of them, and as many
\* providers as it takes for two runs to meet the users in different orders.
FewRows ==
  [p \in Seeds |->
     CASE p = "providers" -> 3 [] p \in {"admin", "reviews"} -> 1 [] OTHER -> 2]

\* The details of two users, which findOne's one custom key keeps; ten minutes
\* are two ticks.
Details == {"first", "second"}
DetailsKey == [u \in Details |-> "custom:user-details"]
DetailsTtl == [u \in Details |-> 2]
=============================================================================
