-------------------------- MODULE MCConnectionPool --------------------------
(***************************************************************************)
(* Small instances of ConnectionPool for TLC.                              *)
(***************************************************************************)
EXTENDS ConnectionPool, TLC

CONSTANTS f1, f2, f3, k1, k2, s1

\* Two files of one site, and, with three, one of another user of the server.
TwoFilesKey == f1 :> k1 @@ f2 :> k1
ThreeFilesKey == f1 :> k1 @@ f2 :> k1 @@ f3 :> k2

OneHost == k1 :> s1 @@ k2 :> s1

LimitOne == k1 :> 1 @@ k2 :> 1
LimitTwo == k1 :> 2 @@ k2 :> 0
=============================================================================
