----------------------------- MODULE MCTenedor ------------------------------
(***************************************************************************)
(* Two servers, one that follows the protocol and one that is SSLServer.cc, *)
(* two figures and two clients at a time, with every anomaly.               *)
(***************************************************************************)
EXTENDS Tenedor, TLC

CONSTANTS f1, f2, h1, h2

Todas == {"caida", "perdida", "duplicado", "desorden", "rechazo"}
=============================================================================
