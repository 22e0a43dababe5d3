----------------------------- MODULE MCReloader -----------------------------
(* The instance of Reloader for TLC: every role, a server with and without *)
(* client CAs.                                                             *)
EXTENDS Reloader

AllRoles ==
  {[role |-> "rules", files |-> <<"rules">>, writes |-> 3],
   [role |-> "server", files |-> <<"cert", "key">>, writes |-> 3],
   [role |-> "server", files |-> <<"cert", "key", "ca">>, writes |-> 2],
   [role |-> "client", files |-> <<"cert", "key">>, writes |-> 3]}
=============================================================================
