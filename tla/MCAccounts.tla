----------------------------- MODULE MCAccounts -----------------------------
(* Two people, two connections and the scheduler, with one free port. *)
EXTENDS Accounts
=============================================================================
