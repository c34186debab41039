----------------------------- MODULE MCAccounts -----------------------------
(* Two names, each in two spellings, and two passwords.                    *)
EXTENDS Accounts
=============================================================================
