---------------------------- MODULE MCWorkspace ----------------------------
(* Accounts and wallets with the constants of the .cfg file *)
EXTENDS Workspace, TLC

Interchangeable == Permutations(Browsers) \union Permutations(Mails) \union Permutations(Passwords)
=============================================================================
