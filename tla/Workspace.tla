----------------------------- MODULE Workspace -----------------------------
(***************************************************************************)
(* The people of an organization: how they get in and out (Accounts) and     *)
(* the credits they may spend (CreditWallets). What the second needs of the   *)
(* first, that members come, are suspended, removed and invited again at any  *)
(* time, it allows by itself: a behaviour follows one of the two.             *)
(***************************************************************************)
EXTENDS Accounts, CreditWallets

WorkspaceInit == Init /\ WalletInit

NoAccounts == Init
NoWallets == WalletInit

WorkspaceNext ==
    \/ NoWallets /\ Next /\ UNCHANGED walletVars
    \/ NoAccounts /\ WalletNext /\ UNCHANGED vars

WorkspaceSpec == WorkspaceInit /\ [][WorkspaceNext]_<<vars, walletVars>>
=============================================================================
