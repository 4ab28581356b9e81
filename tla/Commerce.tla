------------------------------ MODULE Commerce -----------------------------
(***************************************************************************)
(* The two ways to credits: checkouts (Billing) and contracts                *)
(* (EnterpriseContracts). They meet only in the ledger, to which each adds    *)
(* lines of its own: a behaviour follows an organization along one of them.  *)
(***************************************************************************)
EXTENDS Billing, EnterpriseContracts

CommerceInit == Init /\ ContractInit

NoCheckout == checkout = << >> /\ \A r \in Requests : request[r] = Unasked
NoContract == ContractInit

CommerceNext ==
    \/ NoContract /\ Next /\ UNCHANGED contractVars
    \/ NoCheckout /\ ContractNext /\ UNCHANGED vars

CommerceSpec == CommerceInit /\ [][CommerceNext]_<<vars, contractVars>>
=============================================================================
