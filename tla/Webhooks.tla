------------------------------ MODULE Webhooks ------------------------------
(***************************************************************************)
(* The two services that notify Authenti8 of what happened there, late,      *)
(* twice or in another order, and the queues that apply it: the provider of   *)
(* payments (Billing) and the calendars (CalendarSync). They share no row; a  *)
(* behaviour follows one of the two.                                        *)
(***************************************************************************)
EXTENDS Billing, CalendarSync

WebhooksInit == Init /\ CalendarInit

NoPurchases == Init
NoCalendars == CalendarInit

WebhooksNext ==
    \/ NoCalendars /\ Next /\ UNCHANGED calendarVars
    \/ NoPurchases /\ CalendarNext /\ UNCHANGED vars

WebhooksSpec == WebhooksInit /\ [][WebhooksNext]_<<vars, calendarVars>>
=============================================================================
