------------------------------ MODULE Accounts ------------------------------
(***************************************************************************)
(* Accounts, sessions and memberships: sign-up with a mailed link, login,   *)
(* password reset, Google login, and members joining an organization by a   *)
(* mailed invitation. Requests of several browsers interleave between their *)
(* calls of the database, a process may die between two calls, links expire *)
(* and mails arrive late, twice or never (MailPromise; a mail is known by   *)
(* the link it carries).                                                    *)
(*                                                                         *)
(* Left out: rate limits (a refused request changes nothing), the encoding  *)
(* of secrets, and the two minutes within which a second reset link is      *)
(* refused.                                                                 *)
(***************************************************************************)
EXTENDS MailPromise, Naturals, FiniteSets

CONSTANTS
    Emails, Passwords, Browsers, Organizations,
    NoPassword,
    Invitable   \* the business roles an invitation may give

ASSUME NoPasswordAssumption == NoPassword \notin Passwords
ASSUME InvitableAssumption == Invitable \subseteq {"MANAGER", "HR"}

VARIABLES
    account,   \* one per e-mail address
    link,      \* the tokens behind the mailed links
    member,    \* memberships of organizations
    request,   \* the request each browser has under way
    session    \* the session cookie of each browser

acctVars == <<account, link, member, request, session>>
vars == <<account, link, member, request, session, mailVars>>

Accts == [exists : BOOLEAN, password : Passwords \union {NoPassword}, verified : BOOLEAN]

Unused == [kind |-> "none"]
Links == [kind : {"verify", "reset"}, email : Emails, password : Passwords \union {NoPassword},
          state : {"live", "dead"}]
Invitations == [kind : {"invitation"}, email : Emails, org : Organizations, role : Invitable,
                state : {"live", "dead"}]

NoMember == [role |-> "none", status |-> "none"]
Memberships == [role : {"OWNER", "MANAGER", "HR"}, status : {"ACTIVE", "SUSPENDED", "REMOVED"}]

Quiet == [step |-> "idle"]
Requests == [step : {"token"}, email : Emails, password : Passwords]
            \union [step : {"mail", "complete"}, link : Mails]
            \union [step : {"session"}, email : Emails]
Nobody == [live |-> FALSE]

\* The type invariant.
TypeOK ==
    /\ account \in [Emails -> Accts]
    /\ link \in [Mails -> Links \union Invitations \union {Unused}]
    /\ member \in [Organizations -> [Emails -> Memberships \union {NoMember}]]
    /\ request \in [Browsers -> Requests \union {Quiet}]
    /\ session \in [Browsers -> [live : {TRUE}, email : Emails] \union {Nobody}]

Init ==
    /\ MailInit
    /\ account = [e \in Emails |-> [exists |-> FALSE, password |-> NoPassword, verified |-> FALSE]]
    /\ link = [t \in Mails |-> Unused]
    /\ member = [o \in Organizations |-> [e \in Emails |-> NoMember]]
    /\ request = [b \in Browsers |-> Quiet]
    /\ session = [b \in Browsers |-> Nobody]

-----------------------------------------------------------------------------
Live(t) == link[t] # Unused /\ link[t].state = "live"
Dead(l) == IF l # Unused THEN [l EXCEPT !.state = "dead"] ELSE l
OfKind(l, kind, e) == l # Unused /\ l.kind = kind /\ l.email = e

Free(b) == request[b] = Quiet
Proceeds(b, r) == request' = [request EXCEPT ![b] = r]
Answers(b) == Proceeds(b, Quiet)

\* The guards of the controllers.
SignedIn(b, e) == session[b].live /\ session[b].email = e
Active(o, e) == member[o][e].status = "ACTIVE"

-----------------------------------------------------------------------------
\* Sign-up: find or create the account, store the chosen password with a new
\* token, hand the mail over. A verified account gets the same answer.
Signup(b, e, p) ==
    /\ Free(b) /\ ~account[e].verified
    /\ account' = [account EXCEPT ![e].exists = TRUE]
    /\ Proceeds(b, [step |-> "token", email |-> e, password |-> p])
    /\ UNCHANGED <<link, member, session, mailVars>>

CreateSignupToken(b, t) ==
    /\ request[b].step = "token" /\ link[t] = Unused
    /\ link' = [link EXCEPT ![t] = [kind |-> "verify", email |-> request[b].email,
                                    password |-> request[b].password, state |-> "live"]]
    /\ Proceeds(b, [step |-> "mail", link |-> t])
    /\ UNCHANGED <<account, member, session, mailVars>>

DispatchLink(b) ==
    /\ request[b].step = "mail"
    /\ Post(request[b].link)
    /\ Answers(b)
    /\ UNCHANGED <<account, link, member, session>>

\* Whoever follows the link must also know the password of that sign-up.
VerifyEmail(b, t, p) ==
    /\ Free(b) /\ t \in arrived
    /\ Live(t) /\ link[t].kind = "verify" /\ link[t].password = p
    /\ Proceeds(b, [step |-> "complete", link |-> t])
    /\ UNCHANGED <<account, link, member, session, mailVars>>

\* Seeded fault: the link sets the password of an account that is verified already.
CompleteSignupTwice(b) ==
    LET t == request[b].link
        e == link[t].email
    IN /\ request[b].step = "complete" /\ Live(t)
       /\ account' = [account EXCEPT ![e].password = link[t].password, ![e].verified = TRUE]
       /\ link' = [link EXCEPT ![t] = Dead(@)]
       /\ Proceeds(b, [step |-> "session", email |-> e])
       /\ UNCHANGED <<member, session, mailVars>>

\* The token is spent even when the account turns out to be verified already.
CompleteSignup(b) ==
    LET t == request[b].link
        e == link[t].email
    IN /\ request[b].step = "complete"
       /\ IF ~Live(t) THEN Answers(b) /\ UNCHANGED <<account, link>>
          ELSE IF account[e].verified
          THEN /\ link' = [link EXCEPT ![t] = Dead(@)]
               /\ Answers(b) /\ UNCHANGED account
          ELSE /\ account' = [account EXCEPT ![e].password = link[t].password, ![e].verified = TRUE]
               /\ link' = [l \in Mails |-> IF OfKind(link[l], "verify", e) THEN Dead(link[l]) ELSE link[l]]
               /\ Proceeds(b, [step |-> "session", email |-> e])
       /\ UNCHANGED <<member, session, mailVars>>

Login(b, e, p) ==
    /\ Free(b)
    /\ account[e].exists /\ account[e].password = p /\ account[e].verified
    /\ Proceeds(b, [step |-> "session", email |-> e])
    /\ UNCHANGED <<account, link, member, session, mailVars>>

\* A completed Google login proves the address: the account is created or verified.
UpsertGoogleUser(b, e) ==
    /\ Free(b)
    /\ account' = [account EXCEPT ![e].exists = TRUE, ![e].verified = TRUE]
    /\ Proceeds(b, [step |-> "session", email |-> e])
    /\ UNCHANGED <<link, member, session, mailVars>>

CreateSession(b) ==
    /\ request[b].step = "session"
    /\ session' = [session EXCEPT ![b] = [live |-> TRUE, email |-> request[b].email]]
    /\ Answers(b)
    /\ UNCHANGED <<account, link, member, mailVars>>

\* Signing out, or the end of the seven days.
SessionEnds(b) ==
    /\ session[b].live
    /\ session' = [session EXCEPT ![b] = Nobody]
    /\ UNCHANGED <<account, link, member, request, mailVars>>

-----------------------------------------------------------------------------
\* Password reset: the token and its mail are stored in one transaction.
RequestPasswordReset(e, t) ==
    /\ account[e].exists /\ link[t] = Unused
    /\ link' = [link EXCEPT ![t] = [kind |-> "reset", email |-> e,
                                    password |-> NoPassword, state |-> "live"]]
    /\ Post(t)
    /\ UNCHANGED <<account, member, request, session>>

EndedSessions(e) == [b \in Browsers |-> IF SignedIn(b, e) THEN Nobody ELSE session[b]]

ResetPassword(t, p) ==
    LET e == link[t].email
    IN /\ t \in arrived /\ Live(t) /\ link[t].kind = "reset"
       /\ link' = [l \in Mails |-> IF OfKind(link[l], "reset", e) THEN Dead(link[l]) ELSE link[l]]
       /\ account' = [account EXCEPT ![e].password = p]
       /\ session' = EndedSessions(e)
       /\ UNCHANGED <<member, request, mailVars>>

LinkExpires(t) ==
    /\ Live(t)
    /\ link' = [link EXCEPT ![t] = Dead(@)]
    /\ UNCHANGED <<account, member, request, session, mailVars>>

-----------------------------------------------------------------------------
CreateOrganization(b, e, o) ==
    /\ SignedIn(b, e) /\ account[e].verified
    /\ \A q \in Organizations : member[q][e] = NoMember
    /\ \A f \in Emails : member[o][f] = NoMember
    /\ member' = [member EXCEPT ![o][e] = [role |-> "OWNER", status |-> "ACTIVE"]]
    /\ UNCHANGED <<account, link, request, session, mailVars>>

MayInvite(o, e, role) ==
    /\ Active(o, e)
    /\ member[o][e].role = "OWNER" \/ (member[o][e].role = "MANAGER" /\ role = "HR")

\* Seeded fault: members may be invited too, into another role.
InviteAnyone(b, e, o, f, role, t) ==
    /\ Free(b) /\ SignedIn(b, e) /\ link[t] = Unused /\ MayInvite(o, e, role)
    /\ link' = [link EXCEPT ![t] =
            [kind |-> "invitation", email |-> f, org |-> o, role |-> role, state |-> "live"]]
    /\ Proceeds(b, [step |-> "mail", link |-> t])
    /\ UNCHANGED <<account, member, session, mailVars>>

\* A new invitation revokes the pending one of the same address.
Invite(b, e, o, f, role, t) ==
    /\ Free(b) /\ SignedIn(b, e) /\ link[t] = Unused
    /\ MayInvite(o, e, role)
    /\ member[o][f] = NoMember \/ member[o][f].status = "REMOVED"
    /\ link' = [l \in Mails |->
            IF l = t THEN [kind |-> "invitation", email |-> f, org |-> o, role |-> role, state |-> "live"]
            ELSE IF OfKind(link[l], "invitation", f) /\ link[l].org = o THEN Dead(link[l])
            ELSE link[l]]
    /\ Proceeds(b, [step |-> "mail", link |-> t])
    /\ UNCHANGED <<account, member, session, mailVars>>

AcceptInvitation(b, t) ==
    LET o == link[t].org
        e == link[t].email
    IN /\ t \in arrived /\ Live(t) /\ link[t].kind = "invitation"
       /\ SignedIn(b, e)
       /\ \A q \in Organizations \ {o} : ~Active(q, e)
       /\ member' = [member EXCEPT ![o][e] = [role |-> link[t].role, status |-> "ACTIVE"]]
       /\ link' = [link EXCEPT ![t] = Dead(@)]
       /\ UNCHANGED <<account, request, session, mailVars>>

MayManage(o, e, f) ==
    /\ Active(o, e) /\ e # f /\ member[o][f] # NoMember
    /\ member[o][e].role = "OWNER" \/ (member[o][e].role = "MANAGER" /\ member[o][f].role = "HR")

OnlyOwner(o, f) ==
    /\ member[o][f].role = "OWNER"
    /\ Cardinality({g \in Emails : member[o][g].role = "OWNER" /\ Active(o, g)}) <= 1

ManageMember(b, e, o, f, status) ==
    /\ SignedIn(b, e) /\ MayManage(o, e, f) /\ ~OnlyOwner(o, f)
    /\ member' = [member EXCEPT ![o][f].status = status]
    /\ session' = IF status = "ACTIVE" THEN session ELSE EndedSessions(f)
    /\ UNCHANGED <<account, link, request, mailVars>>

-----------------------------------------------------------------------------
MailArrives(t) == t \notin arrived /\ Arrive(t) /\ UNCHANGED acctVars

Crash(b) ==
    /\ ~Free(b) /\ Answers(b)
    /\ UNCHANGED <<account, link, member, session, mailVars>>

Next ==
    \/ \E b \in Browsers, e \in Emails, p \in Passwords : Signup(b, e, p) \/ Login(b, e, p)
    \/ \E b \in Browsers, t \in Mails :
          \/ CreateSignupToken(b, t)
          \/ AcceptInvitation(b, t)
          \/ \E p \in Passwords : VerifyEmail(b, t, p)
    \/ \E b \in Browsers : \/ DispatchLink(b) \/ CompleteSignup(b) \/ CreateSession(b)
                           \/ SessionEnds(b) \/ Crash(b)
    \/ \E b \in Browsers, e \in Emails : UpsertGoogleUser(b, e)
    \/ \E e \in Emails, t \in Mails : RequestPasswordReset(e, t)
    \/ \E t \in Mails, p \in Passwords : ResetPassword(t, p)
    \/ \E t \in Mails : LinkExpires(t) \/ MailArrives(t)
    \/ \E b \in Browsers, e, f \in Emails, o \in Organizations :
          \/ CreateOrganization(b, e, o)
          \/ \E role \in Invitable, t \in Mails : Invite(b, e, o, f, role, t)
          \/ \E s \in {"ACTIVE", "SUSPENDED", "REMOVED"} : ManageMember(b, e, o, f, s)

Spec == Init /\ [][Next]_vars

-----------------------------------------------------------------------------
\* An organization never loses its owner: no sequence of invitations, acceptances,
\* suspensions and removals takes the last active owner away or into another role.
OwnerStays ==
    \A o \in Organizations :
        (\E e \in Emails : member[o][e] # NoMember)
            => \E e \in Emails : member[o][e] = [role |-> "OWNER", status |-> "ACTIVE"]

\* A password changes only by a live link that reached its mailbox and is spent by
\* the change: a sign-up link while the account is unverified, or a reset link.
PasswordNeedsLink ==
    [][\A e \in Emails : account'[e].password # account[e].password =>
        \E t \in arrived :
            /\ Live(t) /\ link[t].email = e /\ link'[t].state = "dead"
            /\ \/ link[t].kind = "verify" /\ ~account[e].verified
                  /\ account'[e].password = link[t].password
               \/ link[t].kind = "reset"]_vars
=============================================================================
