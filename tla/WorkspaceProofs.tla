--------------------------- MODULE WorkspaceProofs ---------------------------
(***************************************************************************)
(* Accounts, memberships and wallets for any addresses, passwords, browsers,  *)
(* mails, organizations and meetings: an organization keeps its owner, a      *)
(* password is changed by nothing but a link that reached its mailbox, and a   *)
(* wallet holds what its ledger says.                                       *)
(***************************************************************************)
EXTENDS Workspace, FiniteSetTheorems, TLAPS

-----------------------------------------------------------------------------
(* The inductive invariant *)

IsOwner(o, e) == member[o][e].role = "OWNER"

\* An organization has at most one owner, who is active, and everybody else came
\* after him.
OneOwner(o) ==
    /\ \A e, f \in Emails : IsOwner(o, e) /\ IsOwner(o, f) => e = f
    /\ \A e \in Emails : IsOwner(o, e) => member[o][e].status = "ACTIVE"
    /\ \A f \in Emails : member[o][f] # NoMember => \E e \in Emails : IsOwner(o, e)

\* Only an organization with members has ever invited anybody, and never its owner.
InvitesOthers(t) ==
    link[t].kind = "invitation" =>
        /\ ~IsOwner(link[t].org, link[t].email)
        /\ \E e \in Emails : member[link[t].org][e] # NoMember

\* A sign-up is completed by a link that has arrived.
Completes(b) ==
    request[b].step = "complete" =>
        request[b].link \in arrived /\ link[request[b].link].kind = "verify"

AccountsInv ==
    /\ TypeOK
    /\ \A o \in Organizations : OneOwner(o)
    /\ \A t \in Mails : InvitesOthers(t)
    /\ \A b \in Browsers : Completes(b)

-----------------------------------------------------------------------------
(* Rows *)

LinkRows == Links \union Invitations \union {Unused}

LEMMA DeadRow ==
  ASSUME NEW l \in LinkRows
  PROVE  /\ Dead(l) \in LinkRows
         /\ Dead(l).kind = l.kind
         /\ l # Unused => Dead(l).state = "dead" /\ Dead(l).email = l.email
         /\ l.kind = "invitation" => Dead(l).org = l.org
  <1>1. CASE l = Unused
    BY <1>1 DEF Dead, Unused
  <1>2. CASE l # Unused /\ l \in Links
    BY <1>2 DEF Dead, LinkRows, Links
  <1>3. CASE l # Unused /\ l \in Invitations
    BY <1>3 DEF Dead, LinkRows, Invitations
  <1> QED BY <1>1, <1>2, <1>3 DEF LinkRows

LEMMA LinkKinds ==
  ASSUME NEW l \in LinkRows
  PROVE  /\ l = Unused <=> l.kind = "none"
         /\ l.kind \in {"verify", "reset"} => l \in Links
         /\ l.kind = "invitation" => l \in Invitations
  BY DEF LinkRows, Links, Invitations, Unused

LEMMA RequestRows ==
  ASSUME NEW r \in Requests \union {Quiet}
  PROVE  /\ r.step = "token" => r.email \in Emails /\ r.password \in Passwords
         /\ r.step \in {"mail", "complete"} => r.link \in Mails
         /\ r.step = "session" => r.email \in Emails
         /\ r.step \in {"token", "mail", "complete", "session", "idle"}
  BY DEF Requests, Quiet

LEMMA QuietRequest ==
  Quiet \in Requests \union {Quiet} /\ Quiet.step # "complete"
  BY DEF Quiet

\* Requests that an action may put under way.
LEMMA NewRequests ==
  /\ \A e \in Emails, p \in Passwords : [step |-> "token", email |-> e, password |-> p] \in Requests
  /\ \A t \in Mails : [step |-> "mail", link |-> t] \in Requests
  /\ \A t \in Mails : [step |-> "complete", link |-> t] \in Requests
  /\ \A e \in Emails : [step |-> "session", email |-> e] \in Requests
  BY DEF Requests

-----------------------------------------------------------------------------
(* What most steps leave as it is *)

LEMMA OwnersKept ==
  ASSUME AccountsInv, UNCHANGED member
  PROVE  \A o \in Organizations : OneOwner(o)'
  BY DEF AccountsInv, OneOwner, IsOwner

\* Links that are new, and no invitations, or as they were, or dead.
LEMMA InvitationsKept ==
  ASSUME AccountsInv, UNCHANGED member,
         \A t \in Mails : link'[t] \in {link[t], Dead(link[t])} \/ link'[t].kind # "invitation"
  PROVE  \A t \in Mails : InvitesOthers(t)'
  <1> SUFFICES ASSUME NEW t \in Mails, link'[t].kind = "invitation"
               PROVE  /\ ~IsOwner(link'[t].org, link'[t].email)
                      /\ \E e \in Emails : member[link'[t].org][e] # NoMember
    BY DEF InvitesOthers, IsOwner
  <1>1. link[t] \in LinkRows
    BY DEF AccountsInv, TypeOK, LinkRows
  <1>2. /\ link[t].kind = "invitation"
        /\ link'[t].org = link[t].org /\ link'[t].email = link[t].email
    <2>1. CASE link'[t] = link[t]
      BY <2>1
    <2>2. CASE link'[t] = Dead(link[t])
      <3>1. link[t].kind = "invitation"
        BY <1>1, <2>2, DeadRow
      <3>2. link[t] # Unused
        BY <3>1 DEF Unused
      <3> QED BY <1>1, <2>2, <3>1, <3>2, DeadRow
    <2> QED BY <2>1, <2>2
  <1> QED BY <1>2 DEF AccountsInv, InvitesOthers

\* No link turns into one of another kind, and nothing that has arrived goes away.
LEMMA CompletionsKept ==
  ASSUME AccountsInv, arrived \subseteq arrived',
         \A t \in Mails : link[t].kind = "verify" => link'[t].kind = "verify",
         \A b \in Browsers : request'[b] = request[b] \/ request'[b].step # "complete"
  PROVE  \A b \in Browsers : Completes(b)'
  <1> SUFFICES ASSUME NEW b \in Browsers, request'[b].step = "complete"
               PROVE  request'[b].link \in arrived' /\ link'[request'[b].link].kind = "verify"
    BY DEF Completes
  <1>1. request'[b] = request[b]
    OBVIOUS
  <1>2. request[b] \in Requests \union {Quiet}
    BY DEF AccountsInv, TypeOK
  <1>3. request[b].link \in Mails
    BY <1>1, <1>2, RequestRows
  <1> QED BY <1>1, <1>3 DEF AccountsInv, Completes

\* Each link stays or dies, and so keeps its kind.
LEMMA LinksDie ==
  ASSUME AccountsInv, \A t \in Mails : link'[t] \in {link[t], Dead(link[t])},
         link' = [t \in Mails |-> link'[t]]
  PROVE  /\ link' \in [Mails -> LinkRows]
         /\ \A t \in Mails : link[t].kind = "verify" => link'[t].kind = "verify"
  <1>1. \A t \in Mails : link[t] \in LinkRows
    BY DEF AccountsInv, TypeOK, LinkRows
  <1>2. \A t \in Mails : link'[t] \in LinkRows /\ link'[t].kind = link[t].kind
    BY <1>1, DeadRow
  <1>3. [t \in Mails |-> link'[t]] \in [Mails -> LinkRows]
    BY <1>2
  <1> QED BY <1>2, <1>3

-----------------------------------------------------------------------------
(* Sign-up and login *)

LEMMA SignupStep ==
  ASSUME AccountsInv, NEW b \in Browsers, NEW e \in Emails, NEW p \in Passwords, Signup(b, e, p)
  PROVE  AccountsInv'
  <1> USE DEF Signup, Proceeds
  <1>1. TypeOK'
    <2>1. account' \in [Emails -> Accts]
      BY DEF AccountsInv, TypeOK, Accts
    <2>2. request' \in [Browsers -> Requests \union {Quiet}]
      BY NewRequests DEF AccountsInv, TypeOK
    <2> QED BY <2>1, <2>2 DEF AccountsInv, TypeOK
  <1>2. \A c \in Browsers : request'[c] = request[c] \/ request'[c].step # "complete"
    BY DEF AccountsInv, TypeOK
  <1>3. arrived \subseteq arrived'
    BY DEF mailVars
  <1>4. \A c \in Browsers : Completes(c)'
    BY <1>2, <1>3, CompletionsKept
  <1> QED BY <1>1, <1>4, OwnersKept, InvitationsKept DEF AccountsInv

LEMMA TokenStep ==
  ASSUME AccountsInv, NEW b \in Browsers, NEW t \in Mails, CreateSignupToken(b, t)
  PROVE  AccountsInv'
  <1> USE DEF CreateSignupToken, Proceeds
  <1> DEFINE new == [kind |-> "verify", email |-> request[b].email,
                     password |-> request[b].password, state |-> "live"]
  <1>1. new \in Links /\ new.kind = "verify"
    <2>1. request[b] \in Requests \union {Quiet} /\ request[b].step = "token"
      BY DEF AccountsInv, TypeOK
    <2>2. request[b].email \in Emails /\ request[b].password \in Passwords
      BY <2>1, RequestRows
    <2> QED BY <2>2 DEF Links
  <1>2. link' = [link EXCEPT ![t] = new] /\ link \in [Mails -> LinkRows] /\ link[t] = Unused
    BY DEF AccountsInv, TypeOK, LinkRows
  <1> HIDE DEF new
  <1>3. /\ link' \in [Mails -> LinkRows]
        /\ \A m \in Mails : link'[m] = link[m] \/ link'[m].kind = "verify"
    BY <1>1, <1>2 DEF LinkRows
  <1>4. TypeOK'
    <2>1. request' \in [Browsers -> Requests \union {Quiet}]
      BY NewRequests DEF AccountsInv, TypeOK
    <2> QED BY <1>3, <2>1 DEF AccountsInv, TypeOK, LinkRows
  <1>5. \A c \in Browsers : request'[c] = request[c] \/ request'[c].step # "complete"
    BY DEF AccountsInv, TypeOK
  <1>6. arrived \subseteq arrived' /\ UNCHANGED member
    BY DEF mailVars
  <1>7. \A c \in Browsers : Completes(c)'
    BY <1>3, <1>5, <1>6, CompletionsKept
  <1>8. \A m \in Mails : InvitesOthers(m)'
    BY <1>3, <1>6, InvitationsKept
  <1> QED BY <1>4, <1>6, <1>7, <1>8, OwnersKept DEF AccountsInv

\* Steps that change neither links nor members, and begin no completion.
LEMMA OtherwiseKept ==
  ASSUME AccountsInv, UNCHANGED <<link, member>>, arrived \subseteq arrived', TypeOK',
         \A c \in Browsers : request'[c] = request[c] \/ request'[c].step # "complete"
  PROVE  AccountsInv'
  BY OwnersKept, InvitationsKept, CompletionsKept DEF AccountsInv

LEMMA DispatchStep ==
  ASSUME AccountsInv, NEW b \in Browsers, DispatchLink(b)
  PROVE  AccountsInv'
  <1> USE DEF DispatchLink, Answers, Proceeds
  <1>1. TypeOK'
    BY DEF AccountsInv, TypeOK
  <1>2. arrived \subseteq arrived'
    BY DEF Post, PostAll
  <1>3. \A c \in Browsers : request'[c] = request[c] \/ request'[c].step # "complete"
    BY DEF AccountsInv, TypeOK, Quiet
  <1> QED BY <1>1, <1>2, <1>3, OtherwiseKept

LEMMA VerifyStep ==
  ASSUME AccountsInv, NEW b \in Browsers, NEW t \in Mails, NEW p \in Passwords, VerifyEmail(b, t, p)
  PROVE  AccountsInv'
  <1> USE DEF VerifyEmail, Proceeds
  <1>1. TypeOK'
    <2>1. request' \in [Browsers -> Requests \union {Quiet}]
      BY NewRequests DEF AccountsInv, TypeOK
    <2> QED BY <2>1 DEF AccountsInv, TypeOK
  <1>2. \A c \in Browsers : Completes(c)'
    <2> TAKE c \in Browsers
    <2>1. CASE c = b
      BY <2>1 DEF AccountsInv, TypeOK, Completes, mailVars
    <2>2. CASE c # b
      BY <2>2 DEF AccountsInv, TypeOK, Completes, mailVars
    <2> QED BY <2>1, <2>2
  <1> QED BY <1>1, <1>2, OwnersKept, InvitationsKept DEF AccountsInv

\* A completion finds a sign-up link, whose password it stores.
LEMMA CompletedLink ==
  ASSUME AccountsInv, NEW b \in Browsers, request[b].step = "complete"
  PROVE  /\ request[b].link \in Mails /\ request[b].link \in arrived
         /\ link[request[b].link] \in Links /\ link[request[b].link].kind = "verify"
  <1>1. request[b] \in Requests \union {Quiet}
    BY DEF AccountsInv, TypeOK
  <1>2. request[b].link \in Mails
    BY <1>1, RequestRows
  <1>3. request[b].link \in arrived /\ link[request[b].link].kind = "verify"
    BY DEF AccountsInv, Completes
  <1>4. link[request[b].link] \in LinkRows
    BY <1>2 DEF AccountsInv, TypeOK, LinkRows
  <1> QED BY <1>2, <1>3, <1>4, LinkKinds

LEMMA CompleteStep ==
  ASSUME AccountsInv, NEW b \in Browsers, CompleteSignup(b)
  PROVE  AccountsInv'
  <1> DEFINE t == request[b].link
             e == link[t].email
  <1>1. t \in Mails /\ link[t] \in Links
    BY CompletedLink DEF CompleteSignup
  <1>2. e \in Emails /\ link[t].password \in Passwords \union {NoPassword}
    BY <1>1 DEF Links
  <1>3. /\ account' \in [Emails -> Accts]
        /\ request' \in [Browsers -> Requests \union {Quiet}]
        /\ \A m \in Mails : link'[m] \in {link[m], Dead(link[m])}
        /\ link' = [m \in Mails |-> link'[m]]
        /\ \A c \in Browsers : request'[c] = request[c] \/ request'[c].step # "complete"
    <2>1. CASE ~Live(t)
      BY <2>1 DEF CompleteSignup, Answers, Proceeds, AccountsInv, TypeOK, Quiet
    <2>2. CASE Live(t) /\ account[e].verified
      BY <1>1, <2>2 DEF CompleteSignup, Answers, Proceeds, AccountsInv, TypeOK, Quiet
    <2>3. CASE Live(t) /\ ~account[e].verified
      <3>1. /\ account' = [account EXCEPT ![e].password = link[t].password, ![e].verified = TRUE]
            /\ link' = [l \in Mails |-> IF OfKind(link[l], "verify", e) THEN Dead(link[l]) ELSE link[l]]
            /\ request' = [request EXCEPT ![b] = [step |-> "session", email |-> e]]
        BY <2>3 DEF CompleteSignup, Proceeds
      <3>2. [step |-> "session", email |-> e] \in Requests
        BY <1>2, NewRequests
      <3>3. account' \in [Emails -> Accts]
        BY <1>2, <3>1 DEF AccountsInv, TypeOK, Accts
      <3>4. request' \in [Browsers -> Requests \union {Quiet}]
        BY <3>1, <3>2 DEF AccountsInv, TypeOK
      <3>5. \A c \in Browsers : request'[c] = request[c] \/ request'[c].step # "complete"
        BY <3>1 DEF AccountsInv, TypeOK
      <3> QED BY <3>1, <3>3, <3>4, <3>5
    <2> QED BY <2>1, <2>2, <2>3
  <1>4. UNCHANGED <<member, session>> /\ arrived' = arrived
    BY DEF CompleteSignup, mailVars
  <1>5. /\ link' \in [Mails -> LinkRows]
        /\ \A m \in Mails : link[m].kind = "verify" => link'[m].kind = "verify"
    BY <1>3, LinksDie
  <1>6. TypeOK'
    BY <1>3, <1>4, <1>5 DEF AccountsInv, TypeOK, LinkRows
  <1>7. \A m \in Mails : InvitesOthers(m)'
    <2>1. \A m \in Mails : link'[m] \in {link[m], Dead(link[m])} \/ link'[m].kind # "invitation"
      BY <1>3
    <2> QED BY <1>4, <2>1, InvitationsKept
  <1>8. \A c \in Browsers : Completes(c)'
    BY <1>3, <1>4, <1>5, CompletionsKept
  <1> QED BY <1>4, <1>6, <1>7, <1>8, OwnersKept DEF AccountsInv

LEMMA LoginStep ==
  ASSUME AccountsInv, NEW b \in Browsers, NEW e \in Emails, NEW p \in Passwords, Login(b, e, p)
  PROVE  AccountsInv'
  <1> USE DEF Login, Proceeds
  <1>1. TypeOK'
    <2>1. request' \in [Browsers -> Requests \union {Quiet}]
      BY NewRequests DEF AccountsInv, TypeOK
    <2> QED BY <2>1 DEF AccountsInv, TypeOK
  <1>2. \A c \in Browsers : request'[c] = request[c] \/ request'[c].step # "complete"
    BY DEF AccountsInv, TypeOK
  <1> QED BY <1>1, <1>2, OtherwiseKept DEF mailVars

LEMMA GoogleStep ==
  ASSUME AccountsInv, NEW b \in Browsers, NEW e \in Emails, UpsertGoogleUser(b, e)
  PROVE  AccountsInv'
  <1> USE DEF UpsertGoogleUser, Proceeds
  <1>1. TypeOK'
    <2>1. account' \in [Emails -> Accts]
      BY DEF AccountsInv, TypeOK, Accts
    <2>2. request' \in [Browsers -> Requests \union {Quiet}]
      BY NewRequests DEF AccountsInv, TypeOK
    <2> QED BY <2>1, <2>2 DEF AccountsInv, TypeOK
  <1>2. \A c \in Browsers : request'[c] = request[c] \/ request'[c].step # "complete"
    BY DEF AccountsInv, TypeOK
  <1> QED BY <1>1, <1>2, OtherwiseKept DEF mailVars

LEMMA SessionStep ==
  ASSUME AccountsInv, NEW b \in Browsers, CreateSession(b)
  PROVE  AccountsInv'
  <1> USE DEF CreateSession, Answers, Proceeds
  <1>1. TypeOK'
    <2>1. request[b].email \in Emails
      BY RequestRows DEF AccountsInv, TypeOK
    <2>2. session' \in [Browsers -> [live : {TRUE}, email : Emails] \union {Nobody}]
      BY <2>1 DEF AccountsInv, TypeOK
    <2>3. request' \in [Browsers -> Requests \union {Quiet}]
      BY DEF AccountsInv, TypeOK
    <2> QED BY <2>2, <2>3 DEF AccountsInv, TypeOK
  <1>2. \A c \in Browsers : request'[c] = request[c] \/ request'[c].step # "complete"
    BY DEF AccountsInv, TypeOK, Quiet
  <1> QED BY <1>1, <1>2, OtherwiseKept DEF mailVars

LEMMA SessionEndStep ==
  ASSUME AccountsInv, NEW b \in Browsers, SessionEnds(b)
  PROVE  AccountsInv'
  <1> USE DEF SessionEnds
  <1>1. TypeOK'
    BY DEF AccountsInv, TypeOK
  <1> QED BY <1>1, OtherwiseKept DEF mailVars

LEMMA CrashStep ==
  ASSUME AccountsInv, NEW b \in Browsers, Crash(b)
  PROVE  AccountsInv'
  <1> USE DEF Crash, Answers, Proceeds
  <1>1. TypeOK'
    BY DEF AccountsInv, TypeOK
  <1>2. \A c \in Browsers : request'[c] = request[c] \/ request'[c].step # "complete"
    BY DEF AccountsInv, TypeOK, Quiet
  <1> QED BY <1>1, <1>2, OtherwiseKept DEF mailVars

LEMMA ArrivalStep ==
  ASSUME AccountsInv, NEW t \in Mails, MailArrives(t)
  PROVE  AccountsInv'
  <1> USE DEF MailArrives, Arrive, acctVars
  <1>1. TypeOK'
    BY DEF AccountsInv, TypeOK
  <1> QED BY <1>1, OtherwiseKept

-----------------------------------------------------------------------------
(* Password resets and expired links *)

LEMMA ResetRequestStep ==
  ASSUME AccountsInv, NEW e \in Emails, NEW t \in Mails, RequestPasswordReset(e, t)
  PROVE  AccountsInv'
  <1> USE DEF RequestPasswordReset
  <1> DEFINE new == [kind |-> "reset", email |-> e, password |-> NoPassword, state |-> "live"]
  <1>1. new \in Links /\ new.kind = "reset"
    BY DEF Links
  <1>2. link' = [link EXCEPT ![t] = new] /\ link \in [Mails -> LinkRows] /\ link[t].kind = "none"
    BY DEF AccountsInv, TypeOK, LinkRows, Unused
  <1> HIDE DEF new
  <1>3. /\ link' \in [Mails -> LinkRows]
        /\ \A m \in Mails : link'[m] = link[m] \/ (m = t /\ link'[m].kind = "reset")
    BY <1>1, <1>2 DEF LinkRows
  <1>4. TypeOK'
    BY <1>3 DEF AccountsInv, TypeOK, LinkRows
  <1>5. arrived \subseteq arrived' /\ UNCHANGED <<member, request>>
    BY DEF Post, PostAll
  <1>6. \A m \in Mails : link[m].kind = "verify" => link'[m].kind = "verify"
    BY <1>2, <1>3
  <1>7. \A c \in Browsers : Completes(c)'
    BY <1>5, <1>6, CompletionsKept
  <1>8. \A m \in Mails : InvitesOthers(m)'
    BY <1>3, <1>5, InvitationsKept
  <1> QED BY <1>4, <1>5, <1>7, <1>8, OwnersKept DEF AccountsInv

\* A step in which links die and nothing else happens to links and requests.
LEMMA DeathsKeep ==
  ASSUME AccountsInv, \A t \in Mails : link'[t] \in {link[t], Dead(link[t])},
         link' = [t \in Mails |-> link'[t]],
         account' \in [Emails -> Accts],
         session' \in [Browsers -> [live : {TRUE}, email : Emails] \union {Nobody}],
         UNCHANGED <<member, request>>, arrived' = arrived
  PROVE  AccountsInv'
  <1>1. /\ link' \in [Mails -> LinkRows]
        /\ \A m \in Mails : link[m].kind = "verify" => link'[m].kind = "verify"
    BY LinksDie
  <1>2. TypeOK'
    BY <1>1 DEF AccountsInv, TypeOK, LinkRows
  <1>3. \A m \in Mails : InvitesOthers(m)'
    BY InvitationsKept
  <1>4. \A c \in Browsers : Completes(c)'
    BY <1>1, CompletionsKept
  <1> QED BY <1>2, <1>3, <1>4, OwnersKept DEF AccountsInv

LEMMA SessionsEnded ==
  ASSUME TypeOK, NEW e
  PROVE  EndedSessions(e) \in [Browsers -> [live : {TRUE}, email : Emails] \union {Nobody}]
  BY DEF TypeOK, EndedSessions

LEMMA ResetStep ==
  ASSUME AccountsInv, NEW t \in Mails, NEW p \in Passwords, ResetPassword(t, p)
  PROVE  AccountsInv'
  <1> DEFINE e == link[t].email
  <1>1. link[t] \in LinkRows /\ link[t].kind = "reset"
    BY DEF AccountsInv, TypeOK, LinkRows, ResetPassword
  <1>2. e \in Emails
    BY <1>1, LinkKinds DEF Links
  <1>3. account' \in [Emails -> Accts]
    BY <1>2 DEF ResetPassword, AccountsInv, TypeOK, Accts
  <1>4. session' \in [Browsers -> [live : {TRUE}, email : Emails] \union {Nobody}]
    BY SessionsEnded DEF ResetPassword, AccountsInv
  <1>5. link' = [l \in Mails |-> IF OfKind(link[l], "reset", e) THEN Dead(link[l]) ELSE link[l]]
    BY DEF ResetPassword
  <1>6. /\ \A m \in Mails : link'[m] \in {link[m], Dead(link[m])}
        /\ link' = [m \in Mails |-> link'[m]]
    BY <1>5
  <1>7. UNCHANGED <<member, request>> /\ arrived' = arrived
    BY DEF ResetPassword, mailVars
  <1> QED BY <1>3, <1>4, <1>6, <1>7, DeathsKeep

LEMMA ExpiryStep ==
  ASSUME AccountsInv, NEW t \in Mails, LinkExpires(t)
  PROVE  AccountsInv'
  <1>1. /\ \A m \in Mails : link'[m] \in {link[m], Dead(link[m])}
        /\ link' = [m \in Mails |-> link'[m]]
    BY DEF LinkExpires, AccountsInv, TypeOK
  <1>2. UNCHANGED <<account, session, member, request>> /\ arrived' = arrived
    BY DEF LinkExpires, mailVars
  <1> QED BY <1>1, <1>2, DeathsKeep DEF AccountsInv, TypeOK

-----------------------------------------------------------------------------
(* Memberships *)

LEMMA MemberRows ==
  ASSUME NEW r \in Memberships \union {NoMember}
  PROVE  /\ r.role = "OWNER" => r # NoMember
         /\ r # NoMember => r \in Memberships
         /\ NoMember.role # "OWNER"
  BY DEF Memberships, NoMember

\* One person's row changes.
LEMMA ChangedMember ==
  ASSUME TypeOK, NEW o \in Organizations, NEW e \in Emails, NEW row \in Memberships \union {NoMember},
         member' = [member EXCEPT ![o][e] = row]
  PROVE  /\ member' \in [Organizations -> [Emails -> Memberships \union {NoMember}]]
         /\ member'[o][e] = row
         /\ \A q \in Organizations, f \in Emails : q # o \/ f # e => member'[q][f] = member[q][f]
  BY DEF TypeOK

\* The invitations that are out stay good when no owner and no leaver is made.
LEMMA InvitationsStay ==
  ASSUME AccountsInv, UNCHANGED link,
         \A q \in Organizations, f \in Emails :
            /\ IsOwner(q, f)' => IsOwner(q, f) \/ \A g \in Emails : member[q][g] = NoMember
            /\ member[q][f] # NoMember => member'[q][f] # NoMember
  PROVE  \A t \in Mails : InvitesOthers(t)'
  <1> SUFFICES ASSUME NEW t \in Mails, link[t].kind = "invitation"
               PROVE  InvitesOthers(t)'
    BY DEF InvitesOthers
  <1>1. link[t].org \in Organizations /\ link[t].email \in Emails
    <2>1. link[t] \in LinkRows
      BY DEF AccountsInv, TypeOK, LinkRows
    <2> QED BY <2>1, LinkKinds DEF Invitations
  <1>2. /\ ~IsOwner(link[t].org, link[t].email)
        /\ \E e \in Emails : member[link[t].org][e] # NoMember
    BY DEF AccountsInv, InvitesOthers
  <1> QED BY <1>1, <1>2 DEF InvitesOthers, IsOwner

LEMMA FoundStep ==
  ASSUME AccountsInv, NEW b \in Browsers, NEW e \in Emails, NEW o \in Organizations,
         CreateOrganization(b, e, o)
  PROVE  AccountsInv'
  <1> DEFINE row == [role |-> "OWNER", status |-> "ACTIVE"]
  <1>1. row \in Memberships /\ row # NoMember /\ row.role = "OWNER" /\ row.status = "ACTIVE"
    BY DEF Memberships, NoMember
  <1>2. /\ member' = [member EXCEPT ![o][e] = row]
        /\ \A f \in Emails : member[o][f] = NoMember
        /\ UNCHANGED <<account, link, request, session>> /\ arrived' = arrived
    BY DEF CreateOrganization, mailVars
  <1> HIDE DEF row
  <1>3. /\ member' \in [Organizations -> [Emails -> Memberships \union {NoMember}]]
        /\ member'[o][e] = row
        /\ \A q \in Organizations, f \in Emails : q # o \/ f # e => member'[q][f] = member[q][f]
    BY <1>1, <1>2, ChangedMember, ZenonT(30) DEF AccountsInv
  <1>4. TypeOK'
    BY <1>2, <1>3 DEF AccountsInv, TypeOK
  <1>5. NoMember.role # "OWNER"
    BY DEF NoMember
  <1>6. \A q \in Organizations : OneOwner(q)'
    <2> TAKE q \in Organizations
    <2>1. CASE q = o
      BY <1>1, <1>2, <1>3, <1>5, <2>1 DEF OneOwner, IsOwner
    <2>2. CASE q # o
      BY <1>3, <2>2 DEF AccountsInv, OneOwner, IsOwner
    <2> QED BY <2>1, <2>2
  <1>7. \A q \in Organizations, f \in Emails :
            /\ IsOwner(q, f)' => IsOwner(q, f) \/ \A g \in Emails : member[q][g] = NoMember
            /\ member[q][f] # NoMember => member'[q][f] # NoMember
    BY <1>1, <1>2, <1>3 DEF IsOwner
  <1>8. \A c \in Browsers : Completes(c)'
    BY <1>2, CompletionsKept
  <1> QED BY <1>2, <1>4, <1>6, <1>7, <1>8, InvitationsStay DEF AccountsInv

LEMMA InviteStep ==
  ASSUME AccountsInv, NEW b \in Browsers, NEW e \in Emails, NEW f \in Emails,
         NEW o \in Organizations, NEW role \in Invitable, NEW t \in Mails,
         Invite(b, e, o, f, role, t)
  PROVE  AccountsInv'
  <1> DEFINE new == [kind |-> "invitation", email |-> f, org |-> o, role |-> role, state |-> "live"]
             revoked(l) == OfKind(link[l], "invitation", f) /\ link[l].org = o
  <1>1. /\ new \in Invitations
        /\ new.kind = "invitation" /\ new.email = f /\ new.org = o
    BY DEF Invitations
  <1>2. /\ link' = [l \in Mails |-> IF l = t THEN new
                                    ELSE IF revoked(l) THEN Dead(link[l]) ELSE link[l]]
        /\ link[t] = Unused /\ Active(o, e)
        /\ member[o][f] = NoMember \/ member[o][f].status = "REMOVED"
        /\ request' = [request EXCEPT ![b] = [step |-> "mail", link |-> t]]
        /\ UNCHANGED <<account, member, session>> /\ arrived' = arrived
    BY DEF Invite, Proceeds, MayInvite, mailVars
  <1> HIDE DEF new, revoked
  <1>3. \A l \in Mails : l # t => link'[l] \in {link[l], Dead(link[l])}
    BY <1>2
  <1>4. link'[t] = new
    BY <1>2
  <1>5. \A l \in Mails : link[l] \in LinkRows
    BY DEF AccountsInv, TypeOK, LinkRows
  <1>6. \A l \in Mails : link'[l] \in LinkRows
    BY <1>1, <1>3, <1>4, <1>5, DeadRow DEF LinkRows
  <1>7. link' \in [Mails -> LinkRows]
    <2>1. link' = [l \in Mails |-> link'[l]]
      BY <1>2
    <2>2. [l \in Mails |-> link'[l]] \in [Mails -> LinkRows]
      BY <1>6
    <2> QED BY <2>1, <2>2
  <1>8. request' \in [Browsers -> Requests \union {Quiet}]
    BY <1>2, NewRequests DEF AccountsInv, TypeOK
  <1>9. TypeOK'
    BY <1>2, <1>7, <1>8 DEF AccountsInv, TypeOK, LinkRows
  <1>10. \A l \in Mails : link[l].kind = "verify" => link'[l].kind = "verify"
    BY <1>2, <1>3, <1>5, DeadRow DEF Unused
  <1>11. \A c \in Browsers : request'[c] = request[c] \/ request'[c].step # "complete"
    BY <1>2 DEF AccountsInv, TypeOK
  <1>12. \A c \in Browsers : Completes(c)'
    BY <1>2, <1>10, <1>11, CompletionsKept
  <1>13. ~IsOwner(o, f)
    <2>1. IsOwner(o, f) => member[o][f].status = "ACTIVE"
      BY DEF AccountsInv, OneOwner
    <2> QED BY <1>2, <2>1 DEF IsOwner, NoMember
  <1>14. member[o][e] # NoMember
    BY <1>2 DEF Active, NoMember
  <1>15. \A l \in Mails : InvitesOthers(l)'
    <2> SUFFICES ASSUME NEW l \in Mails, link'[l].kind = "invitation"
                 PROVE  /\ ~IsOwner(link'[l].org, link'[l].email)
                        /\ \E g \in Emails : member[link'[l].org][g] # NoMember
      BY <1>2 DEF InvitesOthers, IsOwner
    <2>1. CASE l = t
      BY <1>1, <1>4, <1>13, <1>14, <2>1
    <2>2. CASE l # t
      <3>1. link[l].kind = "invitation" /\ link[l] # Unused
        BY <1>3, <1>5, <2>2, DeadRow DEF Unused
      <3>2. link'[l].org = link[l].org /\ link'[l].email = link[l].email
        BY <1>3, <1>5, <2>2, <3>1, DeadRow
      <3> QED BY <3>1, <3>2 DEF AccountsInv, InvitesOthers
    <2> QED BY <2>1, <2>2
  <1> QED BY <1>2, <1>9, <1>12, <1>15, OwnersKept DEF AccountsInv

LEMMA AcceptStep ==
  ASSUME AccountsInv, NEW b \in Browsers, NEW t \in Mails, AcceptInvitation(b, t)
  PROVE  AccountsInv'
  <1>1. link[t] \in Invitations /\ link[t].kind = "invitation"
    <2>1. link[t] \in LinkRows
      BY DEF AccountsInv, TypeOK, LinkRows
    <2> QED BY <2>1, LinkKinds DEF AcceptInvitation
  <1>2. PICK o \in Organizations, e \in Emails, role \in {"MANAGER", "HR"} :
              o = link[t].org /\ e = link[t].email /\ role = link[t].role
    BY <1>1, InvitableAssumption DEF Invitations
  <1> DEFINE row == [role |-> role, status |-> "ACTIVE"]
  <1>3. row \in Memberships /\ row # NoMember /\ row.role # "OWNER"
    BY DEF Memberships, NoMember
  <1>4. /\ member' = [member EXCEPT ![o][e] = row]
        /\ link' = [link EXCEPT ![t] = Dead(@)]
        /\ UNCHANGED <<account, request, session>> /\ arrived' = arrived
    BY <1>2 DEF AcceptInvitation, mailVars
  <1>5. ~IsOwner(o, e) /\ \E f \in Emails : member[o][f] # NoMember
    BY <1>1, <1>2 DEF AccountsInv, InvitesOthers
  <1> HIDE DEF row
  <1>6. /\ member' \in [Organizations -> [Emails -> Memberships \union {NoMember}]]
        /\ member'[o][e] = row
        /\ \A q \in Organizations, f \in Emails : q # o \/ f # e => member'[q][f] = member[q][f]
    <2>1. TypeOK /\ member' = [member EXCEPT ![o][e] = row] /\ row \in Memberships \union {NoMember}
      BY <1>3, <1>4 DEF AccountsInv
    <2> QED BY <2>1, ChangedMember, ZenonT(30)
  <1>7. /\ \A l \in Mails : link'[l] \in {link[l], Dead(link[l])}
        /\ link' = [l \in Mails |-> link'[l]]
    BY <1>4 DEF AccountsInv, TypeOK
  <1>8. /\ link' \in [Mails -> LinkRows]
        /\ \A m \in Mails : link[m].kind = "verify" => link'[m].kind = "verify"
    BY <1>7, LinksDie
  <1>9. TypeOK'
    BY <1>4, <1>6, <1>8 DEF AccountsInv, TypeOK, LinkRows
  <1>10. \A q \in Organizations, f \in Emails :
            /\ IsOwner(q, f)' <=> IsOwner(q, f)
            /\ IsOwner(q, f) => member'[q][f] = member[q][f]
            /\ member[q][f] # NoMember => member'[q][f] # NoMember
    BY <1>3, <1>5, <1>6 DEF IsOwner
  <1>11. \A q \in Organizations : OneOwner(q)'
    <2> TAKE q \in Organizations
    <2>1. /\ \A f, g \in Emails : IsOwner(q, f) /\ IsOwner(q, g) => f = g
          /\ \A f \in Emails : IsOwner(q, f) => member[q][f].status = "ACTIVE"
          /\ \A f \in Emails : member[q][f] # NoMember => \E g \in Emails : IsOwner(q, g)
      BY DEF AccountsInv, OneOwner
    <2>2. \A f, g \in Emails : IsOwner(q, f)' /\ IsOwner(q, g)' => f = g
      BY <1>10, <2>1
    <2>3. \A f \in Emails : IsOwner(q, f)' => member'[q][f].status = "ACTIVE"
      BY <1>10, <2>1
    <2>4. ASSUME NEW f \in Emails, member'[q][f] # NoMember
          PROVE  \E g \in Emails : IsOwner(q, g)'
      <3>1. \E g \in Emails : member[q][g] # NoMember
        <4>1. CASE q = o /\ f = e
          BY <1>5, <4>1
        <4>2. CASE ~(q = o /\ f = e)
          BY <1>6, <2>4, <4>2
        <4> QED BY <4>1, <4>2
      <3> QED BY <1>10, <2>1, <3>1
    <2> QED BY <2>2, <2>3, <2>4 DEF OneOwner
  <1>12. \A l \in Mails : InvitesOthers(l)'
    <2> SUFFICES ASSUME NEW l \in Mails, link'[l].kind = "invitation"
                 PROVE  InvitesOthers(l)'
      BY DEF InvitesOthers
    <2>1. link[l] \in LinkRows
      BY DEF AccountsInv, TypeOK, LinkRows
    <2>2. link[l].kind = "invitation" /\ link[l] # Unused
      BY <1>7, <2>1, DeadRow DEF Unused
    <2>3. link'[l].org = link[l].org /\ link'[l].email = link[l].email
      BY <1>7, <2>1, <2>2, DeadRow
    <2>4. link[l].org \in Organizations /\ link[l].email \in Emails
      BY <2>1, <2>2, LinkKinds DEF Invitations
    <2>5. ~IsOwner(link[l].org, link[l].email) /\ \E g \in Emails : member[link[l].org][g] # NoMember
      BY <2>2 DEF AccountsInv, InvitesOthers
    <2>6. \E g \in Emails : member'[link[l].org][g] # NoMember
      BY <1>10, <2>4, <2>5
    <2>7. member'[link[l].org][link[l].email].role # "OWNER"
      BY <1>10, <2>4, <2>5 DEF IsOwner
    <2> QED BY <2>3, <2>6, <2>7 DEF InvitesOthers, IsOwner
  <1>13. \A c \in Browsers : Completes(c)'
    BY <1>4, <1>8, CompletionsKept
  <1> QED BY <1>9, <1>11, <1>12, <1>13 DEF AccountsInv

\* An owner is the only one, so nobody manages him.
LEMMA OwnerIsOnly ==
  ASSUME AccountsInv, NEW o \in Organizations, NEW f \in Emails, IsOwner(o, f)
  PROVE  OnlyOwner(o, f)
  <1>1. {g \in Emails : member[o][g].role = "OWNER" /\ Active(o, g)} = {f}
    BY DEF AccountsInv, OneOwner, IsOwner, Active
  <1> QED BY <1>1, FS_Singleton DEF OnlyOwner, IsOwner

LEMMA ManageStep ==
  ASSUME AccountsInv, NEW b \in Browsers, NEW e \in Emails, NEW f \in Emails,
         NEW o \in Organizations, NEW s \in {"ACTIVE", "SUSPENDED", "REMOVED"},
         ManageMember(b, e, o, f, s)
  PROVE  AccountsInv'
  <1> DEFINE row == [member[o][f] EXCEPT !.status = s]
  <1>1. ~IsOwner(o, f)
    BY OwnerIsOnly DEF ManageMember
  <1>2. member[o][f] \in Memberships
    BY MemberRows DEF ManageMember, MayManage, AccountsInv, TypeOK
  <1>3. row \in Memberships /\ row.role # "OWNER" /\ row # NoMember
    BY <1>1, <1>2 DEF Memberships, IsOwner, NoMember
  <1>4. /\ member' = [member EXCEPT ![o][f] = row]
        /\ UNCHANGED <<account, link, request>> /\ arrived' = arrived
    BY DEF ManageMember, mailVars, AccountsInv, TypeOK
  <1> HIDE DEF row
  <1>5. /\ member' \in [Organizations -> [Emails -> Memberships \union {NoMember}]]
        /\ member'[o][f] = row
        /\ \A q \in Organizations, g \in Emails : q # o \/ g # f => member'[q][g] = member[q][g]
    BY <1>3, <1>4, ChangedMember, ZenonT(30) DEF AccountsInv
  <1>6. session' \in [Browsers -> [live : {TRUE}, email : Emails] \union {Nobody}]
    BY SessionsEnded DEF ManageMember, AccountsInv, TypeOK
  <1>7. TypeOK'
    BY <1>4, <1>5, <1>6 DEF AccountsInv, TypeOK
  <1>8. member[o][f] # NoMember
    BY DEF ManageMember, MayManage
  <1>9. \A q \in Organizations, g \in Emails :
            /\ IsOwner(q, g)' <=> IsOwner(q, g)
            /\ IsOwner(q, g) => member'[q][g] = member[q][g]
            /\ member[q][g] # NoMember <=> member'[q][g] # NoMember
    BY <1>1, <1>3, <1>5, <1>8 DEF IsOwner
  <1>10. \A q \in Organizations : OneOwner(q)'
    <2> TAKE q \in Organizations
    <2>1. /\ \A g, h \in Emails : IsOwner(q, g) /\ IsOwner(q, h) => g = h
          /\ \A g \in Emails : IsOwner(q, g) => member[q][g].status = "ACTIVE"
          /\ \A g \in Emails : member[q][g] # NoMember => \E h \in Emails : IsOwner(q, h)
      BY DEF AccountsInv, OneOwner
    <2> QED BY <1>9, <2>1 DEF OneOwner
  <1>11. \A t \in Mails : InvitesOthers(t)'
    BY <1>4, <1>9, InvitationsStay
  <1>12. \A c \in Browsers : Completes(c)'
    BY <1>4, CompletionsKept
  <1> QED BY <1>7, <1>10, <1>11, <1>12 DEF AccountsInv

-----------------------------------------------------------------------------
(* The invariant and what follows from it *)

LEMMA AccountsStart == WorkspaceInit => AccountsInv
  <1> SUFFICES ASSUME Init PROVE AccountsInv
    BY DEF WorkspaceInit
  <1>1. TypeOK
    BY DEF Init, TypeOK, Accts
  <1>2. \A o \in Organizations : OneOwner(o)
    BY DEF Init, OneOwner, IsOwner, NoMember
  <1>3. \A t \in Mails : InvitesOthers(t)
    BY DEF Init, InvitesOthers, Unused
  <1>4. \A b \in Browsers : Completes(b)
    BY DEF Init, Completes, Quiet
  <1> QED BY <1>1, <1>2, <1>3, <1>4 DEF AccountsInv

LEMMA AccountsStutter ==
  AccountsInv /\ UNCHANGED vars => AccountsInv'
  <1> SUFFICES ASSUME AccountsInv, UNCHANGED vars PROVE AccountsInv'
    OBVIOUS
  <1>1. TypeOK'
    BY DEF AccountsInv, TypeOK, vars
  <1> QED BY <1>1, OtherwiseKept DEF vars, mailVars

LEMMA AccountsStep ==
  AccountsInv /\ [WorkspaceNext]_<<vars, walletVars>> => AccountsInv'
  <1> SUFFICES ASSUME AccountsInv, Next PROVE AccountsInv'
    BY AccountsStutter DEF WorkspaceNext
  <1>1. ASSUME NEW b \in Browsers, NEW e \in Emails, NEW p \in Passwords,
               Signup(b, e, p) \/ Login(b, e, p)
        PROVE  AccountsInv'
    BY <1>1, SignupStep, LoginStep
  <1>2. ASSUME NEW b \in Browsers, NEW t \in Mails,
               \/ CreateSignupToken(b, t)
               \/ AcceptInvitation(b, t)
               \/ \E p \in Passwords : VerifyEmail(b, t, p)
        PROVE  AccountsInv'
    BY <1>2, TokenStep, AcceptStep, VerifyStep
  <1>3. ASSUME NEW b \in Browsers,
               \/ DispatchLink(b) \/ CompleteSignup(b) \/ CreateSession(b)
               \/ SessionEnds(b) \/ Crash(b)
        PROVE  AccountsInv'
    BY <1>3, DispatchStep, CompleteStep, SessionStep, SessionEndStep, CrashStep
  <1>4. ASSUME NEW b \in Browsers, NEW e \in Emails, UpsertGoogleUser(b, e)
        PROVE  AccountsInv'
    BY <1>4, GoogleStep
  <1>5. ASSUME NEW e \in Emails, NEW t \in Mails, RequestPasswordReset(e, t)
        PROVE  AccountsInv'
    BY <1>5, ResetRequestStep
  <1>6. ASSUME NEW t \in Mails, NEW p \in Passwords, ResetPassword(t, p)
        PROVE  AccountsInv'
    BY <1>6, ResetStep
  <1>7. ASSUME NEW t \in Mails, LinkExpires(t) \/ MailArrives(t)
        PROVE  AccountsInv'
    BY <1>7, ExpiryStep, ArrivalStep
  <1>8. ASSUME NEW b \in Browsers, NEW e \in Emails, NEW f \in Emails, NEW o \in Organizations,
               \/ CreateOrganization(b, e, o)
               \/ \E role \in Invitable, t \in Mails : Invite(b, e, o, f, role, t)
               \/ \E s \in {"ACTIVE", "SUSPENDED", "REMOVED"} : ManageMember(b, e, o, f, s)
        PROVE  AccountsInv'
    BY <1>8, FoundStep, InviteStep, ManageStep
  <1> QED BY <1>1, <1>2, <1>3, <1>4, <1>5, <1>6, <1>7, <1>8 DEF Next

\* The invariant behind the theorems: every organization has one owner, whom no
\* invitation that is out is addressed to, and sign-ups are completed by links
\* that have arrived. With it, what every variable of Accounts holds.
THEOREM AccountsInvariance == WorkspaceSpec => []AccountsInv
  BY AccountsStart, AccountsStep, PTL DEF WorkspaceSpec

LEMMA AccountsInvImplies == AccountsInv => OwnerStays
  <1> SUFFICES ASSUME AccountsInv, NEW o \in Organizations, NEW f \in Emails, member[o][f] # NoMember
               PROVE  \E e \in Emails : member[o][e] = [role |-> "OWNER", status |-> "ACTIVE"]
    BY DEF OwnerStays
  <1>1. PICK e \in Emails : IsOwner(o, e)
    BY DEF AccountsInv, OneOwner
  <1>2. member[o][e].role = "OWNER" /\ member[o][e].status = "ACTIVE"
    BY <1>1 DEF AccountsInv, OneOwner, IsOwner
  <1>3. member[o][e] \in Memberships
    BY <1>2, MemberRows DEF AccountsInv, TypeOK
  <1> QED BY <1>2, <1>3 DEF Memberships

\* No sequence of invitations, acceptances, suspensions and removals takes an
\* organization's owner away (MembersService.manage).
THEOREM OwnersStay == WorkspaceSpec => []OwnerStays
  BY AccountsInvariance, AccountsInvImplies, PTL

-----------------------------------------------------------------------------
(* Passwords *)

ByLink(e) ==
    \E t \in arrived :
        /\ Live(t) /\ link[t].email = e /\ link'[t].state = "dead"
        /\ \/ link[t].kind = "verify" /\ ~account[e].verified
              /\ account'[e].password = link[t].password
           \/ link[t].kind = "reset"

Keeps == \A e \in Emails : account'[e].password = account[e].password

LEMMA SignupSpendsLink ==
  ASSUME AccountsInv, NEW b \in Browsers, CompleteSignup(b), NEW e \in Emails,
         account'[e].password # account[e].password
  PROVE  ByLink(e)
  <1> DEFINE t == request[b].link
  <1>1. t \in Mails /\ t \in arrived /\ link[t] \in Links /\ link[t].kind = "verify"
    BY CompletedLink DEF CompleteSignup
  <1>2. Live(t) /\ ~account[link[t].email].verified
    BY DEF CompleteSignup
  <1>3. /\ account' = [account EXCEPT ![link[t].email].password = link[t].password,
                                      ![link[t].email].verified = TRUE]
        /\ link' = [l \in Mails |-> IF OfKind(link[l], "verify", link[t].email)
                                    THEN Dead(link[l]) ELSE link[l]]
    BY <1>2 DEF CompleteSignup
  <1>4. account \in [Emails -> Accts]
    BY DEF AccountsInv, TypeOK
  <1>5. link[t].email = e
    BY <1>3, <1>4 DEF Accts
  <1>6. account'[e].password = link[t].password
    BY <1>3, <1>4, <1>5 DEF Accts
  <1>7. link[t] # Unused
    BY <1>2 DEF Live
  <1>8. link'[t].state = "dead"
    BY <1>1, <1>3, <1>7, DeadRow DEF OfKind, LinkRows
  <1> QED BY <1>1, <1>2, <1>5, <1>6, <1>8 DEF ByLink

LEMMA ResetSpendsLink ==
  ASSUME AccountsInv, NEW t \in Mails, NEW p \in Passwords, ResetPassword(t, p), NEW e \in Emails,
         account'[e].password # account[e].password
  PROVE  ByLink(e)
  <1>1. /\ t \in arrived /\ Live(t) /\ link[t].kind = "reset"
        /\ account' = [account EXCEPT ![link[t].email].password = p]
        /\ link' = [l \in Mails |-> IF OfKind(link[l], "reset", link[t].email)
                                    THEN Dead(link[l]) ELSE link[l]]
    BY DEF ResetPassword
  <1>2. account \in [Emails -> Accts] /\ link[t] \in LinkRows
    BY DEF AccountsInv, TypeOK, LinkRows
  <1>3. link[t].email = e
    BY <1>1, <1>2 DEF Accts
  <1>4. link[t] # Unused
    BY <1>1 DEF Live
  <1>5. link'[t].state = "dead"
    BY <1>1, <1>2, <1>4, DeadRow DEF OfKind
  <1> QED BY <1>1, <1>3, <1>5 DEF ByLink

LEMMA PasswordStep ==
  AccountsInv /\ [WorkspaceNext]_<<vars, walletVars>> =>
      [\A e \in Emails : account'[e].password # account[e].password => ByLink(e)]_vars
  <1> SUFFICES ASSUME AccountsInv, Next, NEW e \in Emails,
                      account'[e].password # account[e].password
               PROVE  ByLink(e)
    BY DEF WorkspaceNext, vars
  <1>1. account \in [Emails -> Accts]
    BY DEF AccountsInv, TypeOK
  <1>2. account' # account
    OBVIOUS
  <1>3. ASSUME NEW b \in Browsers, NEW f \in Emails, NEW p \in Passwords, Signup(b, f, p)
        PROVE  Keeps
    BY <1>1, <1>3 DEF Signup, Keeps, Accts
  <1>4. ASSUME NEW b \in Browsers, NEW f \in Emails, UpsertGoogleUser(b, f)
        PROVE  Keeps
    BY <1>1, <1>4 DEF UpsertGoogleUser, Keeps, Accts
  <1>5. ASSUME NEW b \in Browsers, CompleteSignup(b) PROVE ByLink(e)
    BY <1>5, SignupSpendsLink
  <1>6. ASSUME NEW t \in Mails, NEW p \in Passwords, ResetPassword(t, p) PROVE ByLink(e)
    BY <1>6, ResetSpendsLink
  <1>7. \/ \E b \in Browsers, f \in Emails, p \in Passwords : Signup(b, f, p)
        \/ \E b \in Browsers, f \in Emails : UpsertGoogleUser(b, f)
        \/ \E b \in Browsers : CompleteSignup(b)
        \/ \E t \in Mails, p \in Passwords : ResetPassword(t, p)
    <2>1. ASSUME NEW b \in Browsers, NEW f \in Emails, NEW p \in Passwords, Login(b, f, p)
          PROVE  FALSE
      BY <1>2, <2>1 DEF Login
    <2>2. ASSUME NEW b \in Browsers, NEW t \in Mails,
                 \/ CreateSignupToken(b, t) \/ AcceptInvitation(b, t)
                 \/ \E p \in Passwords : VerifyEmail(b, t, p)
          PROVE  FALSE
      BY <1>2, <2>2 DEF CreateSignupToken, AcceptInvitation, VerifyEmail
    <2>3. ASSUME NEW b \in Browsers,
                 DispatchLink(b) \/ CreateSession(b) \/ SessionEnds(b) \/ Crash(b)
          PROVE  FALSE
      BY <1>2, <2>3 DEF DispatchLink, CreateSession, SessionEnds, Crash
    <2>4. ASSUME NEW f \in Emails, NEW t \in Mails, RequestPasswordReset(f, t)
          PROVE  FALSE
      BY <1>2, <2>4 DEF RequestPasswordReset
    <2>5. ASSUME NEW t \in Mails, LinkExpires(t) \/ MailArrives(t)
          PROVE  FALSE
      BY <1>2, <2>5 DEF LinkExpires, MailArrives, acctVars
    <2>6. ASSUME NEW b \in Browsers, NEW f \in Emails, NEW g \in Emails, NEW o \in Organizations,
                 \/ CreateOrganization(b, f, o)
                 \/ \E role \in Invitable, t \in Mails : Invite(b, f, o, g, role, t)
                 \/ \E s \in {"ACTIVE", "SUSPENDED", "REMOVED"} : ManageMember(b, f, o, g, s)
          PROVE  FALSE
      BY <1>2, <2>6 DEF CreateOrganization, Invite, ManageMember
    <2> QED BY <2>1, <2>2, <2>3, <2>4, <2>5, <2>6 DEF Next
  <1> QED BY <1>3, <1>4, <1>5, <1>6, <1>7 DEF Keeps

\* A password changes only by a live link that reached its mailbox and is spent by
\* the change, whatever requests, deliveries and crashes come between the calls
\* (authenti8_complete_signup, authenti8_reset_password).
THEOREM PasswordsNeedLinks == WorkspaceSpec => PasswordNeedsLink
  BY AccountsInvariance, PasswordStep, PTL DEF WorkspaceSpec, PasswordNeedsLink, ByLink

-----------------------------------------------------------------------------
(* Wallets: the inductive invariant *)

\* The entries of a meeting carry versions its reservation has had: none later than
\* the present one, which is returned only by a release and given away only by a
\* reassignment that starts another.
Keyed(i) ==
    \A e \in ledger : e.meeting = i =>
        /\ e.version <= reservation[i].version
        /\ e.kind = "released" /\ e.version = reservation[i].version => reservation[i].status = "RELEASED"
        /\ e.kind = "movedFrom" => e.version < reservation[i].version

\* A reserved credit is its responsible member's, and whoever is responsible or has
\* paid has joined: his role is settled.
Held(i) ==
    /\ Reserved(i) => reservation[i].member = responsible[i]
    /\ membership[responsible[i]].role # "none"
    /\ membership[reservation[i].member].role # "none"

\* What a reassignment has read still holds when it writes.
MovesAsRead(i) ==
    ~Unlocked(i) =>
        /\ membership[moving[i].to].role # "none"
        /\ moving[i].paid <=> Reserved(i) /\ IsHR(responsible[i])
        /\ moving[i].pays <=> Reserved(i) /\ IsHR(moving[i].to)
        /\ Reserved(i) => reservation[i].version < MaxVersion

\* Who has no role has never been a member.
Joined(m) == membership[m].role = "none" => membership[m].status = "none"

WalletInv ==
    /\ WalletTypeOK
    /\ IsFiniteSet(ledger)
    /\ \A i \in Meetings : Keyed(i) /\ Held(i) /\ MovesAsRead(i)
    /\ \A m \in Members : Joined(m)
    /\ WalletsBalance

-----------------------------------------------------------------------------
(* Wallets: sums and counts *)

LEMMA SumAdds ==
  ASSUME NEW L \in SUBSET Entries, IsFiniteSet(L), NEW e \in Entries, e \notin L
  PROVE  /\ IsFiniteSet(L \union {e})
         /\ Sum(L) \in Int
         /\ Sum(L \union {e}) = Sum(L) + e.amount
  <1> DEFINE given == {d \in L : d.amount = 1}
             taken == {d \in L : d.amount = -1}
  <1>1. IsFiniteSet(given) /\ IsFiniteSet(taken) /\ e \notin given /\ e \notin taken
    BY FS_Subset
  <1>2. IsFiniteSet(L \union {e})
    BY FS_AddElement
  <1>3. {d \in L \union {e} : d.amount = 1} = IF e.amount = 1 THEN given \union {e} ELSE given
    OBVIOUS
  <1>4. {d \in L \union {e} : d.amount = -1} = IF e.amount = -1 THEN taken \union {e} ELSE taken
    OBVIOUS
  <1>5. Sum(L) = Cardinality(given) - Cardinality(taken)
    BY DEF Sum
  <1>6. Sum(L \union {e}) = Cardinality(IF e.amount = 1 THEN given \union {e} ELSE given)
                            - Cardinality(IF e.amount = -1 THEN taken \union {e} ELSE taken)
    BY <1>3, <1>4 DEF Sum
  <1> HIDE DEF given, taken
  <1>7. Cardinality(given) \in Nat /\ Cardinality(taken) \in Nat
    BY <1>1, FS_CardinalityType
  <1>8. /\ Cardinality(given \union {e}) = Cardinality(given) + 1
        /\ Cardinality(taken \union {e}) = Cardinality(taken) + 1
    BY <1>1, FS_AddElement
  <1>9. e.amount = 1 \/ e.amount = -1
    BY DEF Entries
  <1>10. Sum(L) \in Int
    BY <1>5, <1>7
  <1>11. CASE e.amount = 1
    <2>1. Sum(L \union {e}) = Cardinality(given \union {e}) - Cardinality(taken)
      BY <1>6, <1>11
    <2> QED BY <1>2, <1>5, <1>7, <1>8, <1>10, <1>11, <2>1
  <1>12. CASE e.amount = -1
    <2>1. Sum(L \union {e}) = Cardinality(given) - Cardinality(taken \union {e})
      BY <1>6, <1>12
    <2> QED BY <1>2, <1>5, <1>7, <1>8, <1>10, <1>12, <2>1
  <1> QED BY <1>9, <1>11, <1>12

\* What an entry does to the wallets of the members.
TakenBy(es, m) == Sum({d \in es : d.member = m})

LEMMA EntryCounts ==
  ASSUME NEW L \in SUBSET Entries, IsFiniteSet(L), NEW e \in Entries, e \notin L
  PROVE  /\ IsFiniteSet(L \union {e})
         /\ \A m \in Members : /\ TakenBy(L, m) \in Int
                               /\ TakenBy(L \union {e}, m)
                                    = IF e.member = m THEN TakenBy(L, m) + e.amount ELSE TakenBy(L, m)
  <1>1. IsFiniteSet(L \union {e})
    BY FS_AddElement
  <1> SUFFICES ASSUME NEW m \in Members
               PROVE  /\ TakenBy(L, m) \in Int
                      /\ TakenBy(L \union {e}, m)
                           = IF e.member = m THEN TakenBy(L, m) + e.amount ELSE TakenBy(L, m)
    BY <1>1
  <1> DEFINE mine == {d \in L : d.member = m}
  <1>2. IsFiniteSet(mine) /\ mine \in SUBSET Entries /\ e \notin mine
    BY FS_Subset
  <1>3. {d \in L \union {e} : d.member = m} = IF e.member = m THEN mine \union {e} ELSE mine
    OBVIOUS
  <1>4. TakenBy(L, m) = Sum(mine)
    BY DEF TakenBy
  <1>5. TakenBy(L \union {e}, m) = IF e.member = m THEN Sum(mine \union {e}) ELSE Sum(mine)
    BY <1>3 DEF TakenBy
  <1> HIDE DEF mine
  <1> QED BY <1>2, <1>4, <1>5, SumAdds

\* A wallet counts the meetings of its member one by one.
LEMMA CountAt ==
  ASSUME NEW S, IsFiniteSet(S), NEW i
  PROVE  /\ Cardinality(S \ {i}) \in Nat
         /\ Cardinality(S) = IF i \in S THEN Cardinality(S \ {i}) + 1 ELSE Cardinality(S \ {i})
  <1>1. IsFiniteSet(S \ {i})
        /\ Cardinality(S \ {i}) = IF i \in S THEN Cardinality(S) - 1 ELSE Cardinality(S)
    BY FS_RemoveElement
  <1>2. Cardinality(S) \in Nat /\ Cardinality(S \ {i}) \in Nat
    BY <1>1, FS_CardinalityType
  <1> QED BY <1>1, <1>2

ChargedIn(r, m) == {i \in Meetings : r[i].member = m /\ r[i].status \in {"RESERVED", "CONSUMED"}}

Charges(row, m) == row.member = m /\ row.status \in {"RESERVED", "CONSUMED"}

LEMMA ChargedAt ==
  ASSUME NEW i \in Meetings, \A j \in Meetings \ {i} : reservation'[j] = reservation[j], NEW m \in Members
  PROVE  \E n \in Nat :
           /\ Cardinality(ChargedIn(reservation, m)) = IF Charges(reservation[i], m) THEN n + 1 ELSE n
           /\ Cardinality(ChargedIn(reservation', m)) = IF Charges(reservation'[i], m) THEN n + 1 ELSE n
  <1> DEFINE R == ChargedIn(reservation, m)
             S == ChargedIn(reservation', m)
  <1>1. IsFiniteSet(R) /\ IsFiniteSet(S)
    BY WalletAssumption, FS_Subset DEF ChargedIn
  <1>2. R \ {i} = S \ {i}
    BY DEF ChargedIn
  <1>3. (i \in R <=> Charges(reservation[i], m)) /\ (i \in S <=> Charges(reservation'[i], m))
    BY DEF ChargedIn, Charges
  <1> HIDE DEF R, S
  <1>4. /\ Cardinality(R \ {i}) \in Nat
        /\ Cardinality(R) = IF i \in R THEN Cardinality(R \ {i}) + 1 ELSE Cardinality(R \ {i})
        /\ Cardinality(S) = IF i \in S THEN Cardinality(R \ {i}) + 1 ELSE Cardinality(R \ {i})
    BY <1>1, <1>2, CountAt
  <1>5. Cardinality(ChargedIn(reservation, m)) = Cardinality(R)
        /\ Cardinality(ChargedIn(reservation', m)) = Cardinality(S)
    BY DEF R, S
  <1> QED BY <1>3, <1>4, <1>5

\* The balance, of any ledger, any reservations and any members.
Balanced(es, r, ms) ==
    \A m \in Members :
        TakenBy(es, m) = IF ms[m].role = "HR" THEN -Cardinality(ChargedIn(r, m)) ELSE 0

LEMMA BalanceOf == WalletsBalance <=> Balanced(ledger, reservation, membership)
  BY DEF WalletsBalance, Balanced, TakenBy, EntriesOf, Charged, ChargedIn, IsHR

\* Entries under new keys are all posted.
LEMMA NewKeys ==
  ASSUME NEW es, \A e \in es, d \in ledger : ~SameKey(d, e)
  PROVE  Posted(es) = ledger \union es
  BY DEF Posted

LEMMA EntryRow ==
  ASSUME NEW kind \in {"reserved", "released", "movedFrom", "movedTo"}, NEW i \in Meetings,
         NEW v \in 0..MaxVersion, NEW m \in Members, NEW amount \in {-1, 1}
  PROVE  /\ Entry(kind, i, v, m, amount) \in Entries
         /\ LET e == Entry(kind, i, v, m, amount)
            IN  e.kind = kind /\ e.meeting = i /\ e.version = v /\ e.member = m /\ e.amount = amount
  BY DEF Entry, Entries

LEMMA EntryFields ==
  ASSUME WalletTypeOK, NEW e \in ledger
  PROVE  /\ e.kind \in {"reserved", "released", "movedFrom", "movedTo"} /\ e.meeting \in Meetings
         /\ e.version \in 0..MaxVersion /\ e.version \in Nat /\ e.member \in Members
  <1>1. e \in Entries
    BY DEF WalletTypeOK
  <1>2. /\ e.kind \in {"reserved", "released", "movedFrom", "movedTo"} /\ e.meeting \in Meetings
        /\ e.version \in 0..MaxVersion /\ e.member \in Members
    BY <1>1 DEF Entries
  <1>3. e.version \in Nat
    <2>1. MaxVersion \in Nat
      BY WalletAssumption
    <2>2. e.version \in 0..MaxVersion
      BY <1>2
    <2> QED BY <2>1, <2>2
  <1> QED BY <1>2, <1>3

-----------------------------------------------------------------------------
(* Wallets: the steps *)

LEMMA WalletStart == WalletInit => WalletInv
  <1> SUFFICES ASSUME WalletInit PROVE WalletInv
    OBVIOUS
  <1>1. WalletTypeOK
    BY WalletAssumption DEF WalletInit, WalletTypeOK, Stored, Unmoved, NotAsked
  <1>2. IsFiniteSet(ledger)
    BY FS_EmptySet DEF WalletInit
  <1>3. \A i \in Meetings : Keyed(i) /\ Held(i) /\ MovesAsRead(i)
    BY WalletAssumption DEF WalletInit, Keyed, Held, MovesAsRead, Reserved, Unlocked
  <1>4. \A m \in Members : Joined(m)
    BY DEF WalletInit, Joined
  <1>5. ASSUME NEW m \in Members
        PROVE  TakenBy(ledger, m) = IF membership[m].role = "HR" THEN -Cardinality(ChargedIn(reservation, m)) ELSE 0
    <2>1. {d \in ledger : d.member = m} = {} /\ {d \in {} : d.amount = 1} = {} /\ {d \in {} : d.amount = -1} = {}
      BY DEF WalletInit
    <2>2. Cardinality({}) = 0
      BY FS_EmptySet
    <2>3. TakenBy(ledger, m) = 0
      BY <2>1, <2>2 DEF TakenBy, Sum
    <2>4. membership[m].role # "HR"
      BY DEF WalletInit
    <2> QED BY <2>3, <2>4
  <1>6. WalletsBalance
    BY <1>5, BalanceOf DEF Balanced
  <1> QED BY <1>1, <1>2, <1>3, <1>4, <1>6 DEF WalletInv

\* Without entries, reservations or new roles the wallets stay as they are.
LEMMA SameBalance ==
  ASSUME WalletInv, ledger' = ledger, reservation' = reservation,
         \A m \in Members : membership'[m].role = membership[m].role
  PROVE  IsFiniteSet(ledger)' /\ WalletsBalance'
  <1>1. Balanced(ledger, reservation, membership)
    BY BalanceOf DEF WalletInv
  <1>2. Balanced(ledger', reservation', membership')
    BY <1>1 DEF Balanced
  <1>3. WalletsBalance' <=> Balanced(ledger', reservation', membership')
    BY DEF WalletsBalance, Balanced, TakenBy, EntriesOf, Charged, ChargedIn, IsHR
  <1> QED BY <1>2, <1>3 DEF WalletInv

\* The invariants of one meeting speak of its entries, its rows and roles only.
LEMMA SameMeeting ==
  ASSUME WalletInv, NEW i \in Meetings, ledger' = ledger,
         responsible'[i] = responsible[i], reservation'[i] = reservation[i], moving'[i] = moving[i],
         \A m \in Members : membership[m].role # "none" => membership'[m].role = membership[m].role
  PROVE  Keyed(i)' /\ Held(i)' /\ MovesAsRead(i)'
  <1>1. Keyed(i) /\ Held(i) /\ MovesAsRead(i)
    BY DEF WalletInv
  <1>2. responsible[i] \in Members /\ reservation[i].member \in Members
        /\ (~Unlocked(i) => moving[i].to \in Members)
    BY DEF WalletInv, WalletTypeOK, Stored, Unlocked
  <1>3. Keyed(i)'
    BY <1>1 DEF Keyed
  <1>4. Held(i)'
    BY <1>1, <1>2 DEF Held, Reserved
  <1>5. MovesAsRead(i)'
    BY <1>1, <1>2 DEF MovesAsRead, Held, Reserved, Unlocked, IsHR
  <1> QED BY <1>3, <1>4, <1>5

LEMMA AdjustStep ==
  ASSUME WalletInv, NEW k \in Adjustments,
         \/ \E m \in Members, amount \in {-1, 1} : AskAdjustment(k, m, amount)
         \/ AdjustWallet(k)
  PROVE  WalletInv'
  <1>1. WalletTypeOK'
    <2>1. CASE \E m \in Members, amount \in {-1, 1} : AskAdjustment(k, m, amount)
      BY <2>1 DEF WalletInv, WalletTypeOK, AskAdjustment
    <2>2. CASE AdjustWallet(k)
      <3>1. adjustment[k] \in [member : Members, amount : {-1, 1}]
        BY <2>2 DEF AdjustWallet, WalletInv, WalletTypeOK
      <3>2. adjustment[k].member \in Members /\ adjustment[k].amount \in Int
        BY <3>1
      <3> QED BY <2>2, <3>2 DEF AdjustWallet, WalletInv, WalletTypeOK
    <2> QED BY <2>1, <2>2
  <1>2. UNCHANGED <<membership, ledger, responsible, reservation, moving>>
    BY DEF AskAdjustment, AdjustWallet
  <1>3. IsFiniteSet(ledger)' /\ WalletsBalance'
    BY <1>2, SameBalance
  <1>4. \A i \in Meetings : Keyed(i)' /\ Held(i)' /\ MovesAsRead(i)'
    BY <1>2, SameMeeting
  <1>5. \A m \in Members : Joined(m)'
    BY <1>2 DEF WalletInv, Joined
  <1> QED BY <1>1, <1>3, <1>4, <1>5 DEF WalletInv

LEMMA ReserveStep ==
  ASSUME WalletInv, NEW i \in Meetings, ReserveMeeting(i)
  PROVE  WalletInv'
  <1> DEFINE m == responsible[i]
             v == reservation[i].version + 1
             e == Entry("reserved", i, v, m, -1)
  <1>1. /\ Unlocked(i) /\ reservation[i].status \in {"none", "RELEASED"} /\ v <= MaxVersion
        /\ reservation' = [reservation EXCEPT ![i] = [status |-> "RESERVED", member |-> m, version |-> v]]
        /\ ledger' = IF IsHR(m) THEN Posted({e}) ELSE ledger
        /\ UNCHANGED <<membership, allocation, adjustment, responsible, moving>>
    BY DEF ReserveMeeting
  <1>2. /\ m \in Members /\ reservation[i] \in Stored /\ reservation \in [Meetings -> Stored]
        /\ ledger \in SUBSET Entries /\ IsFiniteSet(ledger)
    BY DEF WalletInv, WalletTypeOK
  <1>3. v \in 0..MaxVersion /\ reservation[i].version \in Nat /\ v = reservation[i].version + 1
    <2>1. reservation[i].version \in 0..MaxVersion /\ MaxVersion \in Nat
      BY <1>2, WalletAssumption DEF Stored
    <2> QED BY <1>1, <2>1
  <1> HIDE DEF m, v
  <1>4. e \in Entries /\ e.kind = "reserved" /\ e.meeting = i /\ e.version = v /\ e.member = m /\ e.amount = -1
    BY <1>2, <1>3 DEF Entry, Entries
  <1>r. /\ v \in Nat
        /\ reservation'[i] = [status |-> "RESERVED", member |-> m, version |-> v]
        /\ \A j \in Meetings \ {i} : reservation'[j] = reservation[j]
    BY <1>1, <1>2, <1>3
  <1> HIDE DEF e
  <1>5. \A d \in ledger : ~SameKey(d, e)
    <2>1. \A d \in ledger : d.meeting = i => d.version <= reservation[i].version /\ d.version \in Nat
      BY EntryFields DEF WalletInv, Keyed
    <2> QED BY <1>3, <1>4, <2>1 DEF SameKey
  <1>6. e \notin ledger
    BY <1>5 DEF SameKey
  <1>7. ledger' = IF IsHR(m) THEN ledger \union {e} ELSE ledger
    BY <1>1, <1>5, NewKeys
  <1>8. WalletTypeOK'
    <2>1. [status |-> "RESERVED", member |-> m, version |-> v] \in Stored
      BY <1>2, <1>3 DEF Stored
    <2>2. reservation' \in [Meetings -> Stored]
      BY <1>1, <1>2, <2>1
    <2>3. ledger' \subseteq Entries
      BY <1>2, <1>4, <1>7
    <2> QED BY <1>1, <2>2, <2>3 DEF WalletInv, WalletTypeOK
  <1>9. IsFiniteSet(ledger')
    BY <1>2, <1>7, FS_AddElement
  <1>10. ASSUME NEW j \in Meetings PROVE Keyed(j)' /\ Held(j)' /\ MovesAsRead(j)'
    <2>1. Keyed(j) /\ Held(j) /\ MovesAsRead(j) /\ Held(i)
      BY DEF WalletInv
    <2>2. Keyed(j)'
      <3> SUFFICES ASSUME NEW d \in ledger', d.meeting = j
                   PROVE  /\ d.version <= reservation'[j].version
                          /\ d.kind = "released" /\ d.version = reservation'[j].version
                               => reservation'[j].status = "RELEASED"
                          /\ d.kind = "movedFrom" => d.version < reservation'[j].version
        BY DEF Keyed
      <3>1. CASE d = e
        BY <1>3, <1>4, <1>r, <3>1
      <3>2. CASE d # e
        <4>1. d \in ledger /\ d.version \in Nat
          BY <1>7, <3>2, EntryFields DEF WalletInv
        <4>2. /\ d.version <= reservation[j].version
              /\ d.kind = "released" /\ d.version = reservation[j].version
                   => reservation[j].status = "RELEASED"
              /\ d.kind = "movedFrom" => d.version < reservation[j].version
          BY <2>1, <4>1 DEF Keyed
        <4>3. CASE j = i
          BY <1>3, <1>r, <4>1, <4>2, <4>3
        <4>4. CASE j # i
          BY <1>1, <1>2, <4>2, <4>4
        <4> QED BY <4>3, <4>4
      <3> QED BY <3>1, <3>2
    <2>3. Held(j)'
      BY <1>1, <1>2, <2>1 DEF Held, Reserved, m
    <2>4. MovesAsRead(j)'
      BY <1>1, <1>2, <2>1 DEF MovesAsRead, Unlocked, Reserved, IsHR
    <2> QED BY <2>2, <2>3, <2>4
  <1>11. \A n \in Members : Joined(n)'
    BY <1>1 DEF WalletInv, Joined
  <1>12. Balanced(ledger', reservation', membership)
    <2> SUFFICES ASSUME NEW n \in Members
                 PROVE  TakenBy(ledger', n)
                          = IF membership[n].role = "HR" THEN -Cardinality(ChargedIn(reservation', n)) ELSE 0
      BY DEF Balanced
    <2>1. TakenBy(ledger, n) = IF membership[n].role = "HR" THEN -Cardinality(ChargedIn(reservation, n)) ELSE 0
      BY BalanceOf DEF WalletInv, Balanced
    <2>2. /\ TakenBy(ledger, n) \in Int
          /\ TakenBy(ledger', n) = IF IsHR(m) /\ n = m THEN TakenBy(ledger, n) - 1 ELSE TakenBy(ledger, n)
      <3>1. e \in Entries /\ e.member = m /\ e.amount = -1
        BY <1>4
      <3>2. /\ TakenBy(ledger, n) \in Int
            /\ TakenBy(ledger \union {e}, n)
                 = IF e.member = n THEN TakenBy(ledger, n) + e.amount ELSE TakenBy(ledger, n)
        BY <1>2, <1>6, <3>1, EntryCounts
      <3>3. CASE IsHR(m)
        BY <1>7, <3>1, <3>2, <3>3
      <3>4. CASE ~IsHR(m)
        BY <1>7, <3>2, <3>4
      <3> QED BY <3>3, <3>4
    <2>3. PICK c \in Nat :
             /\ Cardinality(ChargedIn(reservation, n)) = IF Charges(reservation[i], n) THEN c + 1 ELSE c
             /\ Cardinality(ChargedIn(reservation', n)) = IF Charges(reservation'[i], n) THEN c + 1 ELSE c
      BY <1>r, ChargedAt
    <2>4. ~Charges(reservation[i], n) /\ (Charges(reservation'[i], n) <=> n = m)
      BY <1>1, <1>r DEF Charges
    <2>6. /\ Cardinality(ChargedIn(reservation, n)) = c
          /\ Cardinality(ChargedIn(reservation', n)) = IF n = m THEN c + 1 ELSE c
      BY <2>3, <2>4
    <2> QED BY <2>1, <2>2, <2>6 DEF IsHR
  <1>13. WalletsBalance'
    BY <1>1, <1>12 DEF WalletsBalance, Balanced, TakenBy, EntriesOf, Charged, ChargedIn, IsHR
  <1> QED BY <1>8, <1>9, <1>10, <1>11, <1>13 DEF WalletInv

LEMMA ReleaseStep ==
  ASSUME WalletInv, NEW i \in Meetings, ReleaseMeeting(i)
  PROVE  WalletInv'
  <1> DEFINE m == reservation[i].member
             v == reservation[i].version
             e == Entry("released", i, v, m, 1)
  <1>1. /\ Unlocked(i) /\ reservation[i].status = "RESERVED"
        /\ reservation' = [reservation EXCEPT ![i].status = "RELEASED"]
        /\ ledger' = IF IsHR(m) THEN Posted({e}) ELSE ledger
        /\ UNCHANGED <<membership, allocation, adjustment, responsible, moving>>
    BY DEF ReleaseMeeting, Returns, Reserved
  <1>2. /\ reservation[i] \in Stored /\ reservation \in [Meetings -> Stored]
        /\ ledger \in SUBSET Entries /\ IsFiniteSet(ledger)
    BY DEF WalletInv, WalletTypeOK
  <1>3. m \in Members /\ v \in 0..MaxVersion /\ v \in Nat
    <2>1. m \in Members /\ v \in 0..MaxVersion /\ MaxVersion \in Nat
      BY <1>2, WalletAssumption DEF Stored
    <2> QED BY <2>1
  <1>4. /\ reservation'[i] = [status |-> "RELEASED", member |-> m, version |-> v]
        /\ \A j \in Meetings \ {i} : reservation'[j] = reservation[j]
        /\ reservation[i].member = m /\ reservation[i].version = v
    BY <1>1, <1>2 DEF Stored
  <1> HIDE DEF m, v
  <1>5. e \in Entries /\ e.kind = "released" /\ e.meeting = i /\ e.version = v /\ e.member = m /\ e.amount = 1
    BY <1>3 DEF Entry, Entries
  <1> HIDE DEF e
  <1>6. \A d \in ledger : ~SameKey(d, e)
    BY <1>1, <1>4, <1>5 DEF WalletInv, Keyed, SameKey
  <1>7. e \notin ledger
    BY <1>6 DEF SameKey
  <1>8. ledger' = IF IsHR(m) THEN ledger \union {e} ELSE ledger
    BY <1>1, <1>6, NewKeys
  <1>9. WalletTypeOK'
    <2>1. [status |-> "RELEASED", member |-> m, version |-> v] \in Stored
      BY <1>3 DEF Stored
    <2>2. reservation' \in [Meetings -> Stored]
      BY <1>1, <1>2, <1>4, <2>1
    <2>3. ledger' \subseteq Entries
      BY <1>2, <1>5, <1>8
    <2> QED BY <1>1, <2>2, <2>3 DEF WalletInv, WalletTypeOK
  <1>10. IsFiniteSet(ledger')
    BY <1>2, <1>8, FS_AddElement
  <1>11. ASSUME NEW j \in Meetings PROVE Keyed(j)' /\ Held(j)' /\ MovesAsRead(j)'
    <2>1. Keyed(j) /\ Held(j) /\ MovesAsRead(j)
      BY DEF WalletInv
    <2>2. Keyed(j)'
      <3> SUFFICES ASSUME NEW d \in ledger', d.meeting = j
                   PROVE  /\ d.version <= reservation'[j].version
                          /\ d.kind = "released" /\ d.version = reservation'[j].version
                               => reservation'[j].status = "RELEASED"
                          /\ d.kind = "movedFrom" => d.version < reservation'[j].version
        BY DEF Keyed
      <3>1. CASE d = e
        BY <1>3, <1>4, <1>5, <3>1
      <3>2. CASE d # e
        <4>1. d \in ledger
          BY <1>8, <3>2
        <4>2. /\ d.version <= reservation[j].version
              /\ d.kind = "released" /\ d.version = reservation[j].version
                   => reservation[j].status = "RELEASED"
              /\ d.kind = "movedFrom" => d.version < reservation[j].version
          BY <2>1, <4>1 DEF Keyed
        <4> QED BY <1>4, <4>2
      <3> QED BY <3>1, <3>2
    <2>3. Held(j)'
      BY <1>1, <1>4, <2>1 DEF Held, Reserved
    <2>4. MovesAsRead(j)'
      BY <1>1, <1>4, <2>1 DEF MovesAsRead, Unlocked, Reserved, IsHR
    <2> QED BY <2>2, <2>3, <2>4
  <1>12. \A n \in Members : Joined(n)'
    BY <1>1 DEF WalletInv, Joined
  <1>13. Balanced(ledger', reservation', membership)
    <2> SUFFICES ASSUME NEW n \in Members
                 PROVE  TakenBy(ledger', n)
                          = IF membership[n].role = "HR" THEN -Cardinality(ChargedIn(reservation', n)) ELSE 0
      BY DEF Balanced
    <2>1. TakenBy(ledger, n) = IF membership[n].role = "HR" THEN -Cardinality(ChargedIn(reservation, n)) ELSE 0
      BY BalanceOf DEF WalletInv, Balanced
    <2>2. /\ TakenBy(ledger, n) \in Int
          /\ TakenBy(ledger', n) = IF IsHR(m) /\ n = m THEN TakenBy(ledger, n) + 1 ELSE TakenBy(ledger, n)
      <3>1. e \in Entries /\ e.member = m /\ e.amount = 1
        BY <1>5
      <3>2. /\ TakenBy(ledger, n) \in Int
            /\ TakenBy(ledger \union {e}, n)
                 = IF e.member = n THEN TakenBy(ledger, n) + e.amount ELSE TakenBy(ledger, n)
        BY <1>2, <1>7, <3>1, EntryCounts
      <3>3. CASE IsHR(m)
        BY <1>8, <3>1, <3>2, <3>3
      <3>4. CASE ~IsHR(m)
        BY <1>8, <3>2, <3>4
      <3> QED BY <3>3, <3>4
    <2>3. PICK c \in Nat :
             /\ Cardinality(ChargedIn(reservation, n)) = IF Charges(reservation[i], n) THEN c + 1 ELSE c
             /\ Cardinality(ChargedIn(reservation', n)) = IF Charges(reservation'[i], n) THEN c + 1 ELSE c
      BY <1>4, ChargedAt
    <2>4. (Charges(reservation[i], n) <=> n = m) /\ ~Charges(reservation'[i], n)
      BY <1>1, <1>4 DEF Charges
    <2>5. /\ Cardinality(ChargedIn(reservation, n)) = IF n = m THEN c + 1 ELSE c
          /\ Cardinality(ChargedIn(reservation', n)) = c
      BY <2>3, <2>4
    <2> QED BY <2>1, <2>2, <2>5 DEF IsHR
  <1>14. WalletsBalance'
    BY <1>1, <1>13 DEF WalletsBalance, Balanced, TakenBy, EntriesOf, Charged, ChargedIn, IsHR
  <1> QED BY <1>9, <1>10, <1>11, <1>12, <1>14 DEF WalletInv

LEMMA ConsumeStep ==
  ASSUME WalletInv, NEW i \in Meetings, ConsumeMeeting(i)
  PROVE  WalletInv'
  <1>1. /\ Unlocked(i) /\ reservation[i].status = "RESERVED"
        /\ reservation' = [reservation EXCEPT ![i].status = "CONSUMED"]
        /\ UNCHANGED <<membership, allocation, ledger, adjustment, responsible, moving>>
    BY DEF ConsumeMeeting, Reserved
  <1>2. /\ reservation[i] \in Stored /\ reservation \in [Meetings -> Stored]
    BY DEF WalletInv, WalletTypeOK
  <1>3. /\ reservation'[i] = [reservation[i] EXCEPT !.status = "CONSUMED"]
        /\ reservation'[i].member = reservation[i].member /\ reservation'[i].status = "CONSUMED"
        /\ reservation'[i].version = reservation[i].version
        /\ \A j \in Meetings \ {i} : reservation'[j] = reservation[j]
    BY <1>1, <1>2 DEF Stored
  <1>4. WalletTypeOK'
    <2>1. reservation'[i] \in Stored
      BY <1>2, <1>3 DEF Stored
    <2>2. reservation' \in [Meetings -> Stored]
      BY <1>1, <1>2, <1>3, <2>1
    <2> QED BY <1>1, <2>2 DEF WalletInv, WalletTypeOK
  <1>5. ASSUME NEW j \in Meetings PROVE Keyed(j)' /\ Held(j)' /\ MovesAsRead(j)'
    <2>1. Keyed(j) /\ Held(j) /\ MovesAsRead(j)
      BY DEF WalletInv
    <2>2. Keyed(j)'
      BY <1>1, <1>3, <2>1 DEF Keyed
    <2>3. Held(j)'
      BY <1>1, <1>3, <2>1 DEF Held, Reserved
    <2>4. MovesAsRead(j)'
      BY <1>1, <1>3, <2>1 DEF MovesAsRead, Unlocked, Reserved, IsHR
    <2> QED BY <2>2, <2>3, <2>4
  <1>6. \A n \in Members : Joined(n)'
    BY <1>1 DEF WalletInv, Joined
  <1>7. \A n \in Members : ChargedIn(reservation', n) = ChargedIn(reservation, n)
    BY <1>1, <1>3 DEF ChargedIn
  <1>8. Balanced(ledger, reservation', membership)
    BY <1>7, BalanceOf DEF WalletInv, Balanced
  <1>9. WalletsBalance'
    BY <1>1, <1>8 DEF WalletsBalance, Balanced, TakenBy, EntriesOf, Charged, ChargedIn, IsHR
  <1> QED BY <1>1, <1>4, <1>5, <1>6, <1>9 DEF WalletInv

LEMMA ReadStep ==
  ASSUME WalletInv, NEW i \in Meetings, NEW m \in Members, ReadForReassignment(i, m)
  PROVE  WalletInv'
  <1> DEFINE row == [to |-> m, paid |-> Reserved(i) /\ IsHR(responsible[i]), pays |-> Reserved(i) /\ IsHR(m)]
  <1>1. /\ Unlocked(i) /\ IsActive(m) /\ (Reserved(i) => reservation[i].version < MaxVersion)
        /\ moving' = [moving EXCEPT ![i] = row]
        /\ UNCHANGED <<membership, allocation, ledger, adjustment, responsible, reservation>>
    BY DEF ReadForReassignment
  <1>2. moving' \in [Meetings -> [to : Members, paid : BOOLEAN, pays : BOOLEAN] \union {Unmoved}]
    <2>1. row \in [to : Members, paid : BOOLEAN, pays : BOOLEAN]
      OBVIOUS
    <2> QED BY <1>1, <2>1 DEF WalletInv, WalletTypeOK
  <1>3. WalletTypeOK'
    BY <1>1, <1>2 DEF WalletInv, WalletTypeOK
  <1>4. IsFiniteSet(ledger)' /\ WalletsBalance'
    BY <1>1, SameBalance
  <1>5. ASSUME NEW j \in Meetings PROVE Keyed(j)' /\ Held(j)' /\ MovesAsRead(j)'
    <2>1. CASE j # i
      <3>1. moving'[j] = moving[j]
        BY <1>1, <2>1 DEF WalletInv, WalletTypeOK
      <3> QED BY <1>1, <3>1, SameMeeting
    <2>2. CASE j = i
      <3>1. moving'[i] = row
        BY <1>1 DEF WalletInv, WalletTypeOK
      <3>2. Keyed(i) /\ Held(i)
        BY DEF WalletInv
      <3>3. Keyed(i)' /\ Held(i)'
        BY <1>1, <3>2 DEF Keyed, Held, Reserved
      <3>4. membership[m].role # "none"
        BY <1>1 DEF WalletInv, Joined, IsActive
      <3>5. /\ moving'[i].to = m
            /\ moving'[i].paid <=> Reserved(i) /\ IsHR(responsible[i])
            /\ moving'[i].pays <=> Reserved(i) /\ IsHR(m)
        <4> DEFINE paid == Reserved(i) /\ IsHR(responsible[i])
                   pays == Reserved(i) /\ IsHR(m)
        <4>1. moving'[i] = [to |-> m, paid |-> paid, pays |-> pays]
          BY <3>1
        <4> HIDE DEF paid, pays
        <4>2. moving'[i].to = m /\ moving'[i].paid = paid /\ moving'[i].pays = pays
          BY <4>1
        <4>3. (paid <=> Reserved(i) /\ IsHR(responsible[i])) /\ (pays <=> Reserved(i) /\ IsHR(m))
          BY DEF paid, pays
        <4> QED BY <4>2, <4>3
      <3>6. (Reserved(i) <=> Reserved(i)') /\ (IsHR(responsible[i]) <=> IsHR(responsible[i])')
            /\ (IsHR(m) <=> IsHR(moving[i].to)')
        BY <1>1, <3>5 DEF Reserved, IsHR
      <3>7. MovesAsRead(i)'
        BY <1>1, <3>4, <3>5, <3>6 DEF MovesAsRead
      <3> QED BY <2>2, <3>3, <3>7
    <2> QED BY <2>1, <2>2
  <1>6. \A n \in Members : Joined(n)'
    BY <1>1 DEF WalletInv, Joined
  <1> QED BY <1>3, <1>4, <1>5, <1>6 DEF WalletInv

\* A meeting that has nothing reserved changes hands without a posting.
LEMMA ReassignFreeStep ==
  ASSUME WalletInv, NEW i \in Meetings, Reassign(i), ~Reserved(i)
  PROVE  WalletInv'
  <1>1. /\ ~Unlocked(i)
        /\ responsible' = [responsible EXCEPT ![i] = moving[i].to]
        /\ reservation' = reservation
        /\ moving' = [moving EXCEPT ![i] = Unmoved]
        /\ UNCHANGED <<membership, allocation, adjustment>>
    BY DEF Reassign
  <1>2. ~moving[i].paid /\ ~moving[i].pays /\ membership[moving[i].to].role # "none"
    BY <1>1 DEF WalletInv, MovesAsRead
  <1>3. ledger' = ledger
    BY <1>2 DEF Reassign, Posted
  <1>4. moving[i].to \in Members
    BY <1>1 DEF WalletInv, WalletTypeOK, Unlocked
  <1>5. WalletTypeOK'
    BY <1>1, <1>3, <1>4 DEF WalletInv, WalletTypeOK
  <1>6. IsFiniteSet(ledger)' /\ WalletsBalance'
    BY <1>1, <1>3, SameBalance
  <1>7. ASSUME NEW j \in Meetings PROVE Keyed(j)' /\ Held(j)' /\ MovesAsRead(j)'
    <2>1. CASE j # i
      <3>1. moving'[j] = moving[j] /\ responsible'[j] = responsible[j]
        BY <1>1, <2>1 DEF WalletInv, WalletTypeOK
      <3> QED BY <1>1, <1>3, <3>1, SameMeeting
    <2>2. CASE j = i
      <3>1. moving'[i] = Unmoved /\ responsible'[i] = moving[i].to
        BY <1>1 DEF WalletInv, WalletTypeOK
      <3>2. Keyed(i) /\ Held(i)
        BY DEF WalletInv
      <3>3. Keyed(i)'
        BY <1>1, <1>3, <3>2 DEF Keyed
      <3>4. Held(i)'
        BY <1>1, <1>2, <3>1, <3>2 DEF Held, Reserved
      <3>5. MovesAsRead(i)'
        BY <3>1 DEF MovesAsRead, Unlocked
      <3> QED BY <2>2, <3>3, <3>4, <3>5
    <2> QED BY <2>1, <2>2
  <1>8. \A n \in Members : Joined(n)'
    BY <1>1 DEF WalletInv, Joined
  <1> QED BY <1>5, <1>6, <1>7, <1>8 DEF WalletInv

\* A reserved one takes its credit from one wallet to the other.
LEMMA ReassignReservedStep ==
  ASSUME WalletInv, NEW i \in Meetings, Reassign(i), Reserved(i)
  PROVE  WalletInv'
  <1> DEFINE a == responsible[i]
             m == moving[i].to
             v == reservation[i].version
             from == Entry("movedFrom", i, v, a, 1)
             into == Entry("movedTo", i, v + 1, m, -1)
             given == IF moving[i].paid THEN ledger \union {from} ELSE ledger
  <1>1. /\ ~Unlocked(i)
        /\ responsible' = [responsible EXCEPT ![i] = m]
        /\ reservation' = [reservation EXCEPT ![i].member = m, ![i].version = @ + 1]
        /\ moving' = [moving EXCEPT ![i] = Unmoved]
        /\ UNCHANGED <<membership, allocation, adjustment>>
    BY DEF Reassign
  <1>2. /\ reservation[i] \in Stored /\ reservation \in [Meetings -> Stored]
        /\ responsible \in [Meetings -> Members]
        /\ moving \in [Meetings -> [to : Members, paid : BOOLEAN, pays : BOOLEAN] \union {Unmoved}]
        /\ ledger \in SUBSET Entries /\ IsFiniteSet(ledger)
    BY DEF WalletInv, WalletTypeOK
  <1>3. a \in Members /\ m \in Members /\ reservation[i].member = a /\ membership[m].role # "none"
    BY <1>1, <1>2 DEF WalletInv, Held, MovesAsRead, Unlocked
  <1>4. v \in 0..MaxVersion /\ v \in Nat /\ v + 1 \in 0..MaxVersion
    <2>1. v \in 0..MaxVersion /\ MaxVersion \in Nat
      BY <1>2, WalletAssumption DEF Stored
    <2>2. v < MaxVersion
      BY <1>1 DEF WalletInv, MovesAsRead
    <2> QED BY <2>1, <2>2
  <1>5. /\ reservation'[i] = [status |-> "RESERVED", member |-> m, version |-> v + 1]
        /\ \A j \in Meetings \ {i} : /\ reservation'[j] = reservation[j]
                                     /\ responsible'[j] = responsible[j]
                                     /\ moving'[j] = moving[j]
        /\ reservation[i].version = v /\ reservation[i].status = "RESERVED"
        /\ responsible'[i] = m /\ moving'[i] = Unmoved
    <2>1. reservation[i].status = "RESERVED"
      BY DEF Reserved
    <2>2. reservation'[i] = [reservation[i] EXCEPT !.member = m, !.version = v + 1]
      BY <1>1, <1>2
    <2>3. reservation'[i] = [status |-> "RESERVED", member |-> m, version |-> v + 1]
      BY <1>2, <2>1, <2>2 DEF Stored
    <2>4. \A j \in Meetings \ {i} : /\ reservation'[j] = reservation[j]
                                   /\ responsible'[j] = responsible[j]
                                   /\ moving'[j] = moving[j]
      BY <1>1, <1>2
    <2>5. responsible'[i] = m /\ moving'[i] = Unmoved
      BY <1>1, <1>2
    <2> QED BY <2>1, <2>3, <2>4, <2>5
  <1>6. (moving[i].paid <=> IsHR(a)) /\ (moving[i].pays <=> IsHR(m))
    BY <1>1 DEF WalletInv, MovesAsRead
  <1>7. ledger' = Posted({e \in {from} : moving[i].paid} \union {e \in {into} : moving[i].pays})
    BY DEF Reassign
  <1> HIDE DEF a, m, v
  <1>8. /\ from \in Entries /\ from.kind = "movedFrom" /\ from.meeting = i /\ from.version = v
        /\ from.member = a /\ from.amount = 1
    BY <1>3, <1>4 DEF Entry, Entries
  <1>9. /\ into \in Entries /\ into.kind = "movedTo" /\ into.meeting = i /\ into.version = v + 1
        /\ into.member = m /\ into.amount = -1
    BY <1>3, <1>4 DEF Entry, Entries
  <1> HIDE DEF from, into
  <1>10. Keyed(i)
    BY DEF WalletInv
  <1>11. \A d \in ledger : ~SameKey(d, from) /\ ~SameKey(d, into)
    <2> SUFFICES ASSUME NEW d \in ledger PROVE ~SameKey(d, from) /\ ~SameKey(d, into)
      OBVIOUS
    <2>1. d.version \in Nat
      BY EntryFields DEF WalletInv
    <2>2. d.meeting = i => d.version <= v /\ (d.kind = "movedFrom" => d.version < v)
      BY <1>5, <1>10 DEF Keyed
    <2> QED BY <1>4, <1>8, <1>9, <2>1, <2>2 DEF SameKey
  <1>12. from \notin ledger /\ into \notin ledger /\ from # into
    BY <1>8, <1>9, <1>11 DEF SameKey
  <1>13. ledger' = IF moving[i].pays THEN given \union {into} ELSE given
    <2>1. ledger' = ledger \union ({e \in {from} : moving[i].paid} \union {e \in {into} : moving[i].pays})
      <3> DEFINE es == {e \in {from} : moving[i].paid} \union {e \in {into} : moving[i].pays}
      <3>1. \A e \in es, d \in ledger : ~SameKey(d, e)
        BY <1>11
      <3>2. ledger' = Posted(es)
        BY <1>7
      <3> HIDE DEF es
      <3>3. ledger' = ledger \union es
        BY <3>1, <3>2, NewKeys
      <3> QED BY <3>3 DEF es
    <2> QED BY <2>1
  <1>14. given \in SUBSET Entries /\ IsFiniteSet(given) /\ into \notin given
    BY <1>2, <1>8, <1>12, FS_AddElement
  <1>15. ledger' \subseteq Entries /\ IsFiniteSet(ledger')
    BY <1>9, <1>13, <1>14, FS_AddElement
  <1>16. WalletTypeOK'
    <2>1. [status |-> "RESERVED", member |-> m, version |-> v + 1] \in Stored
      BY <1>3, <1>4 DEF Stored
    <2>2. reservation' \in [Meetings -> Stored]
      BY <1>1, <1>2, <1>5, <2>1
    <2>3. responsible' \in [Meetings -> Members]
      BY <1>1, <1>2, <1>3
    <2>4. moving' \in [Meetings -> [to : Members, paid : BOOLEAN, pays : BOOLEAN] \union {Unmoved}]
      BY <1>1, <1>2
    <2> QED BY <1>1, <1>15, <2>2, <2>3, <2>4 DEF WalletInv, WalletTypeOK
  <1>17. ASSUME NEW j \in Meetings PROVE Keyed(j)' /\ Held(j)' /\ MovesAsRead(j)'
    <2>1. Keyed(j) /\ Held(j) /\ MovesAsRead(j)
      BY DEF WalletInv
    <2>2. Keyed(j)'
      <3> SUFFICES ASSUME NEW d \in ledger', d.meeting = j
                   PROVE  /\ d.version <= reservation'[j].version
                          /\ d.kind = "released" /\ d.version = reservation'[j].version
                               => reservation'[j].status = "RELEASED"
                          /\ d.kind = "movedFrom" => d.version < reservation'[j].version
        BY DEF Keyed
      <3>1. CASE d = from
        BY <1>4, <1>5, <1>8, <3>1
      <3>2. CASE d = into
        BY <1>4, <1>5, <1>9, <3>2
      <3>3. CASE d # from /\ d # into
        <4>1. d \in ledger /\ d.version \in Nat
          BY <1>13, <3>3, EntryFields DEF WalletInv
        <4>2. /\ d.version <= reservation[j].version
              /\ d.kind = "released" /\ d.version = reservation[j].version
                   => reservation[j].status = "RELEASED"
              /\ d.kind = "movedFrom" => d.version < reservation[j].version
          BY <2>1, <4>1 DEF Keyed
        <4>3. CASE j = i
          BY <1>4, <1>5, <4>1, <4>2, <4>3
        <4>4. CASE j # i
          BY <1>5, <4>2, <4>4
        <4> QED BY <4>3, <4>4
      <3> QED BY <3>1, <3>2, <3>3
    <2>3. Held(j)'
      <3>1. CASE j = i
        BY <1>1, <1>3, <1>5, <3>1 DEF Held, Reserved
      <3>2. CASE j # i
        BY <1>1, <1>5, <2>1, <3>2 DEF Held, Reserved
      <3> QED BY <3>1, <3>2
    <2>4. MovesAsRead(j)'
      BY <1>1, <1>5, <2>1 DEF MovesAsRead, Unlocked, Reserved, IsHR
    <2> QED BY <2>2, <2>3, <2>4
  <1>18. \A n \in Members : Joined(n)'
    BY <1>1 DEF WalletInv, Joined
  <1>19. Balanced(ledger', reservation', membership)
    <2> SUFFICES ASSUME NEW n \in Members
                 PROVE  TakenBy(ledger', n)
                          = IF membership[n].role = "HR" THEN -Cardinality(ChargedIn(reservation', n)) ELSE 0
      BY DEF Balanced
    <2>1. TakenBy(ledger, n) = IF membership[n].role = "HR" THEN -Cardinality(ChargedIn(reservation, n)) ELSE 0
      BY BalanceOf DEF WalletInv, Balanced
    <2>2. /\ TakenBy(ledger, n) \in Int
          /\ TakenBy(given, n) = IF IsHR(a) /\ n = a THEN TakenBy(ledger, n) + 1 ELSE TakenBy(ledger, n)
      <3>1. /\ TakenBy(ledger, n) \in Int
            /\ TakenBy(ledger \union {from}, n) = IF n = a THEN TakenBy(ledger, n) + 1 ELSE TakenBy(ledger, n)
        <4>1. /\ TakenBy(ledger, n) \in Int
              /\ TakenBy(ledger \union {from}, n)
                   = IF from.member = n THEN TakenBy(ledger, n) + from.amount ELSE TakenBy(ledger, n)
          BY <1>2, <1>8, <1>12, EntryCounts
        <4> QED BY <1>8, <4>1
      <3>2. given = IF IsHR(a) THEN ledger \union {from} ELSE ledger
        BY <1>6
      <3> HIDE DEF given
      <3> QED BY <3>1, <3>2
    <2>3. TakenBy(ledger', n) = IF IsHR(m) /\ n = m THEN TakenBy(given, n) - 1 ELSE TakenBy(given, n)
      <3> HIDE DEF given
      <3>1. TakenBy(given, n) \in Int
            /\ TakenBy(given \union {into}, n) = IF n = m THEN TakenBy(given, n) - 1 ELSE TakenBy(given, n)
        <4>1. /\ TakenBy(given, n) \in Int
              /\ TakenBy(given \union {into}, n)
                   = IF into.member = n THEN TakenBy(given, n) + into.amount ELSE TakenBy(given, n)
          BY <1>9, <1>14, EntryCounts
        <4> QED BY <1>9, <4>1
      <3> QED BY <1>6, <1>13, <3>1
    <2>4. PICK c \in Nat :
             /\ Cardinality(ChargedIn(reservation, n)) = IF Charges(reservation[i], n) THEN c + 1 ELSE c
             /\ Cardinality(ChargedIn(reservation', n)) = IF Charges(reservation'[i], n) THEN c + 1 ELSE c
      BY <1>5, ChargedAt
    <2>5. (Charges(reservation[i], n) <=> n = a) /\ (Charges(reservation'[i], n) <=> n = m)
      BY <1>3, <1>5 DEF Charges
    <2>6. /\ Cardinality(ChargedIn(reservation, n)) = IF n = a THEN c + 1 ELSE c
          /\ Cardinality(ChargedIn(reservation', n)) = IF n = m THEN c + 1 ELSE c
      BY <2>4, <2>5
    <2> HIDE DEF given
    <2> QED BY <2>1, <2>2, <2>3, <2>6 DEF IsHR
  <1>20. WalletsBalance'
    BY <1>1, <1>19 DEF WalletsBalance, Balanced, TakenBy, EntriesOf, Charged, ChargedIn, IsHR
  <1> QED BY <1>15, <1>16, <1>17, <1>18, <1>20 DEF WalletInv

\* Members come and go with the roles they have.
LEMMA ManageWalletStep ==
  ASSUME WalletInv, NEW m \in Members,
         \E status \in {"ACTIVE", "SUSPENDED", "REMOVED"} : ManageWalletOwner(m, status)
  PROVE  WalletInv'
  <1>1. PICK status \in {"ACTIVE", "SUSPENDED", "REMOVED"} : ManageWalletOwner(m, status)
    OBVIOUS
  <1>2. /\ membership[m].status # "none"
        /\ membership' = [membership EXCEPT ![m].status = status]
        /\ UNCHANGED <<ledger, adjustment, responsible, reservation, moving>>
    BY <1>1 DEF ManageWalletOwner
  <1>3. membership \in [Members -> [role : {"none", "OWNER", "MANAGER", "HR"},
                                    status : {"none", "ACTIVE", "SUSPENDED", "REMOVED"}]]
    BY DEF WalletInv, WalletTypeOK
  <1>4. \A n \in Members : membership'[n].role = membership[n].role
    BY <1>2, <1>3
  <1>5. membership' \in [Members -> [role : {"none", "OWNER", "MANAGER", "HR"},
                                     status : {"none", "ACTIVE", "SUSPENDED", "REMOVED"}]]
    BY <1>2, <1>3
  <1>6. \A n \in Members : allocation[n] \in Int /\ Wallet(n) \in Int
    <2> SUFFICES ASSUME NEW n \in Members PROVE allocation[n] \in Int /\ Wallet(n) \in Int
      OBVIOUS
    <2>1. allocation[n] \in Int
      BY DEF WalletInv, WalletTypeOK
    <2>2. EntriesOf(n) \subseteq ledger /\ IsFiniteSet(ledger)
      BY DEF WalletInv, EntriesOf
    <2>3. IsFiniteSet(EntriesOf(n))
      BY <2>2, FS_Subset
    <2>4. Cardinality({e \in EntriesOf(n) : e.amount = 1}) \in Nat
          /\ Cardinality({e \in EntriesOf(n) : e.amount = -1}) \in Nat
      BY <2>3, FS_Subset, FS_CardinalityType
    <2> QED BY <2>1, <2>4 DEF Wallet, Sum
  <1>7. allocation' \in [Members -> Int]
    BY <1>1, <1>6 DEF ManageWalletOwner, WalletInv, WalletTypeOK
  <1>8. WalletTypeOK'
    BY <1>2, <1>5, <1>7 DEF WalletInv, WalletTypeOK
  <1>9. IsFiniteSet(ledger)' /\ WalletsBalance'
    BY <1>2, <1>4, SameBalance
  <1>10. \A i \in Meetings : Keyed(i)' /\ Held(i)' /\ MovesAsRead(i)'
    BY <1>2, <1>4, SameMeeting
  <1>11. \A n \in Members : Joined(n)'
    BY <1>2, <1>3 DEF WalletInv, Joined
  <1> QED BY <1>8, <1>9, <1>10, <1>11 DEF WalletInv

\* A new member has neither entries nor meetings.
LEMMA JoinStep ==
  ASSUME WalletInv, NEW m \in Members, NEW role \in {"MANAGER", "HR"}, Join(m, role)
  PROVE  WalletInv'
  <1>1. /\ membership' = [membership EXCEPT ![m] = [role |-> role, status |-> "ACTIVE"]]
        /\ UNCHANGED <<allocation, ledger, adjustment, responsible, reservation, moving>>
        /\ membership[m].role = "none" \/ membership[m].role = role
    BY DEF Join
  <1>2. membership \in [Members -> [role : {"none", "OWNER", "MANAGER", "HR"},
                                    status : {"none", "ACTIVE", "SUSPENDED", "REMOVED"}]]
    BY DEF WalletInv, WalletTypeOK
  <1>3. membership' \in [Members -> [role : {"none", "OWNER", "MANAGER", "HR"},
                                     status : {"none", "ACTIVE", "SUSPENDED", "REMOVED"}]]
    BY <1>1, <1>2
  <1>4. WalletTypeOK'
    BY <1>1, <1>3 DEF WalletInv, WalletTypeOK
  <1>5. /\ membership'[m] = [role |-> role, status |-> "ACTIVE"]
        /\ \A n \in Members \ {m} : membership'[n] = membership[n]
    BY <1>1, <1>2
  <1>6. \A n \in Members : membership[n].role # "none" => membership'[n].role = membership[n].role
    BY <1>1, <1>5
  <1>7. \A i \in Meetings : Keyed(i)' /\ Held(i)' /\ MovesAsRead(i)'
    BY <1>1, <1>6, SameMeeting
  <1>8. \A n \in Members : Joined(n)'
    BY <1>5 DEF WalletInv, Joined
  <1>9. Balanced(ledger, reservation, membership')
    <2> SUFFICES ASSUME NEW n \in Members
                 PROVE  TakenBy(ledger, n)
                          = IF membership'[n].role = "HR" THEN -Cardinality(ChargedIn(reservation, n)) ELSE 0
      BY DEF Balanced
    <2>1. TakenBy(ledger, n) = IF membership[n].role = "HR" THEN -Cardinality(ChargedIn(reservation, n)) ELSE 0
      BY BalanceOf DEF WalletInv, Balanced
    <2>2. CASE membership[n].role # "none"
      BY <1>6, <2>1, <2>2
    <2>3. CASE membership[n].role = "none"
      <3>1. ChargedIn(reservation, n) = {}
        BY <2>3 DEF ChargedIn, WalletInv, Held
      <3>2. Cardinality(ChargedIn(reservation, n)) = 0
        BY <3>1, FS_EmptySet
      <3>3. -Cardinality(ChargedIn(reservation, n)) = 0
        <4>1. \A c \in Int : -c = 0 - c
          OBVIOUS
        <4>2. 0 - Cardinality(ChargedIn(reservation, n)) = 0 /\ Cardinality(ChargedIn(reservation, n)) \in Int
          BY <3>2
        <4> QED BY <4>1, <4>2, Zenon
      <3>4. TakenBy(ledger, n) = 0
        BY <2>1, <2>3
      <3> QED BY <3>3, <3>4
    <2> QED BY <2>2, <2>3
  <1>10. WalletsBalance'
    BY <1>1, <1>9 DEF WalletsBalance, Balanced, TakenBy, EntriesOf, Charged, ChargedIn, IsHR
  <1>11. IsFiniteSet(ledger')
    BY <1>1 DEF WalletInv
  <1> QED BY <1>4, <1>7, <1>8, <1>10, <1>11 DEF WalletInv

LEMMA WalletStep == WalletInv /\ [WorkspaceNext]_<<vars, walletVars>> => WalletInv'
  <1> SUFFICES ASSUME WalletInv, WalletNext \/ UNCHANGED walletVars
               PROVE  WalletInv'
    BY DEF WorkspaceNext
  <1>1. CASE UNCHANGED walletVars
    <2>1. UNCHANGED <<membership, allocation, ledger, adjustment, responsible, reservation, moving>>
      BY <1>1 DEF walletVars
    <2>2. WalletTypeOK'
      BY <2>1 DEF WalletInv, WalletTypeOK
    <2>3. IsFiniteSet(ledger)' /\ WalletsBalance'
      BY <2>1, SameBalance
    <2>4. \A i \in Meetings : Keyed(i)' /\ Held(i)' /\ MovesAsRead(i)'
      BY <2>1, SameMeeting
    <2>5. \A m \in Members : Joined(m)'
      BY <2>1 DEF WalletInv, Joined
    <2> QED BY <2>2, <2>3, <2>4, <2>5 DEF WalletInv
  <1>2. ASSUME NEW k \in Adjustments,
               \/ \E m \in Members, amount \in {-1, 1} : AskAdjustment(k, m, amount)
               \/ AdjustWallet(k)
        PROVE  WalletInv'
    BY <1>2, AdjustStep
  <1>3. ASSUME NEW m \in Members,
               \E status \in {"ACTIVE", "SUSPENDED", "REMOVED"} : ManageWalletOwner(m, status)
        PROVE  WalletInv'
    BY <1>3, ManageWalletStep
  <1>4. ASSUME NEW m \in Members, NEW role \in {"MANAGER", "HR"}, Join(m, role)
        PROVE  WalletInv'
    BY <1>4, JoinStep
  <1>5. ASSUME NEW i \in Meetings, ReserveMeeting(i) \/ ReleaseMeeting(i) \/ ConsumeMeeting(i) \/ Reassign(i)
        PROVE  WalletInv'
    BY <1>5, ReserveStep, ReleaseStep, ConsumeStep, ReassignFreeStep, ReassignReservedStep
  <1>6. ASSUME NEW i \in Meetings, NEW m \in Members, ReadForReassignment(i, m)
        PROVE  WalletInv'
    BY <1>6, ReadStep
  <1> QED BY <1>1, <1>2, <1>3, <1>4, <1>5, <1>6 DEF WalletNext

\* The invariant behind the balance: every entry's key is new when it is posted, and
\* a reassignment writes what it has read.
THEOREM WalletInvariance == WorkspaceSpec => []WalletInv
  <1>1. WorkspaceInit => WalletInv
    BY WalletStart DEF WorkspaceInit
  <1> QED BY <1>1, WalletStep, PTL DEF WorkspaceSpec

\* For any members, meetings and adjustments, a member's wallet is charged exactly
\* for the meetings reserved or consumed in his name, however reservations, releases
\* and reassignments interleave (authenti8_reassign_interview_hr, the credit triggers).
THEOREM WalletsAlwaysBalance == WorkspaceSpec => []WalletsBalance
  BY WalletInvariance, PTL DEF WalletInv
=============================================================================
