---------------------------- MODULE Invitations -----------------------------
(***************************************************************************)
(* Invitations to the system and the accounts they become (iam/services.py, *)
(* iam/domain, iam/infra/repos.py).                                        *)
(*                                                                         *)
(* Sending an invitation is a background task: it looks for one that is    *)
(* not used, stores a new one when there is none, commits, and mails the   *)
(* token.  Registering reads the invitation by its token, checks it, looks *)
(* for an account with its email, and stores the account and the used      *)
(* invitation in one transaction.  The row read by token is not kept (it   *)
(* has no relationship that would keep it alive), so merge reads it again: *)
(* it updates the row it finds, and inserts the invitation when a          *)
(* revocation has deleted it.                                              *)
(*                                                                         *)
(* Abstractions.  A token is the name of its invitation.  Names, passwords *)
(* and counterparties are left out, but that a customer's invitation needs *)
(* one; the seven days of an invitation end at any moment.                 *)
(***************************************************************************)
EXTENDS Desk

CONSTANTS
    Emails,         \* addresses
    InvitedRoles    \* roles for which invitations are sent, out of UserRoles

VARIABLES
    invitations,  \* the rows of table invitations
    expired,      \* the invitations whose time is over
    revoked,      \* the invitations that were revoked
    mailed,       \* the invitations whose token was mailed
    accounts      \* the rows of table users that registration made

invitationVars == <<invitations, expired, revoked, mailed, accounts>>

InvitationsInit ==
    /\ invitations = {} /\ expired = {} /\ revoked = {}
    /\ mailed = {} /\ accounts = {}

IsInternal(role) == ~IsCustomer(role)

Invitation(id, email, role, used) == [id |-> id, email |-> email, role |-> role, used |-> used]

Opened(id, email, role) == Invitation(id, email, role, FALSE)

\* mark_as_used.
Used(i) == Invitation(i.id, i.email, i.role, TRUE)

Stored == {i.id : i \in invitations}

-----------------------------------------------------------------------------
(* InvitationService.                                                      *)

\* get_active_by_email_and_role: an unused one, expired or not.
Unused(email, role) ==
    {i \in invitations : i.email = email /\ i.role = role /\ ~i.used}

\* send_invitation finds an invitation and goes on to mail it.
FindInvitation(r, email, role) ==
    /\ \E i \in Unused(email, role) : Start(r, "mailing", i.id)
    /\ UNCHANGED invitationVars

\* send_invitation finds none: invite_internal or invite_customer.
DraftInvitation(r, email, role, hasCounterparty) ==
    /\ Unused(email, role) = {}
    /\ IsInternal(role) \/ hasCounterparty
    /\ Start(r, "drafted", Opened(r, email, role))
    /\ UNCHANGED invitationVars

StoreInvitation(r) ==
    /\ Step(r, "drafted", "mailing", r)
    /\ invitations' = invitations \cup {held[r]}
    /\ UNCHANGED <<expired, revoked, mailed, accounts>>

\* Mutant: the mail goes out before the commit.
MailDraft(r) ==
    /\ pc[r] \in {"drafted", "mailing"}
    /\ mailed' = mailed \cup {IF pc[r] = "drafted" THEN r ELSE held[r]}
    /\ IF pc[r] = "drafted"
       THEN UNCHANGED deskVars
       ELSE End(r, "mailing", "done")
    /\ UNCHANGED <<invitations, expired, revoked, accounts>>

\* The mail is sent.  When the server refuses it the request is abandoned.
MailInvitation(r) ==
    /\ End(r, "mailing", "done")
    /\ mailed' = mailed \cup {held[r]}
    /\ UNCHANGED <<invitations, expired, revoked, accounts>>

\* revoke_invitation: the row is there; it is then deleted by its id, whether
\* it has been used or not.
ReadToRevoke(r, i) ==
    /\ Start(r, "revoking", i.id)
    /\ UNCHANGED invitationVars

DeleteInvitation(r) ==
    /\ End(r, "revoking", "done")
    /\ invitations' = {i \in invitations : i.id # held[r]}
    /\ revoked' = revoked \cup {held[r]}
    /\ UNCHANGED <<expired, mailed, accounts>>

Expire(i) ==
    /\ expired' = expired \cup {i.id}
    /\ UNCHANGED <<invitations, revoked, mailed, accounts>>
    /\ UNCHANGED deskVars

-----------------------------------------------------------------------------
(* AuthService.register.                                                   *)

IsValid(i) == ~i.used /\ i.id \notin expired

\* create_customer and create_support: the roles an account can be made for.
CanRegister(role) == IsCustomer(role) \/ role \in {"SUPPORT_AGENT", "SUPPORT_MANAGER"}

ReadInvitation(r, i) ==
    /\ IsValid(i)
    /\ Start(r, "invited", i)
    /\ UNCHANGED invitationVars

EmailTaken(email) == \E a \in accounts : a.email = email

\* The search for an account with this email, and the new account.
DraftAccount(r) ==
    /\ pc[r] = "invited"
    /\ ~EmailTaken(held[r].email)
    /\ CanRegister(held[r].role)
    /\ Step(r, "invited", "registering", held[r])
    /\ UNCHANGED invitationVars

\* mark_as_used and merge, which reads the invitation again.
MergeInvitation(r) ==
    /\ pc[r] = "registering"
    /\ Step(r, "registering", "merged", [invitation |-> held[r],
                                         found |-> held[r].id \in Stored])
    /\ UNCHANGED invitationVars

Insertable(r) ==
    LET i == held[r].invitation
    IN  /\ ~EmailTaken(i.email)
        /\ held[r].found => i.id \in Stored

\* Mutant: the invitation is not merged back.
RegisterOnly(r) ==
    /\ pc[r] = "merged"
    /\ Insertable(r)
    /\ End(r, "merged", "done")
    /\ LET i == held[r].invitation
       IN  accounts' = accounts \cup {[email |-> i.email, role |-> i.role, invitation |-> i.id]}
    /\ UNCHANGED <<invitations, expired, revoked, mailed>>

\* The INSERT of the account and the UPDATE, or INSERT, of the used invitation.
Register(r) ==
    /\ pc[r] = "merged"
    /\ Insertable(r)
    /\ End(r, "merged", "done")
    /\ LET i == held[r].invitation
       IN  /\ accounts' = accounts \cup
                 {[email |-> i.email, role |-> i.role, invitation |-> i.id]}
           /\ invitations' = {j \in invitations : j.id # i.id} \cup {Used(i)}
    /\ UNCHANGED <<expired, revoked, mailed>>

\* users.email is unique, and an UPDATE must find its row: both statements fail.
RefuseRegistration(r) ==
    /\ pc[r] = "merged"
    /\ ~Insertable(r)
    /\ End(r, "merged", "failed")
    /\ UNCHANGED invitationVars

InvitationsNext ==
    \/ \E i \in invitations : Expire(i)
    \/ \E r \in Requests :
        \/ \E email \in Emails, role \in InvitedRoles : FindInvitation(r, email, role)
        \/ \E email \in Emails, role \in InvitedRoles, known \in BOOLEAN :
              DraftInvitation(r, email, role, known)
        \/ StoreInvitation(r)
        \/ MailInvitation(r)
        \/ \E i \in invitations : ReadToRevoke(r, i) \/ ReadInvitation(r, i)
        \/ DeleteInvitation(r)
        \/ DraftAccount(r)
        \/ MergeInvitation(r)
        \/ Register(r)
        \/ RefuseRegistration(r)
        \/ Abandon(r) /\ UNCHANGED invitationVars

InvitationsSpec == DeskInit /\ InvitationsInit /\ [][InvitationsNext]_<<deskVars, invitationVars>>

-----------------------------------------------------------------------------
\* However registrations, revocations and repeated mails race: an invitation
\* makes at most one account and an email has at most one, a used invitation has
\* its account, and an account has its invitation, used unless it was revoked.
\* (AuthService.register against InvitationService.revoke_invitation.)
AccountsMatchInvitations ==
    /\ \A a, b \in accounts :
          a.email = b.email \/ a.invitation = b.invitation => a = b
    /\ \A i \in invitations :
          i.used => [email |-> i.email, role |-> i.role, invitation |-> i.id] \in accounts
    /\ \A a \in accounts :
          \/ \E i \in invitations : i.id = a.invitation /\ i.used
          \/ a.invitation \in revoked

\* A token that was mailed can be looked up, unless it was revoked: the mail
\* follows the commit, whatever fails in between.  (send_invitation.)
MailedIsStored == mailed \subseteq Stored \cup revoked
=============================================================================
