------------------------------ MODULE IamProofs ------------------------------
(***************************************************************************)
(* Accounts match invitations, and no request is made with a token that    *)
(* was revoked, for any number of requests, users, addresses and roles.    *)
(***************************************************************************)
EXTENDS Invitations, Tokens, DeskProofs

-----------------------------------------------------------------------------
(* Invitations.                                                            *)
(*                                                                         *)
(* A registration looks at the table of accounts twice and at the table of *)
(* invitations twice, and in between anything may happen to them.  What    *)
(* makes it safe is that an invitation never changes its address: the row, *)
(* the copies that requests hold and the account made of it agree.         *)

(* The inductive invariant.                                                *)

\* A request holds a copy of an invitation, stored or not.
Holds(r, x) ==
    \/ pc[r] \in {"drafted", "invited", "registering"} /\ x = held[r]
    \/ pc[r] = "merged" /\ x = held[r].invitation

InPlay(x) == x \in invitations \/ \E r \in Requests : Holds(r, x)

\* An invitation is named by a request that has begun, a draft, which is unused, by
\* its own.
Named ==
    /\ \A x : InPlay(x) => x.id \in Requests /\ pc[x.id] # "idle"
    /\ \A a \in accounts : a.invitation \in Requests /\ pc[a.invitation] # "idle"
    /\ \A r \in Requests : pc[r] = "drafted" => held[r].id = r /\ ~held[r].used

\* The copies of an invitation and its account agree on the address.
Agreed ==
    /\ \A x, y : InPlay(x) /\ InPlay(y) /\ x.id = y.id => x.email = y.email
    /\ \A x : InPlay(x) => \A a \in accounts : a.invitation = x.id => a.email = x.email

\* Who is about to mail a token has it in the table, unless it was revoked.
MailingIsStored ==
    \A r \in Requests : pc[r] = "mailing" => held[r] \in Stored \cup revoked

InvitationsInv ==
    DeskTyped /\ Named /\ Agreed /\ MailingIsStored /\ MailedIsStored /\ AccountsMatchInvitations

LEMMA InvitationsInitInv == DeskInit /\ InvitationsInit => InvitationsInv
<1> SUFFICES ASSUME DeskInit, InvitationsInit PROVE InvitationsInv
  OBVIOUS
<1> USE DEF DeskInit, InvitationsInit
<1>1. \A x : ~InPlay(x)
  BY DEF InPlay, Holds
<1> QED
  BY <1>1 DEF InvitationsInv, DeskTyped, Named, Agreed, MailingIsStored, MailedIsStored,
              AccountsMatchInvitations

-----------------------------------------------------------------------------
(* What a step does to the copies.                                         *)

\* Every copy after the step is one from before, up to its mark of use.
Inherited == \A x : InPlay(x)' => \E y : InPlay(y) /\ y.id = x.id /\ y.email = x.email

\* Requests begin and do not become idle again.
NobodyIdles == \A q \in Requests : pc[q] # "idle" => pc'[q] # "idle"

\* The parts of the invariant that speak of copies, for steps that make no new ones.
LEMMA CopiesKept ==
  ASSUME InvitationsInv, Inherited, NobodyIdles,
         \A a \in accounts' : a \in accounts \/
             \E y : InPlay(y) /\ a.invitation = y.id /\ a.email = y.email,
         \A r \in Requests : pc'[r] = "drafted" => pc[r] = "drafted" /\ held'[r] = held[r]
  PROVE  Named' /\ Agreed'
<1>1. Named'
  BY DEF InvitationsInv, Named, Inherited, NobodyIdles
<1>2. Agreed'
  BY DEF InvitationsInv, Agreed, Inherited
<1> QED
  BY <1>1, <1>2

-----------------------------------------------------------------------------
(* Every step keeps the invariant.                                         *)

\* What Start and Step leave of the other requests; the one that moves is not idle.
LEMMA StepKeepsBusy ==
  ASSUME DeskTyped, NEW r \in Requests, NEW from, NEW to, NEW what, to # "idle",
         Start(r, to, what) \/ Step(r, from, to, what)
  PROVE  /\ DeskTyped' /\ NobodyIdles
         /\ pc'[r] = to /\ held'[r] = what
         /\ \A q \in Requests \ {r} : pc'[q] = pc[q] /\ held'[q] = held[q]
BY DEF DeskTyped, Start, Step, NobodyIdles

\* A step that stores nothing, draws up no invitation and mails none: what the
\* request holds then it held, or is a row it has read.
LEMMA QuietStep ==
  ASSUME InvitationsInv, NEW r \in Requests, NEW from, NEW to, NEW what,
         to \notin {"idle", "drafted"},
         to = "mailing" => what \in Stored \cup revoked,
         Start(r, to, what) \/ Step(r, from, to, what),
         UNCHANGED invitationVars,
         \A x : Holds(r, x)' => x \in invitations \/ Holds(r, x)
  PROVE  InvitationsInv'
<1>0. DeskTyped /\ MailingIsStored /\ MailedIsStored /\ AccountsMatchInvitations
  BY DEF InvitationsInv
<1>1. /\ DeskTyped' /\ NobodyIdles
      /\ pc'[r] = to /\ held'[r] = what
      /\ \A q \in Requests \ {r} : pc'[q] = pc[q] /\ held'[q] = held[q]
  BY <1>0, StepKeepsBusy
<1>2. UNCHANGED <<invitations, revoked, mailed, accounts, Stored>>
  BY DEF invitationVars, Stored
<1>3. Inherited
  <2> SUFFICES ASSUME NEW x, InPlay(x)' PROVE InPlay(x)
    BY DEF Inherited
  <2>1. CASE x \in invitations'
    BY <2>1, <1>2 DEF InPlay
  <2>2. CASE \E q \in Requests : Holds(q, x)'
    <3>1. PICK q \in Requests : Holds(q, x)'
      BY <2>2
    <3>2. CASE q = r
      BY <3>1, <3>2 DEF InPlay
    <3>3. CASE q # r
      BY <3>1, <3>3, <1>1 DEF InPlay, Holds
    <3> QED
      BY <3>2, <3>3
  <2> QED
    BY <2>1, <2>2 DEF InPlay
<1>4. \A q \in Requests : pc'[q] = "drafted" => pc[q] = "drafted" /\ held'[q] = held[q]
  BY <1>1
<1>5. Named' /\ Agreed'
  BY <1>1, <1>2, <1>3, <1>4, CopiesKept
<1>6. MailingIsStored'
  BY <1>0, <1>1, <1>2 DEF MailingIsStored
<1>7. MailedIsStored' /\ AccountsMatchInvitations'
  BY <1>0, <1>2 DEF MailedIsStored, AccountsMatchInvitations
<1> QED
  BY <1>1, <1>5, <1>6, <1>7 DEF InvitationsInv

LEMMA DraftStep ==
  ASSUME InvitationsInv, NEW r \in Requests, NEW email, NEW role, NEW known,
         DraftInvitation(r, email, role, known)
  PROVE  InvitationsInv'
<1> DEFINE draft == Opened(r, email, role)
<1>0. DeskTyped /\ Named /\ Agreed /\ MailingIsStored /\ MailedIsStored /\ AccountsMatchInvitations
  BY DEF InvitationsInv
<1>1. /\ DeskTyped' /\ NobodyIdles
      /\ pc'[r] = "drafted" /\ held'[r] = draft
      /\ \A q \in Requests \ {r} : pc'[q] = pc[q] /\ held'[q] = held[q]
  BY <1>0, StepKeepsBusy DEF DraftInvitation
<1>2. UNCHANGED <<invitations, revoked, mailed, accounts, Stored>>
  BY DEF DraftInvitation, invitationVars, Stored
<1>3. pc[r] = "idle"
  BY DEF DraftInvitation, Start
<1>4. draft.id = r /\ draft.email = email /\ ~draft.used
  BY DEF Opened, Invitation
<1>5. \A x : InPlay(x)' => InPlay(x) \/ x = draft
  <2> SUFFICES ASSUME NEW x, InPlay(x)', x # draft PROVE InPlay(x)
    OBVIOUS
  <2>1. CASE x \in invitations'
    BY <2>1, <1>2 DEF InPlay
  <2>2. ASSUME NEW q \in Requests, Holds(q, x)' PROVE InPlay(x)
    BY <2>2, <1>1 DEF InPlay, Holds
  <2> QED
    BY <2>1, <2>2 DEF InPlay
<1>6. \A x : InPlay(x) => x.id # r
  BY <1>0, <1>3 DEF Named
<1>7. \A a \in accounts : a.invitation # r
  BY <1>0, <1>3 DEF Named
<1>8. Named'
  BY <1>0, <1>1, <1>2, <1>4, <1>5 DEF Named, NobodyIdles
<1>9. Agreed'
  BY <1>0, <1>2, <1>4, <1>5, <1>6, <1>7 DEF Agreed
<1>10. MailingIsStored'
  BY <1>0, <1>1, <1>2 DEF MailingIsStored
<1>11. MailedIsStored' /\ AccountsMatchInvitations'
  BY <1>0, <1>2 DEF MailedIsStored, AccountsMatchInvitations
<1> QED
  BY <1>1, <1>8, <1>9, <1>10, <1>11 DEF InvitationsInv

\* The rest of a step by r that ends or goes on to mail: what others hold stays,
\* and r holds no copy.
LEMMA OthersHold ==
  ASSUME InvitationsInv, NEW r \in Requests, NEW from, NEW to, NEW what,
         to \notin {"idle", "drafted", "invited", "registering", "merged"},
         Step(r, from, to, what),
         \A x \in invitations' : \E y : InPlay(y) /\ y.id = x.id /\ y.email = x.email
  PROVE  /\ DeskTyped' /\ Inherited /\ NobodyIdles
         /\ pc'[r] = to /\ held'[r] = what
         /\ \A q \in Requests \ {r} : pc'[q] = pc[q] /\ held'[q] = held[q]
         /\ \A q \in Requests : pc'[q] = "drafted" => pc[q] = "drafted" /\ held'[q] = held[q]
<1>1. /\ DeskTyped' /\ NobodyIdles
      /\ pc'[r] = to /\ held'[r] = what
      /\ \A q \in Requests \ {r} : pc'[q] = pc[q] /\ held'[q] = held[q]
  BY StepKeepsBusy DEF InvitationsInv
<1>2. Inherited
  <2> SUFFICES ASSUME NEW x, InPlay(x)'
               PROVE  \E y : InPlay(y) /\ y.id = x.id /\ y.email = x.email
    BY DEF Inherited
  <2>1. CASE x \in invitations'
    BY <2>1
  <2>2. ASSUME NEW q \in Requests, Holds(q, x)' PROVE InPlay(x)
    BY <2>2, <1>1 DEF InPlay, Holds
  <2> QED
    BY <2>1, <2>2 DEF InPlay
<1> QED
  BY <1>1, <1>2

LEMMA StoreStep ==
  ASSUME InvitationsInv, NEW r \in Requests, StoreInvitation(r)
  PROVE  InvitationsInv'
<1>0. DeskTyped /\ Named /\ Agreed /\ MailingIsStored /\ MailedIsStored /\ AccountsMatchInvitations
  BY DEF InvitationsInv
<1>1. /\ pc[r] = "drafted" /\ Step(r, "drafted", "mailing", r)
      /\ invitations' = invitations \cup {held[r]}
      /\ UNCHANGED <<revoked, mailed, accounts>>
  BY DEF StoreInvitation, Step
<1>2. Holds(r, held[r]) /\ InPlay(held[r]) /\ held[r].id = r /\ ~held[r].used
  BY <1>0, <1>1 DEF Holds, InPlay, Named
<1>3. /\ DeskTyped' /\ Inherited /\ NobodyIdles
      /\ pc'[r] = "mailing" /\ held'[r] = r
      /\ \A q \in Requests \ {r} : pc'[q] = pc[q] /\ held'[q] = held[q]
      /\ \A q \in Requests : pc'[q] = "drafted" => pc[q] = "drafted" /\ held'[q] = held[q]
  <2>1. \A x \in invitations' : \E y : InPlay(y) /\ y.id = x.id /\ y.email = x.email
    BY <1>1, <1>2 DEF InPlay
  <2> QED
    BY <1>1, <2>1, OthersHold
<1>4. Named' /\ Agreed'
  BY <1>1, <1>3, CopiesKept
<1>5. Stored' = Stored \cup {r}
  BY <1>1, <1>2 DEF Stored
<1>6. MailingIsStored'
  BY <1>0, <1>1, <1>3, <1>5 DEF MailingIsStored
<1>7. MailedIsStored'
  BY <1>0, <1>1, <1>5 DEF MailedIsStored
<1>8. AccountsMatchInvitations'
  BY <1>0, <1>1, <1>2 DEF AccountsMatchInvitations
<1> QED
  BY <1>3, <1>4, <1>6, <1>7, <1>8 DEF InvitationsInv

LEMMA DeleteStep ==
  ASSUME InvitationsInv, NEW r \in Requests, DeleteInvitation(r)
  PROVE  InvitationsInv'
<1>0. DeskTyped /\ Named /\ Agreed /\ MailingIsStored /\ MailedIsStored /\ AccountsMatchInvitations
  BY DEF InvitationsInv
<1>1. /\ Step(r, "revoking", "done", None)
      /\ invitations' = {i \in invitations : i.id # held[r]}
      /\ revoked' = revoked \cup {held[r]}
      /\ UNCHANGED <<mailed, accounts>>
  BY DEF DeleteInvitation, End
<1>2. /\ DeskTyped' /\ Inherited /\ NobodyIdles
      /\ pc'[r] = "done"
      /\ \A q \in Requests \ {r} : pc'[q] = pc[q] /\ held'[q] = held[q]
      /\ \A q \in Requests : pc'[q] = "drafted" => pc[q] = "drafted" /\ held'[q] = held[q]
  <2>1. \A x \in invitations' : \E y : InPlay(y) /\ y.id = x.id /\ y.email = x.email
    BY <1>1 DEF InPlay
  <2> QED
    BY <1>1, <2>1, OthersHold
<1>3. Named' /\ Agreed'
  BY <1>1, <1>2, CopiesKept
<1>4. Stored \cup revoked \subseteq Stored' \cup revoked'
  BY <1>1 DEF Stored
<1>5. MailingIsStored'
  BY <1>0, <1>1, <1>2, <1>4 DEF MailingIsStored
<1>6. MailedIsStored'
  BY <1>0, <1>1, <1>4 DEF MailedIsStored
<1>7. AccountsMatchInvitations'
  BY <1>0, <1>1 DEF AccountsMatchInvitations
<1> QED
  BY <1>2, <1>3, <1>5, <1>6, <1>7 DEF InvitationsInv

LEMMA MailStep ==
  ASSUME InvitationsInv, NEW r \in Requests, MailInvitation(r)
  PROVE  InvitationsInv'
<1>0. DeskTyped /\ Named /\ Agreed /\ MailingIsStored /\ MailedIsStored /\ AccountsMatchInvitations
  BY DEF InvitationsInv
<1>1. /\ pc[r] = "mailing" /\ Step(r, "mailing", "done", None)
      /\ mailed' = mailed \cup {held[r]}
      /\ UNCHANGED <<invitations, revoked, accounts, Stored>>
  BY DEF MailInvitation, End, Step, Stored
<1>2. /\ DeskTyped' /\ Inherited /\ NobodyIdles
      /\ pc'[r] = "done"
      /\ \A q \in Requests \ {r} : pc'[q] = pc[q] /\ held'[q] = held[q]
      /\ \A q \in Requests : pc'[q] = "drafted" => pc[q] = "drafted" /\ held'[q] = held[q]
  <2>1. \A x \in invitations' : \E y : InPlay(y) /\ y.id = x.id /\ y.email = x.email
    BY <1>1 DEF InPlay
  <2> QED
    BY <1>1, <2>1, OthersHold
<1>3. Named' /\ Agreed'
  BY <1>1, <1>2, CopiesKept
<1>4. MailingIsStored'
  BY <1>0, <1>1, <1>2 DEF MailingIsStored
<1>5. MailedIsStored'
  BY <1>0, <1>1 DEF MailedIsStored, MailingIsStored
<1>6. AccountsMatchInvitations'
  BY <1>0, <1>1 DEF AccountsMatchInvitations
<1> QED
  BY <1>2, <1>3, <1>4, <1>5, <1>6 DEF InvitationsInv

LEMMA RegisterStep ==
  ASSUME InvitationsInv, NEW r \in Requests, Register(r)
  PROVE  InvitationsInv'
<1> DEFINE i == held[r].invitation
           account == [email |-> i.email, role |-> i.role, invitation |-> i.id]
           used == Used(i)
<1>0. DeskTyped /\ Named /\ Agreed /\ MailingIsStored /\ MailedIsStored /\ AccountsMatchInvitations
  BY DEF InvitationsInv
<1>1. /\ pc[r] = "merged" /\ Step(r, "merged", "done", None)
      /\ ~EmailTaken(i.email)
      /\ accounts' = accounts \cup {account}
      /\ invitations' = {j \in invitations : j.id # i.id} \cup {used}
      /\ UNCHANGED <<revoked, mailed>>
  BY DEF Register, End, Step, Insertable
<1>2. Holds(r, i) /\ InPlay(i)
  BY <1>1 DEF Holds, InPlay
<1>3. used.id = i.id /\ used.email = i.email /\ used.role = i.role /\ used.used
  BY DEF Used, Invitation
<1>4. /\ DeskTyped' /\ Inherited /\ NobodyIdles
      /\ pc'[r] = "done"
      /\ \A q \in Requests \ {r} : pc'[q] = pc[q] /\ held'[q] = held[q]
      /\ \A q \in Requests : pc'[q] = "drafted" => pc[q] = "drafted" /\ held'[q] = held[q]
  <2>1. \A x \in invitations' : \E y : InPlay(y) /\ y.id = x.id /\ y.email = x.email
    BY <1>1, <1>2, <1>3 DEF InPlay
  <2> QED
    BY <1>1, <2>1, OthersHold
<1>5. Named' /\ Agreed'
  <2>1. \A a \in accounts' : a \in accounts \/
             \E y : InPlay(y) /\ a.invitation = y.id /\ a.email = y.email
    BY <1>1, <1>2
  <2> QED
    BY <1>4, <2>1, CopiesKept
<1>6. Stored \subseteq Stored'
  BY <1>1, <1>3 DEF Stored
<1>7. MailingIsStored'
  BY <1>0, <1>1, <1>4, <1>6 DEF MailingIsStored
<1>8. MailedIsStored'
  BY <1>0, <1>1, <1>6 DEF MailedIsStored
<1>9. \A a \in accounts : a.email # i.email /\ a.invitation # i.id
  BY <1>0, <1>1, <1>2 DEF EmailTaken, Agreed
<1>10. AccountsMatchInvitations'
  BY <1>0, <1>1, <1>3, <1>9 DEF AccountsMatchInvitations
<1> QED
  BY <1>4, <1>5, <1>7, <1>8, <1>10 DEF InvitationsInv

LEMMA InvitationsStepInv == InvitationsInv /\ [InvitationsNext]_<<deskVars, invitationVars>> => InvitationsInv'
<1> SUFFICES ASSUME InvitationsInv, [InvitationsNext]_<<deskVars, invitationVars>>
             PROVE  InvitationsInv'
  OBVIOUS
<1>1. ASSUME UNCHANGED deskVars, UNCHANGED <<invitations, revoked, mailed, accounts>>
      PROVE  InvitationsInv'
  <2>1. UNCHANGED <<pc, held, Stored>>
    BY <1>1 DEF deskVars, Stored
  <2>2. \A r, x : Holds(r, x)' <=> Holds(r, x)
    BY <2>1 DEF Holds
  <2>3. \A x : InPlay(x)' <=> InPlay(x)
    BY <1>1, <2>2 DEF InPlay
  <2> QED
    BY <1>1, <2>1, <2>3 DEF InvitationsInv, DeskTyped, Named, Agreed, MailingIsStored,
       MailedIsStored, AccountsMatchInvitations
<1>2. ASSUME NEW i \in invitations, Expire(i) PROVE InvitationsInv'
  BY <1>1, <1>2 DEF Expire
<1>3. ASSUME NEW r \in Requests, NEW email, NEW role, FindInvitation(r, email, role)
      PROVE  InvitationsInv'
  <2>1. PICK i \in Unused(email, role) : Start(r, "mailing", i.id)
    BY <1>3 DEF FindInvitation
  <2>2. pc'[r] = "mailing"
    BY <2>1, StepKeepsBusy DEF InvitationsInv
  <2>3. i.id \in Stored
    BY DEF Unused, Stored
  <2>4. \A x : ~Holds(r, x)'
    BY <2>2 DEF Holds
  <2> QED
    BY <1>3, <2>1, <2>3, <2>4, QuietStep DEF FindInvitation
<1>4. ASSUME NEW r \in Requests, NEW i \in invitations, ReadToRevoke(r, i)
      PROVE  InvitationsInv'
  <2>1. Start(r, "revoking", i.id)
    BY <1>4 DEF ReadToRevoke
  <2>2. pc'[r] = "revoking"
    BY <2>1, StepKeepsBusy DEF InvitationsInv
  <2>3. \A x : ~Holds(r, x)'
    BY <2>2 DEF Holds
  <2> QED
    BY <1>4, <2>1, <2>3, QuietStep DEF ReadToRevoke
<1>5. ASSUME NEW r \in Requests, NEW i \in invitations, ReadInvitation(r, i)
      PROVE  InvitationsInv'
  <2>1. Start(r, "invited", i)
    BY <1>5 DEF ReadInvitation
  <2>2. pc'[r] = "invited" /\ held'[r] = i
    BY <2>1, StepKeepsBusy DEF InvitationsInv
  <2>3. \A x : Holds(r, x)' => x = i
    BY <2>2 DEF Holds
  <2> QED
    BY <1>5, <2>1, <2>3, QuietStep DEF ReadInvitation
<1>6. ASSUME NEW r \in Requests, DraftAccount(r) PROVE InvitationsInv'
  <2>1. pc[r] = "invited" /\ Step(r, "invited", "registering", held[r])
    BY <1>6 DEF DraftAccount
  <2>2. \A x : Holds(r, x)' => Holds(r, x)
    BY <2>1, StepKeepsBusy DEF InvitationsInv, Holds
  <2> QED
    BY <1>6, <2>1, <2>2, QuietStep DEF DraftAccount
<1>7. ASSUME NEW r \in Requests, MergeInvitation(r) PROVE InvitationsInv'
  <2> DEFINE merge == [invitation |-> held[r], found |-> held[r].id \in Stored]
  <2>1. pc[r] = "registering" /\ Step(r, "registering", "merged", merge)
    BY <1>7 DEF MergeInvitation
  <2>2. \A x : Holds(r, x)' => x = held[r]
    BY <2>1, StepKeepsBusy DEF InvitationsInv, Holds
  <2>3. \A x : Holds(r, x)' => Holds(r, x)
    BY <2>1, <2>2 DEF Holds
  <2> QED
    BY <1>7, <2>1, <2>3, QuietStep DEF MergeInvitation
<1>8. ASSUME NEW r \in Requests, NEW from, Step(r, from, "failed", None), UNCHANGED invitationVars
      PROVE  InvitationsInv'
  <2>1. \A x : ~Holds(r, x)'
    BY <1>8, StepKeepsBusy DEF InvitationsInv, Holds
  <2> QED
    BY <1>8, <2>1, QuietStep
<1>9. CASE UNCHANGED <<deskVars, invitationVars>>
  BY <1>1, <1>9 DEF invitationVars
<1> QED
  BY <1>2, <1>3, <1>4, <1>5, <1>6, <1>7, <1>8, <1>9, DraftStep, StoreStep, MailStep,
     DeleteStep, RegisterStep
     DEF InvitationsNext, RefuseRegistration, Abandon, End

-----------------------------------------------------------------------------
LEMMA InvitationsInvariant == InvitationsSpec => []InvitationsInv
BY InvitationsInitInv, InvitationsStepInv, PTL DEF InvitationsSpec

\* However many registrations, revocations and mails race: an invitation makes at
\* most one account, an address has at most one, and whichever of account and used
\* invitation is there has the other, unless a revocation has deleted the invitation
\* (AuthService.register, InvitationService.revoke_invitation).
THEOREM AccountsFollowInvitations == InvitationsSpec => []AccountsMatchInvitations
<1>1. InvitationsInv => AccountsMatchInvitations
  BY DEF InvitationsInv
<1> QED
  BY InvitationsInvariant, <1>1, PTL

\* Every token that was mailed can be looked up unless it was revoked, for any
\* failures on the way (InvitationService.send_invitation).
THEOREM MailFollowsCommit == InvitationsSpec => []MailedIsStored
<1>1. InvitationsInv => MailedIsStored
  BY DEF InvitationsInv
<1> QED
  BY InvitationsInvariant, <1>1, PTL

-----------------------------------------------------------------------------
(* Tokens, for any lifetimes and any fraction of a second in which times   *)
(* are counted.                                                            *)
(*                                                                         *)
(* Three roundings meet: the library cuts the expiry to whole seconds, the *)
(* revocation cuts the current time, and Redis counts whole seconds from   *)
(* the exact moment it stores the entry.  The first section shows that     *)
(* they leave no gap; the rest carries that through the steps.             *)

USE TokensAssumption

-----------------------------------------------------------------------------
(* Whole seconds.                                                          *)

\* The quotient is the only number of whole seconds that fits.
LEMMA QuotientFits ==
  ASSUME NEW x \in Int
  PROVE  /\ x \div TicksPerSecond \in Int
         /\ (x \div TicksPerSecond) * TicksPerSecond \in Int
         /\ (x \div TicksPerSecond) * TicksPerSecond <= x
         /\ x < (x \div TicksPerSecond) * TicksPerSecond + TicksPerSecond
OBVIOUS

LEMMA ShiftBySeconds ==
  ASSUME NEW x \in Int, NEW k \in Int
  PROVE  (x - k * TicksPerSecond) \div TicksPerSecond = (x \div TicksPerSecond) - k
OBVIOUS

\* An entry lives at least until the library takes the token for expired.
LEMMA EntryOutlives ==
  ASSUME NEW exp \in Int, NEW n \in Int
  PROVE  /\ n + WholeSeconds(exp - WholeSeconds(n)) \in Int
         /\ n + WholeSeconds(exp - WholeSeconds(n)) >= WholeSeconds(exp)
<1> DEFINE k == n \div TicksPerSecond
           q == exp \div TicksPerSecond
<1>1. k \in Int /\ q \in Int /\ k * TicksPerSecond <= n
  BY QuotientFits
<1>2. WholeSeconds(exp - WholeSeconds(n)) = (q - k) * TicksPerSecond
  BY <1>1, ShiftBySeconds DEF WholeSeconds
<1>3. (q - k) * TicksPerSecond = q * TicksPerSecond - k * TicksPerSecond
  BY <1>1
<1> QED
  BY <1>1, <1>2, <1>3 DEF WholeSeconds

-----------------------------------------------------------------------------
(* The inductive invariant.                                                *)

\* Expiries are times, wherever a token is.
TimesTyped ==
    /\ now \in Nat
    /\ \A token \in tokens : token.exp \in Nat
    /\ pc = [r \in Requests |-> pc[r]]
    /\ held = [r \in Requests |-> held[r]]
    /\ \A r \in Requests : pc[r] = "rotating" => held[r].exp \in Nat

\* An entry for the token lives for as long as the token is valid.
Covered(token) ==
    \E e \in blacklist : e.token = token /\ e.lapses \in Int /\ e.lapses >= WholeSeconds(token.exp)

\* A token that was revoked or exchanged is covered until it is over.
SpentCovered ==
    \A token \in withdrawn \cup exchanged :
        token.exp \in Nat /\ (WholeSeconds(token.exp) <= now \/ Covered(token))

TokensInv == TimesTyped /\ SpentCovered

LEMMA TokensInitInv == DeskInit /\ TokensInit => TokensInv
BY DEF DeskInit, TokensInit, TokensInv, TimesTyped, SpentCovered

-----------------------------------------------------------------------------
(* Every step keeps the invariant.                                         *)

\* A revocation covers its token, and leaves the entries of the others.
LEMMA RevokeCovers ==
  ASSUME TokensInv, NEW token, token.exp \in Nat, Revoke(token), now' = now,
         exchanged' \subseteq exchanged \cup {token}
  PROVE  SpentCovered'
<1> DEFINE entry == [token |-> token, lapses |-> now + TimeToLive(token)]
<1>1. /\ blacklist' = {e \in blacklist : e.token # token} \cup {entry}
      /\ withdrawn' = withdrawn \cup {token}
  BY DEF Revoke
<1>2. now \in Int /\ token.exp \in Int
  BY DEF TokensInv, TimesTyped
<1>3. entry.lapses \in Int /\ entry.lapses >= WholeSeconds(token.exp) /\ entry.token = token
  BY <1>2, EntryOutlives DEF TimeToLive
<1>4. Covered(token)'
  BY <1>1, <1>3 DEF Covered
<1>5. \A t : t # token /\ Covered(t) => Covered(t)'
  BY <1>1 DEF Covered
<1> QED
  BY <1>1, <1>4, <1>5 DEF TokensInv, SpentCovered

\* Nothing happens to what was revoked or exchanged.
LEMMA QuietKeeps ==
  ASSUME TokensInv, UNCHANGED <<now, blacklist, withdrawn, exchanged>>
  PROVE  SpentCovered'
BY DEF TokensInv, SpentCovered, Covered, WholeSeconds

\* A token exchanged without a revocation is over.
LEMMA LateExchange ==
  ASSUME TokensInv, NEW token, token.exp \in Nat, Late(token),
         UNCHANGED <<now, blacklist, withdrawn>>, exchanged' \subseteq exchanged \cup {token}
  PROVE  SpentCovered'
<1>1. WholeSeconds(token.exp) <= now
  BY QuotientFits DEF Late, WholeSeconds, TokensInv, TimesTyped
<1> QED
  BY <1>1 DEF TokensInv, SpentCovered, Covered, WholeSeconds

\* The tokens of a pair expire at a time.
LEMMA PairTyped ==
  ASSUME TokensInv, NEW r, NEW user
  PROVE  \A token \in Pair(r, user) : token.exp \in Nat
BY DEF Pair, TokensInv, TimesTyped, Kinds

\* What requests hold after a step by r: the others, what they held.
LEMMA HeldTyped ==
  ASSUME TokensInv, NEW r \in Requests, NEW from, NEW to, NEW what,
         Start(r, to, what) \/ Step(r, from, to, what),
         to = "rotating" => what.exp \in Nat,
         now' = now, \A token \in tokens' : token.exp \in Nat
  PROVE  TimesTyped'
<1>1. /\ pc' = [pc EXCEPT ![r] = to]
      /\ held' = [held EXCEPT ![r] = what]
  BY DEF Start, Step
<1>2. /\ pc' = [q \in Requests |-> pc'[q]] /\ held' = [q \in Requests |-> held'[q]]
      /\ pc'[r] = to /\ held'[r] = what
      /\ \A q \in Requests \ {r} : pc'[q] = pc[q] /\ held'[q] = held[q]
  BY <1>1 DEF TokensInv, TimesTyped
<1>3. \A q \in Requests : pc'[q] = "rotating" => held'[q].exp \in Nat
  BY <1>2 DEF TokensInv, TimesTyped
<1> QED
  BY <1>2, <1>3 DEF TokensInv, TimesTyped

LEMMA AuthenticateStep ==
  ASSUME TokensInv, NEW r \in Requests, NEW user, Authenticate(r, user)
  PROVE  TokensInv'
<1>1. /\ Start(r, "done", None)
      /\ tokens' = tokens \cup Pair(r, user)
      /\ UNCHANGED <<now, blacklist, withdrawn, exchanged>>
  BY DEF Authenticate
<1>2. \A token \in tokens' : token.exp \in Nat
  BY <1>1, PairTyped DEF TokensInv, TimesTyped
<1> QED
  BY <1>1, <1>2, HeldTyped, QuietKeeps DEF TokensInv

LEMMA ValidateStep ==
  ASSUME TokensInv, NEW r \in Requests, NEW token \in tokens, ValidateRefresh(r, token)
  PROVE  TokensInv'
<1>1. /\ Start(r, "rotating", token)
      /\ UNCHANGED <<now, tokens, blacklist, withdrawn, exchanged>>
  BY DEF ValidateRefresh, tokenVars
<1>2. token.exp \in Nat /\ \A t \in tokens' : t.exp \in Nat
  BY <1>1 DEF TokensInv, TimesTyped
<1> QED
  BY <1>1, <1>2, HeldTyped, QuietKeeps DEF TokensInv

LEMMA RotateStep ==
  ASSUME TokensInv, NEW r \in Requests, Rotate(r)
  PROVE  TokensInv'
<1>1. pc[r] = "rotating" /\ now' = now /\ held[r].exp \in Nat
  BY DEF Rotate, TokensInv, TimesTyped
<1>2. SpentCovered'
  <2>1. exchanged' \subseteq exchanged \cup {held[r]}
    BY DEF Rotate
  <2>2. CASE Late(held[r]) /\ UNCHANGED <<blacklist, withdrawn>>
    BY <1>1, <2>1, <2>2, LateExchange
  <2>3. CASE Revoke(held[r])
    BY <1>1, <2>1, <2>3, RevokeCovers
  <2> QED
    BY <2>2, <2>3 DEF Rotate
<1>3. \A token \in tokens' : token.exp \in Nat
  BY PairTyped DEF Rotate, TokensInv, TimesTyped
<1>4. Step(r, "rotating", "done", None) \/ Step(r, "rotating", "failed", None)
  BY DEF Rotate, End
<1>5. TimesTyped'
  BY <1>1, <1>3, <1>4, HeldTyped
<1> QED
  BY <1>2, <1>5 DEF TokensInv

LEMMA LeaveStep ==
  ASSUME TokensInv, NEW r \in Requests, NEW token \in tokens,
         Logout(r, token) \/ LogoutRefresh(r, token)
  PROVE  TokensInv'
<1>1. token.exp \in Nat /\ now' = now /\ tokens' = tokens /\ exchanged' = exchanged
  BY DEF Logout, LogoutRefresh, TokensInv, TimesTyped
<1>2. SpentCovered'
  <2>1. CASE UNCHANGED <<blacklist, withdrawn>>
    BY <1>1, <2>1, QuietKeeps
  <2>2. CASE Revoke(token)
    BY <1>1, <2>2, RevokeCovers
  <2> QED
    BY <2>1, <2>2 DEF Logout, LogoutRefresh
<1>3. Start(r, "leaving", token) \/ Step(r, "leaving", "done", None)
  BY DEF Logout, LogoutRefresh, End
<1>4. \A t \in tokens' : t.exp \in Nat
  BY <1>1 DEF TokensInv, TimesTyped
<1>5. TimesTyped'
  <2>1. CASE Start(r, "leaving", token)
    BY <1>1, <1>4, <2>1, HeldTyped
  <2>2. CASE Step(r, "leaving", "done", None)
    BY <1>1, <1>4, <2>2, HeldTyped
  <2> QED
    BY <1>3, <2>1, <2>2
<1> QED
  BY <1>2, <1>5 DEF TokensInv

\* The requests that end without a trace in the tokens.
LEMMA EndStep ==
  ASSUME TokensInv, NEW r \in Requests, NEW from, NEW to, to # "rotating",
         End(r, from, to), UNCHANGED tokenVars
  PROVE  TokensInv'
<1>1. Step(r, from, to, None) /\ UNCHANGED <<now, tokens, blacklist, withdrawn, exchanged>>
  BY DEF End, tokenVars
<1>2. \A t \in tokens' : t.exp \in Nat
  BY <1>1 DEF TokensInv, TimesTyped
<1> QED
  BY <1>1, <1>2, HeldTyped, QuietKeeps DEF TokensInv

\* An entry that time drops is of a token that is over.
LEMMA TickStep ==
  ASSUME TokensInv, Tick
  PROVE  TokensInv'
<1>1. /\ now \in Nat /\ now' = now + 1
      /\ blacklist' = {e \in blacklist : e.lapses > now'}
      /\ UNCHANGED <<pc, held, tokens, withdrawn, exchanged>>
  BY DEF Tick, TokensInv, TimesTyped, deskVars
<1>2. TimesTyped'
  BY <1>1 DEF TokensInv, TimesTyped
<1>3. ASSUME NEW token \in withdrawn \cup exchanged
      PROVE  token.exp \in Nat /\ (WholeSeconds(token.exp) <= now' \/ Covered(token)')
  <2>1. token.exp \in Nat /\ WholeSeconds(token.exp) \in Int
    BY QuotientFits DEF TokensInv, SpentCovered, WholeSeconds
  <2>2. CASE WholeSeconds(token.exp) <= now
    BY <1>1, <2>1, <2>2
  <2>3. CASE Covered(token)
    <3>1. PICK e \in blacklist : e.token = token /\ e.lapses \in Int
                                 /\ e.lapses >= WholeSeconds(token.exp)
      BY <2>3 DEF Covered
    <3>2. CASE e.lapses > now'
      BY <1>1, <3>1, <3>2, <2>1 DEF Covered
    <3>3. CASE ~(e.lapses > now')
      BY <1>1, <2>1, <3>1, <3>3
    <3> QED
      BY <3>2, <3>3
  <2> QED
    BY <2>1, <2>2, <2>3 DEF TokensInv, SpentCovered
<1>4. SpentCovered'
  BY <1>1, <1>3 DEF SpentCovered
<1> QED
  BY <1>2, <1>4 DEF TokensInv

LEMMA TokensStepInv == TokensInv /\ [TokensNext]_<<deskVars, tokenVars>> => TokensInv'
<1> SUFFICES ASSUME TokensInv, [TokensNext]_<<deskVars, tokenVars>> PROVE TokensInv'
  OBVIOUS
<1>1. ASSUME UNCHANGED deskVars, UNCHANGED <<now, tokens, blacklist, withdrawn, exchanged>>
      PROVE  TokensInv'
  BY <1>1, QuietKeeps DEF TokensInv, TimesTyped, deskVars
<1>2. ASSUME NEW user, Disable(user) PROVE TokensInv'
  BY <1>1, <1>2 DEF Disable
<1>3. ASSUME NEW r \in Requests, LogoutEnds(r) PROVE TokensInv'
  BY <1>3, EndStep DEF LogoutEnds
<1>4. ASSUME NEW r \in Requests, Abandon(r), UNCHANGED tokenVars PROVE TokensInv'
  BY <1>4, EndStep DEF Abandon
<1>5. CASE UNCHANGED <<deskVars, tokenVars>>
  BY <1>1, <1>5 DEF tokenVars
<1> QED
  BY <1>2, <1>3, <1>4, <1>5, TickStep, AuthenticateStep, ValidateStep, RotateStep, LeaveStep
     DEF TokensNext

-----------------------------------------------------------------------------
LEMMA TokensInvariant == TokensSpec => []TokensInv
BY TokensInitInv, TokensStepInv, PTL DEF TokensSpec

\* No request is made in a user's name with a token that was revoked or exchanged for a
\* pair, wherever in a second it expires and is revoked (RedisTokenBlacklist.revoke,
\* validate_token, get_current_user).  Whether such a token may be exchanged again is
\* another question: refresh_tokens does not ask the blacklist, and it may.
THEOREM RevokedTokensBearNothing == TokensSpec => []RevokedBearsNothing
<1>1. TokensInv => RevokedBearsNothing
  <2> SUFFICES ASSUME TokensInv, NEW token \in withdrawn \cup exchanged, ~Blacklisted(token)
               PROVE  ~Valid(token)
    BY DEF RevokedBearsNothing, Bears
  <2>1. ~Covered(token)
    BY DEF Covered, Blacklisted
  <2>2. /\ token.exp \in Nat /\ now \in Nat /\ WholeSeconds(token.exp) <= now
    BY <2>1 DEF TokensInv, TimesTyped, SpentCovered
  <2> QED
    BY <2>2, QuotientFits DEF Valid, WholeSeconds
<1> QED
  BY TokensInvariant, <1>1, PTL
=============================================================================
