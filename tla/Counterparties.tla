--------------------------- MODULE Counterparties ---------------------------
(***************************************************************************)
(* Counterparties, their branches, contact persons and products            *)
(* (crm/services.py, crm/domain/entities.py, crm/infra/repos.py).          *)
(*                                                                         *)
(* Abstractions.  Of a counterparty there are the type, the INN (a value   *)
(* that has a length), the email, the head and the contact persons, which  *)
(* are named by the requests that add them; whether a KPP is given.  What  *)
(* the values look like is module Values.                                  *)
(***************************************************************************)
EXTENDS Desk

CONSTANTS
    Inns, InnLength,        \* INNs, and the length of each
    CounterpartyEmails,
    Products,               \* what clients name as products
    KnownProducts           \* those of them that are in the table

ASSUME CounterpartiesAssumption ==
    /\ InnLength \in [Inns -> {10, 12}]
    /\ KnownProducts \subseteq Products

VARIABLES
    counterparties,  \* the rows of table counterparties
    links,           \* the rows of table counterparty_products
    contactsAdded    \* the contact persons whose requests have committed

counterpartyVars == <<counterparties, links, contactsAdded>>

CounterpartiesInit == counterparties = {} /\ links = {} /\ contactsAdded = {}

Types == {"INDIVIDUAL", "INDIVIDUAL_ENTREPRENEUR", "LEGAL_ENTITY",
          "FOREIGN_LEGAL_ENTITY", "BRANCH"}

Counterparty(id, type, inn, email, parent) ==
    [id |-> id, type |-> type, inn |-> inn, email |-> email, parent_id |-> parent,
     contacts |-> {}]

\* Counterparty.__post_init__.
Sound(c, hasKpp) ==
    /\ c.type \in {"INDIVIDUAL", "INDIVIDUAL_ENTREPRENEUR"} => InnLength[c.inn] = 12
    /\ c.type \in {"LEGAL_ENTITY", "BRANCH"} => InnLength[c.inn] = 10
    /\ hasKpp <=> c.type \in {"LEGAL_ENTITY", "BRANCH"}
    /\ c.type = "BRANCH" => c.parent_id # None

-----------------------------------------------------------------------------
\* The conjunct (self.model.parent_id is None) of both searches compares the
\* mapped attribute, not the column, with None: it is false for every row.
ParentIdIsNone(c) == FALSE

GetByInn(inn) == {c \in counterparties : c.inn = inn /\ ParentIdIsNone(c)}
GetByEmail(email) == {c \in counterparties : c.email = email /\ ParentIdIsNone(c)}

\* CounterpartyService.create: the checks, and the new head.
Create(r, type, inn, email, hasKpp) ==
    /\ GetByInn(inn) = {}
    /\ GetByEmail(email) = {}
    /\ LET head == Counterparty(r, type, inn, email, None)
       IN  Sound(head, hasKpp) /\ Start(r, "new", head)
    /\ UNCHANGED counterpartyVars

\* repository.read, the first call of the other operations.
Read(r, c) ==
    /\ Start(r, "read", c)
    /\ UNCHANGED counterpartyVars

\* Mutant: a branch may have branches.
AddBranchAnywhere(r, email) ==
    /\ pc[r] = "read"
    /\ LET head == held[r]
           branch == Counterparty(r, "BRANCH", head.inn, email, head.id)
       IN  Sound(branch, TRUE) /\ Step(r, "read", "new", branch)
    /\ UNCHANGED counterpartyVars

\* add_branch and create_branch: the INN is the head's.
AddBranch(r, email) ==
    /\ pc[r] = "read"
    /\ held[r].type = "LEGAL_ENTITY"
    /\ LET head == held[r]
           branch == Counterparty(r, "BRANCH", head.inn, email, head.id)
       IN  Sound(branch, TRUE) /\ Step(r, "read", "new", branch)
    /\ UNCHANGED counterpartyVars

EmailUnused(c) == \A d \in counterparties : d.email # c.email

Insert(r) ==
    /\ pc[r] = "new"
    /\ EmailUnused(held[r])
    /\ End(r, "new", "done")
    /\ counterparties' = counterparties \cup {held[r]}
    /\ UNCHANGED <<links, contactsAdded>>

\* counterparties.email is unique, among heads and branches alike.
RefuseEmail(r) ==
    /\ pc[r] = "new"
    /\ ~EmailUnused(held[r])
    /\ End(r, "new", "failed")
    /\ UNCHANGED counterpartyVars

\* add_contact_person appends to the list it read; the merge makes the UPDATE that
\* writes the list, one JSON value, whole.
AddContactPerson(r) ==
    /\ pc[r] = "read"
    /\ Step(r, "read", "appended", [held[r] EXCEPT !.contacts = @ \cup {r}])
    /\ UNCHANGED counterpartyVars

\* Mutant: the appended list is not part of the row.
CommitNoContact(r) ==
    /\ pc[r] = "appended"
    /\ End(r, "appended", "done")
    /\ contactsAdded' = contactsAdded \cup {[to |-> held[r].id, person |-> r]}
    /\ UNCHANGED <<counterparties, links>>

CommitContact(r) ==
    /\ pc[r] = "appended"
    /\ End(r, "appended", "done")
    /\ counterparties' =
          {IF c.id = held[r].id THEN [c EXCEPT !.contacts = held[r].contacts] ELSE c :
              c \in counterparties}
    /\ contactsAdded' = contactsAdded \cup {[to |-> held[r].id, person |-> r]}
    /\ UNCHANGED links

\* link_product: nothing keeps a product from being linked twice; one that is not
\* in the table breaks the foreign key (Abandon).
LinkProduct(r, product) ==
    /\ pc[r] = "read"
    /\ product \in KnownProducts
    /\ links' = links \cup {[by |-> r, counterparty |-> held[r].id, product |-> product]}
    /\ End(r, "read", "done")
    /\ UNCHANGED <<counterparties, contactsAdded>>

CounterpartiesNext ==
    \E r \in Requests :
        \/ \E type \in Types, inn \in Inns, email \in CounterpartyEmails, kpp \in BOOLEAN :
              Create(r, type, inn, email, kpp)
        \/ \E c \in counterparties : Read(r, c)
        \/ \E email \in CounterpartyEmails : AddBranch(r, email)
        \/ Insert(r)
        \/ RefuseEmail(r)
        \/ AddContactPerson(r)
        \/ CommitContact(r)
        \/ \E product \in Products : LinkProduct(r, product)
        \/ Abandon(r) /\ UNCHANGED counterpartyVars

CounterpartiesSpec == DeskInit /\ CounterpartiesInit /\ [][CounterpartiesNext]_<<deskVars, counterpartyVars>>

-----------------------------------------------------------------------------
\* A counterparty with a head is a branch of a legal entity that is no branch
\* itself, and has its INN.  (Counterparty.create_branch, judged on a copy.)
BranchesHaveHeads ==
    \A c \in counterparties :
        c.parent_id # None =>
            /\ c.type = "BRANCH"
            /\ \E h \in counterparties :
                  h.id = c.parent_id /\ h.type = "LEGAL_ENTITY" /\
                  h.parent_id = None /\ h.inn = c.inn

\* While requests do not overlap, a contact person that was added stays: no later
\* request writes the list without it.  (add_contact_person.)
ContactsStay ==
    ~overlapped =>
        \A a \in contactsAdded :
            \E c \in counterparties : c.id = a.to /\ a.person \in c.contacts

\* What the source says and does not do: crm/services.py:22, the INN of a new head
\* is checked to be unique.
OneHeadPerInn ==
    \A c, d \in counterparties :
        c.inn = d.inn /\ c.parent_id = None /\ d.parent_id = None => c = d
=============================================================================
