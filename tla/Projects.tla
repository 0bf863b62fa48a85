------------------------------ MODULE Projects ------------------------------
(***************************************************************************)
(* Projects, their unique keys and their members (tickets/services/        *)
(* project.py, tickets/domain/entities/project.py).                        *)
(*                                                                         *)
(* create inserts a project with the key asked for and, on an              *)
(* IntegrityError, rolls back and tries the key with 1, 2, ... appended.   *)
(* An INSERT waits for the session that has flushed the same key and not   *)
(* committed.  add_members judges the members it read; merging the project *)
(* back puts the collection read in place of the one in the table, which   *)
(* detaches the rows that were added meanwhile (as in TicketService); their *)
(* project_id cannot be NULL, so that flush fails.                         *)
(*                                                                         *)
(* Abstractions.  A key is a sequence of characters of a small alphabet.   *)
(* Names and descriptions are left out; check_key and the lists only read. *)
(* The roles of members are TicketDomain's.                                *)
(***************************************************************************)
EXTENDS Desk

CONSTANTS
    Letters, Digits,   \* characters: Digits[i] is the digit i
    KeysAsked,         \* the keys asked for, sequences of characters
    MaxKeyLength,      \* 10 in the code
    MaxAttempts        \* 5 in the code

ASSUME ProjectsAssumption ==
    /\ MaxKeyLength \in Nat /\ MaxAttempts \in Nat \ {0}
    /\ MaxAttempts <= Len(Digits) + 1

VARIABLES
    projects,   \* the rows of table projects: id, key, owner
    members,    \* the rows of table project_memberships: the request that made
                \* each, project and user
    refusals    \* the keys whose askers were told that all attempts failed,
                \* though their counterparty exists

projectVars == <<projects, members, refusals>>

ProjectsInit == projects = {} /\ members = {} /\ refusals = {}

-----------------------------------------------------------------------------
Symbols == Letters \cup {Digits[i] : i \in DOMAIN Digits}

\* ProjectKey drops what is neither a letter nor a digit.
Cleaned(key) == SelectSeq(key, LAMBDA c : c \in Symbols)

IsKey(key) ==
    /\ Len(key) \in 2..MaxKeyLength
    /\ key[1] \in Letters

\* The key of the n-th attempt: the first is the one asked for.
Candidate(asked, n) == Cleaned(IF n = 1 THEN asked ELSE Append(asked, Digits[n - 1]))

KeysInUse == {p.key : p \in projects}

\* Keys flushed by sessions that have not committed.
KeysInserted == {held[q].key : q \in {q \in Requests : pc[q] = "inserted"}}

\* ProjectService.create.  A counterparty that is not there breaks the foreign key.
CreateProject(r, asked, owner, counterpartyExists) ==
    /\ Start(r, "trying", [asked |-> asked, attempt |-> 1, owner |-> owner,
                           counterparty |-> counterpartyExists])
    /\ UNCHANGED projectVars

Trying(r) == Candidate(held[r].asked, held[r].attempt)

\* A candidate too long or badly formed: ValueError.
KeyInvalid(r) ==
    /\ pc[r] = "trying"
    /\ ~IsKey(Trying(r))
    /\ End(r, "trying", "failed")
    /\ UNCHANGED projectVars

\* Project.create and the flush; it waits while another session holds the key.
InsertProject(r) ==
    /\ pc[r] = "trying"
    /\ IsKey(Trying(r))
    /\ held[r].counterparty
    /\ Trying(r) \notin KeysInUse \cup KeysInserted
    /\ Step(r, "trying", "inserted", [key |-> Trying(r), owner |-> held[r].owner])
    /\ UNCHANGED projectVars

\* Mutant: a key that another session has flushed counts as taken at once.
KeyRefusedEarly(r) == Trying(r) \in KeysInUse \cup KeysInserted

KeyRefused(r) == Trying(r) \in KeysInUse

\* IntegrityError of the key or of the counterparty: rollback, next candidate.
TryNextKey(r) ==
    /\ pc[r] = "trying"
    /\ IsKey(Trying(r))
    /\ KeyRefused(r) \/ ~held[r].counterparty
    /\ IF held[r].attempt < MaxAttempts
       THEN /\ Step(r, "trying", "trying", [held[r] EXCEPT !.attempt = @ + 1])
            /\ UNCHANGED projectVars
       ELSE /\ End(r, "trying", "exists")
            /\ refusals' = refusals \cup
                  IF held[r].counterparty THEN {held[r].asked} ELSE {}
            /\ UNCHANGED <<projects, members>>

\* The project and its owner's membership are stored together.  The event
\* ProjectCreated is registered; create publishes nothing.
CommitProject(r) ==
    /\ End(r, "inserted", "done")
    /\ projects' = projects \cup {[id |-> r, key |-> held[r].key, owner |-> held[r].owner]}
    /\ members' = members \cup {[by |-> r, project |-> r, user |-> held[r].owner]}
    /\ UNCHANGED refusals

-----------------------------------------------------------------------------
MembersOf(p) == {m \in members : m.project = p.id}

\* repository.read of the project and its memberships.
ReadProject(r, p) ==
    /\ Start(r, "members", [project |-> p, members |-> MembersOf(p)])
    /\ UNCHANGED projectVars

MayAddMember(p, user) ==
    user = p.owner \/ RoleOf[user] \in {"SUPPORT_MANAGER", "SUPPORT_AGENT", "ADMIN"}

\* Mutant: the check is on the owner only.
AddMembersAgain(r, by, users) ==
    /\ pc[r] = "members"
    /\ MayAddMember(held[r].project, by)
    /\ held[r].project.owner \notin users
    /\ Step(r, "members", "merged", [project |-> held[r].project, added |-> users,
                                     detached |-> {}])
    /\ UNCHANGED projectVars

\* add_members: every user must be new among the members read.  merge works on the
\* collection read, or on the one in the table when the identity map has lost it.
AddMembers(r, by, users) ==
    /\ pc[r] = "members"
    /\ MayAddMember(held[r].project, by)
    /\ users \cap {m.user : m \in held[r].members} = {}
    /\ \E base \in {held[r].members, MembersOf(held[r].project)} :
          Step(r, "members", "merged", [project |-> held[r].project, added |-> users,
                                        detached |-> base \ held[r].members])
    /\ UNCHANGED projectVars

CommitMembers(r) ==
    /\ pc[r] = "merged"
    /\ held[r].detached = {}
    /\ End(r, "merged", "done")
    /\ members' = members \cup
          {[by |-> r, project |-> held[r].project.id, user |-> u] : u \in held[r].added}
    /\ UNCHANGED <<projects, refusals>>

\* The flush sets project_id of a detached row to NULL: IntegrityError.
MembersConflict(r) ==
    /\ pc[r] = "merged"
    /\ held[r].detached # {}
    /\ End(r, "merged", "failed")
    /\ UNCHANGED projectVars

ProjectsNext ==
    \E r \in Requests :
        \/ \E asked \in KeysAsked, owner \in Users, known \in BOOLEAN :
              CreateProject(r, asked, owner, known)
        \/ KeyInvalid(r)
        \/ InsertProject(r)
        \/ TryNextKey(r)
        \/ CommitProject(r)
        \/ \E p \in projects : ReadProject(r, p)
        \/ \E by \in Users, users \in SUBSET Users : AddMembers(r, by, users)
        \/ CommitMembers(r)
        \/ MembersConflict(r)
        \/ Abandon(r) /\ UNCHANGED projectVars

ProjectsSpec == DeskInit /\ ProjectsInit /\ [][ProjectsNext]_<<deskVars, projectVars>>

-----------------------------------------------------------------------------
\* Whoever is told that the key cannot be made unique, and names a counterparty
\* that exists, finds a project under every candidate: no refusal comes from a
\* creation that was rolled back.  (ProjectService.create, the retry on
\* IntegrityError.)
RefusedKeysAreTaken ==
    \A asked \in refusals, n \in 1..MaxAttempts : Candidate(asked, n) \in KeysInUse

Memberships(p, user) == {m \in MembersOf(p) : m.user = user}

\* However requests overlap, get_membership finds one row for the owner, and until
\* they do at most one for anybody: SqlProjectRepository.get_membership raises on a
\* second.  (Project.create and add_members, on members read before the merge.)
MembershipsReadable ==
    \A p \in projects :
        /\ Cardinality(Memberships(p, p.owner)) = 1
        /\ ~overlapped => \A u \in Users : Cardinality(Memberships(p, u)) <= 1
=============================================================================
