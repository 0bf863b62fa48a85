------------------------------ MODULE CrmProofs ------------------------------
(***************************************************************************)
(* Service contracts and counterparties: the hours of a contract add up,   *)
(* branches have heads and contact persons stay, for any number of calls.  *)
(* The value classes accept what they have made, and leave it as it is.    *)
(***************************************************************************)
EXTENDS Contracts, Counterparties, Values, DeskProofs

-----------------------------------------------------------------------------
(* Contracts: the hours of a contract, for every bound on the calls.       *)

\* What HoursAddUp needs to be inductive: the fields are integers.
ContractsTyped ==
    /\ contract \in [status : ContractStatuses, total : Int, consumed : Int, remaining : Int]
    /\ bought \in Int /\ spent \in Int

ContractsInv == ContractsTyped /\ HoursAddUp

LEMMA ContractsInitInv == ContractsInit => ContractsInv
BY DEF ContractsInit, ContractsInv, ContractsTyped, HoursAddUp, Hours, ContractStatuses

LEMMA ContractsStepInv == ContractsInv /\ [ContractsNext]_contractVars => ContractsInv'
<1> SUFFICES ASSUME ContractsInv, [ContractsNext]_contractVars PROVE ContractsInv'
  OBVIOUS
<1> USE DEF ContractsInv, ContractsTyped, HoursAddUp, Hours, ContractStatuses
<1>1. ASSUME NEW hours \in 0..MaxHours, AddPackage(hours) PROVE ContractsInv'
  <2>1. hours \in Int
    BY ContractsAssumption
  <2> QED
    BY <1>1, <2>1 DEF AddPackage
<1>2. ASSUME NEW hours \in 0..MaxHours, ConsumeHours(hours) PROVE ContractsInv'
  <2>1. hours \in Int
    BY ContractsAssumption
  <2> QED
    BY <1>2, <2>1 DEF ConsumeHours
<1>3. CASE Suspend
  BY <1>3 DEF Suspend, MoveTo
<1>4. CASE Reactivate
  BY <1>4 DEF Reactivate, MoveTo
<1>5. CASE Close
  BY <1>5 DEF Close, MoveTo
<1>6. CASE UNCHANGED contractVars
  BY <1>6 DEF contractVars
<1> QED
  BY <1>1, <1>2, <1>3, <1>4, <1>5, <1>6 DEF ContractsNext

\* Whatever is called in whatever order and amount, what was bought is spent or
\* remains, and no more is spent than was bought (ServiceContract.add_package and
\* consume_hours).
THEOREM HoursAlwaysAddUp == ContractsSpec => []HoursAddUp
<1>1. ContractsInv => HoursAddUp
  BY DEF ContractsInv
<1> QED
  BY ContractsInitInv, ContractsStepInv, <1>1, PTL DEF ContractsSpec

-----------------------------------------------------------------------------
(* Counterparties: the heads of branches, and the contact persons.         *)
(*                                                                         *)
(* An update writes the whole list of contact persons and nothing else, so *)
(* what makes a head a head never changes: a branch that is about to be    *)
(* stored has one.                                                         *)

CounterpartyRecords ==
    [id : Requests, type : Types, inn : Inns, email : CounterpartyEmails,
     parent_id : Requests \cup {None}, contacts : SUBSET Requests]

\* What the rows of two counterparties agree on when they are the same counterparty.
SameCounterparty(c, d) ==
    c.id = d.id /\ c.type = d.type /\ c.inn = d.inn /\ c.parent_id = d.parent_id

HasHead(c) ==
    c.parent_id # None =>
        /\ c.type = "BRANCH"
        /\ \E h \in counterparties :
              h.id = c.parent_id /\ h.type = "LEGAL_ENTITY" /\
              h.parent_id = None /\ h.inn = c.inn

\* A counterparty is named by the request that has stored it.
CounterpartiesNamed ==
    /\ counterparties \subseteq CounterpartyRecords
    /\ \A c \in counterparties : pc[c.id] = "done"
    /\ \A c, d \in counterparties : c.id = d.id => c = d

\* What a request holds of counterparty what at label to.
HoldsWell(r, to, what) ==
    /\ to \in {"read", "new", "appended"} => what \in CounterpartyRecords
    /\ to = "read" => \E c \in counterparties : SameCounterparty(c, what)
    /\ to = "new" => what.id = r /\ HasHead(what)

\* The same, until two requests overlap: what was read is what is stored.
HoldsLatest(r, to, what) ==
    /\ to = "read" => what \in counterparties
    /\ to = "appended" =>
          \E c \in counterparties : what = [c EXCEPT !.contacts = @ \cup {r}]

CounterpartiesInv ==
    /\ DeskTyped /\ OneAtATime
    /\ CounterpartiesNamed /\ BranchesHaveHeads /\ ContactsStay
    /\ \A r \in Requests : HoldsWell(r, pc[r], held[r])
    /\ ~overlapped => \A r \in Requests : HoldsLatest(r, pc[r], held[r])

LEMMA CounterpartiesInitInv == DeskInit /\ CounterpartiesInit => CounterpartiesInv
BY DeskInitTyped DEF DeskInit, CounterpartiesInit, CounterpartiesInv, CounterpartiesNamed,
   BranchesHaveHeads, ContactsStay, HoldsWell, HoldsLatest

\* A request that moves while the rows stay.
LEMMA CounterpartiesQuiet ==
  ASSUME CounterpartiesInv, NEW r \in Requests, NEW to, NEW what, Moves(r, to, what),
         pc[r] # "done", UNCHANGED counterparties, UNCHANGED contactsAdded,
         HoldsWell(r, to, what), ~overlapped => HoldsLatest(r, to, what)
  PROVE  CounterpartiesInv'
<1>1. /\ DeskTyped' /\ OneAtATime'
      /\ pc'[r] = to /\ held'[r] = what
      /\ \A q \in Requests \ {r} : pc'[q] = pc[q] /\ held'[q] = held[q]
      /\ ~overlapped' => ~overlapped
  BY MoveTouches DEF CounterpartiesInv
<1>2. CounterpartiesNamed'
  BY <1>1 DEF CounterpartiesInv, CounterpartiesNamed, CounterpartyRecords
<1>3. BranchesHaveHeads' /\ ContactsStay'
  BY <1>1 DEF CounterpartiesInv, BranchesHaveHeads, ContactsStay
<1>4. \A q \in Requests : HoldsWell(q, pc'[q], held'[q])
  BY <1>1 DEF CounterpartiesInv
<1>5. (\A q \in Requests : HoldsWell(q, pc[q], held[q]))'
  BY <1>4 DEF HoldsWell, HasHead
<1>6. ASSUME ~overlapped'
      PROVE  \A q \in Requests : HoldsLatest(q, pc'[q], held'[q])
  BY <1>1, <1>6 DEF CounterpartiesInv
<1>7. (~overlapped => \A q \in Requests : HoldsLatest(q, pc[q], held[q]))'
  BY <1>6 DEF HoldsLatest
<1> QED
  BY <1>1, <1>2, <1>3, <1>5, <1>7 DEF CounterpartiesInv

LEMMA InsertStep ==
  ASSUME CounterpartiesInv, NEW r \in Requests, Insert(r)
  PROVE  CounterpartiesInv'
<1>1. /\ Moves(r, "done", None) /\ pc[r] = "new"
      /\ counterparties' = counterparties \cup {held[r]} /\ UNCHANGED contactsAdded
  BY EndMoves DEF Insert, Ended
<1>2. /\ DeskTyped' /\ OneAtATime'
      /\ pc'[r] = "done"
      /\ \A q \in Requests \ {r} : pc'[q] = pc[q] /\ held'[q] = held[q]
      /\ ~overlapped' => ~overlapped /\ \A q \in Requests \ {r} : ~InProgress(q)'
  BY <1>1, MoveTouches DEF CounterpartiesInv
<1>3. held[r] \in CounterpartyRecords /\ held[r].id = r /\ HasHead(held[r])
  BY <1>1 DEF CounterpartiesInv, HoldsWell
<1>4. CounterpartiesNamed'
  <2>1. counterparties' \subseteq CounterpartyRecords
    BY <1>1, <1>3 DEF CounterpartiesInv, CounterpartiesNamed
  <2>2. \A c \in counterparties : c.id \in Requests \ {r}
    BY <1>1 DEF CounterpartiesInv, CounterpartiesNamed, CounterpartyRecords
  <2>3. \A c \in counterparties' : pc'[c.id] = "done"
    BY <1>1, <1>2, <1>3, <2>2 DEF CounterpartiesInv, CounterpartiesNamed
  <2>4. \A c, d \in counterparties' : c.id = d.id => c = d
    BY <1>1, <1>3, <2>2 DEF CounterpartiesInv, CounterpartiesNamed
  <2> QED
    BY <2>1, <2>3, <2>4 DEF CounterpartiesNamed, CounterpartyRecords
<1>5. \A c : HasHead(c) => HasHead(c)'
  BY <1>1 DEF HasHead
<1>6. BranchesHaveHeads'
  BY <1>1, <1>3, <1>5 DEF CounterpartiesInv, BranchesHaveHeads, HasHead
<1>7. ContactsStay'
  BY <1>1, <1>2 DEF CounterpartiesInv, ContactsStay
<1>8. (\A q \in Requests : HoldsWell(q, pc[q], held[q]))'
  <2>1. \A q \in Requests : HoldsWell(q, pc'[q], held'[q])
    BY <1>1, <1>2 DEF CounterpartiesInv, HoldsWell
  <2> QED
    BY <1>1, <1>5, <2>1 DEF HoldsWell
<1>9. (~overlapped => \A q \in Requests : HoldsLatest(q, pc[q], held[q]))'
  BY <1>2 DEF HoldsLatest, InProgress, Ended
<1> QED
  BY <1>2, <1>4, <1>6, <1>7, <1>8, <1>9 DEF CounterpartiesInv

LEMMA CommitContactStep ==
  ASSUME CounterpartiesInv, NEW r \in Requests, CommitContact(r)
  PROVE  CounterpartiesInv'
<1> DEFINE Written(c) == IF c.id = held[r].id THEN [c EXCEPT !.contacts = held[r].contacts] ELSE c
<1>1. /\ Moves(r, "done", None) /\ pc[r] = "appended"
      /\ counterparties' = {Written(c) : c \in counterparties}
      /\ contactsAdded' = contactsAdded \cup {[to |-> held[r].id, person |-> r]}
  BY EndMoves DEF CommitContact, Ended
<1>2. /\ DeskTyped' /\ OneAtATime'
      /\ pc'[r] = "done"
      /\ \A q \in Requests \ {r} : pc'[q] = pc[q] /\ held'[q] = held[q]
      /\ ~overlapped' => ~overlapped /\ \A q \in Requests \ {r} : ~InProgress(q)'
  BY <1>1, MoveTouches DEF CounterpartiesInv
<1>3. held[r] \in CounterpartyRecords
  BY <1>1 DEF CounterpartiesInv, HoldsWell
<1>4. \A c \in counterparties :
         /\ Written(c) \in CounterpartyRecords /\ SameCounterparty(Written(c), c)
         /\ c.id # held[r].id => Written(c) = c
         /\ c.id = held[r].id => Written(c).contacts = held[r].contacts
  BY <1>3 DEF CounterpartiesInv, CounterpartiesNamed, CounterpartyRecords, SameCounterparty
<1> HIDE DEF Written
<1>5. CounterpartiesNamed'
  <2>1. counterparties' \subseteq CounterpartyRecords
    BY <1>1, <1>4
  <2>2. \A c \in counterparties' : pc'[c.id] = "done"
    <3>1. \A c \in counterparties : pc[c.id] = "done" /\ c.id \in Requests
      BY DEF CounterpartiesInv, CounterpartiesNamed, CounterpartyRecords
    <3> QED
      BY <1>1, <1>2, <1>4, <3>1 DEF SameCounterparty
  <2>3. \A c, d \in counterparties' : c.id = d.id => c = d
    BY <1>1, <1>4 DEF SameCounterparty, CounterpartiesInv, CounterpartiesNamed
  <2> QED
    BY <2>1, <2>2, <2>3 DEF CounterpartiesNamed, CounterpartyRecords
<1>6. \A c : HasHead(c) => HasHead(c)'
  <2> SUFFICES ASSUME NEW c, HasHead(c), c.parent_id # None
               PROVE  c.type = "BRANCH" /\ \E h \in counterparties' :
                        h.id = c.parent_id /\ h.type = "LEGAL_ENTITY" /\
                        h.parent_id = None /\ h.inn = c.inn
    BY DEF HasHead
  <2>1. PICK h \in counterparties :
           h.id = c.parent_id /\ h.type = "LEGAL_ENTITY" /\ h.parent_id = None /\ h.inn = c.inn
    BY DEF HasHead
  <2>2. Written(h) \in counterparties' /\ SameCounterparty(Written(h), h)
    BY <1>1, <1>4
  <2> QED
    BY <2>1, <2>2 DEF HasHead, SameCounterparty
<1>7. BranchesHaveHeads'
  <2>1. \A d \in counterparties' : HasHead(d)'
    <3> SUFFICES ASSUME NEW c \in counterparties, NEW d, d = Written(c)
                 PROVE  HasHead(d)'
      BY <1>1
    <3>1. HasHead(c)
      BY DEF CounterpartiesInv, BranchesHaveHeads, HasHead
    <3>2. HasHead(c)'
      BY <1>6, <3>1
    <3>3. d.type = c.type /\ d.inn = c.inn /\ d.parent_id = c.parent_id
      BY <1>4 DEF SameCounterparty
    <3> QED
      BY <3>2, <3>3 DEF HasHead
  <2> QED
    BY <2>1 DEF BranchesHaveHeads, HasHead
<1>8. (\A q \in Requests : HoldsWell(q, pc[q], held[q]))'
  <2>1. \A q \in Requests : HoldsWell(q, pc'[q], held'[q])
    BY <1>1, <1>2 DEF CounterpartiesInv, HoldsWell
  <2>2. \A what : (\E c \in counterparties : SameCounterparty(c, what))
                      => (\E c \in counterparties' : SameCounterparty(c, what))
    BY <1>1, <1>4 DEF SameCounterparty
  <2> QED
    BY <1>6, <2>1, <2>2 DEF HoldsWell
<1>9. (~overlapped => \A q \in Requests : HoldsLatest(q, pc[q], held[q]))'
  BY <1>2 DEF HoldsLatest, InProgress, Ended
<1>10. ContactsStay'
  <2> SUFFICES ASSUME ~overlapped', NEW a \in contactsAdded'
               PROVE  \E c \in counterparties' : c.id = a.to /\ a.person \in c.contacts
    BY DEF ContactsStay
  <2>1. PICK d \in counterparties : held[r] = [d EXCEPT !.contacts = @ \cup {r}]
    BY <1>1, <1>2 DEF CounterpartiesInv, HoldsLatest
  <2>2. held[r].id = d.id /\ held[r].contacts = d.contacts \cup {r}
    BY <2>1 DEF CounterpartiesInv, CounterpartiesNamed, CounterpartyRecords
  <2>3. /\ Written(d) \in counterparties' /\ Written(d).id = d.id
        /\ Written(d).contacts = d.contacts \cup {r}
    BY <1>1, <1>4, <2>2 DEF SameCounterparty
  <2>4. CASE a = [to |-> held[r].id, person |-> r]
    BY <2>2, <2>3, <2>4
  <2>5. CASE a \in contactsAdded
    <3>1. PICK c \in counterparties : c.id = a.to /\ a.person \in c.contacts
      BY <1>2, <2>5 DEF CounterpartiesInv, ContactsStay
    <3>2. CASE c.id = d.id
      <4>1. c = d
        BY <3>2 DEF CounterpartiesInv, CounterpartiesNamed
      <4> QED
        BY <2>3, <3>1, <4>1
    <3>3. CASE c.id # d.id
      BY <1>1, <1>4, <2>2, <3>1, <3>3
    <3> QED
      BY <3>2, <3>3
  <2> QED
    BY <1>1, <2>4, <2>5
<1> QED
  BY <1>2, <1>5, <1>7, <1>8, <1>9, <1>10 DEF CounterpartiesInv

LEMMA CounterpartiesStepInv ==
  CounterpartiesInv /\ [CounterpartiesNext]_<<deskVars, counterpartyVars>> => CounterpartiesInv'
<1> SUFFICES ASSUME CounterpartiesInv, [CounterpartiesNext]_<<deskVars, counterpartyVars>>
             PROVE  CounterpartiesInv'
  OBVIOUS
<1>1. CASE UNCHANGED <<deskVars, counterpartyVars>>
  <2>1. /\ UNCHANGED pc /\ UNCHANGED held /\ UNCHANGED overlapped
        /\ UNCHANGED counterparties /\ UNCHANGED contactsAdded
    BY <1>1 DEF deskVars, counterpartyVars
  <2>2. DeskTyped' /\ OneAtATime'
    BY <2>1 DEF CounterpartiesInv, DeskTyped, OneAtATime, InProgress
  <2>3. CounterpartiesNamed' /\ BranchesHaveHeads' /\ ContactsStay'
    BY <2>1 DEF CounterpartiesInv, CounterpartiesNamed, CounterpartyRecords,
                BranchesHaveHeads, ContactsStay
  <2>4. (\A r \in Requests : HoldsWell(r, pc[r], held[r]))'
    BY <2>1 DEF CounterpartiesInv, HoldsWell, HasHead
  <2>5. (~overlapped => \A r \in Requests : HoldsLatest(r, pc[r], held[r]))'
    BY <2>1 DEF CounterpartiesInv, HoldsLatest
  <2> QED
    BY <2>2, <2>3, <2>4, <2>5 DEF CounterpartiesInv
<1> SUFFICES ASSUME NEW r \in Requests,
                    \/ \E type \in Types, inn \in Inns, email \in CounterpartyEmails, kpp \in BOOLEAN :
                          Create(r, type, inn, email, kpp)
                    \/ \E c \in counterparties : Read(r, c)
                    \/ \E email \in CounterpartyEmails : AddBranch(r, email)
                    \/ Insert(r)
                    \/ RefuseEmail(r)
                    \/ AddContactPerson(r)
                    \/ CommitContact(r)
                    \/ \E product \in Products : LinkProduct(r, product)
                    \/ Abandon(r) /\ UNCHANGED counterpartyVars
             PROVE  CounterpartiesInv'
  BY <1>1 DEF CounterpartiesNext
<1>2. ASSUME NEW type \in Types, NEW inn \in Inns, NEW email \in CounterpartyEmails,
             NEW kpp \in BOOLEAN, Create(r, type, inn, email, kpp)
      PROVE  CounterpartiesInv'
  <2> DEFINE head == Counterparty(r, type, inn, email, None)
  <2>1. Moves(r, "new", head) /\ pc[r] = "idle" /\ UNCHANGED counterpartyVars
    BY <1>2 DEF Create, Moves, Start
  <2>2. head \in CounterpartyRecords /\ head.id = r /\ head.parent_id = None
    BY DEF Counterparty, CounterpartyRecords
  <2> HIDE DEF head
  <2>3. HoldsWell(r, "new", head) /\ HoldsLatest(r, "new", head)
    BY <2>2 DEF HoldsWell, HoldsLatest, HasHead
  <2> QED
    BY <2>1, <2>3, CounterpartiesQuiet DEF counterpartyVars
<1>3. ASSUME NEW c \in counterparties, Read(r, c)
      PROVE  CounterpartiesInv'
  <2>1. Moves(r, "read", c) /\ pc[r] = "idle" /\ UNCHANGED counterpartyVars
    BY <1>3 DEF Read, Moves, Start
  <2>2. HoldsWell(r, "read", c) /\ HoldsLatest(r, "read", c)
    BY DEF HoldsWell, HoldsLatest, SameCounterparty, CounterpartiesInv, CounterpartiesNamed
  <2> QED
    BY <2>1, <2>2, CounterpartiesQuiet DEF counterpartyVars
<1>4. ASSUME NEW email \in CounterpartyEmails, AddBranch(r, email)
      PROVE  CounterpartiesInv'
  <2> DEFINE branch == Counterparty(r, "BRANCH", held[r].inn, email, held[r].id)
  <2>1. Moves(r, "new", branch) /\ pc[r] = "read" /\ UNCHANGED counterpartyVars
    BY <1>4, StepMoves DEF AddBranch, Ended
  <2>2. held[r] \in CounterpartyRecords /\ held[r].type = "LEGAL_ENTITY"
    BY <1>4, <2>1 DEF AddBranch, CounterpartiesInv, HoldsWell
  <2>3. PICK c \in counterparties : SameCounterparty(c, held[r])
    BY <2>1 DEF CounterpartiesInv, HoldsWell
  <2>4. c.parent_id = None
    BY <2>2, <2>3 DEF CounterpartiesInv, BranchesHaveHeads, SameCounterparty
  <2>5. /\ branch \in CounterpartyRecords /\ branch.id = r /\ branch.type = "BRANCH"
        /\ branch.inn = held[r].inn /\ branch.parent_id = held[r].id
    BY <2>2 DEF Counterparty, CounterpartyRecords, Types
  <2> HIDE DEF branch
  <2>6. HoldsWell(r, "new", branch) /\ HoldsLatest(r, "new", branch)
    BY <2>2, <2>3, <2>4, <2>5 DEF HoldsWell, HoldsLatest, HasHead, SameCounterparty
  <2> QED
    BY <2>1, <2>6, CounterpartiesQuiet DEF counterpartyVars
<1>5. CASE RefuseEmail(r)
  <2>1. Moves(r, "failed", None) /\ pc[r] = "new" /\ UNCHANGED counterpartyVars
    BY <1>5, EndMoves DEF RefuseEmail, Ended
  <2>2. HoldsWell(r, "failed", None) /\ HoldsLatest(r, "failed", None)
    BY DEF HoldsWell, HoldsLatest
  <2> QED
    BY <2>1, <2>2, CounterpartiesQuiet DEF counterpartyVars
<1>6. CASE AddContactPerson(r)
  <2> DEFINE what == [held[r] EXCEPT !.contacts = @ \cup {r}]
  <2>1. Moves(r, "appended", what) /\ pc[r] = "read" /\ UNCHANGED counterpartyVars
    BY <1>6, StepMoves DEF AddContactPerson, Ended
  <2>2. HoldsWell(r, "appended", what)
    BY <2>1 DEF HoldsWell, CounterpartiesInv, CounterpartyRecords
  <2>3. ~overlapped => HoldsLatest(r, "appended", what)
    BY <2>1 DEF HoldsLatest, CounterpartiesInv
  <2> QED
    BY <2>1, <2>2, <2>3, CounterpartiesQuiet DEF counterpartyVars
<1>7. ASSUME NEW product \in Products, LinkProduct(r, product)
      PROVE  CounterpartiesInv'
  <2>1. /\ Moves(r, "done", None) /\ pc[r] = "read"
        /\ UNCHANGED counterparties /\ UNCHANGED contactsAdded
    BY <1>7, EndMoves DEF LinkProduct, Ended
  <2>2. HoldsWell(r, "done", None) /\ HoldsLatest(r, "done", None)
    BY DEF HoldsWell, HoldsLatest
  <2> QED
    BY <2>1, <2>2, CounterpartiesQuiet
<1>8. CASE Abandon(r) /\ UNCHANGED counterpartyVars
  <2>1. Moves(r, "failed", None) /\ pc[r] # "done"
    BY <1>8, AbandonMoves DEF InProgress, Ended
  <2>2. HoldsWell(r, "failed", None) /\ HoldsLatest(r, "failed", None)
    BY DEF HoldsWell, HoldsLatest
  <2> QED
    BY <1>8, <2>1, <2>2, CounterpartiesQuiet DEF counterpartyVars
<1> QED
  BY <1>2, <1>3, <1>4, <1>5, <1>6, <1>7, <1>8, InsertStep, CommitContactStep

LEMMA CounterpartiesInvariant == CounterpartiesSpec => []CounterpartiesInv
BY CounterpartiesInitInv, CounterpartiesStepInv, PTL DEF CounterpartiesSpec

\* For any number of requests, overlapping or not: a counterparty with a head is the
\* branch of a legal entity that is no branch itself and has its INN
\* (CounterpartyService.add_branch and Counterparty.create_branch).
THEOREM BranchesAlwaysHaveHeads == CounterpartiesSpec => []BranchesHaveHeads
<1>1. CounterpartiesInv => BranchesHaveHeads
  BY DEF CounterpartiesInv
<1> QED
  BY CounterpartiesInvariant, <1>1, PTL

\* For any number of requests one after another: a contact person that was added is
\* not written over (CounterpartyService.add_contact_person).
THEOREM ContactsAreKept == CounterpartiesSpec => []ContactsStay
<1>1. CounterpartiesInv => ContactsStay
  BY DEF CounterpartiesInv
<1> QED
  BY CounterpartiesInvariant, <1>1, PTL

-----------------------------------------------------------------------------
(* Checked values: what is stored of a text is stored of itself.           *)

\* A text is a sequence of characters.
LEMMA TextsSeq == ASSUME NEW text \in Texts PROVE text \in Seq(Characters)
BY ValuesAssumption DEF Texts

\* What is kept of a text are the characters wanted, and keeping them again changes nothing.
LEMMA OnlyOfKeeps ==
  ASSUME NEW S, NEW text \in Seq(S), NEW chars
  PROVE  OnlyOf(text, chars) \in Seq(S) /\ AllOf(OnlyOf(text, chars), chars)
<1>1. PICK positions \in SUBSET DOMAIN text :
         positions = {i \in DOMAIN text : text[i] \in chars}
  OBVIOUS
<1>2. PICK part : part = Picked(text, positions)
  OBVIOUS
<1>3. /\ part \in Seq(S)
      /\ \A n \in DOMAIN part : \E i \in positions : part[n] = text[i]
  BY <1>2, AtPlace
<1>4. \A n \in DOMAIN part : part[n] \in chars
  BY <1>1, <1>3
<1> QED
  BY <1>1, <1>2, <1>3, <1>4 DEF OnlyOf, AllOf

LEMMA AllOfSeq ==
  ASSUME NEW S, NEW text \in Seq(S), NEW chars, AllOf(text, chars)
  PROVE  text \in Seq(chars)
BY DEF AllOf

LEMMA OnlyOfAll ==
  ASSUME NEW S, NEW text \in Seq(S), NEW chars, AllOf(text, chars)
  PROVE  OnlyOf(text, chars) = text
<1>1. {i \in DOMAIN text : text[i] \in chars} = DOMAIN text
  BY DEF AllOf
<1> QED
  BY <1>1, PickedAll DEF OnlyOf

LEMMA InCaseSeq ==
  ASSUME NEW text \in Seq(Characters), NEW letter \in LetterChars
  PROVE  InCase(text, letter) \in Seq(Characters) /\ Len(InCase(text, letter)) = Len(text)
<1>1. PICK cased : cased = InCase(text, letter)
  OBVIOUS
<1>2. cased = [i \in 1..Len(text) |-> IF text[i] \in LetterChars THEN letter ELSE text[i]]
  BY <1>1 DEF InCase
<1>3. letter \in Characters /\ \A i \in 1..Len(text) : text[i] \in Characters
  BY DEF Characters
<1>4. cased \in [1..Len(text) -> Characters] /\ Len(text) \in Nat
  BY <1>2, <1>3
<1> QED
  BY <1>1, <1>4

\* A text whose letters are in one case stays as it is in that case.
LEMMA InCaseAll ==
  ASSUME NEW S, NEW text \in Seq(S), NEW letter,
         \A i \in DOMAIN text : text[i] \in LetterChars => text[i] = letter
  PROVE  InCase(text, letter) = text
BY DEF InCase

\* Inn, Kpp and Okpo.
LEMMA NumberAgain ==
  ASSUME NEW text \in Texts, NEW k, Number(k, text) # NoText
  PROVE  Number(k, Number(k, text)) = Number(k, text)
<1> DEFINE chars == Characters \ {Space, "-"}
<1>1. PICK cleaned : cleaned = OnlyOf(text, chars)
  OBVIOUS
<1>2. cleaned \in Seq(Characters) /\ AllOf(cleaned, chars)
  BY <1>1, TextsSeq, OnlyOfKeeps
<1>3. OnlyOf(cleaned, chars) = cleaned
  BY <1>2, OnlyOfAll
<1> HIDE DEF chars
<1>4. \A t : Number(k, t) = Checked(/\ AllOf(OnlyOf(t, chars), DigitChars)
                                     /\ Len(OnlyOf(t, chars)) \in NumberLengths[k],
                                     OnlyOf(t, chars))
  BY DEF Number, chars
<1>5. Number(k, text) = cleaned
  BY <1>1, <1>4 DEF Checked
<1>6. Number(k, cleaned) = Number(k, text)
  BY <1>1, <1>3, <1>4
<1> QED
  BY <1>5, <1>6

\* ProjectKey.
LEMMA KeyAgain ==
  ASSUME NEW text \in Texts, KeyOf(text) # NoText
  PROVE  KeyOf(KeyOf(text)) = KeyOf(text)
<1> DEFINE chars == DigitChars \cup {Large}
<1>1. PICK cased : cased = InCase(text, Large)
  OBVIOUS
<1>2. cased \in Seq(Characters)
  BY <1>1, TextsSeq, InCaseSeq DEF LetterChars
<1>3. PICK cleaned : cleaned = OnlyOf(cased, chars)
  OBVIOUS
<1>4. cleaned \in Seq(Characters) /\ AllOf(cleaned, chars)
  BY <1>2, <1>3, OnlyOfKeeps
<1>5. \A i \in DOMAIN cleaned : cleaned[i] \in LetterChars => cleaned[i] = Large
  BY <1>4 DEF AllOf, DigitChars, LetterChars, Small, Large
<1>6. InCase(cleaned, Large) = cleaned /\ OnlyOf(cleaned, chars) = cleaned
  BY <1>4, <1>5, InCaseAll, OnlyOfAll
<1>7. KeyOf(text) = Checked(Len(cleaned) \in 2..MaxName /\ cleaned[1] = Large, cleaned)
  BY <1>1, <1>3 DEF KeyOf
<1>8. KeyOf(cleaned) = Checked(Len(cleaned) \in 2..MaxName /\ cleaned[1] = Large, cleaned)
  BY <1>6 DEF KeyOf
<1>9. KeyOf(text) = cleaned
  BY <1>7 DEF Checked
<1> QED
  BY <1>7, <1>8, <1>9

LEMMA StripSeq ==
  ASSUME NEW text \in Seq(Characters)
  PROVE  Strip(text) \in Seq(Characters)
<1>1. PICK positions \in SUBSET DOMAIN text :
         positions = {i \in DOMAIN text : /\ \E j \in 1..i : text[j] # Space
                                          /\ \E j \in i..Len(text) : text[j] # Space}
  OBVIOUS
<1>2. PICK part : part = Picked(text, positions)
  OBVIOUS
<1>3. part \in Seq(Characters)
  BY <1>2, AtPlace
<1> QED
  BY <1>1, <1>2, <1>3 DEF Strip

\* Nothing is stripped of a text without spaces.
LEMMA StripNothing ==
  ASSUME NEW S, NEW text \in Seq(S), \A i \in DOMAIN text : text[i] # Space
  PROVE  Strip(text) = text
<1>1. ASSUME NEW i \in DOMAIN text
      PROVE  /\ \E j \in 1..i : text[j] # Space
             /\ \E j \in i..Len(text) : text[j] # Space
  <2>1. i \in 1..i /\ i \in i..Len(text)
    OBVIOUS
  <2> QED
    BY <2>1
<1>2. {i \in DOMAIN text : /\ \E j \in 1..i : text[j] # Space
                           /\ \E j \in i..Len(text) : text[j] # Space} = DOMAIN text
  BY <1>1
<1> QED
  BY <1>2, PickedAll DEF Strip

\* Username.
LEMMA UsernameAgain ==
  ASSUME NEW text \in Texts, Username(text) # NoText
  PROVE  Username(Username(text)) = Username(text)
<1>1. PICK stripped : stripped = Strip(text)
  OBVIOUS
<1>2. stripped \in Seq(Characters)
  BY <1>1, TextsSeq, StripSeq
<1>3. PICK cleaned : cleaned = InCase(stripped, Small)
  OBVIOUS
<1>4. cleaned \in Seq(Characters)
  BY <1>2, <1>3, InCaseSeq DEF LetterChars
<1>5. Username(text) = cleaned /\ AllOf(cleaned, Characters \ {Space})
  BY <1>1, <1>3 DEF Username, Checked
<1>6. Strip(cleaned) = cleaned
  BY <1>4, <1>5, StripNothing DEF AllOf
<1>7. \A i \in DOMAIN cleaned : cleaned[i] \in LetterChars => cleaned[i] = Small
  BY <1>3 DEF InCase
<1>8. InCase(cleaned, Small) = cleaned
  BY <1>4, <1>7, InCaseAll
<1>9. Username(cleaned) = Username(text)
  BY <1>1, <1>3, <1>6, <1>8 DEF Username
<1> QED
  BY <1>5, <1>9

\* One space at a time, before something and after something.
SpacedOnce(text) ==
    \A n \in DOMAIN text : text[n] = Space =>
        /\ n > 1 /\ text[n - 1] # Space
        /\ \E m \in n..Len(text) : text[m] # Space

\* Joining the parts of a text makes it so: a space that stays is one place after the
\* character before it, and has the rest of the text after it.
LEMMA JoinedSpaced ==
  ASSUME NEW text \in Seq(Characters)
  PROVE  Joined(text) \in Seq(Characters) /\ SpacedOnce(Joined(text))
<1> DEFINE Separates(i) == /\ i > 1 /\ text[i - 1] # Space
                           /\ \E j \in i..Len(text) : text[j] # Space
<1>1. PICK N \in Nat : N = Len(text) /\ DOMAIN text = 1..N
  OBVIOUS
<1>2. PICK positions \in SUBSET DOMAIN text :
         positions = {i \in DOMAIN text : text[i] # Space \/ Separates(i)}
  OBVIOUS
<1>3. PICK part : part = Picked(text, positions)
  OBVIOUS
<1>4. /\ part \in Seq(Characters)
      /\ DOMAIN part = 1..Cardinality(positions) /\ Len(part) = Cardinality(positions)
      /\ \A i \in positions : part[Place(positions, i)] = text[i]
      /\ \A n \in DOMAIN part : \E i \in positions : Place(positions, i) = n /\ part[n] = text[i]
  BY <1>3, AtPlace
<1>5. ASSUME NEW n \in DOMAIN part, part[n] = Space
      PROVE  /\ n > 1 /\ part[n - 1] # Space
             /\ \E m \in n..Len(part) : part[m] # Space
  <2>1. PICK i \in positions : Place(positions, i) = n /\ part[n] = text[i]
    BY <1>4
  <2>2. Separates(i)
    BY <1>2, <1>5, <2>1
  <2>3. i - 1 \in positions /\ text[i - 1] # Space
    BY <1>1, <1>2, <2>1, <2>2
  <2>4. n = Place(positions, i - 1) + 1 /\ Place(positions, i - 1) \in 1..Cardinality(positions)
    <3>1. positions \in SUBSET (1..N)
      BY <1>1
    <3> QED
      BY <2>1, <2>3, <3>1, PlacesNext, PlacesTaken
  <2>5. part[n - 1] # Space /\ n > 1
    <3>1. PICK p \in Int : p = Place(positions, i - 1) /\ p >= 1
      BY <2>4
    <3>2. n - 1 = p
      BY <2>4, <3>1
    <3> QED
      BY <1>4, <2>3, <2>4, <3>1, <3>2
  <2>6. PICK j \in i..Len(text) : text[j] # Space
    BY <2>2
  <2>7. j \in positions /\ i <= j
    BY <1>1, <1>2, <2>1, <2>6
  <2>8. /\ Place(positions, j) \in 1..Cardinality(positions)
        /\ n <= Place(positions, j)
    <3>1. positions \in SUBSET (1..N)
      BY <1>1
    <3> QED
      BY <2>1, <2>7, <3>1, PlacesTaken, PlacesGrow
  <2>9. Place(positions, j) \in n..Len(part) /\ part[Place(positions, j)] # Space
    BY <1>4, <2>6, <2>7, <2>8
  <2> QED
    BY <2>5, <2>9
<1>6. part = Joined(text)
  BY <1>2, <1>3 DEF Joined
<1>7. SpacedOnce(part)
  BY <1>5 DEF SpacedOnce
<1> QED
  BY <1>4, <1>6, <1>7

LEMMA JoinedAll ==
  ASSUME NEW S, NEW text \in Seq(S), SpacedOnce(text)
  PROVE  Joined(text) = text
<1>1. {i \in DOMAIN text : \/ text[i] # Space
                           \/ /\ i > 1 /\ text[i - 1] # Space
                              /\ \E j \in i..Len(text) : text[j] # Space} = DOMAIN text
  BY DEF SpacedOnce
<1> QED
  BY <1>1, PickedAll DEF Joined

\* Title case changes letters to letters, once.
LEMMA TitleKeeps ==
  ASSUME NEW text \in Seq(Characters)
  PROVE  /\ Title(text) \in Seq(Characters) /\ Len(Title(text)) = Len(text)
         /\ \A i \in DOMAIN text :
               IF text[i] \in LetterChars THEN Title(text)[i] \in LetterChars
               ELSE Title(text)[i] = text[i]
         /\ Title(Title(text)) = Title(text)
<1>1. PICK N \in Nat : N = Len(text) /\ DOMAIN text = 1..N
  OBVIOUS
<1>2. PICK titled : titled = Title(text)
  OBVIOUS
<1>3. titled = [i \in 1..N |->
                   IF text[i] \notin LetterChars THEN text[i]
                   ELSE IF i > 1 /\ text[i - 1] \in LetterChars THEN Small ELSE Large]
  BY <1>1, <1>2 DEF Title
<1>4. LetterChars \subseteq Characters /\ Small \in LetterChars /\ Large \in LetterChars
  BY DEF Characters, LetterChars
<1>5. titled \in [1..N -> Characters]
  BY <1>1, <1>3, <1>4
<1>6. titled \in Seq(Characters) /\ Len(titled) = N
  BY <1>5
<1>7. \A i \in 1..N : IF text[i] \in LetterChars THEN titled[i] \in LetterChars
                      ELSE titled[i] = text[i]
  BY <1>3, <1>4
<1>8. Title(titled) = [i \in 1..N |->
                         IF titled[i] \notin LetterChars THEN titled[i]
                         ELSE IF i > 1 /\ titled[i - 1] \in LetterChars THEN Small ELSE Large]
  BY <1>3 DEF Title
<1>9. \A i \in 1..N : titled[i] \in LetterChars <=> text[i] \in LetterChars
  BY <1>7
<1>10. ASSUME NEW i \in 1..N
       PROVE  titled[i] = IF titled[i] \notin LetterChars THEN titled[i]
                          ELSE IF i > 1 /\ titled[i - 1] \in LetterChars THEN Small ELSE Large
  <2>1. i > 1 => i - 1 \in 1..N
    OBVIOUS
  <2> QED
    BY <1>3, <1>9, <2>1
<1>11. Title(titled) = titled
  BY <1>3, <1>8, <1>10
<1> QED
  BY <1>1, <1>2, <1>6, <1>7, <1>11

\* FullName.
LEMMA FullNameAgain ==
  ASSUME NEW text \in Texts, FullName(text) # NoText
  PROVE  FullName(FullName(text)) = FullName(text)
<1>1. PICK joined : joined = Joined(text)
  OBVIOUS
<1>2. joined \in Seq(Characters) /\ SpacedOnce(joined)
  BY <1>1, TextsSeq, JoinedSpaced
<1>3. PICK titled : titled = Title(joined)
  OBVIOUS
<1>4. /\ titled \in Seq(Characters) /\ Len(titled) = Len(joined) /\ Title(titled) = titled
      /\ \A i \in DOMAIN joined :
               IF joined[i] \in LetterChars THEN titled[i] \in LetterChars
               ELSE titled[i] = joined[i]
  BY <1>2, <1>3, TitleKeeps
<1>5. DOMAIN titled = DOMAIN joined /\ DOMAIN joined = 1..Len(joined) /\ Len(joined) \in Nat
  BY <1>2, <1>4
<1>6. \A i \in DOMAIN joined : titled[i] = Space <=> joined[i] = Space
  BY <1>4 DEF LetterChars, Small, Large, Space
<1>7. SpacedOnce(titled)
  <2> SUFFICES ASSUME NEW n \in DOMAIN titled, titled[n] = Space
               PROVE  /\ n > 1 /\ titled[n - 1] # Space
                      /\ \E m \in n..Len(titled) : titled[m] # Space
    BY DEF SpacedOnce
  <2>1. /\ n > 1 /\ joined[n - 1] # Space
        /\ \E m \in n..Len(joined) : joined[m] # Space
    BY <1>2, <1>5, <1>6 DEF SpacedOnce
  <2>2. n \in 1..Len(joined) /\ n - 1 \in DOMAIN joined
    BY <1>5, <2>1
  <2> QED
    BY <1>4, <1>5, <1>6, <2>1, <2>2
<1>8. Joined(titled) = titled
  BY <1>4, <1>7, JoinedAll
<1>9. /\ FullName(text) = titled
      /\ \E i \in DOMAIN joined : joined[i] = Space
      /\ AllOf(joined, LetterChars \cup Specials \cup {Space})
  BY <1>1, <1>3 DEF FullName, Checked
<1>10. \E i \in DOMAIN titled : titled[i] = Space
  BY <1>5, <1>6, <1>9
<1>11. AllOf(titled, LetterChars \cup Specials \cup {Space})
  BY <1>4, <1>5, <1>9 DEF AllOf
<1>12. FullName(titled) = titled
  BY <1>4, <1>8, <1>10, <1>11 DEF FullName, Checked
<1> QED
  BY <1>9, <1>12

\* Without its first digit a number of phone is its last digits.
LEMMA SubscriberLast ==
  ASSUME NEW digits \in Seq(DigitChars), Len(Subscriber(digits)) = SubscriberLength
  PROVE  /\ Subscriber(digits) \in Seq(DigitChars)
         /\ Subscriber(digits) =
               SubSeq(digits, Len(digits) - SubscriberLength + 1, Len(digits))
<1>1. CASE Subscriber(digits) = digits
  <2>1. Len(digits) - SubscriberLength + 1 = 1
    BY <1>1
  <2>2. SubSeq(digits, 1, Len(digits)) = digits
    OBVIOUS
  <2> QED
    BY <1>1, <2>1, <2>2
<1>2. CASE digits # <<>> /\ Subscriber(digits) = Tail(digits)
  <2>1. PICK rest : rest = Tail(digits)
    OBVIOUS
  <2>2. rest \in Seq(DigitChars) /\ Len(rest) = Len(digits) - 1
        /\ \A i \in 1..Len(rest) : rest[i] = digits[i + 1]
    BY <1>2, <2>1
  <2>3. Len(digits) - SubscriberLength + 1 = 2
    BY <1>2, <2>1, <2>2
  <2>4. SubSeq(digits, 2, Len(digits)) = rest
    BY <2>2
  <2> QED
    BY <1>2, <2>1, <2>2, <2>3, <2>4
<1> QED
  BY <1>1, <1>2 DEF Subscriber

\* Phone: of what is stored, the plus is no digit and the 7 is dropped again.
LEMMA PhoneAgain ==
  ASSUME NEW text \in Texts, Phone(text) # NoText
  PROVE  /\ Phone(text) = Country \o LastDigits(text)
         /\ Phone(Phone(text)) = Phone(text)
<1>1. PICK digits : digits = OnlyOf(text, DigitChars)
  OBVIOUS
<1>2. digits \in Seq(DigitChars)
  BY <1>1, TextsSeq, OnlyOfKeeps, AllOfSeq
<1>3. PICK subscriber : subscriber = Subscriber(digits)
  OBVIOUS
<1>4. Phone(text) = Country \o subscriber /\ Len(subscriber) = SubscriberLength
  BY <1>1, <1>3 DEF Phone, Checked
<1>5. /\ subscriber \in Seq(DigitChars)
      /\ subscriber = LastDigits(text)
  BY <1>1, <1>2, <1>3, <1>4, SubscriberLast DEF LastDigits
<1>6. PICK column : column = Country \o subscriber
  OBVIOUS
<1>7. /\ column \in Seq(DigitChars \cup {"+"}) /\ Len(column) = SubscriberLength + 2
      /\ column[1] = "+" /\ column[2] = "7"
      /\ \A i \in 3..Len(column) : column[i] = subscriber[i - 2]
  BY <1>4, <1>5, <1>6 DEF Country, DigitChars
<1>8. {i \in DOMAIN column : column[i] \in DigitChars} = 2..Len(column)
  <2>1. ASSUME NEW i \in 3..Len(column) PROVE column[i] \in DigitChars
    <3>1. i - 2 \in 1..Len(subscriber)
      BY <1>4, <1>5, <1>7, ValuesAssumption
    <3> QED
      BY <1>5, <1>7, <3>1
  <2>2. column[1] \notin DigitChars /\ column[2] \in DigitChars
    BY <1>7 DEF DigitChars
  <2> QED
    BY <1>7, <2>1, <2>2, ValuesAssumption
<1>9. PICK again : again = OnlyOf(column, DigitChars)
  OBVIOUS
<1>10. /\ again \in Seq(DigitChars \cup {"+"}) /\ Len(again) = SubscriberLength + 1
       /\ \A n \in 1..(SubscriberLength + 1) : again[n] = column[n + 1]
  <2>1. PICK k \in 1..(Len(column) + 1) : k = 2
    BY <1>7, ValuesAssumption
  <2>2. again = Picked(column, k..Len(column))
    BY <1>8, <1>9, <2>1 DEF OnlyOf
  <2>3. /\ again \in Seq(DigitChars \cup {"+"}) /\ Len(again) = Len(column) - k + 1
        /\ \A n \in 1..(Len(column) - k + 1) : again[n] = column[n + k - 1]
    BY <1>7, <2>2, PickedFrom
  <2> QED
    BY <1>7, <2>1, <2>3, ValuesAssumption
<1>11. Subscriber(again) = Tail(again)
  <2>1. again # <<>> /\ again[1] = "7"
    BY <1>7, <1>10, ValuesAssumption
  <2> QED
    BY <1>10, <2>1 DEF Subscriber
<1>12. Tail(again) = subscriber
  <2>1. PICK rest : rest = Tail(again)
    OBVIOUS
  <2>2. /\ rest \in Seq(DigitChars \cup {"+"}) /\ Len(rest) = SubscriberLength
        /\ \A n \in 1..SubscriberLength : rest[n] = again[n + 1]
    BY <1>10, <2>1, ValuesAssumption
  <2>3. ASSUME NEW n \in 1..SubscriberLength PROVE rest[n] = subscriber[n]
    <3>1. again[n + 1] = column[(n + 1) + 1]
      BY <1>10, ValuesAssumption
    <3>2. column[(n + 1) + 1] = subscriber[((n + 1) + 1) - 2]
      BY <1>7, ValuesAssumption
    <3>3. ((n + 1) + 1) - 2 = n
      BY ValuesAssumption
    <3> QED
      BY <2>2, <3>1, <3>2, <3>3
  <2>4. rest = subscriber
    BY <1>4, <1>5, <2>2, <2>3
  <2> QED
    BY <2>1, <2>4
<1>13. Phone(column) = Checked(Len(subscriber) = SubscriberLength, Country \o subscriber)
  BY <1>9, <1>11, <1>12 DEF Phone
<1> QED
  BY <1>4, <1>5, <1>6, <1>13 DEF Checked

\* Whatever is stored is stored of itself.
LEMMA BuiltAgain ==
  ASSUME NEW k \in ValueKinds, NEW text \in Texts, Built(k, text) # NoText
  PROVE  /\ Built(k, Built(k, text)) = Built(k, text)
         /\ k = "PHONE" => Built(k, text) = Country \o LastDigits(text)
<1>1. CASE k \in Numbers
  BY <1>1, NumberAgain DEF Built, Numbers
<1>2. CASE k = "PHONE"
  BY <1>2, PhoneAgain DEF Built, Numbers
<1>3. CASE k = "FULL_NAME"
  BY <1>3, FullNameAgain DEF Built, Numbers
<1>4. CASE k = "USERNAME"
  BY <1>4, UsernameAgain DEF Built, Numbers
<1>5. CASE k = "PROJECT_KEY"
  BY <1>5, KeyAgain DEF Built, Numbers
<1> QED
  BY <1>1, <1>2, <1>3, <1>4, <1>5 DEF ValueKinds

\* What ReadsBack needs to be inductive: what was given is a text.
ValuesInv == kind \in ValueKinds /\ ReadsBack /\ (stored # NoText => given \in Texts)

LEMMA ValuesStepInv == ValuesInv /\ [ValuesNext]_valueVars => ValuesInv'
<1> SUFFICES ASSUME ValuesInv, [ValuesNext]_valueVars PROVE ValuesInv'
  OBVIOUS
<1>1. ASSUME NEW text \in Texts, GiveValue(text) PROVE ValuesInv'
  <2>1. /\ Built(kind, text) # NoText
        /\ given' = text /\ stored' = Built(kind, text) /\ read' = stored' /\ kind' = kind
    BY <1>1 DEF GiveValue
  <2>2. kind = "PHONE" => Built(kind, text) = Country \o LastDigits(text)
    BY <2>1, BuiltAgain DEF ValuesInv
  <2>3. ReadsBack'
    BY <2>1, <2>2 DEF ReadsBack
  <2> QED
    BY <2>1, <2>3 DEF ValuesInv
<1>2. CASE ReadBack
  <2>1. /\ stored # NoText
        /\ read' = Built(kind, stored) /\ stored' \in {stored, read'}
        /\ given' = given /\ kind' = kind
    BY <1>2 DEF ReadBack
  <2>2. /\ given \in Texts /\ kind \in ValueKinds /\ stored = Built(kind, given)
        /\ kind = "PHONE" => stored = Country \o LastDigits(given)
    BY <2>1 DEF ValuesInv, ReadsBack
  <2>3. Built(kind, stored) = stored
    BY <2>1, <2>2, BuiltAgain
  <2>4. read' = stored /\ stored' = stored
    BY <2>1, <2>3
  <2>5. ReadsBack'
    BY <2>1, <2>2, <2>4 DEF ReadsBack
  <2> QED
    BY <2>1, <2>2, <2>5 DEF ValuesInv
<1>3. CASE UNCHANGED valueVars
  BY <1>3 DEF valueVars, ValuesInv, ReadsBack
<1> QED
  BY <1>1, <1>2, <1>3 DEF ValuesNext

\* For texts of any length and numbers of any lengths: what a constructor accepted it
\* accepts again from the column, and the column stays as it is however often it is read
\* and merged back; a phone is +7 and the last digits given.  (Inn, Kpp, Okpo, Phone and
\* the other value classes, under to_entity of the mappers.)
THEOREM ValuesReadBack == ValuesSpec => []ReadsBack
<1>1. ValuesInit => ValuesInv
  BY DEF ValuesInit, ValuesInv, ReadsBack
<1>2. ValuesInv => ReadsBack
  BY DEF ValuesInv
<1> QED
  BY <1>1, <1>2, ValuesStepInv, PTL DEF ValuesSpec
=============================================================================
