---------------------------- MODULE TicketNumbers ---------------------------
(***************************************************************************)
(* The numbers of tickets, PREFIX-YY-SEQUENCE: TicketService.create counts *)
(* the tickets of the new ticket's namespace (get_total), makes a number   *)
(* of the count, the prefix and the year (TicketNumber.create), inserts    *)
(* and commits.  Between the count and the commit other requests count and *)
(* commit, and a year may begin.  The unique index on tickets.number is    *)
(* all that keeps two requests from one number: the second INSERT waits    *)
(* for the first transaction and fails when that one commits, so a         *)
(* transaction is one step here.                                           *)
(*                                                                         *)
(* A namespace is a project, a counterparty, or the internal tickets.      *)
(* Tickets are never deleted (archiving keeps the row), so counts grow.    *)
(***************************************************************************)
EXTENDS Naturals, FiniteSets

CONSTANTS
    Requests,      \* creations, each made once
    Namespaces,
    PrefixOf,      \* the prefix of each namespace: a project's key, the first
                   \* ten letters and digits of a counterparty's name, or INT
    FirstYear,
    LastYear,      \* bound: the clock stops here
    MaxSequence,   \* the largest sequence of SEQUENCE_LENGTH digits
    Serial         \* TRUE: a creation starts only when no other one is running

ASSUME NumbersAssumption ==
    /\ PrefixOf \in [Namespaces -> STRING]
    /\ FirstYear \in Nat /\ LastYear \in Nat /\ FirstYear <= LastYear
    /\ MaxSequence \in Nat
    /\ Serial \in BOOLEAN

VARIABLES
    pc,      \* where each request is
    row,     \* the row each request is going to insert, or NoRow
    rows,    \* the rows of table tickets
    year     \* the server's clock

vars == <<pc, row, rows, year>>

-----------------------------------------------------------------------------
Numbers == [prefix : STRING, year : 0..99, sequence : Nat]

Rows == [namespace : Namespaces, number : Numbers]

NoRow == [namespace |-> "none"]

\* TicketNumber.__post_init__; every other condition of the format holds for what
\* create puts together.
IsValid(number) == number.prefix # "" /\ number.sequence <= MaxSequence

In(n) == {t \in rows : t.namespace = n}

\* SqlTicketRepository.get_total.
Total(n) == Cardinality(In(n))

Taken(number) == \E t \in rows : t.number = number

-----------------------------------------------------------------------------
Init ==
    /\ pc = [r \in Requests |-> "idle"]
    /\ row = [r \in Requests |-> NoRow]
    /\ rows = {}
    /\ year = FirstYear

MayStart(r) ==
    /\ pc[r] = "idle"
    /\ Serial => \A q \in Requests : pc[q] # "numbered"

\* Mutant: TicketNumber.create without the + 1.
NumberFromZero(n, total) ==
    [prefix |-> PrefixOf[n], year |-> year % 100, sequence |-> total]

\* Mutant: every number gets the internal prefix.
NumberUnprefixed(n, total) ==
    [prefix |-> "INT", year |-> year % 100, sequence |-> total + 1]

\* TicketNumber.create.
Number(n, total) ==
    [prefix |-> PrefixOf[n], year |-> year % 100, sequence |-> total + 1]

\* The count and the number made of it.  A request names a project or a counterparty
\* or neither, never both, so it counts where its ticket will be.
TakeNumber(r, n) ==
    /\ MayStart(r)
    /\ LET number == Number(n, Total(n))
       IN  /\ row' = [row EXCEPT ![r] = [namespace |-> n, number |-> number]]
           /\ \/ /\ IsValid(number)
                 /\ pc' = [pc EXCEPT ![r] = "numbered"]
              \/ /\ ~IsValid(number)
                 /\ pc' = [pc EXCEPT ![r] = "invalid"]
    /\ UNCHANGED <<rows, year>>

\* Mutant: the commit is forgotten.
InsertUncommitted(r) ==
    /\ pc[r] = "numbered"
    /\ ~Taken(row[r].number)
    /\ pc' = [pc EXCEPT ![r] = "created"]
    /\ UNCHANGED <<row, rows, year>>

\* Mutant: no unique index on the number.
InsertAnyway(r) ==
    /\ pc[r] = "numbered"
    /\ rows' = rows \cup {row[r]}
    /\ pc' = [pc EXCEPT ![r] = "created"]
    /\ UNCHANGED <<row, year>>

\* create, commit.
Insert(r) ==
    /\ pc[r] = "numbered"
    /\ ~Taken(row[r].number)
    /\ rows' = rows \cup {row[r]}
    /\ pc' = [pc EXCEPT ![r] = "created"]
    /\ UNCHANGED <<row, year>>

\* The unique index refuses the number; nothing retries.
Refuse(r) ==
    /\ pc[r] = "numbered"
    /\ Taken(row[r].number)
    /\ pc' = [pc EXCEPT ![r] = "refused"]
    /\ UNCHANGED <<row, rows, year>>

\* Ticket.create raises, or the process or the connection dies.
Fail(r) ==
    /\ pc[r] = "numbered"
    /\ pc' = [pc EXCEPT ![r] = "failed"]
    /\ UNCHANGED <<row, rows, year>>

NewYear ==
    /\ year < LastYear
    /\ year' = year + 1
    /\ UNCHANGED <<pc, row, rows>>

Next ==
    \/ \E r \in Requests :
          \/ \E n \in Namespaces : TakeNumber(r, n)
          \/ Insert(r)
          \/ Refuse(r)
          \/ Fail(r)
    \/ NewYear

Spec == Init /\ [][Next]_vars

-----------------------------------------------------------------------------
\* Every variable has its type; who has a row has made it himself.
TypeOK ==
    /\ pc \in [Requests -> {"idle", "numbered", "created", "refused", "invalid", "failed"}]
    /\ row \in [Requests -> Rows \cup {NoRow}]
    /\ rows \in SUBSET Rows
    /\ year \in FirstYear..LastYear
    /\ \A r \in Requests : pc[r] = "idle" <=> row[r] = NoRow
    /\ \A r \in Requests : pc[r] = "created" => row[r] \in rows

DistinctPrefixes ==
    \A m, n \in Namespaces : PrefixOf[m] = PrefixOf[n] => m = n

\* A creation that the unique index is going to refuse was overtaken: since it
\* counted, somebody else got a ticket into the same namespace.  So a crowd of
\* creations always gets one through.  Takes DistinctPrefixes.
LoserOvertaken ==
    \A r \in Requests : pc[r] = "numbered" /\ Taken(row[r].number) =>
        Total(row[r].namespace) >= row[r].number.sequence

\* The sequences of every namespace are 1, 2, ... without a gap and without a repetition.
Dense ==
    \A n \in Namespaces :
        /\ {t.number.sequence : t \in In(n)} = 1..Total(n)
        /\ \A t, u \in In(n) : t.number.sequence = u.number.sequence => t = u

\* The unique index lets no stale count through, as long as no year begins: however
\* creations race, the namespaces stay dense.
DenseSequences == year = FirstYear => Dense

\* What each request got, for the refinement.
Issued ==
    [r \in Requests |-> IF pc[r] = "created"
                        THEN <<row[r].namespace, row[r].number.sequence>>
                        ELSE <<>>]

N == INSTANCE NumberSequence
       WITH last <- [n \in Namespaces |-> Total(n)],
            issued <- Issued,
            turned <- year > FirstYear

\* Count, compute and insert, in three statements, amount to an atomic counter per
\* namespace, which a New Year makes lag.
ImplementsSequence == N!Spec

-----------------------------------------------------------------------------
(* What the sources say, and does not hold.                                *)

\* tickets/services/ticket.py:110: a unique number is generated.  A creation that
\* runs alone gets a number nobody has.
GeneratedUnique == Serial => \A r \in Requests : pc[r] # "refused"
=============================================================================
