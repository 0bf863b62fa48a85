------------------------- MODULE TicketNumbersProofs ------------------------
(***************************************************************************)
(* Proofs about TicketNumbers, for every set of creations and namespaces:  *)
(* a refused creation was overtaken, the sequences are dense within a year *)
(* and the whole is an atomic counter per namespace.                       *)
(***************************************************************************)
EXTENDS TicketNumbers, FiniteSetTheorems, TLAPS

\* Adding a row adds one to the count of its namespace and nothing to others.
LEMMA CountAdded ==
    ASSUME NEW S, IsFiniteSet(S), NEW t, t \notin S, NEW n
    PROVE  LET Of(T) == {u \in T : u.namespace = n}
           IN  /\ Cardinality(Of(S)) \in Nat
               /\ t.namespace = n => Cardinality(Of(S \cup {t})) = Cardinality(Of(S)) + 1
               /\ t.namespace # n => Of(S \cup {t}) = Of(S)
<1> DEFINE Of(T) == {u \in T : u.namespace = n}
<1>1. IsFiniteSet(Of(S))
  BY FS_Subset
<1>2. Cardinality(Of(S)) \in Nat
  BY <1>1, FS_CardinalityType
<1>3. CASE t.namespace = n
  <2>1. Of(S \cup {t}) = Of(S) \cup {t} /\ t \notin Of(S)
    BY <1>3
  <2>2. Cardinality(Of(S) \cup {t}) = Cardinality(Of(S)) + 1
    BY <1>1, <2>1, FS_AddElement
  <2> QED
    BY <1>2, <1>3, <2>1, <2>2
<1>4. CASE t.namespace # n
  BY <1>2, <1>4
<1> QED
  BY <1>3, <1>4

\* The empty row is no row.
LEMMA NoRowIsNotARow == NoRow \notin Rows
<1> SUFFICES ASSUME NoRow \in Rows PROVE FALSE
  OBVIOUS
<1>1. DOMAIN NoRow = {"namespace", "number"}
  BY DEF Rows
<1>2. DOMAIN NoRow = {"namespace"}
  BY DEF NoRow
<1> QED
  BY <1>1, <1>2

-----------------------------------------------------------------------------
(* Types.  The table is finite, so counts are numbers.                     *)

TypeInv == TypeOK /\ IsFiniteSet(rows)

\* A count of a finite table is a natural number, and its parts are finite.
LEMMA TotalIsNat ==
    ASSUME IsFiniteSet(rows), NEW n
    PROVE  IsFiniteSet(In(n)) /\ Total(n) \in Nat
BY FS_Subset, FS_CardinalityType DEF Total, In

\* The number that TakeNumber computes is a number.
LEMMA NumberType ==
    ASSUME TypeInv, NEW n \in Namespaces, NEW total \in Nat
    PROVE  /\ Number(n, total) \in Numbers
           /\ [namespace |-> n, number |-> Number(n, total)] \in Rows
<1>1. year \in Nat
  BY NumbersAssumption DEF TypeInv, TypeOK
<1>2. year % 100 \in 0..99
  BY <1>1
<1> QED
  BY <1>2, NumbersAssumption DEF Number, Numbers, Rows

\* TypeInv is inductive.
LEMMA TypeInvStep == TypeInv /\ [Next]_vars => TypeInv'
<1> SUFFICES ASSUME TypeInv, [Next]_vars PROVE TypeInv'
  OBVIOUS
<1> USE DEF TypeInv, TypeOK
<1>1. ASSUME NEW r \in Requests, NEW n \in Namespaces, TakeNumber(r, n)
      PROVE  TypeInv'
  <2> DEFINE new == [namespace |-> n, number |-> Number(n, Total(n))]
  <2>1. Total(n) \in Nat
    BY TotalIsNat
  <2>2. new \in Rows /\ new # NoRow
    BY <2>1, NumberType, NoRowIsNotARow
  <2>3. /\ row' = [row EXCEPT ![r] = new]
        /\ \/ pc' = [pc EXCEPT ![r] = "numbered"]
           \/ pc' = [pc EXCEPT ![r] = "invalid"]
        /\ pc[r] = "idle" /\ UNCHANGED <<rows, year>>
    BY <1>1 DEF TakeNumber, MayStart
  <2> HIDE DEF new
  <2> QED
    BY <2>2, <2>3
<1>2. ASSUME NEW r \in Requests, Insert(r)
      PROVE  TypeInv'
  <2>1. row[r] \in Rows
    BY <1>2 DEF Insert
  <2>2. IsFiniteSet(rows')
    BY <1>2, FS_AddElement DEF Insert
  <2> QED
    BY <1>2, <2>1, <2>2 DEF Insert
<1>3. ASSUME NEW r \in Requests, Refuse(r)
      PROVE  TypeInv'
  BY <1>3 DEF Refuse
<1>4. ASSUME NEW r \in Requests, Fail(r)
      PROVE  TypeInv'
  BY <1>4 DEF Fail
<1>5. CASE NewYear
  BY <1>5, NumbersAssumption DEF NewYear
<1>6. CASE UNCHANGED vars
  BY <1>6 DEF vars
<1> QED
  BY <1>1, <1>2, <1>3, <1>4, <1>5, <1>6 DEF Next

\* Every reachable state is typed, and a created ticket is in the table.
THEOREM NumbersTypeCorrect == Spec => []TypeOK
<1>1. Init => TypeInv
  BY NumbersAssumption, FS_EmptySet DEF Init, TypeInv, TypeOK
<1>2. TypeInv => TypeOK
  BY DEF TypeInv
<1> QED
  BY <1>1, <1>2, TypeInvStep, PTL DEF Spec

-----------------------------------------------------------------------------
(* Who is refused was overtaken.                                           *)

\* A row has its namespace's prefix and a sequence that its namespace has reached;
\* a creation on its way is at most one ahead.
BoundInv ==
    /\ TypeInv
    /\ \A t \in rows : /\ t.number.prefix = PrefixOf[t.namespace]
                       /\ t.number.sequence <= Total(t.namespace)
    /\ \A r \in Requests : pc[r] = "numbered" =>
          /\ row[r].number.prefix = PrefixOf[row[r].namespace]
          /\ row[r].number.sequence \in 1..(Total(row[r].namespace) + 1)

\* An insertion counts: its own namespace by one, the others not at all.
LEMMA InsertCounts ==
    ASSUME TypeInv, NEW r \in Requests, Insert(r), NEW n \in Namespaces
    PROVE  /\ Total(n) \in Nat
           /\ row[r] \in Rows /\ row[r] \notin rows
           /\ In(n)' = IF row[r].namespace = n THEN In(n) \cup {row[r]} ELSE In(n)
           /\ Total(n)' = IF row[r].namespace = n THEN Total(n) + 1 ELSE Total(n)
<1>1. row[r] \in Rows
  BY DEF Insert, TypeInv, TypeOK
<1>2. row[r] \notin rows
  BY DEF Insert, Taken
<1>3. rows' = rows \cup {row[r]}
  BY DEF Insert
<1>4. In(n)' = IF row[r].namespace = n THEN In(n) \cup {row[r]} ELSE In(n)
  BY <1>3 DEF In
<1>5. Total(n) \in Nat
  BY TotalIsNat DEF TypeInv
<1>6. IsFiniteSet(In(n)) /\ row[r] \notin In(n)
  BY <1>2, TotalIsNat DEF TypeInv, In
<1>7. Cardinality(In(n) \cup {row[r]}) = Cardinality(In(n)) + 1
  BY <1>6, FS_AddElement
<1> QED
  BY <1>1, <1>2, <1>4, <1>5, <1>7 DEF Total

\* BoundInv is inductive.
LEMMA BoundInvStep == BoundInv /\ [Next]_vars => BoundInv'
<1> SUFFICES ASSUME BoundInv, [Next]_vars PROVE BoundInv'
  OBVIOUS
<1>0. TypeInv /\ TypeInv'
  BY TypeInvStep DEF BoundInv
<1>t. \A n : Total(n) \in Nat
  BY <1>0, TotalIsNat DEF TypeInv
<1>s. \A t \in Rows : t.namespace \in Namespaces /\ t.number.sequence \in Nat
  BY DEF Rows, Numbers
<1>1. ASSUME NEW r \in Requests, NEW n \in Namespaces, TakeNumber(r, n)
      PROVE  BoundInv'
  <2>2. row' = [row EXCEPT ![r] = [namespace |-> n, number |-> Number(n, Total(n))]]
    BY <1>1 DEF TakeNumber
  <2>3. \A q \in Requests : q # r => pc'[q] = pc[q] /\ row'[q] = row[q]
    BY <1>0, <1>1, <2>2 DEF TakeNumber, TypeInv, TypeOK
  <2>4. row'[r] = [namespace |-> n, number |-> Number(n, Total(n))]
    BY <1>0, <2>2 DEF TypeInv, TypeOK
  <2>5. rows' = rows /\ \A m : Total(m)' = Total(m)
    BY <1>1 DEF TakeNumber, Total, In
  <2>6. row'[r].number.prefix = PrefixOf[row'[r].namespace]
        /\ row'[r].number.sequence \in 1..(Total(row'[r].namespace) + 1)
    BY <2>4, <1>t DEF Number
  <2> QED
    BY <1>0, <2>3, <2>5, <2>6 DEF BoundInv
<1>2. ASSUME NEW r \in Requests, Insert(r)
      PROVE  BoundInv'
  <2>1. \A n \in Namespaces :
           Total(n)' = IF row[r].namespace = n THEN Total(n) + 1 ELSE Total(n)
    BY <1>0, <1>2, InsertCounts
  <2>2. \A n \in Namespaces : Total(n) \in Nat /\ Total(n)' \in Nat /\ Total(n) <= Total(n)'
    BY <2>1, <1>t
  <2>3. rows' = rows \cup {row[r]} /\ row' = row /\ row[r] \in Rows
        /\ pc[r] = "numbered"
        /\ \A q \in Requests : pc'[q] = "numbered" => pc[q] = "numbered"
    BY <1>0, <1>2, InsertCounts DEF Insert, TypeInv, TypeOK
  <2>4. ASSUME NEW t \in rows'
        PROVE  /\ t.number.prefix = PrefixOf[t.namespace]
               /\ t.number.sequence <= Total(t.namespace)'
    <3>1. CASE t \in rows
      BY <3>1, <1>0, <1>s, <2>2 DEF BoundInv, TypeInv, TypeOK
    <3>2. CASE t = row[r]
      BY <3>2, <2>1, <2>3, <1>s DEF BoundInv
    <3> QED
      BY <2>3, <3>1, <3>2
  <2>5. ASSUME NEW q \in Requests, pc'[q] = "numbered"
        PROVE  /\ row[q].number.prefix = PrefixOf[row[q].namespace]
               /\ row[q].number.sequence \in 1..(Total(row[q].namespace)' + 1)
    <3>1. pc[q] = "numbered" /\ row[q] \in Rows
      BY <2>3, <2>5, <1>0 DEF TypeInv, TypeOK
    <3> DEFINE n == row[q].namespace
    <3>2. /\ row[q].number.prefix = PrefixOf[n]
          /\ row[q].number.sequence \in 1..(Total(n) + 1)
      BY <3>1 DEF BoundInv
    <3>3. n \in Namespaces /\ row[q].number.sequence \in Nat
      BY <3>1, <1>s
    <3>4. Total(n) \in Nat /\ Total(n)' \in Nat /\ Total(n) <= Total(n)'
      BY <3>3, <2>2, <2>3
    <3> QED
      BY <3>2, <3>3, <3>4
  <2> QED
    BY <1>0, <2>3, <2>4, <2>5 DEF BoundInv
<1>3. ASSUME UNCHANGED <<rows, row>>,
             \A q \in Requests : pc'[q] = "numbered" => pc[q] = "numbered"
      PROVE  BoundInv'
  <2>1. \A m : Total(m)' = Total(m)
    BY <1>3 DEF Total, In
  <2> QED
    BY <1>0, <1>3, <2>1 DEF BoundInv
<1>4. ASSUME NEW r \in Requests, Refuse(r) \/ Fail(r)
      PROVE  BoundInv'
  BY <1>0, <1>3, <1>4 DEF Refuse, Fail, TypeInv, TypeOK
<1>5. CASE NewYear
  BY <1>3, <1>5 DEF NewYear
<1>6. CASE UNCHANGED vars
  BY <1>3, <1>6 DEF vars
<1> QED
  BY <1>1, <1>2, <1>4, <1>5, <1>6 DEF Next

\* Rows and creations of the bounded numbers: a taken number belongs to the same
\* namespace, which has therefore reached its sequence.
LEMMA BoundImpliesOvertaken ==
    ASSUME DistinctPrefixes, BoundInv
    PROVE  LoserOvertaken
<1> SUFFICES ASSUME NEW r \in Requests, pc[r] = "numbered", NEW t \in rows,
                    t.number = row[r].number
             PROVE  Total(row[r].namespace) >= row[r].number.sequence
  BY DEF LoserOvertaken, Taken
<1>1. t \in Rows /\ row[r] \in Rows
  BY DEF BoundInv, TypeInv, TypeOK
<1>2. t.namespace = row[r].namespace
  BY <1>1 DEF BoundInv, DistinctPrefixes, Rows
<1>3. t.number.sequence \in Nat /\ Total(t.namespace) \in Nat
  BY <1>1, TotalIsNat DEF Rows, Numbers, BoundInv, TypeInv
<1> QED
  BY <1>2, <1>3 DEF BoundInv

\* The empty table respects the bounds.
LEMMA BoundInit == Init => BoundInv
<1> SUFFICES ASSUME Init PROVE BoundInv
  OBVIOUS
<1>1. TypeInv
  BY NumbersAssumption, FS_EmptySet DEF Init, TypeInv, TypeOK
<1> QED
  BY <1>1 DEF Init, BoundInv

\* With a prefix of its own for every namespace, a creation is refused only because
\* another one got through since it counted: whatever years begin in between.
THEOREM LosersAreOvertaken ==
    ASSUME DistinctPrefixes
    PROVE  Spec => []LoserOvertaken
<1>1. BoundInv /\ [Next]_vars => BoundInv'
  BY BoundInvStep
<1>2. BoundInv => LoserOvertaken
  BY BoundImpliesOvertaken
<1> QED
  BY <1>1, <1>2, BoundInit, PTL DEF Spec

\* One creation at a time: what it counted is what is there, and nobody was refused.
AloneInv ==
    /\ BoundInv
    /\ Serial => \A r \in Requests :
          /\ pc[r] # "refused"
          /\ pc[r] = "numbered" => row[r].number.sequence = Total(row[r].namespace) + 1
          /\ \A q \in Requests : pc[r] = "numbered" /\ pc[q] = "numbered" => q = r

\* AloneInv is inductive.
LEMMA AloneInvStep ==
    ASSUME DistinctPrefixes
    PROVE  AloneInv /\ [Next]_vars => AloneInv'
<1> SUFFICES ASSUME AloneInv, [Next]_vars, Serial PROVE AloneInv'
  BY BoundInvStep DEF AloneInv
<1>0. BoundInv /\ BoundInv' /\ TypeInv /\ TypeOK
  BY BoundInvStep DEF AloneInv, BoundInv, TypeInv
<1>1. ASSUME NEW r \in Requests, NEW n \in Namespaces, TakeNumber(r, n)
      PROVE  AloneInv'
  <2>1. \A q \in Requests : pc[q] # "numbered"
    BY <1>1 DEF TakeNumber, MayStart
  <2>2. \A q \in Requests : pc'[q] = "numbered" => q = r
    BY <1>0, <1>1, <2>1 DEF TakeNumber, TypeOK
  <2>3. \A q \in Requests : pc'[q] # "refused"
    BY <1>0, <1>1 DEF TakeNumber, TypeOK, AloneInv
  <2>4. row' = [row EXCEPT ![r] = [namespace |-> n, number |-> Number(n, Total(n))]]
        /\ rows' = rows
    BY <1>1 DEF TakeNumber
  <2>5. row'[r] = [namespace |-> n, number |-> Number(n, Total(n))]
    BY <1>0, <2>4 DEF TypeOK
  <2>6. row'[r].number.sequence = Total(n) + 1 /\ row'[r].namespace = n /\ Total(n)' = Total(n)
    <3>1. row'[r].number.sequence = Total(n) + 1 /\ row'[r].namespace = n
      BY <2>5 DEF Number
    <3>2. Total(n)' = Total(n)
      BY <2>4 DEF Total, In
    <3> QED
      BY <3>1, <3>2
  <2>7. \A q \in Requests : pc'[q] = "numbered" =>
           row'[q].number.sequence = Total(n)' + 1 /\ row'[q].namespace = n
    BY <2>2, <2>6
  <2>8. (\A q \in Requests : pc[q] = "numbered" =>
            row[q].number.sequence = Total(row[q].namespace) + 1)'
    BY <2>7
  <2>9. (\A p, q \in Requests : pc[p] = "numbered" /\ pc[q] = "numbered" => q = p)'
    BY <2>2
  <2> QED
    BY <1>0, <2>3, <2>8, <2>9 DEF AloneInv
<1>2. ASSUME NEW r \in Requests, NEW label \in {"created", "failed"},
             pc[r] = "numbered", pc' = [pc EXCEPT ![r] = label]
      PROVE  AloneInv'
  <2>1. \A q \in Requests : pc'[q] # "numbered" /\ pc'[q] # "refused"
    BY <1>0, <1>2 DEF AloneInv, TypeOK
  <2> QED
    BY <1>0, <2>1 DEF AloneInv
<1>3. ASSUME NEW r \in Requests, Refuse(r)
      PROVE  FALSE
  <2>1. Total(row[r].namespace) \in Nat
    BY <1>0, TotalIsNat DEF TypeInv
  <2>2. pc[r] = "numbered" /\ Taken(row[r].number)
    BY <1>3 DEF Refuse
  <2>3. row[r].number.sequence = Total(row[r].namespace) + 1
    BY <2>2 DEF AloneInv
  <2>4. Total(row[r].namespace) >= row[r].number.sequence
    BY <1>0, <2>2, BoundImpliesOvertaken DEF LoserOvertaken
  <2> QED
    BY <2>1, <2>3, <2>4
<1>4. ASSUME UNCHANGED <<pc, row, rows>>
      PROVE  AloneInv'
  <2>1. \A n : Total(n)' = Total(n)
    BY <1>4 DEF Total, In
  <2> QED
    BY <1>0, <1>4, <2>1 DEF AloneInv
<1> QED
  BY <1>1, <1>2, <1>3, <1>4 DEF Next, Insert, Fail, NewYear, vars

\* Creations that do not overlap are never refused: shared prefixes are the only reason
\* for a refusal besides a race.
THEOREM AloneIsNeverRefused ==
    ASSUME DistinctPrefixes
    PROVE  Spec => []GeneratedUnique
<1>1. Init => AloneInv
  BY BoundInit DEF Init, AloneInv
<1>2. AloneInv /\ [Next]_vars => AloneInv'
  BY AloneInvStep
<1>3. AloneInv => GeneratedUnique
  BY DEF AloneInv, GeneratedUnique
<1> QED
  BY <1>1, <1>2, <1>3, PTL DEF Spec

-----------------------------------------------------------------------------
(* In the first year the unique index makes the count current.             *)

\* All that is stored or on its way is of this year; the sequences are dense.
DenseInv ==
    /\ BoundInv
    /\ \A t \in rows : t.number.year = year % 100
    /\ \A r \in Requests : pc[r] = "numbered" => row[r].number.year = year % 100
    /\ Dense

\* Within a year, what is inserted is the next of its namespace: a smaller sequence
\* would be taken.
LEMMA InsertsTheNext ==
    ASSUME DenseInv, NEW r \in Requests, Insert(r)
    PROVE  row[r].number.sequence = Total(row[r].namespace) + 1
<1> DEFINE n == row[r].namespace
           s == row[r].number.sequence
<1>1. row[r] \in Rows /\ n \in Namespaces /\ s \in Nat
  BY DEF Insert, DenseInv, BoundInv, TypeInv, TypeOK, Rows, Numbers
<1>2. Total(n) \in Nat /\ s \in 1..(Total(n) + 1)
  BY TotalIsNat DEF Insert, DenseInv, BoundInv, TypeInv
<1>3. SUFFICES ASSUME s \in 1..Total(n) PROVE FALSE
  BY <1>1, <1>2
<1>4. PICK t \in In(n) : t.number.sequence = s
  BY <1>1, <1>3 DEF DenseInv, Dense
<1>5. t \in rows /\ t \in Rows /\ t.namespace = n
  BY <1>4 DEF In, DenseInv, BoundInv, TypeInv, TypeOK
<1>6. /\ t.number.prefix = row[r].number.prefix
      /\ t.number.year = row[r].number.year
  BY <1>5 DEF Insert, DenseInv, BoundInv
<1>7. t.number \in Numbers /\ row[r].number \in Numbers
  BY <1>1, <1>5 DEF Rows
<1>8. t.number = row[r].number
  BY <1>4, <1>6, <1>7 DEF Numbers
<1> QED
  BY <1>5, <1>8 DEF Insert, Taken

\* Adding the next sequence keeps a namespace dense.
LEMMA DenseAfterInsert ==
    ASSUME DenseInv, NEW r \in Requests, Insert(r)
    PROVE  Dense'
<1> DEFINE n == row[r].namespace
           Seqs(S) == {t.number.sequence : t \in S}
<1>0. TypeInv
  BY DEF DenseInv, BoundInv
<1>1. row[r].number.sequence = Total(n) + 1 /\ n \in Namespaces /\ row[r] \in Rows
  BY <1>0, InsertsTheNext, InsertCounts DEF Insert, TypeInv, TypeOK, Rows
<1> SUFFICES ASSUME NEW m \in Namespaces
             PROVE  /\ Seqs(In(m)') = 1..Total(m)'
                    /\ \A t, u \in In(m)' : t.number.sequence = u.number.sequence => t = u
  BY DEF Dense
<1>2. /\ Seqs(In(m)) = 1..Total(m)
      /\ \A t, u \in In(m) : t.number.sequence = u.number.sequence => t = u
  BY DEF DenseInv, Dense
<1>3. /\ Total(m) \in Nat
      /\ In(m)' = IF n = m THEN In(m) \cup {row[r]} ELSE In(m)
      /\ Total(m)' = IF n = m THEN Total(m) + 1 ELSE Total(m)
  BY <1>0, InsertCounts
<1>4. CASE n # m
  BY <1>2, <1>3, <1>4
<1>5. CASE n = m
  <2>1. In(m)' = In(m) \cup {row[r]} /\ Total(m)' = Total(m) + 1
    BY <1>3, <1>5
  <2>2. Seqs(In(m)') = Seqs(In(m)) \cup {Total(m) + 1}
    BY <1>1, <1>5, <2>1
  <2>3. 1..(Total(m) + 1) = 1..Total(m) \cup {Total(m) + 1}
    BY <1>3
  <2>4. \A t \in In(m) : t.number.sequence # Total(m) + 1
    <3>1. Total(m) + 1 \notin 1..Total(m)
      BY <1>3
    <3> QED
      BY <1>2, <3>1
  <2> QED
    BY <1>1, <1>2, <1>5, <2>1, <2>2, <2>3, <2>4
<1> QED
  BY <1>4, <1>5

\* Every step within a year keeps DenseInv.
LEMMA DenseInvStep ==
    ASSUME year' = year
    PROVE  DenseInv /\ [Next]_vars => DenseInv'
<1> SUFFICES ASSUME DenseInv, [Next]_vars PROVE DenseInv'
  OBVIOUS
<1>0. BoundInv /\ BoundInv' /\ TypeOK /\ TypeOK'
  BY BoundInvStep DEF DenseInv, BoundInv, TypeInv
<1>y. year' = year
  OBVIOUS
<1>1. ASSUME NEW r \in Requests, NEW n \in Namespaces, TakeNumber(r, n)
      PROVE  DenseInv'
  <2>1. row' = [row EXCEPT ![r] = [namespace |-> n,
                                   number |-> Number(n, Total(n))]]
        /\ rows' = rows
        /\ \A q \in Requests : q # r => pc'[q] = pc[q]
    BY <1>0, <1>1 DEF TakeNumber, TypeOK
  <2>2. row'[r].number.year = year % 100
    BY <1>0, <2>1 DEF Number, TypeOK
  <2>3. \A q \in Requests : q # r => row'[q] = row[q]
    BY <1>0, <2>1 DEF TypeOK
  <2>4. Dense'
    BY <2>1 DEF DenseInv, Dense, Total, In
  <2> QED
    BY <1>0, <1>y, <2>1, <2>2, <2>3, <2>4 DEF DenseInv
<1>2. ASSUME NEW r \in Requests, Insert(r)
      PROVE  DenseInv'
  <2>1. Dense'
    BY <1>2, DenseAfterInsert
  <2>2. rows' = rows \cup {row[r]} /\ row' = row /\ pc[r] = "numbered"
        /\ \A q \in Requests : pc'[q] = "numbered" => pc[q] = "numbered"
    BY <1>0, <1>2 DEF Insert, TypeOK
  <2> QED
    BY <1>0, <1>y, <2>1, <2>2 DEF DenseInv
<1>3. ASSUME UNCHANGED <<rows, row>>,
             \A q \in Requests : pc'[q] = "numbered" => pc[q] = "numbered"
      PROVE  DenseInv'
  <2>1. Dense'
    BY <1>3 DEF DenseInv, Dense, Total, In
  <2> QED
    BY <1>0, <1>y, <1>3, <2>1 DEF DenseInv
<1>4. ASSUME NEW r \in Requests, Refuse(r) \/ Fail(r)
      PROVE  DenseInv'
  BY <1>0, <1>3, <1>4 DEF Refuse, Fail, TypeOK
<1>5. CASE NewYear
  BY <1>3, <1>5 DEF NewYear
<1>6. CASE UNCHANGED vars
  BY <1>3, <1>6 DEF vars
<1> QED
  BY <1>1, <1>2, <1>4, <1>5, <1>6 DEF Next

\* The empty table is dense.
LEMMA DenseInit == Init => DenseInv
<1> SUFFICES ASSUME Init PROVE DenseInv
  OBVIOUS
<1>1. TypeInv /\ BoundInv
  BY NumbersAssumption, FS_EmptySet DEF Init, TypeInv, TypeOK, BoundInv
<1>2. \A n : In(n) = {} /\ Total(n) = 0
  BY FS_EmptySet DEF Init, In, Total
<1>3. Dense
  BY <1>2 DEF Dense
<1> QED
  BY <1>1, <1>3 DEF DenseInv, Init

\* Until a year begins the numbers are dense; bounded they always are.
FirstYearInv == BoundInv /\ (year = FirstYear => DenseInv)

\* FirstYearInv is inductive: the first year does not come back.
LEMMA FirstYearInvStep == FirstYearInv /\ [Next]_vars => FirstYearInv'
<1> SUFFICES ASSUME FirstYearInv, [Next]_vars, year' = FirstYear PROVE DenseInv'
  BY BoundInvStep DEF FirstYearInv
<1>1. year \in Nat /\ year >= FirstYear /\ FirstYear \in Nat
  BY NumbersAssumption DEF FirstYearInv, BoundInv, TypeInv, TypeOK
<1>2. year' = year \/ year' = year + 1
  BY DEF Next, TakeNumber, Insert, Refuse, Fail, NewYear, vars
<1>3. year' = year /\ year = FirstYear
  BY <1>1, <1>2
<1> QED
  BY <1>3, DenseInvStep DEF FirstYearInv

\* In the first year the sequences of every namespace are 1, 2, ... without gaps and
\* repetitions, however many creations race.
THEOREM SequencesAreDense == Spec => []DenseSequences
<1>1. Init => FirstYearInv
  BY DenseInit DEF FirstYearInv, DenseInv
<1>2. FirstYearInv => DenseSequences
  BY DEF FirstYearInv, DenseInv, DenseSequences
<1> QED
  BY <1>1, <1>2, FirstYearInvStep, PTL DEF Spec

-----------------------------------------------------------------------------
(* The refinement of the counter.                                          *)

\* The steps that insert nothing leave the counters and what was issued alone.
LEMMA OthersStutter ==
    ASSUME TypeOK, TypeOK', rows' = rows,
           \A q \in Requests : pc[q] = "created" \/ pc'[q] = "created" =>
              pc'[q] = pc[q] /\ row'[q] = row[q]
    PROVE  UNCHANGED <<[n \in Namespaces |-> Total(n)], Issued>>
<1>1. \A n : Total(n)' = Total(n)
  BY DEF Total, In
<1> QED
  BY <1>1 DEF Issued

\* An insertion is one step of the counter of its namespace.
LEMMA InsertIssues ==
    ASSUME FirstYearInv, NEW r \in Requests, Insert(r)
    PROVE  N!Issue(r, row[r].namespace)
<1> DEFINE n == row[r].namespace
           k == row[r].number.sequence
           counts == [m \in Namespaces |-> Total(m)]
<1>0. TypeInv /\ TypeOK
  BY DEF FirstYearInv, BoundInv, TypeInv
<1>1. n \in Namespaces /\ k \in 1..(Total(n) + 1)
  BY <1>0 DEF FirstYearInv, BoundInv, Insert, TypeOK, Rows
<1>2. year > FirstYear \/ k = Total(n) + 1
  <2>1. year = FirstYear => k = Total(n) + 1
    BY InsertsTheNext DEF FirstYearInv
  <2> QED
    BY <1>0, <2>1, NumbersAssumption DEF TypeOK
<1>3. \A m \in Namespaces :
         Total(m)' = IF n = m THEN Total(m) + 1 ELSE Total(m)
  BY <1>0, InsertCounts
<1>4. counts' = [counts EXCEPT ![n] = @ + 1] /\ counts[n] = Total(n)
  BY <1>1, <1>3
<1>5. Issued[r] = <<>>
  BY DEF Issued, Insert
<1>6. Issued' = [Issued EXCEPT ![r] = <<n, k>>]
  BY <1>0, <1>1 DEF Issued, Insert, TypeOK
<1>7. UNCHANGED (year > FirstYear)
  BY DEF Insert
<1> QED
  BY <1>1, <1>2, <1>4, <1>5, <1>6, <1>7 DEF N!Issue

\* Counting, computing and inserting in separate statements implements a counter per
\* namespace, for any number of racing creations; it is atomic until a year begins.
THEOREM NumbersRefineSequence == Spec => ImplementsSequence
<1> DEFINE mapped == <<[n \in Namespaces |-> Total(n)], Issued, year > FirstYear>>
<1>1. Init => N!Init
  <2> SUFFICES ASSUME Init PROVE N!Init
    OBVIOUS
  <2>1. \A n : Total(n) = 0
    BY FS_EmptySet DEF Init, In, Total
  <2>2. ~(year > FirstYear)
    BY NumbersAssumption DEF Init
  <2> QED
    BY <2>1, <2>2 DEF Init, N!Init, Issued
<1>2. FirstYearInv /\ FirstYearInv' /\ [Next]_vars => [N!Next]_mapped
  <2> SUFFICES ASSUME FirstYearInv, FirstYearInv', [Next]_vars
               PROVE  N!Next \/ UNCHANGED mapped
    OBVIOUS
  <2>0. TypeOK /\ TypeOK'
    BY DEF FirstYearInv, BoundInv, TypeInv
  <2>1. ASSUME NEW r \in Requests, Insert(r)
        PROVE  N!Next
    <3>1. row[r].namespace \in Namespaces
      BY <2>0, <2>1 DEF Insert, TypeOK, Rows
    <3> QED
      BY <2>1, <3>1, InsertIssues DEF N!Next
  <2>2. ASSUME NEW r \in Requests, NEW n \in Namespaces, TakeNumber(r, n)
        PROVE  UNCHANGED mapped
    BY <2>0, <2>2, OthersStutter DEF TakeNumber, MayStart, TypeOK
  <2>3. ASSUME NEW r \in Requests, Refuse(r) \/ Fail(r)
        PROVE  UNCHANGED mapped
    BY <2>0, <2>3, OthersStutter DEF Refuse, Fail, TypeOK
  <2>4. CASE NewYear
    <3>1. UNCHANGED <<[m \in Namespaces |-> Total(m)], Issued>>
      BY <2>0, <2>4, OthersStutter DEF NewYear
    <3>2. (year > FirstYear)' = TRUE
      BY <2>0, <2>4, NumbersAssumption DEF NewYear, TypeOK
    <3> QED
      BY <3>1, <3>2 DEF N!Next, N!Turn
  <2>5. CASE UNCHANGED vars
    BY <2>0, <2>5, OthersStutter DEF vars
  <2> QED
    BY <2>1, <2>2, <2>3, <2>4, <2>5 DEF Next
<1>3. Init => FirstYearInv
  BY DenseInit DEF FirstYearInv, DenseInv
<1> QED
  BY <1>1, <1>2, <1>3, FirstYearInvStep, PTL DEF Spec, ImplementsSequence, N!Spec
=============================================================================
