----------------------------- MODULE DeskProofs -----------------------------
(***************************************************************************)
(* What the proofs about the smaller services share: what a step of one    *)
(* request leaves of the others, that until two requests overlap nobody    *)
(* but the one that moves is under way, and what a list becomes when       *)
(* elements leave it or are put into it.                                   *)
(***************************************************************************)
EXTENDS Desk, FiniteSetTheorems, TLAPS

\* Where requests are and what they hold are functions of the requests.
DeskTyped ==
    /\ pc = [r \in Requests |-> pc[r]]
    /\ held = [r \in Requests |-> held[r]]

\* Until two requests have overlapped, at most one is under way.
OneAtATime ==
    ~overlapped => \A q, r \in Requests : InProgress(q) /\ InProgress(r) => q = r

\* A request begins, or one under way goes on.
Moves(r, to, what) ==
    \/ Start(r, to, what)
    \/ InProgress(r) /\ \E from : Step(r, from, to, what)

\* What Start and Step leave of the other requests.
LEMMA StepTouches ==
  ASSUME DeskTyped, NEW r \in Requests, NEW from, NEW to, NEW what,
         Start(r, to, what) \/ Step(r, from, to, what)
  PROVE  /\ DeskTyped'
         /\ pc'[r] = to /\ held'[r] = what
         /\ \A q \in Requests \ {r} : pc'[q] = pc[q] /\ held'[q] = held[q]
BY DEF DeskTyped, Start, Step

\* The same, and that the request is alone unless requests have overlapped.
LEMMA MoveTouches ==
  ASSUME DeskTyped, OneAtATime, NEW r \in Requests, NEW to, NEW what, Moves(r, to, what)
  PROVE  /\ DeskTyped' /\ OneAtATime'
         /\ pc'[r] = to /\ held'[r] = what
         /\ \A q \in Requests \ {r} : pc'[q] = pc[q] /\ held'[q] = held[q]
         /\ ~overlapped' =>
               /\ ~overlapped
               /\ \A q \in Requests \ {r} : ~InProgress(q) /\ ~InProgress(q)'
<1>1. /\ DeskTyped'
      /\ pc'[r] = to /\ held'[r] = what
      /\ \A q \in Requests \ {r} : pc'[q] = pc[q] /\ held'[q] = held[q]
  BY StepTouches DEF Moves
<1>2. ASSUME ~overlapped'
      PROVE  ~overlapped /\ \A q \in Requests \ {r} : ~InProgress(q)
  <2>1. CASE Start(r, to, what)
    BY <1>2, <2>1 DEF Start
  <2>2. CASE InProgress(r) /\ \E from : Step(r, from, to, what)
    BY <1>2, <2>2 DEF Step, OneAtATime
  <2> QED
    BY <2>1, <2>2 DEF Moves
<1>3. ~overlapped' => \A q \in Requests \ {r} : ~InProgress(q)'
  BY <1>1, <1>2 DEF InProgress
<1>4. OneAtATime'
  BY <1>3 DEF OneAtATime
<1> QED
  BY <1>1, <1>2, <1>3, <1>4

LEMMA StepMoves ==
  ASSUME NEW r, NEW from, from \notin Ended \cup {"idle"}, NEW to, NEW what,
         Step(r, from, to, what)
  PROVE  Moves(r, to, what) /\ pc[r] = from
BY DEF Step, Moves, InProgress

LEMMA EndMoves ==
  ASSUME NEW r, NEW from, from \notin Ended \cup {"idle"}, NEW to, End(r, from, to)
  PROVE  Moves(r, to, None) /\ pc[r] = from
BY StepMoves DEF End

LEMMA AbandonMoves ==
  ASSUME NEW r, Abandon(r)
  PROVE  Moves(r, "failed", None) /\ InProgress(r)
BY DEF Abandon, End, Moves

LEMMA DeskInitTyped == DeskInit => DeskTyped /\ OneAtATime
BY DEF DeskInit, DeskTyped, OneAtATime, InProgress

-----------------------------------------------------------------------------
(* Parts of lists: where the elements that stay come to be, and what a     *)
(* list becomes when elements leave it or one is put into it.              *)

\* Places are counted in finite sets.
LEMMA PlacesFinite ==
  ASSUME NEW N \in Nat, NEW positions \in SUBSET (1..N)
  PROVE  /\ IsFiniteSet(positions) /\ Cardinality(positions) \in Nat
         /\ \A i : /\ IsFiniteSet(positions \cap 1..i)
                   /\ Place(positions, i) \in Nat
                   /\ Place(positions, i) <= Cardinality(positions)
<1>1. IsFiniteSet(positions)
  <2>1. IsFiniteSet(1..N)
    BY FS_Interval
  <2> QED
    BY <2>1, FS_Subset
<1>2. Cardinality(positions) \in Nat
  BY <1>1, FS_CardinalityType
<1>3. ASSUME NEW i
      PROVE  /\ IsFiniteSet(positions \cap 1..i)
             /\ Place(positions, i) \in Nat
             /\ Place(positions, i) <= Cardinality(positions)
  <2>1. positions \cap 1..i \subseteq positions
    OBVIOUS
  <2>2. /\ IsFiniteSet(positions \cap 1..i)
        /\ Cardinality(positions \cap 1..i) <= Cardinality(positions)
    BY <1>1, <2>1, FS_Subset
  <2> QED
    BY <2>2, FS_CardinalityType DEF Place
<1> QED
  BY <1>1, <1>2, <1>3

\* Two positions have two places.
LEMMA PlacesDiffer ==
  ASSUME NEW N \in Nat, NEW positions \in SUBSET (1..N),
         NEW i \in positions, NEW j \in positions, Place(positions, i) = Place(positions, j)
  PROVE  i = j
<1>1. ASSUME NEW a \in positions, NEW b \in positions, a < b,
             Place(positions, a) = Place(positions, b)
      PROVE  FALSE
  <2>1. positions \cap 1..a \subseteq positions \cap 1..b
    BY <1>1
  <2>2. positions \cap 1..a = positions \cap 1..b
    BY <1>1, <2>1, PlacesFinite, FS_Subset DEF Place
  <2> QED
    BY <1>1, <2>2
<1> QED
  BY <1>1

\* Places are from 1 on, and each is taken.
LEMMA PlacesTaken ==
  ASSUME NEW N \in Nat, NEW positions \in SUBSET (1..N)
  PROVE  /\ \A i \in positions : Place(positions, i) \in 1..Cardinality(positions)
         /\ \A n \in 1..Cardinality(positions) : \E i \in positions : Place(positions, i) = n
<1> DEFINE f == [i \in positions |-> Place(positions, i)]
<1>1. ASSUME NEW i \in positions
      PROVE  Place(positions, i) \in 1..Cardinality(positions)
  <2>1. /\ Place(positions, i) \in Nat /\ Place(positions, i) <= Cardinality(positions)
        /\ IsFiniteSet(positions \cap 1..i) /\ Cardinality(positions) \in Nat
    BY PlacesFinite
  <2>2. positions \cap 1..i # {}
    OBVIOUS
  <2>3. Place(positions, i) # 0
    BY <2>1, <2>2, FS_EmptySet DEF Place
  <2> QED
    BY <2>1, <2>3
<1>2. f \in Injection(positions, 1..Cardinality(positions))
  <2>1. f \in [positions -> 1..Cardinality(positions)]
    BY <1>1
  <2>2. \A i, j \in positions : f[i] = f[j] => i = j
    BY PlacesDiffer
  <2> QED
    BY <2>1, <2>2 DEF Injection, IsInjective
<1>3. f \in Surjection(positions, 1..Cardinality(positions))
  <2>1. PICK n \in Nat : n = Cardinality(positions)
    BY PlacesFinite
  <2>2. IsFiniteSet(1..n) /\ Cardinality(1..n) = n
    BY FS_Interval
  <2> HIDE DEF f
  <2> QED
    BY <1>2, <2>1, <2>2, FS_Injection
<1>4. \A n \in 1..Cardinality(positions) : \E i \in positions : f[i] = n
  <2> HIDE DEF f
  <2> QED
    BY <1>3 DEF Surjection
<1> QED
  BY <1>1, <1>4

\* Of two positions the later has the later place.
LEMMA PlacesGrow ==
  ASSUME NEW N \in Nat, NEW positions \in SUBSET (1..N),
         NEW i \in positions, NEW j \in positions, i <= j
  PROVE  Place(positions, i) <= Place(positions, j)
<1>1. positions \cap 1..i \subseteq positions \cap 1..j
  OBVIOUS
<1> QED
  BY <1>1, PlacesFinite, FS_Subset DEF Place

\* Of two positions side by side the places are side by side.
LEMMA PlacesNext ==
  ASSUME NEW N \in Nat, NEW positions \in SUBSET (1..N),
         NEW i \in positions, i - 1 \in positions
  PROVE  Place(positions, i) = Place(positions, i - 1) + 1
<1>1. positions \cap 1..i = (positions \cap 1..(i - 1)) \cup {i}
  OBVIOUS
<1>2. i \notin positions \cap 1..(i - 1)
  OBVIOUS
<1>3. IsFiniteSet(positions \cap 1..(i - 1))
  BY PlacesFinite
<1> QED
  BY <1>1, <1>2, <1>3, FS_AddElement DEF Place

\* What is at a place of a part of a list.
LEMMA AtPlace ==
  ASSUME NEW S, NEW list \in Seq(S), NEW positions \in SUBSET DOMAIN list
  PROVE  LET part == Picked(list, positions)
         IN  /\ part \in Seq(S)
             /\ DOMAIN part = 1..Cardinality(positions) /\ Len(part) = Cardinality(positions)
             /\ \A i \in positions : part[Place(positions, i)] = list[i]
             /\ \A n \in DOMAIN part :
                   \E i \in positions : Place(positions, i) = n /\ part[n] = list[i]
<1>0. PICK N \in Nat : N = Len(list) /\ DOMAIN list = 1..N /\ positions \in SUBSET (1..N)
  OBVIOUS
<1> DEFINE Position(n) == CHOOSE i \in positions : Place(positions, i) = n
           part == Picked(list, positions)
<1>1. part = [n \in 1..Cardinality(positions) |-> list[Position(n)]]
  BY DEF Picked
<1>2. \A i \in positions : Place(positions, i) \in 1..Cardinality(positions)
  BY <1>0, PlacesTaken
<1>3. \A n \in 1..Cardinality(positions) :
         Position(n) \in positions /\ Place(positions, Position(n)) = n
  BY <1>0, PlacesTaken
<1>4. \A i \in positions : Position(Place(positions, i)) = i
  <2> SUFFICES ASSUME NEW i \in positions PROVE Position(Place(positions, i)) = i
    OBVIOUS
  <2>1. /\ Position(Place(positions, i)) \in positions
        /\ Place(positions, Position(Place(positions, i))) = Place(positions, i)
    BY <1>2, <1>3
  <2> HIDE DEF Position
  <2> QED
    BY <1>0, <2>1, PlacesDiffer
<1>5. Cardinality(positions) \in Nat
  BY <1>0, PlacesFinite
<1> HIDE DEF Position, part
<1>6. DOMAIN part = 1..Cardinality(positions)
  BY <1>1
<1>7. part \in [1..Cardinality(positions) -> S]
  BY <1>1, <1>3
<1>8. part \in Seq(S) /\ Len(part) = Cardinality(positions)
  BY <1>5, <1>7
<1>9. \A i \in positions : part[Place(positions, i)] = list[i]
  BY <1>1, <1>2, <1>4
<1>10. \A n \in DOMAIN part :
          \E i \in positions : Place(positions, i) = n /\ part[n] = list[i]
  BY <1>1, <1>3, <1>6
<1> QED
  BY <1>6, <1>8, <1>9, <1>10 DEF part

\* The positions from k on have the places from 1 on.
LEMMA PickedFrom ==
  ASSUME NEW S, NEW list \in Seq(S), NEW k \in 1..(Len(list) + 1)
  PROVE  LET part == Picked(list, k..Len(list))
         IN  /\ part \in Seq(S) /\ Len(part) = Len(list) - k + 1
             /\ \A n \in 1..(Len(list) - k + 1) : part[n] = list[n + k - 1]
<1>1. PICK N \in Nat : N = Len(list) /\ DOMAIN list = 1..N
  OBVIOUS
<1>2. PICK positions \in SUBSET DOMAIN list : positions = k..N
  BY <1>1
<1>3. \A i \in positions : Place(positions, i) = i - k + 1
  <2> SUFFICES ASSUME NEW i \in k..N PROVE Place(positions, i) = i - k + 1
    BY <1>2
  <2>1. positions \cap 1..i = k..i
    BY <1>2
  <2>2. Cardinality(k..i) = i - k + 1
    BY FS_Interval
  <2> QED
    BY <2>1, <2>2 DEF Place
<1>4. Cardinality(positions) = N - k + 1
  <2>1. Cardinality(k..N) = IF k > N THEN 0 ELSE N - k + 1
    BY FS_Interval
  <2> QED
    BY <1>1, <1>2, <2>1
<1>5. PICK part : part = Picked(list, positions)
  OBVIOUS
<1>6. /\ part \in Seq(S) /\ Len(part) = N - k + 1
      /\ \A i \in positions : part[Place(positions, i)] = list[i]
  BY <1>4, <1>5, AtPlace
<1>7. ASSUME NEW n \in 1..(N - k + 1)
      PROVE  part[n] = list[n + k - 1]
  <2>1. n + k - 1 \in positions /\ (n + k - 1) - k + 1 = n
    BY <1>1, <1>2
  <2> QED
    BY <1>3, <1>6, <2>1
<1> QED
  BY <1>1, <1>2, <1>5, <1>6, <1>7

\* All of a list is the list.
LEMMA PickedAll ==
  ASSUME NEW S, NEW list \in Seq(S)
  PROVE  Picked(list, DOMAIN list) = list
<1>1. PICK k \in 1..(Len(list) + 1) : k = 1
  <2>1. 1 \in 1..(Len(list) + 1)
    OBVIOUS
  <2> QED
    BY <2>1
<1>2. PICK part : part = Picked(list, k..Len(list))
  OBVIOUS
<1>3. /\ part \in Seq(S) /\ Len(part) = Len(list) - k + 1
      /\ \A n \in 1..(Len(list) - k + 1) : part[n] = list[n + k - 1]
  BY <1>2, PickedFrom
<1>4. Len(part) = Len(list) /\ \A n \in 1..Len(list) : part[n] = list[n]
  BY <1>1, <1>3
<1>5. part = list
  BY <1>3, <1>4
<1>6. k..Len(list) = DOMAIN list
  BY <1>1
<1> QED
  BY <1>2, <1>5, <1>6

\* The elements of a sequence are in its positions.
LEMMA ListSeq ==
  ASSUME NEW s, NEW N \in Nat, s = [i \in 1..N |-> s[i]]
  PROVE  s \in Seq({s[i] : i \in DOMAIN s}) /\ Len(s) = N /\ DOMAIN s = 1..N
<1>1. DOMAIN s = 1..N
  OBVIOUS
<1>2. s \in [1..N -> {s[i] : i \in DOMAIN s}]
  BY <1>1
<1> QED
  BY <1>1, <1>2

\* Taking elements out of a list leaves a list.
LEMMA WithoutSeq ==
  ASSUME NEW S, NEW list \in Seq(S), NEW some
  PROVE  LET rest == Without(list, some)
         IN  rest \in Seq({rest[i] : i \in DOMAIN rest})
<1>1. Stays(list, some) \in SUBSET DOMAIN list
  BY DEF Stays
<1>2. PICK rest : rest = Without(list, some)
  OBVIOUS
<1>3. rest \in Seq(S)
  BY <1>1, <1>2, AtPlace DEF Without
<1>4. rest = [i \in 1..Len(rest) |-> rest[i]] /\ Len(rest) \in Nat
  BY <1>3
<1> QED
  BY <1>2, <1>4, ListSeq

\* Taking nothing out of a list leaves it as it is.
LEMMA WithoutNothing ==
  ASSUME NEW S, NEW list \in Seq(S)
  PROVE  Without(list, {}) = list
<1>1. Stays(list, {}) = DOMAIN list
  BY DEF Stays
<1> QED
  BY <1>1, PickedAll DEF Without

\* A sequence that is another with one element more, after the first k.
Longer(longer, list, k) ==
    /\ Len(longer) = Len(list) + 1
    /\ \A i \in 1..k : longer[i] = list[i]
    /\ \A i \in (k + 1)..Len(list) : longer[i + 1] = list[i]

\* An element put into a list moves no place forward.
LEMMA PlacesRecede ==
  ASSUME NEW S, NEW list \in Seq(S), NEW some, NEW longer \in Seq(S), NEW k \in 0..Len(list),
         Longer(longer, list, k),
         NEW i \in Stays(list, some)
  PROVE  \E j \in Stays(longer, some) :
            /\ longer[j] = list[i]
            /\ Place(Stays(list, some), i) <= Place(Stays(longer, some), j)
<1> DEFINE moved(a) == IF a <= k THEN a ELSE a + 1
           A == Stays(list, some) \cap 1..i
           B == Stays(longer, some) \cap 1..moved(i)
           f == [a \in A |-> moved(a)]
<1>1. \A a \in Stays(list, some) :
         moved(a) \in Stays(longer, some) /\ longer[moved(a)] = list[a]
  BY DEF Stays, Longer
<1>2. \A a \in A : moved(a) \in B
  <2> SUFFICES ASSUME NEW a \in A PROVE moved(a) \in 1..moved(i)
    BY <1>1
  <2> QED
    BY DEF Stays
<1>3. f \in Injection(A, B)
  <2>1. f \in [A -> B]
    BY <1>2
  <2>2. \A a, b \in A : moved(a) = moved(b) => a = b
    OBVIOUS
  <2> QED
    BY <2>1, <2>2 DEF Injection, IsInjective
<1>4. IsFiniteSet(B)
  <2>1. Len(longer) \in Nat /\ Stays(longer, some) \in SUBSET (1..Len(longer))
    BY DEF Stays
  <2> QED
    BY <2>1, PlacesFinite
<1> HIDE DEF A, B, f
<1>5. Cardinality(A) <= Cardinality(B)
  BY <1>3, <1>4, FS_Injection
<1>6. Place(Stays(list, some), i) <= Place(Stays(longer, some), moved(i))
  BY <1>5 DEF Place, A, B
<1> QED
  BY <1>1, <1>6

\* What storing an account makes of the table.
Inserted(list, u, k) == SubSeq(list, 1, k) \o <<u>> \o SubSeq(list, k + 1, Len(list))

\* An element put into a sequence.
LEMMA InsertionLengthens ==
  ASSUME NEW S, NEW list \in Seq(S), NEW u \in S, NEW k \in 0..Len(list)
  PROVE  Inserted(list, u, k) \in Seq(S) /\ Longer(Inserted(list, u, k), list, k)
<1>0. Len(list) \in Nat /\ k \in Nat
  OBVIOUS
<1>1. PICK before : before = SubSeq(list, 1, k)
  OBVIOUS
<1>2. PICK after : after = SubSeq(list, k + 1, Len(list))
  OBVIOUS
<1>3. /\ before \in Seq(S) /\ Len(before) = k
      /\ \A i \in 1..k : before[i] = list[i]
  BY <1>0, <1>1
<1>4. after \in Seq(S) /\ Len(after) = Len(list) - k
  BY <1>0, <1>2
<1>5. \A i \in 1..(Len(list) - k) : after[i] = list[k + i]
  <2> SUFFICES ASSUME NEW i \in 1..(Len(list) - k) PROVE after[i] = list[k + i]
    OBVIOUS
  <2>1. (k + 1) + i - 1 = k + i
    BY <1>0
  <2> QED
    BY <1>0, <1>2, <1>4, <2>1
<1>6. PICK middle : middle = before \o <<u>>
  OBVIOUS
<1>7. /\ middle \in Seq(S) /\ Len(middle) = k + 1
      /\ \A i \in 1..k : middle[i] = before[i]
  <2>1. <<u>> \in Seq(S) /\ Len(<<u>>) = 1
    OBVIOUS
  <2>2. middle \in Seq(S) /\ Len(middle) = Len(before) + 1
    BY <1>3, <1>6, <2>1
  <2>3. \A i \in 1..Len(before) : middle[i] = before[i]
    BY <1>3, <1>6, <2>1
  <2> QED
    BY <1>3, <2>2, <2>3
<1>10. PICK longer : longer = middle \o after
  OBVIOUS
<1>11. after \in Seq(S) /\ middle \in Seq(S)
  BY <1>4, <1>7
<1>12. longer \in Seq(S) /\ Len(longer) = Len(middle) + Len(after)
  BY <1>10, <1>11
<1>13. \A i \in 1..Len(middle) : longer[i] = middle[i]
  BY <1>10, <1>11
<1>14. ASSUME NEW i \in 1..Len(after) PROVE longer[Len(middle) + i] = after[i]
  BY <1>10, <1>11
<1>15. Len(longer) = Len(list) + 1
  BY <1>0, <1>4, <1>7, <1>12
<1>16. ASSUME NEW i \in (k + 1)..Len(list)
       PROVE  longer[i + 1] = list[i]
  <2>1. PICK j \in 1..(Len(list) - k) : i = k + j
    <3>1. i - k \in 1..(Len(list) - k) /\ i = k + (i - k)
      BY <1>0
    <3> QED
      BY <3>1
  <2>2. i + 1 = Len(middle) + j /\ j \in 1..Len(after)
    BY <1>0, <1>4, <1>7, <2>1
  <2>3. longer[Len(middle) + j] = after[j]
    BY <1>14, <2>2
  <2> QED
    BY <1>5, <2>1, <2>2, <2>3
<1>17. \A i \in 1..k : longer[i] = list[i]
  BY <1>0, <1>3, <1>7, <1>13
<1>18. longer = Inserted(list, u, k)
  BY <1>1, <1>2, <1>6, <1>10 DEF Inserted
<1>19. longer \in Seq(S) /\ Longer(longer, list, k)
  BY <1>12, <1>15, <1>16, <1>17 DEF Longer
<1> QED
  BY <1>18, <1>19
=============================================================================
