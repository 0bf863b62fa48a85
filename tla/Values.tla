------------------------------- MODULE Values -------------------------------
(***************************************************************************)
(* The values that check and rewrite what they are given: Inn, Kpp, Okpo   *)
(* and Phone (crm/domain/vo.py), FullName and Username (iam/domain/vo.py), *)
(* ProjectKey (tickets/domain/vo.py).  A value is built from a client's    *)
(* text once, and built again from its own column every time the mapper of *)
(* the repository reads the row; a refusal there would make the row        *)
(* unreadable, another rewriting would change it.                          *)
(*                                                                         *)
(* Abstractions.  A text is a sequence over a small alphabet: the digits   *)
(* that phones tell apart, a letter in both cases, a hyphen and a space.   *)
(* Lengths are constants, so that short texts reach all of them; the       *)
(* lower bounds of user names and the parts of a full name are the code's. *)
(***************************************************************************)
EXTENDS Lists

CONSTANTS
    MaxText,           \* bound: the longest text given
    NumberLengths,     \* of INN, KPP and OKPO: {10, 12}, {9} and {8, 10}
    SubscriberLength,  \* the digits of a phone after +7: 10
    MaxName,           \* of user names and project keys: 30 and 10
    NoText             \* nothing is stored, or what was given is refused

Numbers == {"INN", "KPP", "OKPO"}
ValueKinds == Numbers \cup {"PHONE", "FULL_NAME", "USERNAME", "PROJECT_KEY"}

ASSUME ValuesAssumption ==
    /\ MaxText \in Nat /\ SubscriberLength \in Nat \ {0} /\ MaxName \in Nat
    /\ NumberLengths \in [Numbers -> SUBSET Nat]

VARIABLES
    kind,    \* the kind of value a run is about
    given,   \* the text it was built from
    stored,  \* the column
    read     \* what the mapper made of the column the last time

valueVars == <<kind, given, stored, read>>

-----------------------------------------------------------------------------
(* Characters.                                                             *)

DigitChars == {"1", "7", "8", "9"}
Small == "a"
Large == "A"
LetterChars == {Small, Large}
Specials == {"-"}   \* in names and keys; "." and "_" behave alike
Space == " "
Characters == DigitChars \cup LetterChars \cup Specials \cup {Space}

Texts == UNION {[1..n -> Characters] : n \in 1..MaxText}

OnlyOf(text, chars) == Picked(text, {i \in DOMAIN text : text[i] \in chars})
AllOf(text, chars) == \A i \in DOMAIN text : text[i] \in chars

InCase(text, letter) == [i \in DOMAIN text |-> IF text[i] \in LetterChars THEN letter ELSE text[i]]

\* str.strip().
Strip(text) ==
    Picked(text, {i \in DOMAIN text : /\ \E j \in 1..i : text[j] # Space
                                      /\ \E j \in i..Len(text) : text[j] # Space})

-----------------------------------------------------------------------------
(* What each class stores of a text, NoText when it raises.                *)

Checked(ok, text) == IF ok THEN text ELSE NoText

\* Inn, Kpp and Okpo drop spaces and hyphens.
Number(k, text) ==
    LET cleaned == OnlyOf(text, Characters \ {Space, "-"})
    IN  Checked(AllOf(cleaned, DigitChars) /\ Len(cleaned) \in NumberLengths[k], cleaned)

Country == <<"+", "7">>

\* Mutant: the leading 7 of a full number is kept.
SubscriberWithSeven(digits) ==
    IF digits # <<>> /\ digits[1] = "8" THEN Tail(digits) ELSE digits

\* An 8 is dropped, so are the 7 or the 9 of a number one digit too long.
Subscriber(digits) ==
    LET full == Len(digits) = SubscriberLength + 1
    IN  IF digits # <<>> /\ (digits[1] = "8" \/ (full /\ digits[1] \in {"7", "9"}))
        THEN Tail(digits) ELSE digits

\* Phone: the 7 of a stored +7 is one of the digits.
Phone(text) ==
    LET subscriber == Subscriber(OnlyOf(text, DigitChars))
    IN  Checked(Len(subscriber) = SubscriberLength, Country \o subscriber)

\* FullName joins its parts, two at least, by one space, each in title case: a letter
\* is large at the beginning of a part and after what is no letter.
Joined(text) ==
    Picked(text, {i \in DOMAIN text :
                     \/ text[i] # Space
                     \/ /\ i > 1 /\ text[i - 1] # Space
                        /\ \E j \in i..Len(text) : text[j] # Space})

Title(text) ==
    [i \in DOMAIN text |->
        IF text[i] \notin LetterChars THEN text[i]
        ELSE IF i > 1 /\ text[i - 1] \in LetterChars THEN Small ELSE Large]

FullName(text) ==
    LET joined == Joined(text)
    IN  Checked(/\ \E i \in DOMAIN joined : joined[i] = Space
                /\ AllOf(joined, LetterChars \cup Specials \cup {Space}),
                Title(joined))

\* Username.
Username(text) ==
    LET cleaned == InCase(Strip(text), Small)
        special == {i \in DOMAIN cleaned : cleaned[i] \in Specials}
    IN  Checked(/\ Len(cleaned) \in 3..MaxName
                /\ AllOf(cleaned, Characters \ {Space})
                /\ special \cap {1, Len(cleaned)} = {}
                /\ \A i \in special : i + 1 \notin special
                /\ ~AllOf(cleaned, DigitChars),
                cleaned)

\* ProjectKey.
KeyOf(text) ==
    LET cleaned == OnlyOf(InCase(text, Large), DigitChars \cup {Large})
    IN  Checked(Len(cleaned) \in 2..MaxName /\ cleaned[1] = Large, cleaned)

Built(k, text) ==
    CASE k \in Numbers -> Number(k, text)
      [] k = "PHONE" -> Phone(text)
      [] k = "FULL_NAME" -> FullName(text)
      [] k = "USERNAME" -> Username(text)
      [] k = "PROJECT_KEY" -> KeyOf(text)

-----------------------------------------------------------------------------
ValuesInit ==
    /\ kind \in ValueKinds
    /\ given = NoText /\ stored = NoText /\ read = NoText

\* A service builds the value from a request and stores it.
GiveValue(text) ==
    /\ stored = NoText
    /\ Built(kind, text) # NoText
    /\ given' = text
    /\ stored' = Built(kind, text)
    /\ read' = stored'
    /\ UNCHANGED kind

\* The mapper reads the row; the service may then merge it back.
ReadBack ==
    /\ stored # NoText /\ read # NoText
    /\ read' = Built(kind, stored)
    /\ stored' \in {stored, read'}
    /\ UNCHANGED <<kind, given>>

ValuesNext == ReadBack \/ \E text \in Texts : GiveValue(text)

ValuesSpec == ValuesInit /\ [][ValuesNext]_valueVars

-----------------------------------------------------------------------------
\* What the digits of an accepted phone come to, said without its branches: +7
\* and the last digits.
LastDigits(text) ==
    LET digits == OnlyOf(text, DigitChars)
    IN  SubSeq(digits, Len(digits) - SubscriberLength + 1, Len(digits))

\* A row can be read: whatever text was accepted, the column is accepted again,
\* means the same, and stays as it is however often it is read and merged back; a
\* phone is +7 and the last digits of what was given.  (to_entity of
\* CounterpartyMapper, UserMapper and ProjectMapper, on what from_entity stored.)
ReadsBack ==
    stored # NoText =>
        /\ read = stored
        /\ stored = Built(kind, given)
        /\ kind = "PHONE" => stored = Country \o LastDigits(given)
=============================================================================
