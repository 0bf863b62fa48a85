----------------------------- MODULE Contracts ------------------------------
(***************************************************************************)
(* A service contract with its packages of hours: the aggregate of         *)
(* contracts/domain/entities.py, which no service uses yet.  Its methods   *)
(* run one at a time.  Hours are counted in the smallest unit in use.      *)
(***************************************************************************)
EXTENDS Integers

CONSTANTS MaxHours,   \* the most hours one call names
          MaxTotal    \* bound: the most hours a contract holds in a run

ASSUME ContractsAssumption == MaxHours \in Nat /\ MaxTotal \in Nat

VARIABLES
    contract,   \* the aggregate: status, total, consumed and remaining hours
    bought,     \* what its packages and its first hours add up to
    spent       \* what the HoursConsumed events add up to

contractVars == <<contract, bought, spent>>

ContractStatuses == {"ACTIVE", "SUSPENDED", "COMPLETED"}

Hours(status, total, consumed) ==
    [status |-> status, total |-> total, consumed |-> consumed,
     remaining |-> total - consumed]

\* ServiceContract.__post_init__: positive hours, none consumed yet.
ContractsInit ==
    \E total \in 1..MaxTotal :
        /\ contract = Hours("ACTIVE", total, 0)
        /\ bought = total
        /\ spent = 0

\* Mutant: what remains is not computed again.
AddPackageOnly(hours) ==
    /\ hours > 0 /\ contract.total + hours <= MaxTotal
    /\ contract' = [contract EXCEPT !.total = @ + hours]
    /\ bought' = bought + hours
    /\ UNCHANGED spent

\* add_package, in any status.
AddPackage(hours) ==
    /\ hours > 0 /\ contract.total + hours <= MaxTotal
    /\ contract' = Hours(contract.status, contract.total + hours, contract.consumed)
    /\ bought' = bought + hours
    /\ UNCHANGED spent

\* consume_hours, in any status; none of the packages is charged.
ConsumeHours(hours) ==
    /\ hours >= 0
    /\ contract.remaining >= hours
    /\ contract' = Hours(contract.status, contract.total, contract.consumed + hours)
    /\ spent' = spent + hours
    /\ UNCHANGED bought

MoveTo(status) ==
    /\ contract' = Hours(status, contract.total, contract.consumed)
    /\ UNCHANGED <<bought, spent>>

Suspend == contract.status = "ACTIVE" /\ MoveTo("SUSPENDED")

Reactivate == contract.status = "SUSPENDED" /\ MoveTo("ACTIVE")

\* close, in any status.
Close == MoveTo("COMPLETED")

ContractsNext ==
    \/ \E hours \in 0..MaxHours : AddPackage(hours) \/ ConsumeHours(hours)
    \/ Suspend
    \/ Reactivate
    \/ Close

ContractsSpec == ContractsInit /\ [][ContractsNext]_contractVars

-----------------------------------------------------------------------------
\* After any sequence of calls: what was bought is spent or remains, nothing is
\* counted twice, and no more is spent than was bought.  (add_package and
\* consume_hours, three fields that are kept in step by hand.)
HoursAddUp ==
    /\ contract.total = bought
    /\ contract.consumed = spent
    /\ contract.remaining = bought - spent
    /\ spent >= 0 /\ contract.remaining >= 0
=============================================================================
