--------------------------- MODULE MCTicketNumbers --------------------------
(* TicketNumbers for TLC: a project, a counterparty and the internal tickets. *)
EXTENDS TicketNumbers, TLC

MCNamespaces == {"project", "counterparty", "internal"}

OwnPrefixes == "project" :> "WEB" @@ "counterparty" :> "ROMASHKA" @@ "internal" :> "INT"

\* A counterparty whose name begins like the project's key; the name of the other
\* one has neither letters nor digits.
SharedPrefixes == "project" :> "WEB" @@ "counterparty" :> "WEB" @@ "internal" :> ""

MCPrefixOf == [n \in Namespaces |-> OwnPrefixes[n]]
MCSharedPrefixOf == [n \in Namespaces |-> SharedPrefixes[n]]
RequestSymmetry == Permutations(Requests)
=============================================================================
